------------------------- MODULE NamespaceSwapProofs -------------------------
(***************************************************************************)
(* What swaps, refreshes and undos of the live item and of the namespaces' *)
(* items guarantee over one log, for any number of processes, accounts,    *)
(* credentials, torn lines and replaced logs: the entries keep the order   *)
(* of the writes, an undo takes the newest swap that stands, what it       *)
(* restores is not taken away before its write is confirmed, and the       *)
(* account a swap displaces keeps a credential the server honours.         *)
(***************************************************************************)
EXTENDS NamespaceSwap, TLAPS

----------------------------------------------------------------------------
(* Values.                                                                 *)

LEMMA EntryFacts ==
    \A n \in Nat : /\ WriteEntry(n) \in Entries /\ ConfigEntry(n) \in Entries
                   /\ \A p \in Procs : BreakEntry(p, n) \in Entries
                   /\ WriteEntry(n).event = "write" /\ WriteEntry(n).n = n
                   /\ ConfigEntry(n).event = "config_write"
                   /\ \A p \in Procs : BreakEntry(p, n).event = "lock_break"
BY DEF WriteEntry, ConfigEntry, BreakEntry, Entries

LEMMA WriteEntries == \A e \in Entries : e.event = "write" => e.n \in Nat /\ e = WriteEntry(e.n)
BY DEF WriteEntry, Entries

Moved(r, x) == [r EXCEPT !.pc = x]
Opening(r, i, x) == [r EXCEPT !.fd = i, !.pc = x]
Saying(r, e, x) == [r EXCEPT !.says = e, !.then = x, !.pc = "append"]
Renewing(r, T) == [r EXCEPT !.to = T]
Reading(r, F, T) == [r EXCEPT !.from = F, !.to = T, !.pc = "lock"]
Recorded(r, n) == [r EXCEPT !.wrote = n, !.says = WriteEntry(n), !.then = "config", !.pc = "append"]
Swapping(r, s, a) == [r EXCEPT !.pc = "item", !.store = s, !.of = a]
Refreshing(r, s) == [r EXCEPT !.pc = "item", !.store = s, !.refresh = TRUE]
Undoing(r, s, a, n) == [r EXCEPT !.pc = "item", !.dir = "undo", !.of = a, !.store = s, !.undone = n]

LEMMA MovedFacts ==
    ASSUME NEW r \in Runs, NEW x \in Places
    PROVE  /\ Moved(r, x) \in Runs
           /\ Moved(r, x).pc = x /\ Moved(r, x).dir = r.dir
           /\ Moved(r, x).store = r.store /\ Moved(r, x).refresh = r.refresh
           /\ Moved(r, x).of = r.of /\ Moved(r, x).to = r.to
           /\ Moved(r, x).from = r.from /\ Moved(r, x).undone = r.undone
           /\ Moved(r, x).fd = r.fd /\ Moved(r, x).wrote = r.wrote
           /\ Moved(r, x).says = r.says /\ Moved(r, x).then = r.then
<1>1. Moved(r, x) \in Runs
  BY ZenonT(30) DEF Moved, Runs
<1> QED BY <1>1, ZenonT(30) DEF Moved, Runs

LEMMA OpeningFacts ==
    ASSUME NEW r \in Runs, NEW i \in Nat, NEW x \in Places
    PROVE  /\ Opening(r, i, x) \in Runs
           /\ Opening(r, i, x).pc = x /\ Opening(r, i, x).dir = r.dir
           /\ Opening(r, i, x).store = r.store /\ Opening(r, i, x).refresh = r.refresh
           /\ Opening(r, i, x).of = r.of /\ Opening(r, i, x).to = r.to
           /\ Opening(r, i, x).from = r.from /\ Opening(r, i, x).undone = r.undone
           /\ Opening(r, i, x).fd = i /\ Opening(r, i, x).wrote = r.wrote
           /\ Opening(r, i, x).says = r.says /\ Opening(r, i, x).then = r.then
<1>1. Opening(r, i, x) \in Runs
  BY ZenonT(30) DEF Opening, Runs
<1> QED BY <1>1, ZenonT(30) DEF Opening, Runs

LEMMA SayingFacts ==
    ASSUME NEW r \in Runs, NEW e \in Entries, NEW x \in Places
    PROVE  /\ Saying(r, e, x) \in Runs
           /\ Saying(r, e, x).pc = "append" /\ Saying(r, e, x).dir = r.dir
           /\ Saying(r, e, x).store = r.store /\ Saying(r, e, x).refresh = r.refresh
           /\ Saying(r, e, x).of = r.of /\ Saying(r, e, x).to = r.to
           /\ Saying(r, e, x).from = r.from /\ Saying(r, e, x).undone = r.undone
           /\ Saying(r, e, x).fd = r.fd /\ Saying(r, e, x).wrote = r.wrote
           /\ Saying(r, e, x).says = e /\ Saying(r, e, x).then = x
<1>1. Saying(r, e, x) \in Runs
  BY ZenonT(30) DEF Saying, Runs, Places
<1> QED BY <1>1, ZenonT(30) DEF Saying, Runs

LEMMA RenewingFacts ==
    ASSUME NEW r \in Runs, NEW T \in SUBSET Grants
    PROVE  /\ Renewing(r, T) \in Runs
           /\ Renewing(r, T).pc = r.pc /\ Renewing(r, T).dir = r.dir
           /\ Renewing(r, T).store = r.store /\ Renewing(r, T).refresh = r.refresh
           /\ Renewing(r, T).of = r.of /\ Renewing(r, T).to = T
           /\ Renewing(r, T).from = r.from /\ Renewing(r, T).undone = r.undone
           /\ Renewing(r, T).fd = r.fd /\ Renewing(r, T).wrote = r.wrote
           /\ Renewing(r, T).says = r.says /\ Renewing(r, T).then = r.then
<1>1. Renewing(r, T) \in Runs
  BY ZenonT(30) DEF Renewing, Runs
<1> QED BY <1>1, ZenonT(30) DEF Renewing, Runs

LEMMA ReadingFacts ==
    ASSUME NEW r \in Runs, NEW F \in SUBSET Grants, NEW T \in SUBSET Grants
    PROVE  /\ Reading(r, F, T) \in Runs
           /\ Reading(r, F, T).pc = "lock" /\ Reading(r, F, T).dir = r.dir
           /\ Reading(r, F, T).store = r.store /\ Reading(r, F, T).refresh = r.refresh
           /\ Reading(r, F, T).of = r.of /\ Reading(r, F, T).to = T
           /\ Reading(r, F, T).from = F /\ Reading(r, F, T).undone = r.undone
           /\ Reading(r, F, T).fd = r.fd /\ Reading(r, F, T).wrote = r.wrote
           /\ Reading(r, F, T).says = r.says /\ Reading(r, F, T).then = r.then
<1>1. Reading(r, F, T) \in Runs
  BY ZenonT(30) DEF Reading, Runs, Places
<1> QED BY <1>1, ZenonT(30) DEF Reading, Runs

LEMMA RecordedFacts ==
    ASSUME NEW r \in Runs, NEW n \in Nat
    PROVE  /\ Recorded(r, n) \in Runs
           /\ Recorded(r, n).pc = "append" /\ Recorded(r, n).dir = r.dir
           /\ Recorded(r, n).store = r.store /\ Recorded(r, n).refresh = r.refresh
           /\ Recorded(r, n).of = r.of /\ Recorded(r, n).to = r.to
           /\ Recorded(r, n).from = r.from /\ Recorded(r, n).undone = r.undone
           /\ Recorded(r, n).fd = r.fd /\ Recorded(r, n).wrote = n
           /\ Recorded(r, n).says = WriteEntry(n) /\ Recorded(r, n).then = "config"
<1>1. WriteEntry(n) \in Entries
  BY EntryFacts
<1>2. Recorded(r, n) \in Runs
  BY <1>1, ZenonT(30) DEF Recorded, Runs, Places
<1> QED BY <1>2, ZenonT(30) DEF Recorded, Runs

LEMMA SwappingFacts ==
    ASSUME NEW r \in Runs, NEW s \in Stores, NEW a \in Accounts
    PROVE  /\ Swapping(r, s, a) \in Runs /\ Swapping(r, s, a).pc = "item"
           /\ Swapping(r, s, a).store = s
           /\ Swapping(r, s, a).of = a
           /\ Swapping(r, s, a).refresh = r.refresh
           /\ Swapping(r, s, a).wrote = r.wrote
           /\ Swapping(r, s, a).undone = r.undone
           /\ Swapping(r, s, a).dir = r.dir
<1>1. Swapping(r, s, a) \in Runs
  BY ZenonT(30) DEF Swapping, Runs, Places
<1> QED BY <1>1, ZenonT(30) DEF Swapping, Runs

LEMMA RefreshingFacts ==
    ASSUME NEW r \in Runs, NEW s \in Stores
    PROVE  /\ Refreshing(r, s) \in Runs /\ Refreshing(r, s).pc = "item"
           /\ Refreshing(r, s).store = s
           /\ Refreshing(r, s).refresh = TRUE
           /\ Refreshing(r, s).wrote = r.wrote
           /\ Refreshing(r, s).undone = r.undone
           /\ Refreshing(r, s).dir = r.dir
<1>1. Refreshing(r, s) \in Runs
  BY ZenonT(30) DEF Refreshing, Runs, Places
<1> QED BY <1>1, ZenonT(30) DEF Refreshing, Runs

LEMMA UndoingFacts ==
    ASSUME NEW r \in Runs, NEW s \in Stores, NEW a \in Accounts, NEW n \in Nat
    PROVE  /\ Undoing(r, s, a, n) \in Runs /\ Undoing(r, s, a, n).pc = "item"
           /\ Undoing(r, s, a, n).store = s
           /\ Undoing(r, s, a, n).of = a
           /\ Undoing(r, s, a, n).refresh = r.refresh
           /\ Undoing(r, s, a, n).wrote = r.wrote
           /\ Undoing(r, s, a, n).undone = n
           /\ Undoing(r, s, a, n).dir = "undo"
<1>1. Undoing(r, s, a, n) \in Runs
  BY ZenonT(30) DEF Undoing, Runs, Places, Directions
<1> QED BY <1>1, ZenonT(30) DEF Undoing, Runs

LEMMA IdleFacts == Idle \in Runs
<1>1. WriteEntry(None) \in Entries /\ None \in Nat /\ Live \in Stores
  BY EntryFacts DEF None, Stores
<1> QED BY <1>1, ZenonT(30) DEF Idle, Runs, Places, Directions

LEMMA RunPut ==
    ASSUME run \in [Procs -> Runs], NEW p \in Procs, NEW r \in Runs, run' = [run EXCEPT ![p] = r]
    PROVE  run' \in [Procs -> Runs] /\ run'[p] = r /\ \A q \in Procs \ {p} : run'[q] = run[q]
OBVIOUS

LEMMA LockedAreAccounts ==
    ASSUME NEW r \in Runs, IF r.refresh THEN r.store # Live ELSE r.of \in Accounts
    PROVE  Locked(r) \subseteq Accounts
<1>1. r.store \in {Live} \cup Spaces /\ \A c \in r.from : c.of \in Accounts
  BY DEF Runs, Stores, Grants
<1> QED BY <1>1, AccountsAssumption DEF Locked

-----------------------------------------------------------------------------
(* The history of the writes.                                              *)

\* Writes are only added, and only what became of an entry is changed in one.
Kept(n) == /\ did'[n].store = did[n].store /\ did'[n].dir = did[n].dir
           /\ did'[n].from = did[n].from /\ did'[n].to = did[n].to
           /\ did'[n].outcome = did[n].outcome
DidGrows == /\ Len(did) \in Nat /\ Len(did') \in Nat /\ Len(did) <= Len(did')
            /\ DOMAIN did = 1 .. Len(did) /\ DOMAIN did' = 1 .. Len(did')
            /\ \A n \in DOMAIN did : Kept(n)

LEMMA DidFacts ==
    ASSUME did \in Seq(Deeds)
    PROVE  /\ Len(did) \in Nat /\ DOMAIN did = 1 .. Len(did)
           /\ \A n \in DOMAIN did : /\ did[n] \in Deeds /\ did[n].store \in Stores
                                   /\ did[n].dir \in Directions
                                   /\ did[n].from \in SUBSET Grants /\ did[n].to \in SUBSET Grants
<1>1. Len(did) \in Nat /\ DOMAIN did = 1 .. Len(did) /\ \A n \in DOMAIN did : did[n] \in Deeds
  OBVIOUS
<1> QED BY <1>1 DEF Deeds

LEMMA DidStays == ASSUME did \in Seq(Deeds), UNCHANGED did PROVE DidGrows /\ did' \in Seq(Deeds)
BY DidFacts DEF DidGrows, Kept

\* The entry of a write has been told, or not.
LEMMA DidTold ==
    ASSUME did \in Seq(Deeds), NEW n \in DOMAIN did, NEW how \in {"pending", "told", "torn", "refused"},
           did' = [did EXCEPT ![n].entry = how]
    PROVE  DidGrows /\ did' \in Seq(Deeds) /\ Len(did') = Len(did)
<1>1. did[n] \in Deeds
  BY DidFacts
<1>2. [did[n] EXCEPT !.entry = how] \in Deeds
  BY <1>1, ZenonT(30) DEF Deeds
<1>3. did' = [did EXCEPT ![n] = [did[n] EXCEPT !.entry = how]]
  OBVIOUS
<1>4. did' \in Seq(Deeds) /\ Len(did') = Len(did) /\ DOMAIN did' = DOMAIN did
  BY <1>2, <1>3
<1>5. \A k \in DOMAIN did : did'[k] = IF k = n THEN [did[n] EXCEPT !.entry = how] ELSE did[k]
  BY <1>3
<1>6. \A k \in DOMAIN did : Kept(k)
  <2>1. Kept(n)
    BY <1>1, <1>5 DEF Kept, Deeds
  <2>2. \A k \in DOMAIN did : k # n => Kept(k)
    BY <1>5 DEF Kept
  <2> QED BY <2>1, <2>2
<1> QED BY <1>4, <1>6, DidFacts DEF DidGrows

LEMMA DidAppended ==
    ASSUME did \in Seq(Deeds), NEW d \in Deeds, did' = Append(did, d)
    PROVE  /\ DidGrows /\ did' \in Seq(Deeds)
           /\ Len(did') = Len(did) + 1 /\ did'[Len(did')] = d
<1>1. Len(did') = Len(did) + 1 /\ DOMAIN did' = 1 .. Len(did') /\ did'[Len(did')] = d
      /\ did' \in Seq(Deeds) /\ \A n \in DOMAIN did : did'[n] = did[n]
  BY DidFacts
<1> QED BY <1>1, DidFacts DEF DidGrows, Kept

\* What two writes are to each other does not change.
LEMMA ChainedKept ==
    ASSUME DidGrows
    PROVE  \A n, m \in DOMAIN did : /\ Successive(n, m)' <=> Successive(n, m)
                                    /\ Chained(n, m)' <=> Chained(n, m)
<1>1. ASSUME NEW n \in DOMAIN did, NEW m \in DOMAIN did PROVE Successive(n, m)' <=> Successive(n, m)
  <2>1. \A k \in n + 1 .. m - 1 : k \in DOMAIN did
    BY DEF DidGrows
  <2> QED BY <2>1 DEF Successive, DidGrows, Kept
<1>2. ASSUME NEW n \in DOMAIN did, NEW m \in DOMAIN did PROVE Chained(n, m)' <=> Chained(n, m)
  <2>1. \A k \in n + 1 .. m : k \in DOMAIN did /\ \A j \in n .. k - 1 : j \in DOMAIN did
    BY DEF DidGrows
  <2>2. did'[n].store = did[n].store /\ \A k \in n + 1 .. m : did'[k].store = did[k].store
    BY <2>1 DEF DidGrows, Kept
  <2>3. did'[m].store = did[m].store
    BY DEF DidGrows, Kept
  <2> QED BY <1>1, <2>1, <2>2, <2>3 DEF Chained
<1> QED BY <1>1, <1>2

\* A chain that ends in a new write went through what was there, to the write before it.
LEMMA ChainedToNew ==
    ASSUME DidGrows, Len(did') = Len(did) + 1, NEW m, m = Len(did'), NEW n \in DOMAIN did,
           Chained(n, m)'
    PROVE  Successive(n, m)' \/ \E j \in DOMAIN did : Chained(n, j)
<1>0. m \in Nat /\ n \in Nat /\ n < m /\ did'[m].store = did'[n].store
  BY DEF Chained, DidGrows
<1>1. PICK j \in n .. m - 1 : Successive(j, m)'
  BY <1>0 DEF Chained
<1>2. CASE j = n
  BY <1>1, <1>2
<1>3. CASE j # n
  <2>1. j \in DOMAIN did /\ n < j /\ j < m
    BY <1>0, <1>1, <1>3 DEF DidGrows
  <2>2. did'[j].store = did'[n].store
    BY <1>0, <1>1 DEF Successive
  <2>3. Chained(n, j)'
    BY <1>0, <2>1, <2>2 DEF Chained
  <2> QED BY <2>1, <2>3, ChainedKept
<1> QED BY <1>1, <1>2, <1>3

-----------------------------------------------------------------------------
(* A file of the log.                                                      *)

LEMMA FileFacts ==
    ASSUME NEW f \in Files
    PROVE  /\ Len(f.lines) \in Nat /\ DOMAIN f.lines = 1 .. Len(f.lines)
           /\ f.lines \in Seq(Seq(Parts)) /\ f.fit \in BOOLEAN /\ f.ended \in BOOLEAN
           /\ \A a \in DOMAIN f.lines :
                /\ f.lines[a] \in Seq(Parts) /\ DOMAIN f.lines[a] = 1 .. Len(f.lines[a])
                /\ Len(f.lines[a]) \in Nat
                /\ \A x \in DOMAIN f.lines[a] : f.lines[a][x] \in Parts /\ f.lines[a][x].of \in Entries
<1>1. f.lines \in Seq(Seq(Parts)) /\ f.fit \in BOOLEAN /\ f.ended \in BOOLEAN
  BY DEF Files
<1>2. \A a \in DOMAIN f.lines : f.lines[a] \in Seq(Parts)
  BY <1>1
<1>3. \A a \in DOMAIN f.lines : \A x \in DOMAIN f.lines[a] : f.lines[a][x] \in Parts
  BY <1>2
<1>4. \A q \in Parts : q.of \in Entries
  BY DEF Parts
<1>5. \A a \in DOMAIN f.lines : DOMAIN f.lines[a] = 1 .. Len(f.lines[a]) /\ Len(f.lines[a]) \in Nat
  BY <1>2
<1>6. Len(f.lines) \in Nat /\ DOMAIN f.lines = 1 .. Len(f.lines)
  BY <1>1
<1> QED BY <1>1, <1>2, <1>3, <1>4, <1>5, <1>6

LEMMA NewFileFacts == NewFile \in Files /\ DOMAIN NewFile.lines = {}
<1>1. << >> \in Seq(Seq(Parts)) /\ DOMAIN << >> = {}
  OBVIOUS
<1> QED BY <1>1 DEF NewFile, Files

LEMMA PartFacts ==
    ASSUME NEW e \in Entries, NEW w \in {"whole", "head", "rest"}
    PROVE  Part(e, w) \in Parts /\ Part(e, w).of = e /\ Part(e, w).part = w
BY DEF Part, Parts

\* A line of the longer file: each part was there, or is the one written now, at the end of the last.
LEMMA ExtendedFacts ==
    ASSUME NEW f \in Files, NEW part \in Parts, NEW ends \in BOOLEAN
    PROVE  LET g == Extended(f, part, ends) IN
           /\ g \in Files
           /\ \A a \in DOMAIN g.lines : \A x \in DOMAIN g.lines[a] :
                \/ a \in DOMAIN f.lines /\ x \in DOMAIN f.lines[a] /\ g.lines[a][x] = f.lines[a][x]
                \/ a = Len(g.lines) /\ g.lines[a][x] = part
<1> DEFINE g == Extended(f, part, ends)
           n == Len(f.lines)
<1>1. CASE f.ended
  <2> DEFINE ls == Append(f.lines, <<part>>)
  <2>1. <<part>> \in Seq(Parts) /\ DOMAIN <<part>> = {1} /\ <<part>>[1] = part
    OBVIOUS
  <2>2. /\ ls \in Seq(Seq(Parts)) /\ Len(ls) = n + 1 /\ DOMAIN ls = 1 .. n + 1
        /\ ls[n + 1] = <<part>> /\ \A a \in 1 .. n : ls[a] = f.lines[a]
    BY <2>1, FileFacts
  <2>3. g.lines = ls /\ g.fit = f.fit /\ g.ended = ends /\ g = [fit |-> f.fit, ended |-> ends, lines |-> ls]
    BY <1>1 DEF Extended
  <2> HIDE DEF ls
  <2>4. g \in Files
    BY <2>2, <2>3, FileFacts DEF Files
  <2>5. ASSUME NEW a \in DOMAIN g.lines, NEW x \in DOMAIN g.lines[a]
        PROVE  \/ a \in DOMAIN f.lines /\ x \in DOMAIN f.lines[a] /\ g.lines[a][x] = f.lines[a][x]
               \/ a = Len(g.lines) /\ g.lines[a][x] = part
    <3>1. CASE a \in 1 .. n
      BY <2>2, <2>3, <2>5, <3>1, FileFacts
    <3>2. CASE a = n + 1
      <4>1. g.lines[a] = <<part>> /\ Len(g.lines) = a
        BY <2>2, <2>3, <3>2
      <4> QED BY <2>1, <2>5, <4>1
    <3> QED BY <2>2, <2>3, <2>5, <3>1, <3>2, FileFacts
  <2> QED BY <2>4, <2>5
<1>2. CASE ~f.ended
  <2> DEFINE line == f.lines[n]
             ls == [f.lines EXCEPT ![n] = Append(line, part)]
  <2>1. g.lines = ls /\ g.fit = f.fit /\ g.ended = ends /\ g = [fit |-> f.fit, ended |-> ends, lines |-> ls]
    BY <1>2 DEF Extended
  <2>2. n \in Nat /\ DOMAIN f.lines = 1 .. n /\ f.lines \in Seq(Seq(Parts))
    BY FileFacts
  <2>3. CASE n = 0
    <3>1. ls = f.lines
      BY <2>2, <2>3
    <3> HIDE DEF ls
    <3> QED BY <2>1, <2>2, <2>3, <3>1, FileFacts DEF Files
  <2>4. CASE n # 0
    <3>1. n \in DOMAIN f.lines /\ line \in Seq(Parts)
      BY <2>2, <2>4, FileFacts
    <3> DEFINE longer == Append(line, part)
    <3>2. /\ longer \in Seq(Parts) /\ DOMAIN longer = 1 .. Len(line) + 1
          /\ longer[Len(line) + 1] = part /\ \A x \in DOMAIN line : longer[x] = line[x]
          /\ DOMAIN line = 1 .. Len(line)
      BY <3>1
    <3>3. ls = [f.lines EXCEPT ![n] = longer]
      OBVIOUS
    <3> HIDE DEF longer, ls, line
    <3>4. /\ ls \in Seq(Seq(Parts)) /\ Len(ls) = n /\ DOMAIN ls = 1 .. n
          /\ ls[n] = longer /\ \A a \in 1 .. n : a # n => ls[a] = f.lines[a]
      BY <2>2, <3>1, <3>2, <3>3
    <3>5. g \in Files
      BY <2>1, <3>4, FileFacts DEF Files
    <3>6. ASSUME NEW a \in DOMAIN g.lines, NEW x \in DOMAIN g.lines[a]
          PROVE  \/ a \in DOMAIN f.lines /\ x \in DOMAIN f.lines[a] /\ g.lines[a][x] = f.lines[a][x]
                 \/ a = Len(g.lines) /\ g.lines[a][x] = part
      <4>1. CASE a # n
        BY <2>1, <2>2, <3>4, <3>6, <4>1
      <4>2. CASE a = n
        <5>1. g.lines[a] = longer /\ Len(g.lines) = a
          BY <2>1, <3>4, <4>2
        <5>2. x \in DOMAIN line \/ x = Len(line) + 1
          BY <3>1, <3>2, <3>6, <5>1 
        <5>3. x \in DOMAIN line => longer[x] = f.lines[a][x] /\ x \in DOMAIN f.lines[a]
          BY <3>2, <4>2 DEF line
        <5> QED BY <2>2, <3>1, <3>2, <4>2, <5>1, <5>2, <5>3
      <4> QED BY <4>1, <4>2
    <3> QED BY <3>5, <3>6
  <2> QED BY <2>3, <2>4
<1> QED BY <1>1, <1>2

\* The file is as the invariant has it when a run puts another part of its entry at its end: of a
\* write that nothing follows, and the first part of it once.
LEMMA ExtendedKeeps ==
    ASSUME did \in Seq(Deeds), NEW f \in Files, FileInv(f), NEW e \in Entries,
           NEW w \in {"whole", "head", "rest"}, NEW ends \in BOOLEAN,
           e.event = "write" => /\ e.n \in DOMAIN did
                                /\ \A m \in DOMAIN did : ~Chained(e.n, m)
                                /\ w = "rest" \/ \A a \in DOMAIN f.lines : ~Names(f, a, e.n)
    PROVE  FileInv(Extended(f, Part(e, w), ends))
<1> DEFINE g == Extended(f, Part(e, w), ends)
           part == Part(e, w)
<1>1. part \in Parts /\ part.of = e /\ part.part = w
  BY PartFacts
<1>2. /\ g \in Files
      /\ \A a \in DOMAIN g.lines : \A x \in DOMAIN g.lines[a] :
           \/ a \in DOMAIN f.lines /\ x \in DOMAIN f.lines[a] /\ g.lines[a][x] = f.lines[a][x]
           \/ a = Len(g.lines) /\ g.lines[a][x] = part
  BY <1>1, ExtendedFacts
<1>3. DOMAIN g.lines = 1 .. Len(g.lines) /\ Len(g.lines) \in Nat
  BY <1>2, FileFacts
<1>4. \A n \in DOMAIN did : n \in Nat
  BY DidFacts
<1> HIDE DEF g, part
<1>5. \A a \in DOMAIN g.lines : \A x \in DOMAIN g.lines[a] :
        g.lines[a][x].of.event = "write" => g.lines[a][x].of.n \in DOMAIN did
  BY <1>1, <1>2 DEF FileInv
<1>6. \A n \in DOMAIN did, a \in DOMAIN g.lines :
        Names(g, a, n) => \/ a \in DOMAIN f.lines /\ Names(f, a, n)
                          \/ a = Len(g.lines) /\ e.event = "write" /\ e.n = n
  <2> SUFFICES ASSUME NEW n \in DOMAIN did, NEW a \in DOMAIN g.lines, NEW x \in DOMAIN g.lines[a],
                      g.lines[a][x].of = WriteEntry(n)
               PROVE  \/ a \in DOMAIN f.lines /\ Names(f, a, n)
                      \/ a = Len(g.lines) /\ e.event = "write" /\ e.n = n
    BY DEF Names
  <2>1. WriteEntry(n).event = "write" /\ WriteEntry(n).n = n
    BY <1>4, EntryFacts
  <2> QED BY <1>1, <1>2, <2>1 DEF Names
<1>7. \A n \in DOMAIN did, a \in DOMAIN g.lines :
        Begins(g, a, n) => \/ a \in DOMAIN f.lines /\ Begins(f, a, n)
                           \/ a = Len(g.lines) /\ e.event = "write" /\ e.n = n /\ w # "rest"
  <2> SUFFICES ASSUME NEW n \in DOMAIN did, NEW a \in DOMAIN g.lines, NEW x \in DOMAIN g.lines[a],
                      g.lines[a][x].of = WriteEntry(n), g.lines[a][x].part # "rest"
               PROVE  \/ a \in DOMAIN f.lines /\ Begins(f, a, n)
                      \/ a = Len(g.lines) /\ e.event = "write" /\ e.n = n /\ w # "rest"
    BY DEF Begins
  <2>1. WriteEntry(n).event = "write" /\ WriteEntry(n).n = n
    BY <1>4, EntryFacts
  <2> QED BY <1>1, <1>2, <2>1 DEF Begins
<1>8. ASSUME NEW n \in DOMAIN did, NEW m \in DOMAIN did, NEW a \in DOMAIN g.lines,
             NEW b \in DOMAIN g.lines, a < b, Names(g, a, m), Names(g, b, n)
      PROVE  ~Chained(n, m)
  <2>1. a # Len(g.lines)
    BY <1>3, <1>8
  <2>2. a \in DOMAIN f.lines /\ Names(f, a, m)
    BY <1>6, <1>8, <2>1
  <2> QED BY <1>6, <1>8, <2>2 DEF FileInv
<1>9. ASSUME NEW n \in DOMAIN did, NEW a \in DOMAIN g.lines, NEW b \in DOMAIN g.lines,
             Begins(g, a, n), Begins(g, b, n)
      PROVE  a = b
  <2>1. \A c \in DOMAIN f.lines : Begins(f, c, n) => Names(f, c, n)
    BY DEF Begins, Names
  <2> QED BY <1>7, <1>9, <2>1 DEF FileInv
<1>10. FileInv(g)
  BY <1>5, <1>8, <1>9 DEF FileInv
<1> QED BY <1>10 DEF g, part

LEMMA EndedKeeps == ASSUME NEW f \in Files, FileInv(f) PROVE Ended(f) \in Files /\ FileInv(Ended(f))
<1>1. Ended(f).lines = f.lines /\ Ended(f) \in Files
  BY DEF Ended, Files
<1> QED BY <1>1 DEF FileInv, Names, Begins

LEMMA NewFileKeeps == FileInv(NewFile)
BY NewFileFacts DEF FileInv

\* A file that does not change is as the invariant has it after more writes.
LEMMA FileInvKept ==
    ASSUME DidGrows, NEW f \in Files, FileInv(f) PROVE FileInv(f)'
<1>1. DOMAIN did \subseteq DOMAIN did'
  BY DEF DidGrows
<1>2. \A n \in DOMAIN did', a \in DOMAIN f.lines : Names(f, a, n) => n \in DOMAIN did
  <2> SUFFICES ASSUME NEW n \in DOMAIN did', NEW a \in DOMAIN f.lines, NEW x \in DOMAIN f.lines[a],
                      f.lines[a][x].of = WriteEntry(n)
               PROVE  n \in DOMAIN did
    BY DEF Names
  <2>1. n \in Nat
    BY DEF DidGrows
  <2> QED BY <2>1, EntryFacts DEF FileInv
<1>3. \A n \in DOMAIN did', a \in DOMAIN f.lines : Begins(f, a, n) => Names(f, a, n)
  BY DEF Begins, Names
<1>4. \A n, m \in DOMAIN did : Chained(n, m)' <=> Chained(n, m)
  BY ChainedKept
<1>5. \A n, a : (Names(f, a, n)' <=> Names(f, a, n)) /\ (Begins(f, a, n)' <=> Begins(f, a, n))
  BY DEF Names, Begins
<1>6. (\A n, m \in DOMAIN did, a, b \in DOMAIN f.lines :
         a < b /\ Names(f, a, m) /\ Names(f, b, n) => ~Chained(n, m))'
  BY <1>2, <1>4, <1>5 DEF FileInv
<1>7. (\A n \in DOMAIN did, a, b \in DOMAIN f.lines : Begins(f, a, n) /\ Begins(f, b, n) => a = b)'
  BY <1>2, <1>3, <1>5 DEF FileInv
<1>8. (\A a \in DOMAIN f.lines : \A x \in DOMAIN f.lines[a] :
         f.lines[a][x].of.event = "write" => f.lines[a][x].of.n \in DOMAIN did)'
  BY <1>1 DEF FileInv
<1> QED BY <1>6, <1>7, <1>8 DEF FileInv

-----------------------------------------------------------------------------
(* A step of one run.                                                      *)

Others(p) ==
    \A q \in Procs \ {p} : run'[q] = run[q] /\ \A a \in Accounts : lock[a] = q => lock'[a] = q

LEMMA RunFacts ==
    ASSUME LogTypeOK, NEW p \in Procs
    PROVE  /\ run[p] \in Runs /\ run[p].pc \in Places /\ run[p].then \in Places
           /\ run[p].store \in Stores /\ run[p].dir \in Directions /\ run[p].refresh \in BOOLEAN
           /\ run[p].of \in Accounts \cup {None} /\ run[p].to \in SUBSET Grants
           /\ run[p].from \in SUBSET Grants /\ run[p].undone \in Nat /\ run[p].fd \in Nat
           /\ run[p].wrote \in Nat /\ run[p].says \in Entries
<1>1. run[p] \in Runs
  BY DEF LogTypeOK
<1> QED BY <1>1, ZenonT(30) DEF Runs

LEMMA SpendType ==
    ASSUME left \in [Allowances -> Nat], NEW w \in Allowances, Spend(w)
    PROVE  left' \in [Allowances -> Nat]
<1>1. left[w] \in Nat /\ left[w] - 1 \in Nat
  BY DEF Spend
<1> QED BY <1>1 DEF Spend

LEMMA EndsFacts ==
    ASSUME LogTypeOK, NEW p \in Procs, Ends(p)
    PROVE  /\ run' \in [Procs -> Runs] /\ run'[p] = Idle
           /\ lock' \in [Accounts -> Procs \cup {NoProc}]
           /\ Others(p)
<1>1. run' \in [Procs -> Runs] /\ run'[p] = Idle /\ \A q \in Procs \ {p} : run'[q] = run[q]
  BY IdleFacts, RunPut DEF Ends, LogTypeOK
<1>2. lock' \in [Accounts -> Procs \cup {NoProc}]
  BY DEF Ends, LogTypeOK
<1>3. \A q \in Procs \ {p}, a \in Accounts : lock[a] = q => lock'[a] = q
  BY DEF Ends
<1> QED BY <1>1, <1>2, <1>3 DEF Others

\* What the step of p leaves of the others' locals.
LEMMA OthersKeep ==
    ASSUME LogInv, LogTypeOK', NEW p \in Procs, Others(p), DidGrows,
           run'[p].wrote \in {None, run[p].wrote} \/ run'[p].wrote \notin DOMAIN did,
           NEW q \in Procs \ {p}
    PROVE  LocalsOf(q)' /\ RecordOf(q)'
<1>0. LogTypeOK /\ LocalsOf(q) /\ RecordOf(q) /\ run'[q] = run[q] /\ run[q] \in Runs
  BY RunFacts DEF LogInv, Others
<1>1. LocalsOf(q)'
  <2>1. run[q].pc \in Holding => Locked(run[q]) \subseteq Accounts
    BY <1>0, LockedAreAccounts DEF LocalsOf, Holding
  <2> QED BY <1>0, <2>1 DEF LocalsOf, Others, Locked
<1>2. RecordOf(q)'
  <2>1. ASSUME run[q].wrote # None
        PROVE  /\ run[q].wrote \in DOMAIN did' /\ did'[run[q].wrote].store = run[q].store
               /\ did'[run[q].wrote].from = run[q].from /\ did'[run[q].wrote].to = run[q].to
               /\ \A o \in Procs \ {q} : run'[o].wrote # run[q].wrote
    <3>1. run[q].wrote \in DOMAIN did /\ \A o \in Procs \ {q} : run[o].wrote # run[q].wrote
      BY <1>0, <2>1 DEF RecordOf
    <3>2. run'[p].wrote # run[q].wrote
      BY <2>1, <3>1
    <3>3. \A o \in Procs \ {q} : run'[o].wrote # run[q].wrote
      BY <3>1, <3>2 DEF Others
    <3> QED BY <1>0, <2>1, <3>1, <3>3 DEF RecordOf, DidGrows, Kept
  <2> QED BY <1>0, <2>1 DEF RecordOf
<1> QED BY <1>1, <1>2

LEMMA StepKeeps ==
    ASSUME LogInv, LogTypeOK', NEW p \in Procs, Others(p), DidGrows,
           run'[p].wrote \in {None, run[p].wrote} \/ run'[p].wrote \notin DOMAIN did,
           \A q \in Procs \ {p} : NothingFollows(q)' /\ Unbegun(q)',
           (at.kind = "file" => at.file \in DOMAIN files)',
           (\A i \in DOMAIN files : FileInv(files[i]))',
           LocalsOf(p)', RecordOf(p)', NothingFollows(p)', Unbegun(p)'
    PROVE  LogInv'
<1>1. \A q \in Procs \ {p} : LocalsOf(q)' /\ RecordOf(q)'
  BY OthersKeep
<1> QED BY <1>1 DEF LogInv

\* With no new write, nothing follows what nothing followed.
LEMMA NothingNew ==
    ASSUME LogInv, NEW q \in Procs, DidGrows, Len(did') = Len(did), run'[q].wrote \in {None, run[q].wrote}
    PROVE  NothingFollows(q)'
<1>1. DOMAIN did' = DOMAIN did /\ \A n, m \in DOMAIN did : Chained(n, m)' <=> Chained(n, m)
  BY ChainedKept DEF DidGrows
<1>2. run[q].wrote # None => run[q].wrote \in DOMAIN did
  BY DEF LogInv, RecordOf
<1> QED BY <1>1, <1>2 DEF LogInv, NothingFollows

\* The files after the step: each as the invariant has it, each part in them one that was there
\* or one of the write that p records.
FilesGrow(p) ==
    /\ files' \in Seq(Files)
    /\ \A i \in DOMAIN files' : FileInv(files'[i])
    /\ \A n \in DOMAIN did, i \in DOMAIN files' : \A a \in DOMAIN files'[i].lines :
         Names(files'[i], a, n) =>
             \/ i \in DOMAIN files /\ a \in DOMAIN files[i].lines /\ Names(files[i], a, n)
             \/ run[p].wrote = n

LEMMA FilesStay == ASSUME LogInv, NEW p \in Procs, UNCHANGED files PROVE FilesGrow(p)
BY DEF FilesGrow, LogInv, LogTypeOK

LEMMA FilesKeep ==
    ASSUME LogInv, DidGrows, NEW p \in Procs, FilesGrow(p) PROVE (\A i \in DOMAIN files : FileInv(files[i]))'
<1>1. ASSUME NEW i \in DOMAIN files', NEW f, f = files'[i] PROVE FileInv(f)'
  <2>1. f \in Files /\ FileInv(f)
    BY <1>1 DEF FilesGrow
  <2> QED BY <2>1, FileInvKept
<1> QED BY <1>1 DEF FileInv, Names, Begins

LEMMA UnbegunKept ==
    ASSUME LogInv, NEW p \in Procs, FilesGrow(p), NEW q \in Procs \ {p}, run'[q] = run[q]
    PROVE  Unbegun(q)'
<1> SUFFICES ASSUME run[q].pc = "append", run[q].says.event = "write",
                    NEW i \in DOMAIN files', NEW a \in DOMAIN files'[i].lines,
                    Names(files'[i], a, run[q].says.n)
             PROVE  FALSE
  BY DEF Unbegun, Names
<1>1. RecordOf(q) /\ Unbegun(q)
  BY DEF LogInv
<1>2. run[q].says.n = run[q].wrote /\ run[q].wrote \in DOMAIN did /\ run[p].wrote # run[q].wrote
  BY <1>1 DEF RecordOf, Writing
<1> QED BY <1>1, <1>2 DEF FilesGrow, Unbegun

\* A step of p that makes no write.
LEMMA QuietKeeps ==
    ASSUME LogInv, LogTypeOK', NEW p \in Procs, Others(p), DidGrows, Len(did') = Len(did),
           run'[p].wrote \in {None, run[p].wrote}, FilesGrow(p),
           (at.kind = "file" => at.file \in DOMAIN files)',
           LocalsOf(p)', RecordOf(p)', Unbegun(p)'
    PROVE  LogInv'
<1>1. \A q \in Procs \ {p} : NothingFollows(q)' /\ Unbegun(q)'
  BY NothingNew, UnbegunKept DEF Others
<1>2. NothingFollows(p)'
  BY NothingNew
<1>3. (\A i \in DOMAIN files : FileInv(files[i]))'
  BY FilesKeep
<1> QED BY <1>1, <1>2, <1>3, StepKeeps

LEMMA IdleKeeps ==
    ASSUME NEW p \in Procs, run'[p] = Idle PROVE LocalsOf(p)' /\ RecordOf(p)' /\ Unbegun(p)'
<1>1. Idle.pc = "idle" /\ Idle.wrote = None
  BY DEF Idle
<1> QED BY <1>1 DEF LocalsOf, RecordOf, Unbegun, Holding, Writing

-----------------------------------------------------------------------------
(* The steps up to the item.                                               *)

LEMMA BesideKeeps ==
    ASSUME LogInv, LogTypeOK', UNCHANGED <<did, lock, run>>,
           (at.kind = "file" => at.file \in DOMAIN files)', DOMAIN files' = DOMAIN files,
           \A i \in DOMAIN files : files'[i].lines = files[i].lines
    PROVE  LogInv'
<1>1. did \in Seq(Deeds)
  BY DEF LogInv, LogTypeOK
<1>2. DidGrows
  BY <1>1, DidStays
<1>3. \A i \in DOMAIN files' : FileInv(files'[i])
  BY DEF LogInv, FileInv, Names, Begins
<1>4. (\A i \in DOMAIN files : FileInv(files[i]))'
  BY <1>3 DEF FileInv, Names, Begins, Chained, Successive
<1>5. ASSUME NEW p \in Procs PROVE LocalsOf(p)' /\ RecordOf(p)' /\ NothingFollows(p)' /\ Unbegun(p)'
  <2>1. LocalsOf(p) /\ RecordOf(p) /\ NothingFollows(p) /\ Unbegun(p)
    BY DEF LogInv
  <2>2. LocalsOf(p)'
    BY <2>1 DEF LocalsOf, Locked
  <2>3. RecordOf(p)'
    BY <2>1 DEF RecordOf
  <2>4. NothingFollows(p)'
    BY <2>1 DEF NothingFollows, Chained, Successive
  <2>5. Unbegun(p)'
    BY <2>1 DEF Unbegun, Names
  <2> QED BY <2>2, <2>3, <2>4, <2>5
<1> QED BY <1>4, <1>5 DEF LogInv

\* A run begins.
Starts(p) == run'[p].pc = "item" /\ \A q \in Procs \ {p} : run'[q] = run[q]

LEMMA BeginKeeps ==
    ASSUME LogInv, NEW p \in Procs, NEW w \in Allowances, Spend(w), Place(p, "idle"),
           NEW r \in Runs, r.pc = "item", r.wrote = None,
           IF r.refresh THEN r.store # Live ELSE r.of \in Accounts,
           run' = [run EXCEPT ![p] = r], UNCHANGED <<logs, item, did, lock>>
    PROVE  LogInv' /\ Starts(p) /\ run'[p] = r
<1>0. LogTypeOK
  BY DEF LogInv
<1>2. run' \in [Procs -> Runs] /\ run'[p] = r /\ \A q \in Procs \ {p} : run'[q] = run[q]
  BY <1>0, RunPut DEF LogTypeOK
<1>3. LogTypeOK'
  BY <1>0, <1>2, SpendType DEF LogTypeOK, logs
<1>4. Others(p)
  BY <1>2 DEF Others
<1>5. DidGrows /\ Len(did') = Len(did)
  BY <1>0, DidStays DEF LogTypeOK
<1>6. FilesGrow(p)
  BY FilesStay DEF logs
<1>7. run'[p].wrote = None
  BY <1>2
<1>8. LocalsOf(p)' /\ RecordOf(p)' /\ Unbegun(p)'
  BY <1>2, <1>7 DEF LocalsOf, RecordOf, Unbegun, Holding, Writing
<1>9. (at.kind = "file" => at.file \in DOMAIN files)'
  BY DEF LogInv, logs
<1>10. Starts(p)
  BY <1>2 DEF Starts
<1> QED BY <1>2, <1>10, <1>3, <1>4, <1>5, <1>6, <1>7, <1>8, <1>9, QuietKeeps

\* What an undo reverses is a write that was made.
LEMMA SelectedAreWrites ==
    ASSUME LogInv, NEW n \in Selected(EntriesIn(Contents(at, files)))
    PROVE  n \in DOMAIN did
<1> DEFINE lines == Contents(at, files)
           entries == EntriesIn(lines)
<1>1. PICK i \in DOMAIN entries : entries[i].event = "write" /\ n = entries[i].n
  BY DEF Selected, Reversible, Newest
<1>2. i \in DOMAIN lines /\ Parses(lines[i]) /\ entries[i] = lines[i][1].of
  BY <1>1 DEF EntriesIn
<1>3. at.kind = "file" /\ lines = files[at.file].lines /\ at.file \in DOMAIN files
  BY <1>2 DEF Contents, LogInv
<1>4. files[at.file] \in Files /\ FileInv(files[at.file])
  BY <1>3 DEF LogInv, LogTypeOK
<1>5. lines[i] \in Seq(Parts) /\ 1 \in DOMAIN lines[i]
  <2>1. lines[i] \in Seq(Parts)
    BY <1>2, <1>3, <1>4, FileFacts
  <2> QED BY <1>2, <2>1 DEF Parses
<1> QED BY <1>1, <1>2, <1>3, <1>4, <1>5 DEF FileInv

LEMMA StartSwapKeeps ==
    ASSUME LogInv, NEW p \in Procs, NEW s \in Stores, NEW a \in Accounts, StartSwap(p, s, a)
    PROVE  LogInv' /\ Starts(p) /\ run'[p].dir = "forward"
           /\ run'[p].undone = None
<1> DEFINE r == Swapping(Idle, s, a)
<1>1. run' = [run EXCEPT ![p] = r]
  BY DEF StartSwap, Swapping
<1>2. r \in Runs /\ r.pc = "item" /\ r.wrote = Idle.wrote /\ r.refresh = Idle.refresh /\ r.of = a
      /\ r.dir = Idle.dir /\ r.undone = Idle.undone
  BY IdleFacts, SwappingFacts
<1>3. Idle.wrote = None /\ Idle.refresh = FALSE /\ Idle.dir = "forward" /\ Idle.undone = None
  BY DEF Idle
<1> HIDE DEF r
<1>4. LogInv' /\ Starts(p) /\ run'[p] = r
  <2>1. Place(p, "idle") /\ Spend("runs") /\ UNCHANGED <<logs, item, did, lock>>
    BY DEF StartSwap
  <2>2. "runs" \in Allowances
    BY DEF Allowances
  <2>3. IF r.refresh THEN r.store # Live ELSE r.of \in Accounts
    BY <1>2, <1>3 DEF StartSwap
  <2> QED BY <1>1, <1>2, <1>3, <2>1, <2>2, <2>3, BeginKeeps
<1> QED BY <1>2, <1>3, <1>4

LEMMA StartRefreshKeeps ==
    ASSUME LogInv, NEW p \in Procs, NEW s \in Stores, StartRefresh(p, s)
    PROVE  LogInv' /\ Starts(p) /\ run'[p].dir = "forward"
           /\ run'[p].undone = None
<1> DEFINE r == Refreshing(Idle, s)
<1>1. run' = [run EXCEPT ![p] = r]
  BY DEF StartRefresh, Refreshing
<1>2. r \in Runs /\ r.pc = "item" /\ r.wrote = Idle.wrote /\ r.refresh = TRUE /\ r.store = s
      /\ r.dir = Idle.dir /\ r.undone = Idle.undone
  BY IdleFacts, RefreshingFacts
<1>3. Idle.wrote = None /\ Idle.dir = "forward" /\ Idle.undone = None
  BY DEF Idle
<1> HIDE DEF r
<1>4. LogInv' /\ Starts(p) /\ run'[p] = r
  <2>1. Place(p, "idle") /\ Spend("refreshes") /\ UNCHANGED <<logs, item, did, lock>>
    BY DEF StartRefresh
  <2>2. "refreshes" \in Allowances
    BY DEF Allowances
  <2>3. IF r.refresh THEN r.store # Live ELSE r.of \in Accounts
    BY <1>2, <1>3 DEF StartRefresh
  <2> QED BY <1>1, <1>2, <1>3, <2>1, <2>2, <2>3, BeginKeeps
<1> QED BY <1>2, <1>3, <1>4

LEMMA StartUndoKeeps ==
    ASSUME LogInv, NEW p \in Procs, StartUndo(p)
    PROVE  /\ LogInv' /\ Starts(p)
           /\ run'[p].undone \in Selected(EntriesIn(Contents(at, files)))
           /\ run'[p].undone \in DOMAIN did /\ run'[p].store = did[run'[p].undone].store
<1>1. PICK n \in Selected(EntriesIn(Contents(at, files))) : Reverse(p, n)
  BY DEF StartUndo
<1>2. PICK a \in Owners(n) :
        run' = [run EXCEPT ![p] = [Idle EXCEPT !.pc = "item", !.dir = "undo", !.of = a,
                                               !.store = did[n].store, !.undone = n]]
  BY <1>1 DEF Reverse
<1>3. n \in DOMAIN did /\ did \in Seq(Deeds)
  BY SelectedAreWrites DEF LogInv, LogTypeOK
<1>4. n \in Nat /\ did[n].store \in Stores /\ did[n].from \subseteq Grants
  BY <1>3, DidFacts
<1>5. a \in Accounts
  BY <1>4 DEF Owners, Grants
<1> DEFINE r == Undoing(Idle, did[n].store, a, n)
<1>6. run' = [run EXCEPT ![p] = r]
  BY <1>2 DEF Undoing
<1>7. r \in Runs /\ r.pc = "item" /\ r.wrote = Idle.wrote /\ r.refresh = Idle.refresh /\ r.of = a
      /\ r.undone = n /\ r.store = did[n].store
  BY <1>4, <1>5, IdleFacts, UndoingFacts
<1>8. Idle.wrote = None /\ Idle.refresh = FALSE
  BY DEF Idle
<1> HIDE DEF r
<1> QED BY <1>1, <1>3, <1>5, <1>6, <1>7, <1>8, BeginKeeps DEF StartUndo, Allowances

\* What a step of p is to its locals: it ends the run, or the run goes on in its store and direction.
RunEnds(p) == run'[p] = Idle /\ \A q \in Procs \ {p} : run'[q] = run[q]
RunGoes(p) ==
    /\ run'[p].pc # "idle" /\ run'[p].dir = run[p].dir /\ run'[p].store = run[p].store
    /\ run'[p].undone = run[p].undone
    /\ \A q \in Procs \ {p} : run'[q] = run[q]
RunSteps(p) == RunEnds(p) \/ RunGoes(p)

\* The run is over: nothing of it is left but its entries.
LEMMA EndsKeeps ==
    ASSUME LogInv, NEW p \in Procs, Ends(p), UNCHANGED <<logs, item>>,
           left' \in [Allowances -> Nat], did' \in Seq(Deeds), DidGrows, Len(did') = Len(did)
    PROVE  LogInv' /\ RunSteps(p)
<1>0. LogTypeOK
  BY DEF LogInv
<1>1. LogTypeOK'
  BY <1>0, EndsFacts DEF LogTypeOK, logs
<1>2. LocalsOf(p)' /\ RecordOf(p)' /\ Unbegun(p)'
  BY <1>0, EndsFacts, IdleKeeps
<1>3. run'[p].wrote = None
  BY <1>0, EndsFacts DEF Idle
<1>4. FilesGrow(p)
  BY FilesStay DEF logs
<1>5. (at.kind = "file" => at.file \in DOMAIN files)'
  BY DEF LogInv, logs
<1>6. RunSteps(p)
  BY <1>0, EndsFacts DEF RunSteps, RunEnds, Others
<1> QED BY <1>6, <1>0, <1>1, <1>2, <1>3, <1>4, <1>5, EndsFacts, QuietKeeps

LEMMA EndsAlone ==
    ASSUME LogInv, NEW p \in Procs, Ends(p), UNCHANGED <<logs, item, did, left>>
    PROVE  LogInv' /\ RunSteps(p)
<1>1. did \in Seq(Deeds) /\ left' \in [Allowances -> Nat]
  BY DEF LogInv, LogTypeOK
<1> QED BY <1>1, DidStays, EndsKeeps

\* A step of p between two places, which writes nothing.
LEMMA StepOf ==
    ASSUME LogInv, NEW p \in Procs, NEW r \in Runs, run' = [run EXCEPT ![p] = r],
           UNCHANGED <<logs, item, did>>, lock' \in [Accounts -> Procs \cup {NoProc}],
           \A q \in Procs \ {p}, a \in Accounts : lock[a] = q => lock'[a] = q,
           left' \in [Allowances -> Nat], r.wrote = run[p].wrote, r.pc # "idle",
           r.dir = run[p].dir, r.store = run[p].store, r.undone = run[p].undone,
           LocalsOf(p)', RecordOf(p)', r.pc = "append" => r.says.event # "write"
    PROVE  LogInv' /\ RunGoes(p)
<1>0. LogTypeOK
  BY DEF LogInv
<1>1. run' \in [Procs -> Runs] /\ run'[p] = r /\ \A q \in Procs \ {p} : run'[q] = run[q]
  BY <1>0, RunPut DEF LogTypeOK
<1>2. LogTypeOK'
  BY <1>0, <1>1 DEF LogTypeOK, logs
<1>3. Others(p)
  BY <1>1 DEF Others
<1>4. DidGrows /\ Len(did') = Len(did)
  BY <1>0, DidStays DEF LogTypeOK
<1>5. FilesGrow(p)
  BY FilesStay DEF logs
<1>6. Unbegun(p)'
  BY <1>1 DEF Unbegun
<1>7. (at.kind = "file" => at.file \in DOMAIN files)'
  BY DEF LogInv, logs
<1>8. RunGoes(p)
  BY <1>1 DEF RunGoes
<1> QED BY <1>8, <1>1, <1>2, <1>3, <1>4, <1>5, <1>6, <1>7, QuietKeeps

LEMMA ReadKeeps ==
    ASSUME LogInv, NEW p \in Procs, Read(p)
    PROVE  LogInv' /\ RunSteps(p)
<1>0. LogTypeOK /\ LocalsOf(p) /\ RecordOf(p) /\ run[p] \in Runs /\ ReadItem(p) /\ Place(p, "item")
  BY RunFacts DEF LogInv, Read, ReadItem
<1>1. CASE Ends(p)
  BY <1>0, <1>1, EndsAlone DEF ReadItem
<1>2. CASE ~Ends(p)
  <2>1. PICK c \in Incoming(p) :
          run' = [run EXCEPT ![p].from = item[run[p].store], ![p].to = {c}, ![p].pc = "lock"]
    BY <1>0, <1>2 DEF ReadItem
  <2>2. UNCHANGED <<logs, item, did, left, lock>>
    BY <1>0, <1>2 DEF ReadItem
  <2> DEFINE r == run[p]
             F == item[r.store]
             t == Reading(r, F, {c})
  <2>3. F \in SUBSET Grants /\ r.store \in Stores /\ r.pc = "item" /\ r.wrote = None
    BY <1>0, RunFacts DEF LogTypeOK, Place, RecordOf, Writing
  <2>4. c \in Grants /\ (r.store = Live => c.of = r.of)
    BY <1>0, <2>3 DEF Incoming, LocalsOf
  <2>5. run' = [run EXCEPT ![p] = t]
    BY <2>1, ZenonT(30) DEF Reading
  <2>6. {c} \in SUBSET Grants
    BY <2>4
  <2>7. /\ t \in Runs /\ t.pc = "lock" /\ t.store = r.store /\ t.refresh = r.refresh /\ t.dir = r.dir /\ t.undone = r.undone
        /\ t.of = r.of /\ t.to = {c} /\ t.from = F /\ t.wrote = r.wrote
    BY <1>0, <2>3, <2>6, ReadingFacts
  <2> HIDE DEF t
  <2>8. run'[p] = t
    BY <1>0, <2>5 DEF LogTypeOK
  <2>9. r.store = Live => F # {}
    <3>1. r.store = Live => ~r.refresh
      BY <1>0, <2>3 DEF LocalsOf
    <3> QED BY <2>7, <2>8, <3>1 DEF Read, OnLive
  <2>10. LocalsOf(p)'
    BY <1>0, <2>3, <2>4, <2>7, <2>8, <2>9 DEF LocalsOf, Holding
  <2>11. RecordOf(p)'
    BY <2>3, <2>7, <2>8 DEF RecordOf, Writing
  <2> QED BY <1>0, <2>2, <2>5, <2>7, <2>8, <2>10, <2>11, StepOf DEF LogTypeOK, RunSteps
<1> QED BY <1>1, <1>2 DEF RunSteps

LEMMA LocksKeep ==
    ASSUME LogInv, NEW p \in Procs, TakeLocks(p)
    PROVE  LogInv' /\ RunGoes(p)
<1> DEFINE r == run[p]
           x == IF r.store = Live THEN "gate" ELSE "write"
           t == Moved(r, x)
<1>0. LogTypeOK /\ LocalsOf(p) /\ RecordOf(p) /\ r \in Runs /\ r.pc = "lock" /\ x \in Places
  BY RunFacts DEF LogInv, TakeLocks, Place, Places
<1>1. Locked(r) \subseteq Accounts
  BY <1>0, LockedAreAccounts DEF LocalsOf
<1>2. run' = [run EXCEPT ![p] = t]
  BY ZenonT(30) DEF TakeLocks, Moves, Moved
<1>3. /\ t \in Runs /\ t.pc = x /\ t.store = r.store /\ t.refresh = r.refresh /\ t.dir = r.dir /\ t.undone = r.undone
      /\ t.of = r.of /\ t.to = r.to /\ t.from = r.from /\ t.wrote = r.wrote
  BY <1>0, MovedFacts
<1> HIDE DEF t
<1>4. run'[p] = t
  BY <1>0, <1>2 DEF LogTypeOK
<1>5. lock' \in [Accounts -> Procs \cup {NoProc}]
  BY <1>0 DEF LogTypeOK, TakeLocks
<1>6. \A q \in Procs \ {p}, a \in Accounts : lock[a] = q => lock'[a] = q
  BY ProcsAssumption DEF TakeLocks
<1>7. Locked(t) = Locked(r)
  BY <1>3 DEF Locked
<1>8. LocalsOf(p)'
  BY <1>0, <1>1, <1>3, <1>4, <1>7 DEF LocalsOf, Holding, TakeLocks
<1>9. RecordOf(p)'
  BY <1>0, <1>3, <1>4 DEF RecordOf, Writing
<1>10. t.pc \notin {"append", "idle"}
  BY <1>3
<1> QED BY <1>0, <1>2, <1>3, <1>5, <1>6, <1>8, <1>9, <1>10, StepOf DEF TakeLocks, LogTypeOK

-----------------------------------------------------------------------------
(* The write of the item, and the steps around it.                         *)

\* A run that has its locks has made no write before it makes one.
LEMMA AtWrite ==
    ASSUME LogInv, NEW p \in Procs, Place(p, "write")
    PROVE  LogTypeOK /\ LocalsOf(p) /\ RecordOf(p) /\ run[p] \in Runs /\ run[p].pc = "write"
           /\ run[p].wrote = None
BY RunFacts DEF LogInv, Place, RecordOf, Writing

LEMMA BreakKeeps ==
    ASSUME LogInv, NEW p \in Procs, Break(p)
    PROVE  LogInv' /\ RunGoes(p)
<1> DEFINE r == run[p]
           e == BreakEntry(p, Len(did))
           t == Saying(r, e, "write")
<1>0. LogTypeOK /\ LocalsOf(p) /\ RecordOf(p) /\ r \in Runs /\ r.pc = "write" /\ r.wrote = None
  BY AtWrite DEF Break
<1>1. e \in Entries /\ e.event = "lock_break" /\ "write" \in Places
  BY <1>0, DidFacts, EntryFacts DEF LogTypeOK, Places
<1>2. run' = [run EXCEPT ![p] = t]
  BY ZenonT(30) DEF Break, Saying
<1>3. /\ t \in Runs /\ t.pc = "append" /\ t.store = r.store /\ t.refresh = r.refresh /\ t.dir = r.dir /\ t.undone = r.undone
      /\ t.of = r.of /\ t.to = r.to /\ t.from = r.from /\ t.wrote = r.wrote /\ t.says = e /\ t.then = "write"
  BY <1>0, <1>1, SayingFacts
<1> HIDE DEF t, e
<1>4. run'[p] = t
  BY <1>0, <1>2 DEF LogTypeOK
<1>5. Locked(t) = Locked(r)
  BY <1>3 DEF Locked
<1>6. LocalsOf(p)'
  BY <1>0, <1>3, <1>4, <1>5 DEF LocalsOf, Holding, Break
<1>7. RecordOf(p)'
  BY <1>0, <1>1, <1>3, <1>4 DEF RecordOf, Writing
<1>8. left' \in [Allowances -> Nat]
  BY <1>0, SpendType DEF LogTypeOK, Break, Allowances
<1> QED BY <1>0, <1>1, <1>2, <1>3, <1>6, <1>7, <1>8, StepOf DEF Break, LogTypeOK

LEMMA RenewKeeps ==
    ASSUME LogInv, NEW p \in Procs, Renew(p)
    PROVE  LogInv' /\ RunGoes(p)
<1> DEFINE r == run[p]
<1>0. LogTypeOK /\ LocalsOf(p) /\ RecordOf(p) /\ r \in Runs /\ r.pc = "write" /\ r.wrote = None
  BY AtWrite DEF Renew
<1>1. PICK c \in Grants \ r.to :
        {c.of} = {d.of : d \in r.to} /\ run' = [run EXCEPT ![p].to = {c}]
  BY DEF Renew
<1> DEFINE t == Renewing(r, {c})
<1>2. run' = [run EXCEPT ![p] = t]
  BY <1>1, ZenonT(30) DEF Renewing
<1>3. /\ t \in Runs /\ t.pc = r.pc /\ t.store = r.store /\ t.refresh = r.refresh /\ t.dir = r.dir /\ t.undone = r.undone
      /\ t.of = r.of /\ t.to = {c} /\ t.from = r.from /\ t.wrote = r.wrote
  BY <1>0, RenewingFacts
<1> HIDE DEF t
<1>4. run'[p] = t
  BY <1>0, <1>2 DEF LogTypeOK
<1>5. Locked(t) = Locked(r)
  BY <1>3 DEF Locked
<1>6. LocalsOf(p)'
  <2>1. (\A d \in r.to : d.of = r.of) => c.of = r.of
    BY <1>1
  <2> QED BY <1>0, <1>3, <1>4, <1>5, <2>1 DEF LocalsOf, Holding, Renew
<1>7. RecordOf(p)'
  BY <1>0, <1>3, <1>4 DEF RecordOf, Writing
<1>8. left' \in [Allowances -> Nat]
  BY <1>0, SpendType DEF LogTypeOK, Renew, Allowances
<1> QED BY <1>0, <1>2, <1>3, <1>6, <1>7, <1>8, StepOf DEF Renew, LogTypeOK

LEMMA ConfigKeeps ==
    ASSUME LogInv, NEW p \in Procs, Config(p)
    PROVE  LogInv' /\ RunSteps(p)
<1> DEFINE r == run[p]
           e == ConfigEntry(r.wrote)
           t == Saying(r, e, "over")
<1>0. LogTypeOK /\ LocalsOf(p) /\ RecordOf(p) /\ r \in Runs /\ r.pc = "config" /\ r.wrote \in Nat
  BY RunFacts DEF LogInv, Config, Place
<1>1. CASE Ends(p)
  BY <1>1, EndsAlone DEF Config
<1>2. CASE ~Ends(p)
  <2>1. e \in Entries /\ e.event = "config_write" /\ "over" \in Places
    BY <1>0, EntryFacts DEF Places
  <2>2. run' = [run EXCEPT ![p] = t]
    BY <1>2, ZenonT(30) DEF Config, Saying
  <2>3. /\ t \in Runs /\ t.pc = "append" /\ t.store = r.store /\ t.refresh = r.refresh /\ t.dir = r.dir /\ t.undone = r.undone
        /\ t.of = r.of /\ t.to = r.to /\ t.from = r.from /\ t.wrote = r.wrote /\ t.says = e /\ t.then = "over"
    BY <1>0, <2>1, SayingFacts
  <2> HIDE DEF t, e
  <2>4. run'[p] = t /\ \A q \in Procs \ {p} : run'[q] = run[q]
    BY <1>0, <2>2 DEF LogTypeOK
  <2>5. Locked(t) = Locked(r)
    BY <2>3 DEF Locked
  <2>6. UNCHANGED <<logs, item, did, left, lock>>
    BY <1>2 DEF Config
  <2>7. LocalsOf(p)'
    BY <1>0, <2>3, <2>4, <2>5, <2>6 DEF LocalsOf, Holding
  <2>8. RecordOf(p)'
    BY <1>0, <2>1, <2>3, <2>4, <2>6 DEF RecordOf, Writing
  <2> QED BY <1>0, <2>1, <2>2, <2>3, <2>6, <2>7, <2>8, StepOf DEF LogTypeOK, RunSteps
<1> QED BY <1>1, <1>2 DEF RunSteps

LEMMA CrashKeeps ==
    ASSUME LogInv, NEW p \in Procs, Crash(p)
    PROVE  LogInv' /\ RunSteps(p)
<1>0. LogTypeOK /\ did \in Seq(Deeds)
  BY DEF LogInv, LogTypeOK
<1>1. \A d \in Deeds : LET t == [d EXCEPT !.entry = "torn"] IN
        /\ t \in Deeds /\ t.store = d.store /\ t.dir = d.dir /\ t.from = d.from /\ t.to = d.to
        /\ t.outcome = d.outcome
  BY DEF Deeds
<1>2. /\ DOMAIN did' = DOMAIN did
      /\ \A n \in DOMAIN did : did'[n] = IF run[p].wrote = n /\ did[n].entry = "pending"
                                        THEN [did[n] EXCEPT !.entry = "torn"] ELSE did[n]
  BY DEF Crash
<1>3. ASSUME NEW n \in DOMAIN did PROVE did'[n] \in Deeds /\ Kept(n)
  <2>1. did[n] \in Deeds
    BY <1>0, DidFacts
  <2>2. CASE run[p].wrote = n /\ did[n].entry = "pending"
    <3>1. did'[n] = [did[n] EXCEPT !.entry = "torn"]
      BY <1>2, <2>2
    <3> QED BY <1>1, <2>1, <3>1 DEF Kept
  <2>3. CASE ~(run[p].wrote = n /\ did[n].entry = "pending")
    BY <1>2, <2>1, <2>3 DEF Kept
  <2> QED BY <2>2, <2>3
<1>4. did' = [n \in 1 .. Len(did) |-> did'[n]]
  BY <1>0, DidFacts DEF Crash
<1>5. did' \in Seq(Deeds) /\ Len(did') = Len(did)
  BY <1>0, <1>2, <1>3, <1>4, DidFacts
<1>6. DidGrows
  BY <1>0, <1>2, <1>3, <1>5, DidFacts DEF DidGrows
<1>7. left' \in [Allowances -> Nat]
  BY <1>0, SpendType DEF LogTypeOK, Crash, Allowances
<1> QED BY <1>5, <1>6, <1>7, EndsKeeps DEF Crash

\* The locks keep two runs from one item, and from the live item one after the other.
LEMMA Apart ==
    ASSUME LogInv, NEW p \in Procs, NEW q \in Procs, p # q,
           run[p].pc \in Holding, run[q].pc \in Holding, run[p].store = run[q].store
    PROVE  run[p].store = Live /\ run[p].from \notin {run[q].from, run[q].to}
<1> DEFINE r == run[p]
           s == run[q]
<1>0. r \in Runs /\ s \in Runs /\ LocalsOf(p) /\ LocalsOf(q)
  BY RunFacts DEF LogInv
<1>1. \A a \in Locked(r) : a \notin Locked(s)
  BY <1>0 DEF LocalsOf
<1>2. r.store = Live
  BY <1>1 DEF Locked
<1>3. /\ ~r.refresh /\ ~s.refresh /\ r.from # {} /\ s.of \in Accounts
      /\ \A c \in s.to : c.of = s.of
  BY <1>0, <1>2 DEF LocalsOf, Holding
<1>4. \A c \in r.from : c.of \in Locked(r)
  BY <1>2, <1>3 DEF Locked
<1>5. r.from # s.from
  <2>1. \A c \in s.from : c.of \in Locked(s)
    BY <1>2, <1>3 DEF Locked
  <2> QED BY <1>1, <1>3, <1>4, <2>1
<1>6. r.from # s.to
  <2>1. s.of \in Locked(s)
    BY <1>3, AccountsAssumption DEF Locked
  <2> QED BY <1>1, <1>3, <1>4, <2>1
<1> QED BY <1>2, <1>5, <1>6

LEMMA WrittenKeeps ==
    ASSUME LogInv, NEW p \in Procs, Place(p, "write"),
           NEW outcome \in {"applied", "unknown", "failed", "discarded"},
           did' = Append(did, Deed(p, outcome)), Recording(p),
           UNCHANGED <<logs, lock, left>>, item' \in [Stores -> SUBSET Grants]
    PROVE  LogInv' /\ RunGoes(p)
<1> DEFINE r == run[p]
           d == Deed(p, outcome)
           k == Len(did')
           t == Recorded(r, k)
<1>0. LogTypeOK /\ LocalsOf(p) /\ RecordOf(p) /\ r \in Runs /\ r.pc = "write" /\ r.wrote = None
      /\ did \in Seq(Deeds)
  BY AtWrite DEF LogTypeOK
<1>1. d \in Deeds /\ d.store = r.store /\ d.from = r.from /\ d.to = r.to
  <2>1. r.store \in Stores /\ r.dir \in Directions /\ r.from \in SUBSET Grants /\ r.to \in SUBSET Grants
    BY <1>0, RunFacts
  <2> QED BY <2>1 DEF Deed, Deeds
<1>2. DidGrows /\ did' \in Seq(Deeds) /\ k = Len(did) + 1 /\ did'[k] = d
  <2> HIDE DEF d
  <2> QED BY <1>0, <1>1, DidAppended DEF d
<1>3. k \in Nat /\ k \in DOMAIN did' /\ k \notin DOMAIN did /\ k # None /\ DOMAIN did' = 1 .. k
      /\ DOMAIN did = 1 .. k - 1
  BY <1>2 DEF DidGrows, None
<1>4. run' = [run EXCEPT ![p] = t]
  BY ZenonT(30) DEF Recording, Recorded
<1>5. /\ t \in Runs /\ t.pc = "append" /\ t.store = r.store /\ t.refresh = r.refresh /\ t.dir = r.dir /\ t.undone = r.undone
      /\ t.of = r.of /\ t.to = r.to /\ t.from = r.from /\ t.wrote = k /\ t.says = WriteEntry(k)
      /\ t.then = "config"
  <2> HIDE DEF k
  <2>1. r \in Runs /\ k \in Nat
    BY <1>0, <1>3
  <2> QED BY <2>1, RecordedFacts, ZenonT(30)
<1>6. WriteEntry(k).event = "write" /\ WriteEntry(k).n = k
  BY <1>3, EntryFacts
<1> HIDE DEF t, d, k
<1>7. run' \in [Procs -> Runs] /\ run'[p] = t /\ \A q \in Procs \ {p} : run'[q] = run[q]
  BY <1>0, <1>4, <1>5, RunPut DEF LogTypeOK
<1>8. Others(p)
  BY <1>7 DEF Others
<1>9. LogTypeOK'
  BY <1>0, <1>2, <1>7 DEF LogTypeOK, logs
<1>10. FilesGrow(p)
  BY FilesStay DEF logs
<1>11. Locked(t) = Locked(r)
  BY <1>5 DEF Locked
<1>12. LocalsOf(p)'
  BY <1>0, <1>5, <1>7, <1>11 DEF LocalsOf, Holding
<1>13. RecordOf(p)'
  <2>1. \A q \in Procs \ {p} : run'[q].wrote # k
    <3> SUFFICES ASSUME NEW q \in Procs \ {p}, run[q].wrote = k PROVE FALSE
      BY <1>7
    <3> QED BY <1>3 DEF LogInv, RecordOf
  <2> QED BY <1>1, <1>2, <1>3, <1>5, <1>6, <1>7, <2>1 DEF RecordOf, Writing
<1>14. NothingFollows(p)'
  <2>1. \A m \in DOMAIN did' : ~(k < m)
    BY <1>3
  <2> QED BY <1>5, <1>7, <2>1 DEF NothingFollows, Chained
<1>15. Unbegun(p)'
  <2> SUFFICES ASSUME NEW i \in DOMAIN files, NEW a \in DOMAIN files[i].lines,
                      NEW x \in DOMAIN files[i].lines[a], files[i].lines[a][x].of = WriteEntry(k)
               PROVE  FALSE
    BY <1>5, <1>6, <1>7 DEF Unbegun, Names, logs
  <2> QED BY <1>3, <1>6 DEF LogInv, FileInv
<1>16. ASSUME NEW q \in Procs \ {p} PROVE NothingFollows(q)'
  <2> SUFFICES ASSUME run[q].wrote # None, NEW m \in DOMAIN did', NEW n, n = run[q].wrote,
                      Chained(n, m)'
               PROVE  FALSE
    BY <1>7 DEF NothingFollows
  <2>1. /\ n \in DOMAIN did /\ did[n].store = run[q].store /\ did[n].from = run[q].from
        /\ did[n].to = run[q].to /\ run[q].pc \in Holding
        /\ \A j \in DOMAIN did : ~Chained(n, j)
    BY DEF LogInv, RecordOf, NothingFollows, Writing, Holding
  <2>2. m = k
    BY <1>2, <1>3, <2>1, ChainedKept
  <2>3. Successive(n, m)'
    BY <1>2, <2>1, <2>2, ChainedToNew DEF k
  <2>4. /\ did'[n].store = run[q].store /\ did'[n].from = run[q].from /\ did'[n].to = run[q].to
        /\ did'[m].store = r.store /\ did'[m].from = r.from
    BY <1>1, <1>2, <2>1, <2>2 DEF DidGrows, Kept
  <2>5. run[q].store = r.store /\ (r.store = Live => r.from \in {run[q].from, run[q].to})
    BY <2>3, <2>4 DEF Successive
  <2> QED BY <1>0, <2>1, <2>5, Apart DEF Holding
<1>17. (at.kind = "file" => at.file \in DOMAIN files)'
  BY DEF LogInv, logs
<1>18. \A q \in Procs \ {p} : Unbegun(q)'
  BY <1>7, <1>10, UnbegunKept
<1>19. (\A i \in DOMAIN files : FileInv(files[i]))'
  BY <1>2, <1>10, FilesKeep
<1>20. run'[p].wrote \notin DOMAIN did
  BY <1>3, <1>5, <1>7
<1>21. RunGoes(p)
  BY <1>5, <1>7 DEF RunGoes
<1> QED BY <1>21, <1>2, <1>8, <1>9, <1>12, <1>13, <1>14, <1>15, <1>16, <1>17, <1>18, <1>19, <1>20, StepKeeps

LEMMA WriteKeeps ==
    ASSUME LogInv, NEW p \in Procs, Write(p)
    PROVE  LogInv' /\ RunGoes(p)
<1>1. PICK outcome \in {"applied", "unknown", "failed"} :
         /\ did' = Append(did, Deed(p, outcome))
         /\ item' = [item EXCEPT ![run[p].store] = run[p].to] \/ UNCHANGED item
  BY DEF Write
<1>2. LogTypeOK /\ run[p].store \in Stores /\ run[p].to \in SUBSET Grants
  BY RunFacts DEF LogInv
<1>3. item' \in [Stores -> SUBSET Grants]
  BY <1>1, <1>2 DEF LogTypeOK
<1> QED BY <1>1, <1>3, WrittenKeeps DEF Write, Writable

LEMMA WithdrawKeeps ==
    ASSUME LogInv, NEW p \in Procs, Withdraw(p)
    PROVE  LogInv' /\ RunSteps(p)
<1>1. CASE run[p].refresh /\ run[p].to # run[p].from
  BY <1>1, WrittenKeeps DEF Withdraw, LogInv, LogTypeOK, RunSteps
<1>2. CASE ~(run[p].refresh /\ run[p].to # run[p].from)
  BY <1>2, EndsAlone DEF Withdraw
<1> QED BY <1>1, <1>2

-----------------------------------------------------------------------------
(* The appends.                                                            *)

\* Files of the log, after what p may have put into one.
Grown(p, F) ==
    /\ F \in Seq(Files)
    /\ \A i \in DOMAIN F : FileInv(F[i])
    /\ \A n \in DOMAIN did, i \in DOMAIN F : \A a \in DOMAIN F[i].lines :
         Names(F[i], a, n) =>
             \/ i \in DOMAIN files /\ a \in DOMAIN files[i].lines /\ Names(files[i], a, n)
             \/ run[p].wrote = n

LEMMA GrownFiles == ASSUME NEW p \in Procs, Grown(p, files') PROVE FilesGrow(p)
BY DEF Grown, FilesGrow

LEMMA FilesAreGrown == ASSUME LogInv, NEW p \in Procs PROVE Grown(p, files)
BY DEF LogInv, LogTypeOK, Grown

\* What an open finds or makes.
LEMMA CreatedFacts ==
    ASSUME LogInv, NEW p \in Procs, Appendable(at, files)
    PROVE  LET F == Created(at, files)
               i == Opened(at, files)
           IN  /\ Grown(p, F) /\ i \in DOMAIN F /\ i \in Nat
               /\ \A n : \A a \in DOMAIN F[i].lines : Names(F[i], a, n) => i \in DOMAIN files /\ F[i] = files[i]
<1>0. files \in Seq(Files) /\ Grown(p, files)
  BY FilesAreGrown DEF LogInv, LogTypeOK
<1>1. CASE at.kind = "absent"
  <2> DEFINE F == Append(files, NewFile)
             i == Len(files) + 1
  <2>1. Created(at, files) = F /\ Opened(at, files) = i
    BY <1>1 DEF Created, Opened
  <2>2. /\ F \in Seq(Files) /\ DOMAIN F = 1 .. i /\ F[i] = NewFile /\ DOMAIN files = 1 .. Len(files)
        /\ \A j \in DOMAIN files : F[j] = files[j]
    BY <1>0, NewFileFacts
  <2>3. i \in DOMAIN F /\ i \in Nat
    BY <1>0, <2>2
  <2> HIDE DEF F, i
  <2>4. \A j \in DOMAIN F : FileInv(F[j])
    BY <1>0, <2>2, NewFileKeeps DEF Grown, i
  <2>5. \A n \in DOMAIN did, j \in DOMAIN F : \A a \in DOMAIN F[j].lines :
          Names(F[j], a, n) => j \in DOMAIN files /\ a \in DOMAIN files[j].lines /\ Names(files[j], a, n)
    BY <1>0, <2>2, NewFileFacts DEF i
  <2>6. Grown(p, F)
    BY <2>2, <2>4, <2>5 DEF Grown
  <2> QED BY <2>1, <2>2, <2>3, <2>6, NewFileFacts
<1>2. CASE at.kind # "absent"
  <2>1. Created(at, files) = files /\ Opened(at, files) = at.file /\ at.kind = "file"
    BY <1>2 DEF Created, Opened, Appendable
  <2>2. at.file \in DOMAIN files /\ at.file \in Nat
    BY <2>1 DEF LogInv, LogTypeOK
  <2> QED BY <1>0, <2>1, <2>2
<1> QED BY <1>1, <1>2

\* One file of them is changed.
LEMMA GrownPut ==
    ASSUME NEW p \in Procs, NEW F, Grown(p, F), NEW i \in DOMAIN F, NEW g \in Files, FileInv(g),
           \A n \in DOMAIN did, a \in DOMAIN g.lines :
             Names(g, a, n) => (a \in DOMAIN F[i].lines /\ Names(F[i], a, n)) \/ run[p].wrote = n
    PROVE  Grown(p, [F EXCEPT ![i] = g])
<1> DEFINE G == [F EXCEPT ![i] = g]
<1>1. G \in Seq(Files) /\ DOMAIN G = DOMAIN F /\ G[i] = g /\ \A j \in DOMAIN F : j # i => G[j] = F[j]
  BY DEF Grown
<1> HIDE DEF G
<1>2. \A j \in DOMAIN G : FileInv(G[j])
  BY <1>1 DEF Grown
<1>3. ASSUME NEW n \in DOMAIN did, NEW j \in DOMAIN G, NEW a \in DOMAIN G[j].lines, Names(G[j], a, n)
      PROVE  \/ j \in DOMAIN files /\ a \in DOMAIN files[j].lines /\ Names(files[j], a, n)
             \/ run[p].wrote = n
  <2>1. CASE j = i
    BY <1>1, <1>3, <2>1 DEF Grown
  <2>2. CASE j # i
    BY <1>1, <1>3, <2>2 DEF Grown
  <2> QED BY <2>1, <2>2
<1>4. Grown(p, G)
  BY <1>1, <1>2, <1>3 DEF Grown
<1> QED BY <1>4 DEF G

LEMMA GrownSame ==
    ASSUME NEW p \in Procs, NEW F, Grown(p, F), NEW i, i \notin DOMAIN F, NEW g
    PROVE  Grown(p, [F EXCEPT ![i] = g])
<1>1. [F EXCEPT ![i] = g] = F
  BY DEF Grown
<1> QED BY <1>1

\* A run that is to append has its own write to tell of, which nothing follows.
LEMMA SaysFacts ==
    ASSUME LogInv, NEW p \in Procs, run[p].pc \in Writing
    PROVE  /\ run[p].says \in Entries
           /\ run[p].says.event = "write" =>
                /\ run[p].says.n = run[p].wrote /\ run[p].wrote \in DOMAIN did
                /\ \A m \in DOMAIN did : ~Chained(run[p].wrote, m)
<1>1. run[p].says \in Entries /\ RecordOf(p) /\ NothingFollows(p)
  BY RunFacts DEF LogInv
<1> QED BY <1>1 DEF RecordOf, NothingFollows

LEMMA GrownExtended ==
    ASSUME LogInv, NEW p \in Procs, run[p].pc \in Writing, NEW F, Grown(p, F), NEW i,
           NEW w \in {"whole", "head", "rest"}, NEW ends \in BOOLEAN,
           i \in DOMAIN F /\ w # "rest" /\ run[p].says.event = "write" =>
               \A a \in DOMAIN F[i].lines : ~Names(F[i], a, run[p].says.n)
    PROVE  Grown(p, [F EXCEPT ![i] = Extended(F[i], Part(run[p].says, w), ends)])
<1>1. CASE i \notin DOMAIN F
  BY <1>1, GrownSame
<1>2. CASE i \in DOMAIN F
  <2> DEFINE e == run[p].says
             part == Part(e, w)
             g == Extended(F[i], part, ends)
  <2>1. F[i] \in Files /\ FileInv(F[i]) /\ did \in Seq(Deeds)
    BY <1>2 DEF Grown, LogInv, LogTypeOK
  <2>2. e \in Entries /\ part \in Parts /\ part.of = e
    BY SaysFacts, PartFacts
  <2>3. FileInv(g)
    BY <1>2, <2>1, <2>2, SaysFacts, ExtendedKeeps
  <2>4. /\ g \in Files
        /\ \A a \in DOMAIN g.lines : \A x \in DOMAIN g.lines[a] :
             \/ a \in DOMAIN F[i].lines /\ x \in DOMAIN F[i].lines[a] /\ g.lines[a][x] = F[i].lines[a][x]
             \/ a = Len(g.lines) /\ g.lines[a][x] = part
    BY <2>1, <2>2, ExtendedFacts
  <2> HIDE DEF g, part
  <2>5. ASSUME NEW n \in DOMAIN did, NEW a \in DOMAIN g.lines, Names(g, a, n)
        PROVE  (a \in DOMAIN F[i].lines /\ Names(F[i], a, n)) \/ run[p].wrote = n
    <3>1. PICK x \in DOMAIN g.lines[a] : g.lines[a][x].of = WriteEntry(n)
      BY <2>5 DEF Names
    <3>2. WriteEntry(n).event = "write" /\ WriteEntry(n).n = n
      BY <2>1, DidFacts, EntryFacts
    <3> QED BY <2>2, <2>4, <3>1, <3>2, SaysFacts DEF Names
  <2>6. Grown(p, [F EXCEPT ![i] = g])
    BY <1>2, <2>3, <2>4, <2>5, GrownPut
  <2> QED BY <2>6 DEF g, part
<1> QED BY <1>1, <1>2

LEMMA GrownEnded ==
    ASSUME NEW p \in Procs, NEW F, Grown(p, F), NEW i
    PROVE  Grown(p, [F EXCEPT ![i] = Ended(F[i])])
<1>1. CASE i \notin DOMAIN F
  BY <1>1, GrownSame
<1>2. CASE i \in DOMAIN F
  <2>1. F[i] \in Files /\ FileInv(F[i])
    BY <1>2 DEF Grown
  <2>2. Ended(F[i]) \in Files /\ FileInv(Ended(F[i])) /\ Ended(F[i]).lines = F[i].lines
    BY <2>1, EndedKeeps DEF Ended, Files
  <2>3. \A n \in DOMAIN did, a \in DOMAIN Ended(F[i]).lines :
          Names(Ended(F[i]), a, n) => a \in DOMAIN F[i].lines /\ Names(F[i], a, n)
    BY <2>2 DEF Names
  <2> QED BY <1>2, <2>2, <2>3, GrownPut
<1> QED BY <1>1, <1>2

LEMMA TellsFacts ==
    ASSUME LogInv, NEW p \in Procs, run[p].pc \in Writing,
           NEW how \in {"pending", "told", "torn", "refused"}, Tells(p, how)
    PROVE  DidGrows /\ did' \in Seq(Deeds) /\ Len(did') = Len(did)
<1>1. did \in Seq(Deeds)
  BY DEF LogInv, LogTypeOK
<1>2. CASE run[p].says.event = "write"
  <2>1. run[p].says.n \in DOMAIN did
    BY <1>2, SaysFacts
  <2>2. did' = [did EXCEPT ![run[p].says.n].entry = how]
    BY <1>2 DEF Tells
  <2> QED BY <1>1, <2>1, <2>2, DidTold
<1>3. CASE run[p].says.event # "write"
  BY <1>1, <1>3, DidStays DEF Tells
<1> QED BY <1>2, <1>3

\* Two places of a run between which its descriptor may change.
Alike(r, t) == /\ t.store = r.store /\ t.refresh = r.refresh /\ t.dir = r.dir
               /\ t.undone = r.undone
               /\ t.of = r.of /\ t.to = r.to /\ t.from = r.from
               /\ t.wrote = r.wrote /\ t.says = r.says /\ t.then = r.then

LEMMA OpeningAlike ==
    ASSUME NEW r \in Runs, NEW i \in Nat, NEW x \in Places
    PROVE  Opening(r, i, x) \in Runs /\ Opening(r, i, x).pc = x /\ Alike(r, Opening(r, i, x))
BY OpeningFacts DEF Alike

\* A step of an append: the locals stay, but for the place and the descriptor.
LEMMA AppendKeeps ==
    ASSUME LogInv, NEW p \in Procs, run[p].pc \in Writing, NEW x, x \in {"rest", "newline", run[p].then},
           NEW i \in Nat, run' = [run EXCEPT ![p] = Opening(run[p], i, x)],
           UNCHANGED <<item, lock>>, left' \in [Allowances -> Nat],
           did' \in Seq(Deeds), DidGrows, Len(did') = Len(did), FilesGrow(p),
           at' \in [kind : {"absent", "file", "link"}, file : Nat],
           (at.kind = "file" => at.file \in DOMAIN files)'
    PROVE  LogInv' /\ RunGoes(p)
<1> DEFINE r == run[p]
           t == Opening(r, i, x)
<1>0. LogTypeOK /\ LocalsOf(p) /\ RecordOf(p) /\ r \in Runs /\ r.then \in Places
  BY RunFacts DEF LogInv
<1>1. x \in Places /\ (r.wrote = None => x \in {"rest", "newline", "write"})
      /\ (r.wrote # None => x \in {"rest", "newline", "config", "over"})
  BY <1>0 DEF RecordOf, Places
<1>2. /\ t \in Runs /\ t.pc = x /\ t.store = r.store /\ t.refresh = r.refresh /\ t.dir = r.dir /\ t.undone = r.undone
      /\ t.of = r.of /\ t.to = r.to /\ t.from = r.from /\ t.wrote = r.wrote /\ t.says = r.says
      /\ t.then = r.then
  <2>1. r \in Runs /\ x \in Places /\ i \in Nat
    BY <1>0, <1>1
  <2>2. t \in Runs /\ t.pc = x /\ Alike(r, t)
    BY <2>1, OpeningAlike
  <2> HIDE DEF t
  <2> QED BY <2>2 DEF Alike
<1> HIDE DEF t
<1>3. run' \in [Procs -> Runs] /\ run'[p] = t /\ \A q \in Procs \ {p} : run'[q] = run[q]
  BY <1>0, <1>2, RunPut DEF LogTypeOK, t
<1>4. LogTypeOK'
  BY <1>0, <1>3 DEF LogTypeOK, FilesGrow
<1>5. Others(p)
  BY <1>3 DEF Others
<1>6. Locked(t) = Locked(r)
  BY <1>2 DEF Locked
<1>7. LocalsOf(p)'
  BY <1>0, <1>1, <1>2, <1>3, <1>6 DEF LocalsOf, Holding, Writing
<1>8. RecordOf(p)'
  <2>1. ASSUME r.wrote # None
        PROVE  /\ r.wrote \in DOMAIN did' /\ did'[r.wrote].store = r.store
               /\ did'[r.wrote].from = r.from /\ did'[r.wrote].to = r.to
               /\ \A q \in Procs \ {p} : run'[q].wrote # r.wrote
    BY <1>0, <1>3, <2>1 DEF RecordOf, DidGrows, Kept
  <2> QED BY <1>0, <1>1, <1>2, <1>3, <2>1 DEF RecordOf, Writing
<1>9. Unbegun(p)'
  BY <1>1, <1>2, <1>3 DEF Unbegun
<1>10. RunGoes(p)
  BY <1>1, <1>2, <1>3 DEF RunGoes
<1> QED BY <1>10, <1>2, <1>3, <1>4, <1>5, <1>7, <1>8, <1>9, QuietKeeps

LEMMA AppendableFacts ==
    ASSUME LogInv, NEW p \in Procs, run[p].pc \in Writing, run[p].fd # None \/ Appendable(at, files)
    PROVE  /\ Grown(p, Reached(p)) /\ Through(p) \in Nat
           /\ run[p].fd = None => Through(p) \in DOMAIN Reached(p)
           /\ run[p].fd # None => Reached(p) = files
           /\ run[p].pc = "append" /\ run[p].says.event = "write" /\ Through(p) \in DOMAIN Reached(p) =>
                 \A a \in DOMAIN Reached(p)[Through(p)].lines :
                     ~Names(Reached(p)[Through(p)], a, run[p].says.n)
<1>0. run[p].fd \in Nat /\ Unbegun(p)
  BY RunFacts DEF LogInv
<1>1. CASE run[p].fd = None
  <2>1. Reached(p) = Created(at, files) /\ Through(p) = Opened(at, files)
    BY <1>1 DEF Reached, Through
  <2> QED BY <1>0, <1>1, <2>1, CreatedFacts DEF Unbegun
<1>2. CASE run[p].fd # None
  <2>1. Reached(p) = files /\ Through(p) = run[p].fd
    BY <1>2 DEF Reached, Through
  <2> QED BY <1>0, <1>2, <2>1, FilesAreGrown DEF Unbegun
<1> QED BY <1>1, <1>2

LEMMA GrownDomain ==
    ASSUME NEW p \in Procs, NEW F, Grown(p, F), NEW i, NEW g
    PROVE  DOMAIN [F EXCEPT ![i] = g] = DOMAIN F
OBVIOUS

LEMMA RefuseKeeps ==
    ASSUME LogInv, NEW p \in Procs, Refuse(p)
    PROVE  LogInv' /\ RunGoes(p)
<1>1. LogTypeOK /\ run[p] \in Runs /\ run[p].fd \in Nat /\ run[p].pc \in Writing
  BY RunFacts DEF LogInv, Refuse, Place, Writing
<1>2. run' = [run EXCEPT ![p] = Opening(run[p], run[p].fd, run[p].then)]
  <2>1. Moved(run[p], run[p].then) = Opening(run[p], run[p].fd, run[p].then)
    BY <1>1, ZenonT(30) DEF Moved, Opening, Runs
  <2> QED BY <2>1, ZenonT(30) DEF Refuse, Moves, Moved
<1>3. DidGrows /\ did' \in Seq(Deeds) /\ Len(did') = Len(did)
  BY <1>1, TellsFacts DEF Refuse
<1>4. FilesGrow(p)
  BY FilesStay DEF Refuse, logs
<1>5. (at.kind = "file" => at.file \in DOMAIN files)'
  BY DEF LogInv, Refuse, logs
<1> QED BY <1>1, <1>2, <1>3, <1>4, <1>5, AppendKeeps DEF Refuse, LogTypeOK, logs

LEMMA Write1Keeps ==
    ASSUME LogInv, NEW p \in Procs, Write1(p)
    PROVE  LogInv' /\ RunGoes(p)
<1> DEFINE r == run[p]
           i == Through(p)
           F == Reached(p)
           Put(w, ends) == [F EXCEPT ![i] = Extended(F[i], Part(r.says, w), ends)]
<1>1. /\ LogTypeOK /\ r \in Runs /\ r.fd \in Nat /\ r.pc \in Writing /\ r.pc = "append"
      /\ r.fd # None \/ Appendable(at, files)
  BY RunFacts DEF LogInv, Write1, Place, Writing
<1>2. /\ Grown(p, F) /\ i \in Nat /\ (r.fd = None => i \in DOMAIN F)
      /\ r.fd # None => F = files
  BY <1>1, AppendableFacts
<1>3. \A w \in {"whole", "head"}, ends \in BOOLEAN : Grown(p, Put(w, ends))
  BY <1>1, <1>2, AppendableFacts, GrownExtended
<1>4. /\ \/ \E w \in {"whole", "head"}, ends \in BOOLEAN : files' = Put(w, ends)
         \/ files' = F
      /\ \/ Tells(p, "told") /\ Moves(p, r.then) /\ UNCHANGED left
         \/ Spend("tears") /\ UNCHANGED did /\ run' = [run EXCEPT ![p].fd = i, ![p].pc = "rest"]
         \/ Spend("tears") /\ UNCHANGED did /\ run' = [run EXCEPT ![p].fd = i, ![p].pc = "newline"]
         \/ Spend("tears") /\ Tells(p, "torn") /\ Moves(p, r.then)
      /\ at' = (IF r.fd = None THEN Named(i) ELSE at) /\ UNCHANGED <<item, lock>>
  BY DEF Write1
<1> HIDE DEF F, i
<1>5. Grown(p, files') /\ DOMAIN files' = DOMAIN F
  BY <1>2, <1>3, <1>4
<1> HIDE DEF Put
<1>6. FilesGrow(p)
  BY <1>5, GrownFiles
<1>7. /\ at' \in [kind : {"absent", "file", "link"}, file : Nat]
      /\ (at.kind = "file" => at.file \in DOMAIN files)'
  <2>1. CASE r.fd = None
    BY <1>2, <1>4, <1>5, <2>1 DEF Named
  <2>2. CASE r.fd # None
    BY <1>1, <1>2, <1>4, <1>5, <2>2 DEF LogInv, LogTypeOK
  <2> QED BY <2>1, <2>2
<1>8. DidGrows /\ did' \in Seq(Deeds) /\ Len(did') = Len(did)
  BY <1>1, <1>4, TellsFacts, DidStays DEF LogTypeOK
<1>9. left' \in [Allowances -> Nat]
  BY <1>1, <1>4, SpendType DEF LogTypeOK, Allowances
<1>10. \E x \in {"rest", "newline", r.then}, j \in Nat : run' = [run EXCEPT ![p] = Opening(r, j, x)]
  <2>1. CASE Moves(p, r.then)
    <3>1. Moved(r, r.then) = Opening(r, r.fd, r.then)
      BY <1>1, ZenonT(30) DEF Moved, Opening, Runs
    <3>2. run' = [run EXCEPT ![p] = Opening(r, r.fd, r.then)]
      BY <2>1, <3>1, ZenonT(30) DEF Moves, Moved
    <3> QED BY <1>1, <3>2
  <2>2. CASE run' = [run EXCEPT ![p].fd = i, ![p].pc = "rest"]
    <3>1. run' = [run EXCEPT ![p] = Opening(r, i, "rest")]
      BY <2>2, ZenonT(30) DEF Opening
    <3> QED BY <1>2, <3>1
  <2>3. CASE run' = [run EXCEPT ![p].fd = i, ![p].pc = "newline"]
    <3>1. run' = [run EXCEPT ![p] = Opening(r, i, "newline")]
      BY <2>3, ZenonT(30) DEF Opening
    <3> QED BY <1>2, <3>1
  <2> QED BY <1>4, <2>1, <2>2, <2>3
<1>11. PICK x \in {"rest", "newline", r.then}, j \in Nat : run' = [run EXCEPT ![p] = Opening(r, j, x)]
  BY <1>10
<1> QED BY <1>1, <1>4, <1>6, <1>7, <1>8, <1>9, <1>11, AppendKeeps

LEMMA Write2Keeps ==
    ASSUME LogInv, NEW p \in Procs, Write2(p)
    PROVE  LogInv' /\ RunGoes(p)
<1> DEFINE r == run[p]
           i == r.fd
           j == IF r.store = Live THEN r.fd ELSE None
<1>1. /\ LogTypeOK /\ r \in Runs /\ r.fd \in Nat /\ j \in Nat /\ r.pc \in Writing
  BY RunFacts DEF LogInv, Write2, Place, Writing, None
<1>2. Grown(p, files) /\ LogTypeOK
  BY <1>1, FilesAreGrown
<1>3. /\ \/ files' = [files EXCEPT ![i] = Extended(files[i], Part(r.says, "rest"), TRUE)]
         \/ files' = [files EXCEPT ![i] = Ended(files[i])]
         \/ files' = files
      /\ Tells(p, "told") \/ Tells(p, "torn")
      /\ UNCHANGED <<at, item, lock, left>>
  BY DEF Write2
<1>4. Grown(p, files') /\ DOMAIN files' = DOMAIN files
  <2>1. Grown(p, [files EXCEPT ![i] = Extended(files[i], Part(r.says, "rest"), TRUE)])
    BY <1>1, <1>2, GrownExtended
  <2>2. Grown(p, [files EXCEPT ![i] = Ended(files[i])])
    BY <1>2, GrownEnded
  <2> QED BY <1>2, <1>3, <2>1, <2>2
<1>5. FilesGrow(p)
  BY <1>4, GrownFiles
<1>6. DidGrows /\ did' \in Seq(Deeds) /\ Len(did') = Len(did)
  BY <1>1, <1>3, TellsFacts
<1>7. run' = [run EXCEPT ![p] = Opening(r, j, r.then)]
  BY ZenonT(30) DEF Write2, Opening
<1>8. /\ at' \in [kind : {"absent", "file", "link"}, file : Nat]
      /\ (at.kind = "file" => at.file \in DOMAIN files)'
      /\ left' \in [Allowances -> Nat]
  BY <1>1, <1>3, <1>4 DEF LogInv, LogTypeOK
<1> HIDE DEF j
<1> QED BY <1>1, <1>3, <1>5, <1>6, <1>7, <1>8, AppendKeeps

LEMMA GateKeeps ==
    ASSUME LogInv, NEW p \in Procs, Gate(p)
    PROVE  LogInv' /\ RunSteps(p)
<1> DEFINE r == run[p]
           i == Opened(at, files)
           t == Opening(r, i, "write")
<1>0. LogTypeOK /\ LocalsOf(p) /\ RecordOf(p) /\ r \in Runs /\ r.pc = "gate"
  BY RunFacts DEF LogInv, Gate, Place
<1>1. CASE ~Appendable(at, files)
  BY <1>1, EndsAlone DEF Gate, logs
<1>2. CASE Appendable(at, files)
  <2>1. Grown(p, files') /\ i \in DOMAIN files' /\ i \in Nat
    BY <1>2, CreatedFacts DEF Gate
  <2>2. FilesGrow(p)
    BY <2>1, GrownFiles
  <2>3. run' = [run EXCEPT ![p] = t]
    BY <1>2, ZenonT(30) DEF Gate, Opening
  <2>4. /\ t \in Runs /\ t.pc = "write" /\ t.store = r.store /\ t.refresh = r.refresh /\ t.dir = r.dir /\ t.undone = r.undone
        /\ t.of = r.of /\ t.to = r.to /\ t.from = r.from /\ t.wrote = r.wrote
    <3> HIDE DEF i
    <3>1. "write" \in Places
      BY DEF Places
    <3> QED BY <1>0, <2>1, <3>1, OpeningFacts, ZenonT(30)
  <2> HIDE DEF t
  <2>5. run' \in [Procs -> Runs] /\ run'[p] = t /\ \A q \in Procs \ {p} : run'[q] = run[q]
    BY <1>0, <2>3, <2>4, RunPut DEF LogTypeOK
  <2>6. at' = Named(i) /\ UNCHANGED <<lock, item, did, left>>
    BY <1>2 DEF Gate
  <2> HIDE DEF i
  <2>7. /\ at' \in [kind : {"absent", "file", "link"}, file : Nat]
        /\ (at.kind = "file" => at.file \in DOMAIN files)'
    BY <2>1, <2>6 DEF Named
  <2>8. LogTypeOK'
    BY <1>0, <2>2, <2>5, <2>6, <2>7 DEF LogTypeOK, FilesGrow
  <2>9. DidGrows /\ Len(did') = Len(did)
    BY <1>0, <2>6, DidStays DEF LogTypeOK
  <2>10. Others(p)
    BY <2>5, <2>6 DEF Others
  <2>11. Locked(t) = Locked(r)
    BY <2>4 DEF Locked
  <2>12. LocalsOf(p)' /\ RecordOf(p)' /\ Unbegun(p)'
    BY <1>0, <2>4, <2>5, <2>6, <2>11 DEF LocalsOf, RecordOf, Unbegun, Holding, Writing
  <2>13. RunSteps(p)
    BY <2>4, <2>5 DEF RunSteps, RunGoes
  <2> QED BY <2>13, <2>2, <2>4, <2>5, <2>7, <2>8, <2>9, <2>10, <2>12, QuietKeeps
<1> QED BY <1>1, <1>2

LEMMA TamperKeeps ==
    ASSUME LogInv, Tamper
    PROVE  LogInv'
<1>0. LogTypeOK /\ files \in Seq(Files)
  BY DEF LogInv, LogTypeOK
<1>1. left' \in [Allowances -> Nat]
  BY <1>0, SpendType DEF LogTypeOK, Tamper, Allowances
<1>2. CASE at.kind = "file" /\ files' = [files EXCEPT ![at.file].fit = ~@] /\ UNCHANGED at
  <2> DEFINE f == files[at.file]
             g == [f EXCEPT !.fit = ~@]
  <2>1. at.file \in DOMAIN files /\ f \in Files
    BY <1>0, <1>2 DEF LogInv
  <2>2. g \in Files /\ g.lines = f.lines
    BY <2>1 DEF Files
  <2>3. files' = [files EXCEPT ![at.file] = g]
    BY <1>2
  <2> HIDE DEF g
  <2>4. files' \in Seq(Files) /\ DOMAIN files' = DOMAIN files
        /\ \A i \in DOMAIN files : files'[i] = IF i = at.file THEN g ELSE files[i]
    BY <1>0, <2>1, <2>2, <2>3
  <2>5. LogTypeOK'
    BY <1>0, <1>1, <1>2, <2>4 DEF LogTypeOK, Tamper
  <2> QED BY <1>2, <2>1, <2>2, <2>4, <2>5, BesideKeeps DEF Tamper
<1>3. CASE at' \in {Nothing, Refused} /\ UNCHANGED files
  <2>1. LogTypeOK'
    BY <1>0, <1>1, <1>3 DEF LogTypeOK, Tamper, Nothing, Refused
  <2> QED BY <1>3, <2>1, BesideKeeps DEF Tamper, Nothing, Refused
<1> QED BY <1>2, <1>3 DEF Tamper

LEMMA ElsewhereKeeps ==
    ASSUME LogInv, NEW s \in Stores, NEW S \in SUBSET Grants, Elsewhere(s, S)
    PROVE  LogInv'
<1>1. LogTypeOK' /\ at' = at /\ files' = files
  BY SpendType DEF LogInv, LogTypeOK, Elsewhere, logs, Allowances
<1> QED BY <1>1, BesideKeeps DEF Elsewhere, LogInv

LEMMA StutterKeeps ==
    ASSUME LogInv, UNCHANGED <<logs, item, did, lock, run>>, left' \in [Allowances -> Nat]
    PROVE  LogInv'
<1>1. LogTypeOK' /\ at' = at /\ files' = files
  BY DEF LogInv, LogTypeOK, logs
<1> QED BY <1>1, BesideKeeps DEF LogInv

-----------------------------------------------------------------------------
(* What the runs know beside.                                              *)

Stepped(x, s) == [x EXCEPT !.step = s]
Sourcing(x, s) == [x EXCEPT !.source = s]
Displacing(x, S) == [x EXCEPT !.out = S]
Posted(x, B, s) == [x EXCEPT !.basis = B, !.step = s]
Answered(r, x, answer) ==
    [r EXCEPT !.step = "renew", !.source = x.source, !.out = x.out, !.what = answer.what,
              !.home = answer.home, !.prior = answer.prior]

Phases == {"decide", "renew", "save", "adopt", "ready"}

LEMMA PlanValues ==
    ASSUME NEW x \in Plans
    PROVE  /\ x.source \in {"own", "copy"} /\ x.out \in SUBSET Grants
           /\ x.what \in {"nothing", "copy", "staged", "store"} /\ x.home \in Accounts \cup {Live}
           /\ x.prior \in SUBSET Grants /\ x.basis \in SUBSET Grants /\ x.step \in Phases
BY DEF Plans, Phases

LEMMA NoPlanType == NoPlan \in Plans /\ NoPlan.what = "nothing"
BY DEF NoPlan, Plans

LEMMA SteppedFacts ==
    ASSUME NEW x \in Plans, NEW s \in Phases
    PROVE  /\ Stepped(x, s) \in Plans /\ Stepped(x, s).source = x.source /\ Stepped(x, s).what = x.what
           /\ Stepped(x, s).step = s /\ Stepped(x, s).out = x.out /\ Stepped(x, s).home = x.home
           /\ Stepped(x, s).prior = x.prior
BY ZenonT(30) DEF Stepped, Plans, Phases

LEMMA SourcingFacts ==
    ASSUME NEW x \in Plans, NEW s \in {"own", "copy"}
    PROVE  /\ Sourcing(x, s) \in Plans /\ Sourcing(x, s).source = s /\ Sourcing(x, s).what = x.what
           /\ Sourcing(x, s).step = x.step /\ Sourcing(x, s).out = x.out
BY ZenonT(30) DEF Sourcing, Plans

LEMMA DisplacingFacts ==
    ASSUME NEW x \in Plans, NEW S \in SUBSET Grants
    PROVE  /\ Displacing(x, S) \in Plans /\ Displacing(x, S).source = x.source
           /\ Displacing(x, S).what = x.what /\ Displacing(x, S).step = x.step
           /\ Displacing(x, S).out = S
BY ZenonT(30) DEF Displacing, Plans

LEMMA PostedFacts ==
    ASSUME NEW x \in Plans, NEW B \in SUBSET Grants, NEW s \in Phases
    PROVE  /\ Posted(x, B, s) \in Plans /\ Posted(x, B, s).source = x.source
           /\ Posted(x, B, s).what = x.what /\ Posted(x, B, s).step = s /\ Posted(x, B, s).out = x.out
           /\ Posted(x, B, s).home = x.home /\ Posted(x, B, s).prior = x.prior
BY ZenonT(30) DEF Posted, Plans, Phases

\* What becomes of a displaced credential.
Answers == [what : {"nothing", "copy", "staged", "store"}, home : Accounts \cup {Live},
            prior : SUBSET Grants]

LEMMA AnsweredFacts ==
    ASSUME NEW x \in Plans, NEW answer \in Answers
    PROVE  LET y == Answered(NoPlan, x, answer) IN
           /\ y \in Plans /\ y.source = x.source /\ y.what = answer.what /\ y.step = "renew"
           /\ y.out = x.out /\ y.home = answer.home /\ y.prior = answer.prior
<1>1. /\ answer.what \in {"nothing", "copy", "staged", "store"} /\ answer.home \in Accounts \cup {Live}
      /\ answer.prior \in SUBSET Grants
  BY DEF Answers
<1>2. x.source \in {"own", "copy"} /\ x.out \in SUBSET Grants
  BY PlanValues
<1>3. NoPlan \in Plans
  BY NoPlanType
<1>4. \A r \in Plans : LET y == Answered(r, x, answer) IN
        /\ y \in Plans /\ y.source = x.source /\ y.what = answer.what /\ y.step = "renew"
        /\ y.out = x.out /\ y.home = answer.home /\ y.prior = answer.prior
  BY <1>1, <1>2, ZenonT(30) DEF Answered, Plans
<1> QED BY <1>3, <1>4

LEMMA PlanPut ==
    ASSUME plan \in [Procs -> Plans], NEW p \in Procs, NEW x \in Plans, plan' = [plan EXCEPT ![p] = x]
    PROVE  plan' \in [Procs -> Plans] /\ plan'[p] = x /\ \A q \in Procs \ {p} : plan'[q] = plan[q]
OBVIOUS

LEMMA SwapFacts ==
    ASSUME SwapInv, NEW p \in Procs
    PROVE  /\ LogInv /\ LogTypeOK /\ SwapTypeOK /\ PlanOf(p)
           /\ plan[p] \in Plans /\ plan \in [Procs -> Plans] /\ run \in [Procs -> Runs]
BY DEF SwapInv, LogInv, LogTypeOK, SwapTypeOK

\* A step of p that goes on, or ends with nothing decided.
LEMMA PlansKeep ==
    ASSUME SwapInv, LogInv', SwapTypeOK', NEW p \in Procs, NEW x \in Plans,
           plan' = [plan EXCEPT ![p] = x],
           \/ RunEnds(p) /\ x = NoPlan
           \/ RunGoes(p) /\ x.source = plan[p].source /\ x.what = plan[p].what
    PROVE  SwapInv'
<1>1. plan'[p] = x /\ \A q \in Procs \ {p} : plan'[q] = plan[q]
  BY SwapFacts, PlanPut
<1>2. \A q \in Procs \ {p} : PlanOf(q) /\ run'[q] = run[q]
  BY SwapFacts DEF RunEnds, RunGoes
<1>3. \A q \in Procs \ {p} : PlanOf(q)'
  BY <1>1, <1>2 DEF PlanOf, Place, OnLive
<1>4. PlanOf(p)'
  <2>1. CASE RunEnds(p) /\ x = NoPlan
    <3>1. run'[p] = Idle /\ Idle.dir = "forward"
      BY <2>1 DEF RunEnds, Idle
    <3> QED BY <1>1, <2>1, <3>1 DEF PlanOf, Place, OnLive
  <2>2. CASE RunGoes(p) /\ x.source = plan[p].source /\ x.what = plan[p].what
    BY <1>1, <2>2, SwapFacts DEF PlanOf, Place, OnLive, RunGoes
  <2> QED BY <2>1, <2>2
<1> QED BY <1>3, <1>4 DEF SwapInv

LEMMA PlansStay ==
    ASSUME SwapInv, LogInv', SwapTypeOK', UNCHANGED plan,
           (\E p \in Procs : RunGoes(p)) \/ UNCHANGED run
    PROVE  SwapInv'
<1>1. CASE UNCHANGED run
  BY <1>1 DEF SwapInv, PlanOf, Place, OnLive
<1>2. ASSUME NEW p \in Procs, RunGoes(p) PROVE SwapInv'
  <2>1. plan' = [plan EXCEPT ![p] = plan[p]] /\ plan[p] \in Plans
    BY SwapFacts
  <2> QED BY <1>2, <2>1, PlansKeep
<1> QED BY <1>1, <1>2

LEMMA HomesStay ==
    ASSUME SwapTypeOK, UNCHANGED <<homes, server>>, plan' \in [Procs -> Plans] PROVE SwapTypeOK'
BY DEF SwapTypeOK, homes, server

LEMMA DoneKeeps ==
    ASSUME SwapInv, LogInv', NEW p \in Procs, RunSteps(p), Done(p),
           plan' \in [Procs -> Plans] => SwapTypeOK'
    PROVE  SwapInv'
<1> DEFINE x == IF run'[p].pc = "idle" THEN NoPlan ELSE plan[p]
<1>1. plan' = [plan EXCEPT ![p] = x]
  BY DEF Done
<1>2. x \in Plans
  BY SwapFacts, NoPlanType
<1>3. SwapTypeOK'
  BY <1>1, <1>2, SwapFacts, PlanPut
<1>4. \/ RunEnds(p) /\ x = NoPlan
      \/ RunGoes(p) /\ x.source = plan[p].source /\ x.what = plan[p].what
  BY DEF RunSteps, RunEnds, RunGoes, Idle
<1> HIDE DEF x
<1> QED BY <1>1, <1>2, <1>3, <1>4, PlansKeep

-----------------------------------------------------------------------------
(* The steps of a swap.                                                    *)

LEMMA SwapBegins ==
    ASSUME SwapInv, NEW p \in Procs, LogInv', Starts(p), run'[p].dir = "forward", UNCHANGED swapVars
    PROVE  SwapInv'
<1>1. SwapTypeOK'
  BY SwapFacts, HomesStay DEF swapVars, SwapTypeOK
<1>2. ASSUME NEW q \in Procs PROVE PlanOf(q)'
  BY SwapFacts DEF PlanOf, Place, OnLive, Starts, swapVars
<1> QED BY <1>1, <1>2 DEF SwapInv

LEMMA SwapStep == ASSUME SwapInv, NEW p \in Procs, NEW s \in Stores, NEW a \in Accounts, Swap(p, s, a) PROVE SwapInv'
BY SwapFacts, StartSwapKeeps, SwapBegins DEF Swap

LEMMA RefreshStep == ASSUME SwapInv, NEW p \in Procs, NEW s \in Stores, Refresh(p, s) PROVE SwapInv'
BY SwapFacts, StartRefreshKeeps, SwapBegins DEF Refresh

LEMMA UndoStep ==
    ASSUME SwapInv, NEW p \in Procs, Undo(p)
    PROVE  SwapInv'
<1> DEFINE e == did[run'[p].undone]
<1>1. LogInv' /\ Starts(p) /\ run'[p].store = e.store
  BY SwapFacts, StartUndoKeeps DEF Undo
<1>2. NamespaceReversal(p, e) \/ LiveReversal(p, e)
  BY DEF Undo
<1> HIDE DEF e
<1>3. plan[p] = NoPlan
  BY SwapFacts DEF Undo, StartUndo, PlanOf
<1>4. PICK s \in {"own", "copy"} :
        plan' = [plan EXCEPT ![p].source = s] /\ (s = "copy" \/ e.store = Live)
  BY <1>2 DEF NamespaceReversal, LiveReversal
<1>5. plan' = [plan EXCEPT ![p] = Sourcing(plan[p], s)]
  BY <1>4 DEF Sourcing
<1> DEFINE x == Sourcing(plan[p], s)
<1>6. x \in Plans /\ x.source = s /\ x.what = "nothing"
  BY <1>3, SourcingFacts, NoPlanType
<1> HIDE DEF x
<1>7. plan' \in [Procs -> Plans] /\ plan'[p] = x /\ \A q \in Procs \ {p} : plan'[q] = plan[q]
  BY <1>5, <1>6, SwapFacts, PlanPut DEF x
<1>8. SwapTypeOK'
  BY <1>7, SwapFacts, HomesStay DEF Undo
<1>9. \A q \in Procs \ {p} : PlanOf(q)'
  BY <1>1, <1>7, SwapFacts DEF PlanOf, Place, OnLive, Starts
<1>10. PlanOf(p)'
  BY <1>1, <1>4, <1>6, <1>7 DEF PlanOf, Place, OnLive, Starts
<1> QED BY <1>1, <1>8, <1>9, <1>10 DEF SwapInv

LEMMA DisplacedType ==
    ASSUME SwapInv, NEW p \in Procs PROVE Displaced(p) \in SUBSET Grants
<1>1. run[p].store \in {Live} \cup Spaces /\ LogTypeOK /\ SwapTypeOK
  BY SwapFacts, RunFacts DEF Stores
<1> QED BY <1>1, AccountsAssumption DEF Displaced, LogTypeOK, SwapTypeOK, Stores, OnLive

LEMMA ReadStep ==
    ASSUME SwapInv, NEW p \in Procs, Read(p)
    PROVE  SwapInv'
<1>1. LogInv' /\ RunSteps(p)
  BY SwapFacts, ReadKeeps
<1>2. \E x \in Plans : /\ plan' = [plan EXCEPT ![p] = x]
                       /\ \/ RunEnds(p) /\ x = NoPlan
                          \/ RunGoes(p) /\ x.source = plan[p].source /\ x.what = plan[p].what
  <2>1. CASE run'[p].pc = "idle"
    <3>1. RunEnds(p)
      BY <1>1, <2>1 DEF RunSteps, RunGoes
    <3> QED BY <2>1, <3>1, NoPlanType DEF Read
  <2>2. CASE run'[p].pc # "idle" /\ run[p].refresh
    <3>1. RunGoes(p)
      BY <1>1, <2>2 DEF RunSteps, RunEnds, Idle
    <3>2. plan' = [plan EXCEPT ![p] = Stepped(plan[p], "renew")] /\ "renew" \in Phases
      BY <2>2 DEF Read, Step, Stepped, Phases
    <3> QED BY <3>1, <3>2, SwapFacts, SteppedFacts
  <2>3. CASE run'[p].pc # "idle" /\ ~run[p].refresh
    <3>1. RunGoes(p)
      BY <1>1, <2>3 DEF RunSteps, RunEnds, Idle
    <3>2. plan' = [plan EXCEPT ![p] = Displacing(plan[p], Displaced(p))]
      BY <2>3 DEF Read, Displacing
    <3> QED BY <3>1, <3>2, SwapFacts, DisplacedType, DisplacingFacts
  <2> QED BY <2>1, <2>2, <2>3
<1>3. SwapTypeOK'
  BY <1>2, SwapFacts, PlanPut, HomesStay DEF Read
<1> QED BY <1>1, <1>2, <1>3, PlansKeep

LEMMA LocksStep == ASSUME SwapInv, NEW p \in Procs, Locks(p) PROVE SwapInv'
<1>1. SwapTypeOK'
  BY SwapFacts, HomesStay DEF swapVars, SwapTypeOK, Locks
<1> QED BY <1>1, SwapFacts, LocksKeep, PlansStay DEF Locks, swapVars

LEMMA BreakStep == ASSUME SwapInv, NEW p \in Procs, BreakLock(p) PROVE SwapInv'
<1>1. SwapTypeOK'
  BY SwapFacts, HomesStay DEF swapVars, SwapTypeOK, BreakLock
<1> QED BY <1>1, SwapFacts, BreakKeeps, PlansStay DEF BreakLock, swapVars

LEMMA WriteStep == ASSUME SwapInv, NEW p \in Procs, WriteItem(p) PROVE SwapInv'
<1>1. SwapTypeOK'
  BY SwapFacts, HomesStay DEF swapVars, SwapTypeOK, WriteItem
<1> QED BY <1>1, SwapFacts, WriteKeeps, PlansStay DEF WriteItem, swapVars

LEMMA StopStep == ASSUME SwapInv, NEW p \in Procs, Stop(p) PROVE SwapInv'
BY SwapFacts, WithdrawKeeps, DoneKeeps, HomesStay DEF Stop

LEMMA LogsStep == ASSUME SwapInv, NEW p \in Procs, Logs(p) PROVE SwapInv'
<1>1. LogInv' /\ RunSteps(p)
  <2>1. LogInv
    BY SwapFacts
  <2>2. Over(p) => LogInv' /\ RunSteps(p)
    BY <2>1, EndsAlone DEF Over
  <2> QED BY <2>1, <2>2, GateKeeps, RefuseKeeps, Write1Keeps, Write2Keeps DEF Logs, RunSteps
<1> QED BY <1>1, SwapFacts, DoneKeeps, HomesStay DEF Logs

LEMMA DiesStep == ASSUME SwapInv, NEW p \in Procs, Dies(p) PROVE SwapInv'
BY SwapFacts, CrashKeeps, DoneKeeps, HomesStay DEF Dies

LEMMA AfterWriteStep == ASSUME SwapInv, NEW p \in Procs, AfterWrite(p) PROVE SwapInv'
<1>1. LogInv' /\ RunSteps(p)
  BY SwapFacts, ConfigKeeps DEF AfterWrite
<1>2. plan[p].out \in SUBSET Grants /\ SwapTypeOK
  BY SwapFacts, PlanValues
<1>3. copy' \in [Accounts -> SUBSET Grants] /\ store' \in [Accounts -> SUBSET Grants]
  BY <1>2 DEF AfterWrite, SwapTypeOK
<1>4. plan' \in [Procs -> Plans] => SwapTypeOK'
  BY <1>2, <1>3 DEF AfterWrite, SwapTypeOK, server
<1> QED BY <1>1, <1>4, DoneKeeps DEF AfterWrite

\* Every answer is of a home there is; a namespace's undo has but the exchange.
LEMMA AdoptionFacts ==
    ASSUME SwapInv, NEW p \in Procs, NEW answer \in Adoption(p)
    PROVE  /\ answer \in Answers
           /\ run[p].dir = "undo" /\ ~OnLive(p) => answer.what \in {"nothing", "staged"}
<1> DEFINE out == plan[p].out
           s == run[p].store
<1>0. out \in SUBSET Grants /\ s \in Stores /\ SwapTypeOK /\ LogTypeOK
  BY SwapFacts, PlanValues, RunFacts
<1>1. s # Live => s \in Accounts
  BY <1>0, AccountsAssumption DEF Stores
<1>2. Dropped \in Answers /\ Dropped.what = "nothing"
  BY DEF Dropped, Answers
<1>3. \A a \in Accounts : /\ There(a, out) \in Answers /\ InCopy(a) \in Answers
                          /\ Staged(a) \in Answers /\ InStore(a) \in Answers
                          /\ Staged(a).what = "staged"
                          /\ InCopy(a).home = a /\ InStore(a).home = a
  BY <1>0 DEF There, InCopy, Staged, InStore, Answers, SwapTypeOK
<1>4. \A c \in out : c.of \in Accounts
  BY <1>0 DEF Grants
<1>5. \A T : \A x \in Answers : Placed(out, T, x) \subseteq {There(x.home, out), x}
  BY DEF Placed
<1>6. \A T : \A a \in Accounts :
        /\ Placed(out, T, InCopy(a)) \subseteq Answers
        /\ Placed(out, T, InStore(a)) \subseteq Answers
  BY <1>3, <1>5
<1>7. Of(out) \subseteq Accounts
  BY <1>4 DEF Of
<1>8. CASE out = {}
  BY <1>2, <1>8 DEF Adoption
<1>9. CASE out # {} /\ ~OnLive(p) /\ ~Forward(p)
  <2>1. answer \in Exchanged(p)
    BY <1>9 DEF Adoption
  <2>2. answer \in {Dropped, Staged(s)} /\ s \in Accounts
    BY <1>1, <1>9, <2>1 DEF Exchanged, OnLive
  <2> QED BY <1>2, <1>3, <2>2
<1>10. CASE out # {} /\ ~(~OnLive(p) /\ ~Forward(p))
  <2>1. run[p].dir = "undo" /\ ~OnLive(p) => FALSE
    BY <1>10 DEF Forward
  <2>2. ASSUME Of(out) = {s}, answer \in StoresOwn(p) PROVE answer \in Answers
    <3>1. s \in Accounts
      BY <1>7, <2>2
    <3> QED BY <1>6, <2>2, <3>1 DEF StoresOwn
  <2>3. ASSUME answer \in IncomingsOwn(p) PROVE answer \in Answers
    BY <1>1, <1>2, <1>6, <2>3 DEF IncomingsOwn, OnLive
  <2>4. ASSUME NEW a \in Accounts, answer \in ThirdsCopy(p, a) PROVE answer \in Answers
    BY <1>3, <2>4 DEF ThirdsCopy
  <2>5. ASSUME NEW a \in Accounts, answer \in ThirdsStore(p, a) PROVE answer \in Answers
    BY <1>6, <2>5 DEF ThirdsStore
  <2>6. \/ Of(out) = {s} /\ answer \in StoresOwn(p)
        \/ answer \in IncomingsOwn(p)
        \/ \E a \in Of(out) : answer \in ThirdsCopy(p, a)
        \/ \E a \in Of(out) : answer \in ThirdsStore(p, a)
    BY <1>10 DEF Adoption
  <2> QED BY <1>7, <2>1, <2>2, <2>3, <2>4, <2>5, <2>6
<1> QED BY <1>8, <1>9, <1>10

\* A step of the plan alone.
LEMMA DecideStep ==
    ASSUME SwapInv, NEW p \in Procs, Decide(p)
    PROVE  SwapInv'
<1>1. PICK answer \in Adoption(p) :
         plan' = [plan EXCEPT ![p] = [NoPlan EXCEPT !.step = "renew", !.source = plan[p].source,
                                                    !.out = plan[p].out, !.what = answer.what,
                                                    !.home = answer.home, !.prior = answer.prior]]
  BY DEF Decide
<1> DEFINE x == Answered(NoPlan, plan[p], answer)
<1>2. plan' = [plan EXCEPT ![p] = x]
  BY <1>1 DEF Answered
<1>3. x \in Plans /\ x.source = plan[p].source /\ x.what = answer.what
  BY SwapFacts, AdoptionFacts, AnsweredFacts
<1> HIDE DEF x
<1>4. plan' \in [Procs -> Plans] /\ plan'[p] = x /\ \A q \in Procs \ {p} : plan'[q] = plan[q]
  BY <1>2, <1>3, SwapFacts, PlanPut
<1>5. UNCHANGED vars /\ LogInv'
  <2>1. UNCHANGED <<logs, item, did, lock, run, left>> /\ left \in [Allowances -> Nat]
    BY SwapFacts DEF Decide, vars, LogTypeOK
  <2>2. LogInv'
    BY <2>1, SwapFacts, StutterKeeps
  <2> QED BY <2>1, <2>2 DEF vars
<1>6. SwapTypeOK'
  BY <1>4, SwapFacts, HomesStay DEF Decide
<1>7. \A q \in Procs \ {p} : PlanOf(q)'
  BY <1>4, <1>5, SwapFacts DEF PlanOf, Place, OnLive, vars
<1>8. PlanOf(p)'
  BY <1>3, <1>4, <1>5, SwapFacts, AdoptionFacts DEF PlanOf, Place, OnLive, vars, Decide, At
<1> QED BY <1>5, <1>6, <1>7, <1>8 DEF SwapInv

LEMMA PostStep ==
    ASSUME SwapInv, NEW p \in Procs, Post(p)
    PROVE  SwapInv'
<1> DEFINE s == IF run[p].refresh THEN "ready" ELSE "save"
           x == Posted(plan[p], run[p].to, s)
<1>0. run[p].to \in SUBSET Grants /\ plan[p] \in Plans /\ s \in Phases
  BY SwapFacts, RunFacts DEF Phases
<1>1. LogInv' /\ RunGoes(p)
  BY SwapFacts, RenewKeeps DEF Post
<1>2. plan' = [plan EXCEPT ![p] = x]
  BY DEF Post, Posted
<1>3. x \in Plans /\ x.source = plan[p].source /\ x.what = plan[p].what
  BY <1>0, PostedFacts
<1> HIDE DEF x
<1>4. plan' \in [Procs -> Plans]
  BY <1>2, <1>3, SwapFacts, PlanPut
<1>5. SwapTypeOK'
  BY <1>0, <1>4, SwapFacts DEF SwapTypeOK, Post, Issues, homes
<1> QED BY <1>1, <1>2, <1>3, <1>5, PlansKeep

LEMMA ResolvedType ==
    ASSUME SwapTypeOK, NEW a \in Accounts PROVE Resolved(a) \in SUBSET Grants
<1>1. \A w \in parked[a] : w.grant \in Grants
  BY DEF SwapTypeOK, Pending
<1> QED BY <1>1 DEF Resolved, SwapTypeOK

LEMMA WritesType ==
    ASSUME SwapTypeOK, LogTypeOK, NEW a, NEW S \in SUBSET Grants, NEW over \in SUBSET Grants,
           NEW base \in [Accounts -> SUBSET Grants], Writes(a, S, over, base)
    PROVE  /\ store' \in [Accounts -> SUBSET Grants] /\ parked' \in [Accounts -> SUBSET Pending]
           /\ left' \in [Allowances -> Nat]
<1>1. {[grant |-> c, over |-> over] : c \in S} \in SUBSET Pending
  BY DEF Pending
<1>2. left \in [Allowances -> Nat] /\ "parks" \in Allowances
  BY DEF LogTypeOK, Allowances
<1>3. Spend("parks") => left' \in [Allowances -> Nat]
  BY <1>2, SpendType
<1> QED BY <1>1, <1>2, <1>3 DEF Writes, SwapTypeOK

\* A step that leaves the log's variables but the allowance.
LEMMA LogStays ==
    ASSUME SwapInv, NEW p \in Procs, NEW s \in Phases, Step(p, s), ~Place(p, "idle"),
           UNCHANGED <<logs, item, did, lock, run, server>>, left' \in [Allowances -> Nat],
           store' \in [Accounts -> SUBSET Grants], copy' \in [Accounts -> SUBSET Grants],
           parked' \in [Accounts -> SUBSET Pending]
    PROVE  SwapInv'
<1> DEFINE x == Stepped(plan[p], s)
<1>1. LogInv'
  BY SwapFacts, StutterKeeps
<1>2. plan' = [plan EXCEPT ![p] = x]
  BY DEF Step, Stepped
<1>3. x \in Plans /\ x.source = plan[p].source /\ x.what = plan[p].what
  BY SwapFacts, SteppedFacts
<1> HIDE DEF x
<1>4. plan' \in [Procs -> Plans] /\ plan'[p] = x /\ \A q \in Procs \ {p} : plan'[q] = plan[q]
  BY <1>2, <1>3, SwapFacts, PlanPut
<1>5. SwapTypeOK'
  BY <1>4, SwapFacts DEF SwapTypeOK, server
<1>6. \A q \in Procs \ {p} : PlanOf(q)'
  BY <1>4, SwapFacts DEF PlanOf, Place, OnLive
<1>7. PlanOf(p)'
  BY <1>3, <1>4, SwapFacts DEF PlanOf, Place, OnLive
<1> QED BY <1>1, <1>5, <1>6, <1>7 DEF SwapInv

LEMMA SaveStep ==
    ASSUME SwapInv, NEW p \in Procs, Save(p)
    PROVE  SwapInv'
<1> DEFINE a == run[p].of
           base == [store EXCEPT ![a] = Resolved(a)]
<1>0. SwapTypeOK /\ LogTypeOK /\ run[p].to \in SUBSET Grants /\ plan[p].basis \in SUBSET Grants
  BY SwapFacts, RunFacts, PlanValues
<1>1. base \in [Accounts -> SUBSET Grants]
  <2>1. a \in Accounts => Resolved(a) \in SUBSET Grants
    BY <1>0, ResolvedType
  <2>2. store \in [Accounts -> SUBSET Grants]
    BY <1>0 DEF SwapTypeOK
  <2> QED BY <2>1, <2>2
<1> HIDE DEF base
<1>2. /\ \/ Writes(a, run[p].to, plan[p].basis, base) /\ UNCHANGED copy
         \/ store' = base /\ parked' = [parked EXCEPT ![a] = {}] /\ UNCHANGED <<copy, left>>
         \/ (copy' = [copy EXCEPT ![a] = run[p].to] \/ UNCHANGED copy) /\ UNCHANGED <<store, parked, left>>
      /\ Step(p, "adopt") /\ ~Place(p, "idle") /\ UNCHANGED <<logs, item, did, lock, run, server>>
  BY DEF Save, base, At, Place, homes
<1>3. store' \in [Accounts -> SUBSET Grants] /\ parked' \in [Accounts -> SUBSET Pending]
      /\ left' \in [Allowances -> Nat]
  BY <1>0, <1>1, <1>2, WritesType DEF SwapTypeOK, LogTypeOK
<1>4. copy' \in [Accounts -> SUBSET Grants]
  BY <1>0, <1>2 DEF SwapTypeOK
<1> QED BY <1>2, <1>3, <1>4, LogStays DEF Phases

LEMMA AdoptStep ==
    ASSUME SwapInv, NEW p \in Procs, Adopt(p)
    PROVE  SwapInv'
<1> DEFINE a == plan[p].home
           out == plan[p].out
<1>0. SwapTypeOK /\ LogTypeOK /\ out \in SUBSET Grants /\ {} \in SUBSET Grants
      /\ store \in [Accounts -> SUBSET Grants]
  BY SwapFacts, PlanValues DEF SwapTypeOK
<1>1. /\ \/ copy' = [copy EXCEPT ![a] = out] /\ UNCHANGED <<store, parked, left>>
         \/ Writes(a, out, {}, store) /\ UNCHANGED copy
         \/ UNCHANGED <<homes, left>>
      /\ Step(p, "ready") /\ ~Place(p, "idle") /\ UNCHANGED <<logs, item, did, lock, run, server>>
  BY DEF Adopt, At, Place
<1>2. store' \in [Accounts -> SUBSET Grants] /\ parked' \in [Accounts -> SUBSET Pending]
      /\ left' \in [Allowances -> Nat]
  BY <1>0, <1>1, WritesType DEF SwapTypeOK, LogTypeOK, homes
<1>3. copy' \in [Accounts -> SUBSET Grants]
  BY <1>0, <1>1 DEF SwapTypeOK, homes
<1> QED BY <1>1, <1>2, <1>3, LogStays DEF Phases

LEMMA SettleStep ==
    ASSUME SwapInv, NEW a \in Accounts, Settle(a)
    PROVE  SwapInv'
<1>1. SwapTypeOK'
  BY SwapFacts, ResolvedType DEF Settle, SwapTypeOK, SwapInv, server
<1>2. LogInv'
  BY StutterKeeps DEF Settle, vars, SwapInv, LogInv, LogTypeOK
<1> QED BY <1>1, <1>2, PlansStay DEF Settle, vars

LEMMA NextIssuedType ==
    ASSUME issued \in Nat, Issues, NEW b \in Accounts
    PROVE  NextIssued(b) \in Grants
BY BoundsAssumption DEF Issues, NextIssued, Grants

LEMMA RefreshFileStep ==
    ASSUME SwapInv, NEW a \in Accounts, RefreshFile(a)
    PROVE  SwapInv'
<1>0. SwapTypeOK /\ LogTypeOK
  BY DEF SwapInv, LogInv
<1>1. store[a] \in SUBSET Grants /\ \A c \in store[a] : c.of \in Accounts
  BY <1>0 DEF SwapTypeOK, Grants
<1>2. {NextIssued(c.of) : c \in store[a]} \in SUBSET Grants
  BY <1>0, <1>1, NextIssuedType DEF SwapTypeOK, RefreshFile
<1>3. SwapTypeOK'
  BY <1>0, <1>1, <1>2 DEF RefreshFile, SwapTypeOK, Issues
<1>4. left' \in [Allowances -> Nat]
  BY <1>0, SpendType DEF RefreshFile, LogTypeOK, Allowances
<1>5. LogInv'
  BY <1>4, StutterKeeps DEF RefreshFile, SwapInv
<1> QED BY <1>3, <1>5, PlansStay DEF RefreshFile

LEMMA SessionRefreshesStep ==
    ASSUME SwapInv, NEW s \in Stores, SessionRefreshes(s)
    PROVE  SwapInv'
<1>0. SwapTypeOK /\ LogTypeOK /\ LogInv
  BY DEF SwapInv, LogInv
<1>1. item[s] \in SUBSET Grants /\ \A c \in item[s] : c.of \in Accounts
  BY <1>0 DEF LogTypeOK, Grants
<1>2. {NextIssued(c.of) : c \in item[s]} \in SUBSET Grants
  BY <1>0, <1>1, NextIssuedType DEF SwapTypeOK, SessionRefreshes
<1>3. SwapTypeOK'
  BY <1>0, <1>1, <1>2 DEF SessionRefreshes, SwapTypeOK, Issues, homes
<1>4. LogInv'
  BY <1>0, <1>2, ElsewhereKeeps DEF SessionRefreshes
<1> QED BY <1>3, <1>4, PlansStay DEF SessionRefreshes, Elsewhere

LEMMA SessionLogsInStep ==
    ASSUME SwapInv, NEW s \in Stores, NEW a \in Accounts, SessionLogsIn(s, a)
    PROVE  SwapInv'
<1>0. SwapTypeOK /\ LogTypeOK /\ LogInv
  BY DEF SwapInv, LogInv
<1>1. {NextIssued(a)} \in SUBSET Grants
  BY <1>0, NextIssuedType DEF SwapTypeOK, SessionLogsIn
<1>2. SwapTypeOK'
  BY <1>0, <1>1 DEF SessionLogsIn, SwapTypeOK, Issues, homes
<1>3. LogInv'
  BY <1>0, <1>1, ElsewhereKeeps DEF SessionLogsIn
<1> QED BY <1>2, <1>3, PlansStay DEF SessionLogsIn, Elsewhere

LEMMA MigrateStep ==
    ASSUME SwapInv, NEW s \in Spaces, Migrate(s)
    PROVE  SwapInv'
<1>0. SwapTypeOK /\ LogTypeOK /\ LogInv /\ s \in Stores /\ s \in Accounts
  BY AccountsAssumption DEF SwapInv, LogInv, Stores
<1>1. store[s] \in SUBSET Grants
  BY <1>0 DEF SwapTypeOK
<1>2. SwapTypeOK'
  BY <1>0, <1>1 DEF Migrate, SwapTypeOK, server
<1>3. LogInv'
  BY <1>0, <1>1, ElsewhereKeeps DEF Migrate
<1> QED BY <1>2, <1>3, PlansStay DEF Migrate, Elsewhere

LEMMA TamperStep == ASSUME SwapInv, Tamper, UNCHANGED swapVars PROVE SwapInv'
<1>1. SwapTypeOK'
  BY HomesStay DEF SwapInv, swapVars, SwapTypeOK
<1>2. LogInv'
  BY TamperKeeps DEF SwapInv
<1> QED BY <1>1, <1>2, PlansStay DEF swapVars, Tamper

-----------------------------------------------------------------------------
(* The invariant.                                                          *)

LEMMA SwapInit == Init => SwapInv
<1> SUFFICES ASSUME Init PROVE SwapInv
  OBVIOUS
<1>1. \A a \in Accounts : Grant(a) \in Grants /\ [of |-> a, gen |-> 1] \in Grants
  BY BoundsAssumption DEF Grant, Grants
<1>2. PICK moved \in SUBSET Spaces, a \in Accounts :
         /\ item = [s \in Stores |-> CASE s = Live -> {[of |-> a, gen |-> 1]}
                                       [] s \in moved -> {Grant(s)}
                                       [] OTHER -> {}]
         /\ store = [b \in Accounts |-> IF b \in moved THEN {} ELSE {Grant(b)}]
  BY DEF Init
<1>3. item \in [Stores -> SUBSET Grants] /\ store \in [Accounts -> SUBSET Grants]
  BY <1>1, <1>2, AccountsAssumption DEF Stores
<1>4. LogTypeOK
  BY <1>3, IdleFacts, BoundsAssumption DEF Init, LogInit, LogTypeOK, Nothing
<1>5. SwapTypeOK
  BY <1>3, NoPlanType DEF Init, SwapTypeOK
<1>6. ASSUME NEW p \in Procs PROVE LocalsOf(p) /\ RecordOf(p) /\ NothingFollows(p) /\ Unbegun(p) /\ PlanOf(p)
  <2>1. run[p] = Idle /\ plan[p] = NoPlan
    BY DEF Init, LogInit
  <2>2. Idle.pc = "idle" /\ Idle.wrote = None /\ Idle.dir = "forward"
    BY DEF Idle
  <2> QED BY <2>1, <2>2 DEF LocalsOf, RecordOf, NothingFollows, Unbegun, PlanOf, Place, Holding, Writing
<1>7. (at.kind = "file" => at.file \in DOMAIN files) /\ \A i \in DOMAIN files : FileInv(files[i])
  BY DEF Init, LogInit, Nothing
<1> QED BY <1>4, <1>5, <1>6, <1>7 DEF SwapInv, LogInv

LEMMA SwapNext == SwapInv /\ [Next]_allVars => SwapInv'
<1> SUFFICES ASSUME SwapInv, [Next]_allVars PROVE SwapInv'
  OBVIOUS
<1>1. CASE UNCHANGED allVars
  <2>1. LogInv'
    BY <1>1, StutterKeeps DEF SwapInv, LogInv, LogTypeOK, allVars, vars
  <2>2. SwapTypeOK'
    BY <1>1, HomesStay DEF SwapInv, SwapTypeOK, allVars, swapVars
  <2> QED BY <1>1, <2>1, <2>2, PlansStay DEF allVars, swapVars, vars
<1>2. ASSUME NEW p \in Procs, NEW s \in Stores, NEW a \in Accounts, Swap(p, s, a) PROVE SwapInv'
  BY <1>2, SwapStep
<1>3. ASSUME NEW p \in Procs, NEW s \in Stores, Refresh(p, s) PROVE SwapInv'
  BY <1>3, RefreshStep
<1>4. ASSUME NEW p \in Procs,
             \/ Undo(p) \/ Read(p) \/ Locks(p) \/ Decide(p) \/ Post(p) \/ Save(p) \/ Adopt(p)
             \/ BreakLock(p) \/ WriteItem(p) \/ Stop(p) \/ Logs(p) \/ AfterWrite(p) \/ Dies(p)
      PROVE  SwapInv'
  BY <1>4, UndoStep, ReadStep, LocksStep, DecideStep, PostStep, SaveStep, AdoptStep, BreakStep,
     WriteStep, StopStep, LogsStep, AfterWriteStep, DiesStep
<1>5. CASE Tamper /\ UNCHANGED swapVars
  BY <1>5, TamperStep
<1>6. ASSUME NEW a \in Accounts, Settle(a) \/ RefreshFile(a) PROVE SwapInv'
  BY <1>6, SettleStep, RefreshFileStep
<1>7. ASSUME NEW s \in Stores, SessionRefreshes(s) \/ \E a \in Accounts : SessionLogsIn(s, a)
      PROVE  SwapInv'
  BY <1>7, SessionRefreshesStep, SessionLogsInStep
<1>8. ASSUME NEW s \in Spaces, Migrate(s) PROVE SwapInv'
  BY <1>8, MigrateStep
<1> QED BY <1>1, <1>2, <1>3, <1>4, <1>5, <1>6, <1>7, <1>8 DEF Next

\* The inductive invariant: what the log, its files, the writes and the runs are to each other.
THEOREM SwapInvAlways == Spec => []SwapInv
<1>1. Init => SwapInv
  BY SwapInit
<1>2. SwapInv /\ [Next]_allVars => SwapInv'
  BY SwapNext
<1> QED BY <1>1, <1>2, PTL DEF Spec

-----------------------------------------------------------------------------
(* The order of the log.                                                   *)

LEMMA SuccessiveChained ==
    ASSUME did \in Seq(Deeds), NEW n \in DOMAIN did, NEW m \in DOMAIN did, Successive(n, m)
    PROVE  Chained(n, m)
<1>1. n \in Nat /\ m \in Nat
  BY DidFacts
<1>2. n < m /\ did[n].store = did[m].store /\ \A k \in n + 1 .. m - 1 : did[k].store # did[n].store
  BY DEF Successive
<1>3. ASSUME NEW k \in n + 1 .. m, did[k].store = did[n].store PROVE \E j \in n .. k - 1 : Successive(j, k)
  <2>1. k = m
    BY <1>1, <1>2, <1>3
  <2> QED BY <1>1, <1>2, <2>1
<1> QED BY <1>2, <1>3 DEF Chained

\* The entry a line that parses is read as is where it begins.
LEMMA ParsedFacts ==
    ASSUME NEW f \in Files, NEW a \in DOMAIN f.lines, Parses(f.lines[a])
    PROVE  /\ 1 \in DOMAIN f.lines[a] /\ f.lines[a][1].of \in Entries /\ f.lines[a][1].part # "rest"
           /\ \A x \in DOMAIN f.lines[a] : f.lines[a][x].of = f.lines[a][1].of
<1> DEFINE line == f.lines[a]
<1>1. /\ line \in Seq(Parts) /\ DOMAIN line = 1 .. Len(line) /\ Len(line) \in Nat
      /\ \A x \in DOMAIN line : line[x].of \in Entries
  BY FileFacts
<1>2. CASE Len(line) = 1 /\ line[1].part = "whole"
  BY <1>1, <1>2
<1>3. CASE Len(line) = 2 /\ line[1].part = "head" /\ line[2] = Part(line[1].of, "rest")
  <2>1. line[2].of = line[1].of
    BY <1>3 DEF Part
  <2>2. \A x \in DOMAIN line : x = 1 \/ x = 2
    BY <1>1, <1>3
  <2> QED BY <1>1, <1>3, <2>1, <2>2
<1> QED BY <1>2, <1>3 DEF Parses

LEMMA OrderKept == LogInv => InWriteOrder
<1> SUFFICES ASSUME LogInv, NEW i \in DOMAIN files,
                    NEW j \in DOMAIN EntriesIn(files[i].lines), NEW k \in DOMAIN EntriesIn(files[i].lines),
                    j < k, EntriesIn(files[i].lines)[j].event = "write",
                    EntriesIn(files[i].lines)[k].event = "write"
             PROVE  ~Successive(EntriesIn(files[i].lines)[k].n, EntriesIn(files[i].lines)[j].n)
  BY DEF InWriteOrder
<1> DEFINE f == files[i]
           e(a) == f.lines[a][1].of
<1>1. f \in Files /\ FileInv(f) /\ did \in Seq(Deeds)
  BY DEF LogInv, LogTypeOK
<1>2. \A a \in DOMAIN EntriesIn(f.lines) :
        a \in DOMAIN f.lines /\ Parses(f.lines[a]) /\ EntriesIn(f.lines)[a] = e(a)
  BY DEF EntriesIn
<1>3. \A a \in {j, k} : /\ a \in DOMAIN f.lines /\ 1 \in DOMAIN f.lines[a] /\ e(a) \in Entries
                        /\ e(a).event = "write" /\ EntriesIn(f.lines)[a] = e(a)
  BY <1>1, <1>2, ParsedFacts
<1>4. \A a \in {j, k} : e(a).n \in DOMAIN did /\ Names(f, a, e(a).n)
  BY <1>1, <1>3, WriteEntries DEF FileInv, Names
<1>5. ~Chained(e(k).n, e(j).n)
  BY <1>1, <1>3, <1>4 DEF FileInv
<1> QED BY <1>1, <1>3, <1>4, <1>5, SuccessiveChained

\* The entries of two successive writes of one store are in the log in that order, though nothing
\* locks the log (use.rs:1039-1060).
THEOREM KeepsTheWriteOrder == Spec => []InWriteOrder
<1>1. SwapInv => InWriteOrder
  BY OrderKept DEF SwapInv
<1> QED BY <1>1, SwapInvAlways, PTL

-----------------------------------------------------------------------------
(* What an undo takes for the newest.                                      *)

\* With nobody between, each live write is chained to those before it.
LEMMA LiveChained ==
    ASSUME did \in Seq(Deeds), NobodyBetween, NEW n \in DOMAIN did, NEW m \in DOMAIN did, n < m,
           did[n].store = Live, did[m].store = Live
    PROVE  Chained(n, m)
<1>1. /\ \A k \in DOMAIN did : k \in Nat
      /\ DOMAIN did = 1 .. Len(did) /\ Len(did) \in Nat
  BY DidFacts
<1>2. ASSUME NEW k \in n + 1 .. m, did[k].store = Live PROVE \E j \in n .. k - 1 : Successive(j, k)
  <2>1. k \in DOMAIN did /\ n < k
    BY <1>1
  <2>2. PICK j \in DOMAIN did : did[j].store = Live /\ Successive(j, k)
    BY <1>2, <2>1 DEF NobodyBetween
  <2>3. j < k /\ \A x \in j + 1 .. k - 1 : did[x].store # Live
    BY <2>2 DEF Successive
  <2>4. ~(j < n)
    BY <1>1, <2>1, <2>2, <2>3
  <2> QED BY <1>1, <2>1, <2>2, <2>3, <2>4
<1> QED BY <1>2 DEF Chained

LEMMA NewestIsSelected ==
    ASSUME LogInv, NobodyBetween, Standing # {}, ~Unreadable(Contents(at, files)),
           NEW n \in Selected(EntriesIn(Contents(at, files)))
    PROVE  n \in Standing
<1> DEFINE lines == Contents(at, files)
           entries == EntriesIn(lines)
           f == files[at.file]
           livers == {x \in Traced : did[x].store = Live /\ MayHaveLanded(x)}
           live == {i \in Reversible(entries) : did[entries[i].n].store = Live}
           outstanding == {i \in live : /\ did[entries[i].n].dir = "forward"
                                        /\ \A j \in live : j > i =>
                                             /\ did[entries[j].n].dir = "undo"
                                             /\ did[entries[j].n].outcome # "applied"}
<1>0. did \in Seq(Deeds) /\ \A x \in DOMAIN did : x \in Nat
  BY DidFacts DEF LogInv, LogTypeOK
<1>1. Traced # {}
  BY DEF Standing
<1>2. lines = f.lines /\ f \in Files /\ FileInv(f)
  <2>1. at.kind = "file"
    BY <1>1 DEF Traced, Contents
  <2> QED BY <2>1 DEF Contents, LogInv, LogTypeOK
<1>3. \A i \in DOMAIN lines : Parses(lines[i])
  BY DEF Unreadable
<1>4. DOMAIN entries = DOMAIN lines /\ \A i \in DOMAIN lines : entries[i] = lines[i][1].of
  BY <1>3 DEF EntriesIn
<1> HIDE DEF entries, lines
<1>5. \A i \in DOMAIN lines : /\ 1 \in DOMAIN lines[i] /\ entries[i] \in Entries /\ lines[i][1].part # "rest"
                              /\ \A x \in DOMAIN lines[i] : lines[i][x].of = entries[i]
  BY <1>2, <1>3, <1>4, ParsedFacts
<1>6. Traced = {x \in DOMAIN did : \E i \in DOMAIN lines : entries[i] = WriteEntry(x)}
  BY <1>5 DEF Traced, lines
<1>7. \A i \in DOMAIN lines : entries[i].event = "write" =>
        /\ entries[i].n \in DOMAIN did /\ entries[i] = WriteEntry(entries[i].n)
        /\ Names(f, i, entries[i].n) /\ Begins(f, i, entries[i].n)
  <2> SUFFICES ASSUME NEW i \in DOMAIN lines, entries[i].event = "write"
               PROVE  /\ entries[i].n \in DOMAIN did /\ entries[i] = WriteEntry(entries[i].n)
                      /\ Names(f, i, entries[i].n) /\ Begins(f, i, entries[i].n)
    OBVIOUS
  <2>1. entries[i] = WriteEntry(entries[i].n)
    BY <1>5, WriteEntries
  <2>2. lines[i][1].of = entries[i] /\ 1 \in DOMAIN lines[i] /\ lines[i][1].part # "rest"
    BY <1>5
  <2> QED BY <1>2, <2>1, <2>2 DEF FileInv, Names, Begins
<1>8. \A i \in live : i \in DOMAIN lines /\ entries[i].event = "write" /\ entries[i].n \in livers
  BY <1>4, <1>6, <1>7 DEF Reversible
<1>9. \A x \in livers : \E i \in live : entries[i].n = x
  <2> SUFFICES ASSUME NEW x \in livers PROVE \E i \in live : entries[i].n = x
    OBVIOUS
  <2>1. PICK i \in DOMAIN lines : entries[i] = WriteEntry(x)
    BY <1>6
  <2>2. entries[i].event = "write" /\ entries[i].n = x
    BY <1>0, <1>6, <2>1, EntryFacts
  <2> QED BY <1>4, <2>2 DEF Reversible
\* The lines are in the order of the writes.
<1>10. \A i, j \in live : entries[i].n < entries[j].n => i < j
  <2> SUFFICES ASSUME NEW i \in live, NEW j \in live, entries[i].n < entries[j].n PROVE i < j
    OBVIOUS
  <2>1. Chained(entries[i].n, entries[j].n)
    BY <1>0, <1>7, <1>8, LiveChained
  <2>2. ~(j < i)
    BY <1>2, <1>7, <1>8, <2>1 DEF FileInv
  <2>3. i # j
    BY <1>0, <1>7, <1>8
  <2>4. i \in Nat /\ j \in Nat
    BY <1>2, <1>8, FileFacts
  <2> QED BY <2>2, <2>3, <2>4
<1>11. \A i, j \in live : i < j => entries[i].n < entries[j].n
  <2> SUFFICES ASSUME NEW i \in live, NEW j \in live, i < j PROVE entries[i].n < entries[j].n
    OBVIOUS
  <2>1. i \in Nat /\ j \in Nat /\ entries[i].n \in DOMAIN did /\ entries[j].n \in DOMAIN did
    BY <1>2, <1>7, <1>8, FileFacts
  <2>2. ~(entries[j].n < entries[i].n)
    BY <1>10, <2>1
  <2>3. entries[i].n # entries[j].n
    BY <1>2, <1>7, <1>8, <2>1 DEF FileInv
  <2> QED BY <1>0, <2>1, <2>2, <2>3
<1>12. \A i \in live : i \in outstanding <=> entries[i].n \in Standing
  <2> SUFFICES ASSUME NEW i \in live PROVE i \in outstanding <=> entries[i].n \in Standing
    OBVIOUS
  <2>1. ASSUME i \in outstanding PROVE entries[i].n \in Standing
    <3>1. ASSUME NEW m \in livers, m > entries[i].n
          PROVE  did[m].dir = "undo" /\ did[m].outcome # "applied"
      <4>1. PICK j \in live : entries[j].n = m
        BY <1>9
      <4> QED BY <1>10, <2>1, <3>1, <4>1
    <3> QED BY <1>8, <2>1, <3>1 DEF Standing
  <2>2. ASSUME entries[i].n \in Standing PROVE i \in outstanding
    <3>1. ASSUME NEW j \in live, j > i
          PROVE  did[entries[j].n].dir = "undo" /\ did[entries[j].n].outcome # "applied"
      BY <1>8, <1>11, <2>2, <3>1 DEF Standing
    <3> QED BY <2>2, <3>1 DEF Standing
  <2> QED BY <2>1, <2>2
<1>13. outstanding # {}
  <2>1. PICK x \in Standing : TRUE
    OBVIOUS
  <2>2. x \in livers
    BY DEF Standing
  <2> QED BY <1>9, <1>12, <2>1, <2>2
<1>14. PICK i \in outstanding : n = entries[i].n
  BY <1>13 DEF Selected, lines, entries
<1> QED BY <1>12, <1>14

\* A step of a run leaves what it reverses as it is, unless it begins or ends it.
LEMMA OnlyUndoChooses ==
    ASSUME SwapInv, [Next]_allVars, NEW p \in Procs, run[p].undone = None, run'[p].undone # None
    PROVE  Undo(p)
<1>0. LogInv /\ run \in [Procs -> Runs]
  BY SwapFacts DEF SwapInv, LogInv, LogTypeOK
<1>1. run'[p] # run[p] /\ run'[p] # Idle
  BY DEF Idle
<1>2. CASE UNCHANGED run
  BY <1>1, <1>2
<1>3. ASSUME NEW q \in Procs, RunSteps(q) PROVE FALSE
  BY <1>1, <1>3 DEF RunSteps, RunEnds, RunGoes
<1>4. ASSUME NEW q \in Procs, NEW s \in Stores, NEW a \in Accounts, Swap(q, s, a) PROVE FALSE
  BY <1>0, <1>1, <1>4, StartSwapKeeps DEF Swap, Starts
<1>5. ASSUME NEW q \in Procs, NEW s \in Stores, Refresh(q, s) PROVE FALSE
  BY <1>0, <1>1, <1>5, StartRefreshKeeps DEF Refresh, Starts
<1>6. ASSUME NEW q \in Procs, Undo(q) PROVE Undo(p)
  BY <1>0, <1>1, <1>6, StartUndoKeeps DEF Undo, Starts
<1>7. ASSUME NEW q \in Procs,
             Read(q) \/ Locks(q) \/ Post(q) \/ BreakLock(q) \/ WriteItem(q) \/ Stop(q) \/ AfterWrite(q) \/ Dies(q)
      PROVE  RunSteps(q)
  BY <1>0, <1>7, ReadKeeps, LocksKeep, RenewKeeps, BreakKeeps, WriteKeeps, WithdrawKeeps, ConfigKeeps, CrashKeeps
     DEF Locks, Post, BreakLock, WriteItem, Stop, AfterWrite, Dies, RunSteps
<1>8. ASSUME NEW q \in Procs, Logs(q) PROVE RunSteps(q)
  <2>1. Over(q) => RunSteps(q)
    BY <1>0, EndsAlone DEF Over
  <2> QED BY <1>0, <1>8, <2>1, GateKeeps, RefuseKeeps, Write1Keeps, Write2Keeps DEF Logs, RunSteps
<1>9. ASSUME NEW q \in Procs, Decide(q) \/ Save(q) \/ Adopt(q) PROVE UNCHANGED run
  BY <1>9 DEF Decide, Save, Adopt, vars
<1>10. CASE \/ UNCHANGED allVars \/ Tamper
            \/ \E a \in Accounts : Settle(a) \/ RefreshFile(a)
            \/ \E s \in Stores : SessionRefreshes(s) \/ \E a \in Accounts : SessionLogsIn(s, a)
            \/ \E s \in Spaces : Migrate(s)
  BY <1>2, <1>10 DEF allVars, vars, Tamper, Settle, RefreshFile, SessionRefreshes, SessionLogsIn, Migrate,
                     Elsewhere
<1> QED BY <1>2, <1>3, <1>4, <1>5, <1>6, <1>7, <1>8, <1>9, <1>10 DEF Next

\* `--undo` reverses the newest live swap that no applied undo reversed, however the log was torn and
\* whoever appended in between (use.rs:3968-4000, "agctl will not guess which swap to reverse").
THEOREM TakesTheNewest == Spec => UndoesTheNewest
<1>1. SwapInv /\ [Next]_allVars =>
        [\A p \in Procs :
           run[p].undone = None /\ run'[p].undone # None /\ Standing # {} /\ NobodyBetween
               => run'[p].undone \in Standing]_vars
  <2> SUFFICES ASSUME SwapInv, [Next]_allVars, NEW p \in Procs, run[p].undone = None,
                      run'[p].undone # None, Standing # {}, NobodyBetween
               PROVE  run'[p].undone \in Standing
    OBVIOUS
  <2>1. Undo(p)
    BY OnlyUndoChooses
  <2>2. LogInv
    BY DEF SwapInv
  <2>3. run'[p].undone \in Selected(EntriesIn(Contents(at, files))) /\ ~Unreadable(Contents(at, files))
    BY <2>1, <2>2, StartUndoKeeps DEF Undo, StartUndo
  <2> QED BY <2>2, <2>3, NewestIsSelected
<1> QED BY <1>1, SwapInvAlways, PTL DEF Spec, UndoesTheNewest

-----------------------------------------------------------------------------
(* What an undo restores.                                                  *)

LEMMA AtRestStays == ASSUME UNCHANGED <<homes, item>> PROVE AtRest' = AtRest
BY DEF AtRest, homes

\* Where the write of the item lands, the credential that goes in is at rest there.
LEMMA AtRestWritten ==
    ASSUME LogInv, NEW p \in Procs, Write(p), UNCHANGED homes PROVE run[p].to \cap AtRest \subseteq AtRest'
<1>1. CASE UNCHANGED item
  BY <1>1, AtRestStays
<1>2. CASE item' = [item EXCEPT ![run[p].store] = run[p].to]
  <2>1. run[p].store \in Stores /\ item \in [Stores -> SUBSET Grants]
    BY RunFacts DEF LogInv, LogTypeOK
  <2>2. item'[run[p].store] = run[p].to
    BY <1>2, <2>1
  <2>3. run[p].to \subseteq UNION {item'[s] : s \in Stores}
    BY <2>1, <2>2
  <2>4. UNION {item'[s] : s \in Stores} \subseteq AtRest'
    BY DEF AtRest
  <2> QED BY <2>3, <2>4
<1> QED BY <1>1, <1>2 DEF Write

\* Until its write is confirmed no step of a namespace's undo, and no death of it, takes away the
\* credential it restores: the store's adopted copy is its only home (use.rs:3344-3356).
THEOREM KeepsWhatItRestores == Spec => RestoredIsKept
<1> DEFINE Stays(p) == run[p].to \cap AtRest \subseteq spent' \cup AtRest'
<1>1. SwapInv /\ [Next]_allVars =>
        [\A p \in Procs :
          /\ run[p].dir = "undo" /\ ~OnLive(p) /\ Acts(p)
          /\ run[p].wrote = None \/ did[run[p].wrote].outcome # "applied"
          => run[p].to \cap AtRest \subseteq spent' \cup AtRest']_allVars
  <2> SUFFICES ASSUME SwapInv, Next, NEW p \in Procs, run[p].dir = "undo", ~OnLive(p), Acts(p),
                      run[p].wrote = None \/ did[run[p].wrote].outcome # "applied"
               PROVE  Stays(p)
    OBVIOUS
  <2>0. LogInv /\ LogTypeOK /\ RecordOf(p) /\ PlanOf(p) /\ plan \in [Procs -> Plans]
        /\ plan[p].source = "copy" /\ plan[p].what \in {"nothing", "staged"}
    BY SwapFacts DEF SwapInv, LogInv, PlanOf, OnLive
  <2>1. UNCHANGED <<homes, item>> => Stays(p)
    BY AtRestStays
  <2>2. ~Place(p, "idle")
    BY <2>0 DEF PlanOf, Idle
  <2>3. CASE \E q \in Procs : \/ \E s \in Stores, a \in Accounts : Swap(q, s, a)
                              \/ \E s \in Stores : Refresh(q, s)
                              \/ Undo(q) \/ Read(q) \/ Locks(q) \/ Decide(q) \/ Post(q)
                              \/ BreakLock(q) \/ Stop(q) \/ Logs(q) \/ Dies(q)
    <3> SUFFICES UNCHANGED <<homes, item>>
      BY <2>1
    <3>1. PICK q \in Procs : \/ \E s \in Stores, a \in Accounts : Swap(q, s, a)
                             \/ \E s \in Stores : Refresh(q, s)
                             \/ Undo(q) \/ Read(q) \/ Locks(q) \/ Decide(q) \/ Post(q)
                             \/ BreakLock(q) \/ Stop(q) \/ Logs(q) \/ Dies(q)
      BY <2>3
    <3>2. CASE (\E s \in Stores, a \in Accounts : Swap(q, s, a)) \/ (\E s \in Stores : Refresh(q, s))
      BY <3>2 DEF Swap, Refresh, StartSwap, StartRefresh, swapVars
    <3>3. CASE Undo(q) \/ Read(q) \/ Locks(q)
      BY <3>3 DEF Undo, Read, Locks, StartUndo, ReadItem, TakeLocks, swapVars
    <3>4. CASE Decide(q) \/ Post(q) \/ BreakLock(q)
      BY <3>4 DEF Decide, Post, BreakLock, Renew, Break, swapVars, vars
    <3>5. CASE Stop(q) \/ Dies(q)
      BY <3>5 DEF Stop, Dies, Withdraw, Crash
    <3>6. CASE Logs(q)
      BY <3>6 DEF Logs, Gate, Refuse, Write1, Write2, Over
    <3> QED BY <3>1, <3>2, <3>3, <3>4, <3>5, <3>6
  <2>4. ASSUME NEW q \in Procs, WriteItem(q) PROVE Stays(p)
    <3>1. q = p
      <4>1. \A o \in Procs \ {q} : run'[o] = run[o] /\ plan' = plan
        BY <2>0, <2>4, WriteKeeps DEF WriteItem, RunGoes, swapVars
      <4> QED BY <4>1 DEF Acts
    <3> QED BY <2>0, <2>4, <3>1, AtRestWritten DEF WriteItem, swapVars
  <2>5. ASSUME NEW q \in Procs, Save(q) \/ Adopt(q) PROVE Stays(p)
    <3>1. q = p
      BY <2>0, <2>5 DEF Acts, Save, Adopt, Step
    <3>2. UNCHANGED <<homes, item>>
      BY <2>0, <2>5, <3>1 DEF Save, Adopt, homes
    <3> QED BY <2>1, <3>2
  <2>6. ASSUME NEW q \in Procs, AfterWrite(q) PROVE Stays(p)
    <3>1. q = p
      <4>1. \A o \in Procs \ {q} : run'[o] = run[o] /\ plan'[o] = plan[o]
        BY <2>0, <2>6, ConfigKeeps DEF AfterWrite, RunSteps, RunEnds, RunGoes, Done
      <4> QED BY <4>1 DEF Acts
    <3>2. did[run[p].wrote].outcome # "applied"
      BY <2>0, <2>6, <3>1 DEF AfterWrite, Config, Place, RecordOf
    <3>3. UNCHANGED <<homes, item>>
      BY <2>6, <3>1, <3>2 DEF AfterWrite, Config, homes
    <3> QED BY <2>1, <3>3
  <2>7. CASE \/ Tamper /\ UNCHANGED swapVars
             \/ \E a \in Accounts : Settle(a) \/ RefreshFile(a)
             \/ \E s \in Stores : SessionRefreshes(s) \/ \E a \in Accounts : SessionLogsIn(s, a)
             \/ \E s \in Spaces : Migrate(s)
    <3>1. UNCHANGED <<run, plan>>
      BY <2>7 DEF swapVars, vars, Tamper, Settle, RefreshFile, SessionRefreshes, SessionLogsIn, Migrate, Elsewhere
    <3> QED BY <3>1 DEF Acts
  <2> QED BY <2>3, <2>4, <2>5, <2>6, <2>7 DEF Next
<1> QED BY <1>1, SwapInvAlways, PTL DEF Spec, RestoredIsKept

-----------------------------------------------------------------------------
(* What the credential that comes out rests on: the runs apart.            *)

\* What the invariant says of one run.
Hands(p) == HasRead(p) /\ HasDecided(p) /\ Weighed(p) /\ PutBy(p)

\* A step leaves what a namespace has beside its item, as far as a decision rests on it.
Spares(a) ==
    /\ copy'[a] = copy[a] /\ parked'[a] = parked[a]
    /\ Migrated(a) => Migrated(a)'
    /\ store'[a] = store[a] \/ store[a] \subseteq spent' \/ Migrated(a)'

Puts(p) == plan[p].what \in {"copy", "store"}

LEMMA KeptFacts ==
    ASSUME KeptInv, NEW p \in Procs PROVE Hands(p) /\ HasRead(p) /\ HasDecided(p) /\ Weighed(p) /\ PutBy(p)
BY DEF KeptInv, Hands

\* What a run puts by goes to a namespace it has locked.
LEMMA LockedHome ==
    ASSUME SwapInv, KeptInv, NEW q \in Procs, plan[q].what # "nothing"
    PROVE  plan[q].home \in Accounts /\ lock[plan[q].home] = q
<1>1. HasDecided(q) /\ LocalsOf(q) /\ run[q].pc \in Places
  BY SwapFacts, KeptFacts, RunFacts DEF LogInv
<1> QED BY <1>1 DEF HasDecided, LocalsOf, Holding, Places

\* The decision goes on standing where its home is spared.
LEMMA RestsKept ==
    ASSUME NEW q \in Procs, Weighed(q), PutBy(q), plan'[q] = plan[q],
           run'[q].dir = run[q].dir, run'[q].store = run[q].store,
           run'[q].wrote = None => run[q].wrote = None, spent \subseteq spent',
           Puts(q) => Spares(plan[q].home)
    PROVE  Weighed(q)' /\ PutBy(q)'
<1> DEFINE x == plan[q]
           h == x.home
<1>1. Puts(q) => Pends(h)' = Pends(h)
  BY DEF Spares, Pends
<1>2. Weighed(q)'
  BY DEF Weighed, Spares, Puts, Forward, OnLive, Newer
<1>3. PutBy(q)'
  <2> SUFFICES ASSUME Forward(q), x.step = "ready", run[q].wrote = None
               PROVE  /\ x.what = "copy" => copy'[h] = x.out
                      /\ x.what = "store" => Migrated(h)' \/ x.out \subseteq spent' \cup store'[h] \cup Pends(h)'
    BY DEF PutBy, Forward, Pends
  <2>1. x.what = "copy" => copy'[h] = x.out
    BY DEF PutBy, Spares, Puts
  <2>2. x.what = "store" => Migrated(h)' \/ x.out \subseteq spent' \cup store'[h] \cup Pends(h)'
    BY <1>1 DEF PutBy, Spares, Puts
  <2> QED BY <2>1, <2>2
<1> QED BY <1>2, <1>3

\* What a run has read and decided is in its locals and its plan.
LEMMA LocalsAlike ==
    ASSUME NEW q \in Procs, plan'[q] = plan[q], run'[q] = run[q], HasRead(q), HasDecided(q)
    PROVE  HasRead(q)' /\ HasDecided(q)'
<1>1. HasRead(q)'
  BY DEF HasRead, Forward, OnLive
<1>2. HasDecided(q)'
  BY DEF HasDecided, Forward, OnLive
<1> QED BY <1>1, <1>2

\* A step of p spares what another run has locked.
LEMMA OthersHands ==
    ASSUME SwapInv, KeptInv, NEW p, spent \subseteq spent',
           \A q \in Procs \ {p} : run'[q] = run[q] /\ plan'[q] = plan[q],
           \A a \in Accounts : lock[a] # p /\ lock[a] \in Procs => Spares(a)
    PROVE  \A q \in Procs \ {p} : Hands(q)'
<1> SUFFICES ASSUME NEW q \in Procs \ {p} PROVE Hands(q)'
  OBVIOUS
<1>1. Hands(q)
  BY KeptFacts
<1>2. Puts(q) => Spares(plan[q].home)
  BY LockedHome DEF Puts
<1>3. HasRead(q)' /\ HasDecided(q)'
  BY <1>1, LocalsAlike DEF Hands
<1>4. Weighed(q)' /\ PutBy(q)'
  BY <1>1, <1>2, RestsKept DEF Hands
<1> QED BY <1>3, <1>4 DEF Hands

LEMMA StepHands ==
    ASSUME SwapInv, KeptInv, NEW p \in Procs, spent \subseteq spent',
           \A q \in Procs \ {p} : run'[q] = run[q] /\ plan'[q] = plan[q],
           \A a \in Accounts : lock[a] # p /\ lock[a] \in Procs => Spares(a),
           HomesInv', Hands(p)'
    PROVE  KeptInv'
BY OthersHands DEF KeptInv, Hands

\* A step beside the runs spares what a run has locked.
LEMMA BesideHands ==
    ASSUME SwapInv, KeptInv, UNCHANGED <<run, plan>>, spent \subseteq spent',
           \A a \in Accounts : lock[a] \in Procs => Spares(a), HomesInv'
    PROVE  KeptInv'
<1>1. \A q \in Procs \ {NoProc} : Hands(q)'
  BY OthersHands
<1> QED BY <1>1, ProcsAssumption DEF KeptInv, Hands

\* A run that begins or has ended has nothing in hand.
LEMMA EmptyHands ==
    ASSUME NEW p \in Procs, run'[p] = Idle, plan'[p] = NoPlan PROVE Hands(p)'
<1>1. /\ Idle.pc = "idle" /\ Idle.to = {} /\ Idle.refresh = FALSE /\ Idle.wrote = None
      /\ NoPlan.out = {} /\ NoPlan.source = "own" /\ NoPlan.what = "nothing" /\ NoPlan.step = "decide"
  BY DEF Idle, NoPlan
<1>2. HasRead(p)'
  BY <1>1 DEF HasRead, One
<1>3. HasDecided(p)'
  BY <1>1 DEF HasDecided, None
<1>4. Weighed(p)' /\ PutBy(p)'
  BY <1>1 DEF Weighed, PutBy
<1> QED BY <1>2, <1>3, <1>4 DEF Hands

\* A step of p that goes on with what it has read and decided.
Onward(p) ==
    LET r == run[p]
        t == run'[p]
    IN  /\ t.dir = r.dir /\ t.store = r.store /\ t.refresh = r.refresh
        /\ t.of = r.of /\ t.to = r.to /\ t.from = r.from
        /\ r.pc \notin {"idle", "item"} /\ t.pc \notin {"idle", "item"}
        /\ t.pc \in {"lock", "gate"} => r.pc \in {"lock", "gate"}
        /\ r.wrote # None => t.wrote # None
        /\ t.wrote # None => r.wrote # None \/ r.refresh \/ plan[p].step = "ready"
        /\ \A q \in Procs \ {p} : run'[q] = run[q]

LEMMA OnwardHands ==
    ASSUME KeptInv, NEW p \in Procs, Onward(p), plan'[p] = plan[p], spent \subseteq spent',
           Puts(p) /\ run'[p].wrote = None => Spares(plan[p].home)
    PROVE  Hands(p)'
<1> DEFINE r == run[p]
           t == run'[p]
           x == plan[p]
<1>0. HasRead(p) /\ HasDecided(p) /\ Weighed(p) /\ PutBy(p)
  BY KeptFacts
<1>1. /\ t.dir = r.dir /\ t.store = r.store /\ t.refresh = r.refresh
      /\ t.of = r.of /\ t.to = r.to /\ t.from = r.from
      /\ r.pc \notin {"idle", "item"} /\ t.pc \notin {"idle", "item"}
      /\ t.pc \in {"lock", "gate"} => r.pc \in {"lock", "gate"}
      /\ r.wrote # None => t.wrote # None
      /\ t.wrote # None => r.wrote # None \/ r.refresh \/ x.step = "ready"
  BY DEF Onward
<1>2. HasRead(p)'
  BY <1>0, <1>1 DEF HasRead, Forward, OnLive
<1>3. HasDecided(p)'
  <2>1. Locked(t) = Locked(r)
    BY <1>1 DEF Locked
  <2> QED BY <1>0, <1>1, <2>1 DEF HasDecided, Forward, OnLive
<1>4. Weighed(p)' /\ PutBy(p)'
  <2>1. CASE t.wrote = None
    BY <1>0, <1>1, <2>1, RestsKept
  <2>2. CASE t.wrote # None
    <3>1. x.step = "ready" \/ x.what = "nothing"
      BY <1>0, <1>1, <2>2 DEF HasDecided
    <3> QED BY <2>2, <3>1 DEF Weighed, PutBy
  <2> QED BY <2>1, <2>2
<1> QED BY <1>2, <1>3, <1>4 DEF Hands

\* The homes are spared where nothing is done to them and no item is emptied.
LEMMA AllSpared ==
    ASSUME UNCHANGED homes, \A s \in Stores : item[s] # {} => item'[s] # {}, NEW a PROVE Spares(a)
BY DEF homes, Spares, Migrated, Stores

LEMMA HomesHold ==
    ASSUME HomesInv, UNCHANGED homes, \A s \in Stores : One(item'[s]) PROVE HomesInv'
BY DEF homes, HomesInv, Pends

\* A step of p that leaves the homes: it ends the run, or goes on.
LEMMA PlainStep ==
    ASSUME SwapInv, KeptInv, NEW p \in Procs, UNCHANGED <<homes, item, server>>,
           \A q \in Procs \ {p} : plan'[q] = plan[q],
           \/ RunEnds(p) /\ plan'[p] = NoPlan
           \/ Onward(p) /\ plan'[p] = plan[p]
    PROVE  KeptInv'
<1>1. \A a : Spares(a)
  BY AllSpared
<1>2. HomesInv'
  BY HomesHold DEF KeptInv, HomesInv
<1>3. spent \subseteq spent' /\ \A q \in Procs \ {p} : run'[q] = run[q]
  BY DEF server, RunEnds, Onward
<1>4. Hands(p)'
  BY <1>1, <1>3, EmptyHands, OnwardHands DEF RunEnds
<1> QED BY <1>1, <1>2, <1>3, <1>4, StepHands

-----------------------------------------------------------------------------
(* What the credential that comes out rests on: the steps up to the item.  *)

\* A run that begins has read and decided nothing.
LEMMA BegunHands ==
    ASSUME LogInv', NEW p \in Procs, run'[p].pc = "item", run'[p].to = {},
           plan'[p].out = {}, plan'[p].what = "nothing", plan'[p].step = "decide",
           run'[p].dir = "forward" => plan'[p].source = "own"
    PROVE  Hands(p)'
<1>1. run'[p].wrote = None
  BY DEF LogInv, RecordOf, Writing
<1>2. HasRead(p)'
  BY DEF HasRead, One, Forward
<1>3. HasDecided(p)'
  BY <1>1 DEF HasDecided
<1>4. Weighed(p)' /\ PutBy(p)'
  BY DEF Weighed, PutBy
<1> QED BY <1>2, <1>3, <1>4 DEF Hands

LEMMA BegunKeeps ==
    ASSUME SwapInv, KeptInv, LogInv', NEW p \in Procs, Starts(p), run'[p].to = {},
           UNCHANGED <<homes, item, server>>, \A q \in Procs \ {p} : plan'[q] = plan[q],
           plan'[p].out = {}, plan'[p].what = "nothing", plan'[p].step = "decide",
           run'[p].dir = "forward" => plan'[p].source = "own"
    PROVE  KeptInv'
<1>1. \A a : Spares(a)
  BY AllSpared
<1>2. HomesInv'
  BY HomesHold DEF KeptInv, HomesInv
<1>3. Hands(p)'
  BY BegunHands DEF Starts
<1>4. spent \subseteq spent' /\ \A q \in Procs \ {p} : run'[q] = run[q] /\ plan'[q] = plan[q]
  BY DEF Starts, server
<1> QED BY <1>1, <1>2, <1>3, <1>4, StepHands

LEMMA NoPlanFacts ==
    NoPlan.out = {} /\ NoPlan.what = "nothing" /\ NoPlan.step = "decide" /\ NoPlan.source = "own"
BY DEF NoPlan

LEMMA SwapHands ==
    ASSUME SwapInv, KeptInv, NEW p \in Procs, NEW s \in Stores, NEW a \in Accounts, Swap(p, s, a)
    PROVE  KeptInv'
<1>1. LogInv' /\ Starts(p)
  BY SwapFacts, StartSwapKeeps DEF Swap
<1>2. run' = [run EXCEPT ![p] = [Idle EXCEPT !.pc = "item", !.store = s, !.of = a]]
      /\ Place(p, "idle") /\ UNCHANGED <<homes, item, server, plan>>
  BY DEF Swap, StartSwap, swapVars
<1>3. run'[p].to = {}
  BY <1>2, SwapFacts DEF Idle
<1>4. plan[p] = NoPlan
  BY <1>2, SwapFacts DEF PlanOf
<1> QED BY <1>1, <1>2, <1>3, <1>4, NoPlanFacts, BegunKeeps

LEMMA RefreshHands ==
    ASSUME SwapInv, KeptInv, NEW p \in Procs, NEW s \in Stores, Refresh(p, s)
    PROVE  KeptInv'
<1>1. LogInv' /\ Starts(p)
  BY SwapFacts, StartRefreshKeeps DEF Refresh
<1>2. run' = [run EXCEPT ![p] = [Idle EXCEPT !.pc = "item", !.store = s, !.refresh = TRUE]]
      /\ Place(p, "idle") /\ UNCHANGED <<homes, item, server, plan>>
  BY DEF Refresh, StartRefresh, swapVars
<1>3. run'[p].to = {}
  BY <1>2, SwapFacts DEF Idle
<1>4. plan[p] = NoPlan
  BY <1>2, SwapFacts DEF PlanOf
<1> QED BY <1>1, <1>2, <1>3, <1>4, NoPlanFacts, BegunKeeps

LEMMA UndoHands ==
    ASSUME SwapInv, KeptInv, NEW p \in Procs, Undo(p)
    PROVE  KeptInv'
<1>1. LogInv' /\ Starts(p)
  BY SwapFacts, StartUndoKeeps DEF Undo
<1>2. UNCHANGED <<homes, item, server>> /\ Place(p, "idle")
  BY DEF Undo, StartUndo
<1>3. run'[p].to = {} /\ run'[p].dir = "undo"
  <2>1. PICK n : Reverse(p, n)
    BY DEF Undo, StartUndo
  <2>2. PICK a : run' = [run EXCEPT ![p] = [Idle EXCEPT !.pc = "item", !.dir = "undo", !.of = a,
                                                        !.store = did[n].store, !.undone = n]]
    BY <2>1 DEF Reverse
  <2> QED BY <2>2, SwapFacts DEF Idle
<1>4. PICK s \in {"own", "copy"} : plan' = [plan EXCEPT ![p].source = s]
  BY DEF Undo, NamespaceReversal, LiveReversal
<1>5. plan[p] = NoPlan
  BY <1>2, SwapFacts DEF PlanOf
<1> DEFINE x == Sourcing(plan[p], s)
<1>6. x \in Plans /\ x.out = {} /\ x.what = "nothing" /\ x.step = "decide"
  BY <1>5, NoPlanFacts, NoPlanType, SourcingFacts
<1>7. plan' = [plan EXCEPT ![p] = x]
  BY <1>4 DEF Sourcing
<1> HIDE DEF x
<1>8. plan'[p] = x /\ \A q \in Procs \ {p} : plan'[q] = plan[q]
  BY <1>6, <1>7, SwapFacts, PlanPut
<1> QED BY <1>1, <1>2, <1>3, <1>6, <1>8, BegunKeeps

\* What a run reads is one credential of a place.
LEMMA ReadHands ==
    ASSUME SwapInv, KeptInv, NEW p \in Procs, Read(p)
    PROVE  KeptInv'
<1> DEFINE r == run[p]
           t == run'[p]
           x == plan'[p]
<1>0. /\ LogTypeOK /\ LocalsOf(p) /\ HasRead(p) /\ HasDecided(p) /\ r \in Runs /\ r.pc = "item"
      /\ r.store \in Stores /\ ReadItem(p) /\ UNCHANGED <<homes, item, server>> /\ r.wrote = None
  BY SwapFacts, KeptFacts, RunFacts DEF LogInv, Read, ReadItem, Place, RecordOf, Writing
<1>1. CASE Ends(p)
  <2>1. RunEnds(p)
    BY <1>0, <1>1, EndsFacts DEF RunEnds, Others
  <2>2. t.pc = "idle"
    BY <2>1 DEF RunEnds, Idle
  <2>3. plan' = [plan EXCEPT ![p] = NoPlan]
    BY <2>2 DEF Read
  <2> QED BY <1>0, <2>1, <2>3, SwapFacts, PlainStep
<1>2. CASE ~Ends(p)
  <2>1. PICK c \in Incoming(p) :
          run' = [run EXCEPT ![p].from = item[r.store], ![p].to = {c}, ![p].pc = "lock"]
    BY <1>0, <1>2 DEF ReadItem
  <2> DEFINE F == item[r.store]
             y == Reading(r, F, {c})
  <2>2. F \in SUBSET Grants /\ c \in Grants
    BY <1>0, <2>1 DEF LogTypeOK, Incoming
  <2>3. run' = [run EXCEPT ![p] = y]
    BY <2>1, ZenonT(30) DEF Reading
  <2>4. {c} \in SUBSET Grants
    BY <2>2
  <2>5. /\ y \in Runs /\ y.pc = "lock" /\ y.store = r.store /\ y.refresh = r.refresh /\ y.dir = r.dir
        /\ y.of = r.of /\ y.to = {c} /\ y.from = F /\ y.wrote = r.wrote
    BY <1>0, <2>2, <2>4, ReadingFacts
  <2> HIDE DEF y
  <2>6. t = y /\ \A q \in Procs \ {p} : run'[q] = run[q]
    BY <2>3, <2>5, SwapFacts, RunPut
  <2>7. t.pc # "idle"
    BY <2>5, <2>6
  <2>8. plan[p].what = "nothing" /\ plan[p].step = "decide" /\ plan[p].out = {}
    BY <1>0 DEF HasRead, HasDecided
  <2>9. /\ x.what = "nothing" /\ x.source = plan[p].source
        /\ \A q \in Procs \ {p} : plan'[q] = plan[q]
        /\ IF r.refresh THEN x.out = {} /\ x.step = "renew"
           ELSE x.out = Displaced(p) /\ x.step = "decide"
    <3>1. CASE r.refresh
      <4> DEFINE z == Stepped(plan[p], "renew")
      <4>1. plan' = [plan EXCEPT ![p] = z]
        BY <2>7, <3>1 DEF Read, Step, Stepped
      <4>2. z \in Plans /\ z.what = "nothing" /\ z.source = plan[p].source /\ z.out = {} /\ z.step = "renew"
        BY <2>8, SwapFacts, SteppedFacts DEF Phases
      <4> HIDE DEF z
      <4> QED BY <3>1, <4>1, <4>2, SwapFacts, PlanPut
    <3>2. CASE ~r.refresh
      <4> DEFINE z == Displacing(plan[p], Displaced(p))
      <4>1. plan' = [plan EXCEPT ![p] = z]
        BY <2>7, <3>2 DEF Read, Displacing
      <4>2. z \in Plans /\ z.what = "nothing" /\ z.source = plan[p].source /\ z.out = Displaced(p)
            /\ z.step = "decide"
        BY <2>8, SwapFacts, DisplacedType, DisplacingFacts
      <4> HIDE DEF z
      <4> QED BY <3>2, <4>1, <4>2, SwapFacts, PlanPut
    <3> QED BY <3>1, <3>2
  <2>10. ~r.refresh =>
           /\ r.dir = "forward" \/ r.store = Live => c.of = r.of
           /\ IF F # {} THEN Displaced(p) = F
              ELSE Of(Displaced(p)) \subseteq {r.store} /\ One(Displaced(p))
    <3> SUFFICES ASSUME ~r.refresh
                 PROVE  /\ r.dir = "forward" \/ r.store = Live => c.of = r.of
                        /\ IF F # {} THEN Displaced(p) = F
                           ELSE Of(Displaced(p)) \subseteq {r.store} /\ One(Displaced(p))
      OBVIOUS
    <3>1. r.dir = "forward" \/ r.store = Live => c.of = r.of
      BY <2>1 DEF Incoming
    <3>2. r.store = Live => F # {}
      BY <2>7 DEF Read, OnLive
    <3>3. CASE F # {}
      BY <3>1, <3>3 DEF Displaced
    <3>4. CASE F = {}
      <4>1. r.store \in Accounts /\ Displaced(p) = store[r.store]
        BY <1>0, <3>2, <3>4, AccountsAssumption DEF Displaced, Stores, OnLive
      <4> QED BY <3>1, <3>4, <4>1 DEF KeptInv, HomesInv, Of
    <3> QED BY <3>3, <3>4
  <2>11. One(F)
    BY <1>0 DEF KeptInv, HomesInv
  <2>12. HasRead(p)'
    BY <1>0, <2>5, <2>6, <2>9, <2>10, <2>11 DEF HasRead, Forward, OnLive, One
  <2>13. HasDecided(p)'
    BY <1>0, <2>5, <2>6, <2>9 DEF HasDecided, Forward, OnLive, Of
  <2>14. Hands(p)'
    BY <2>9, <2>12, <2>13 DEF Hands, Weighed, PutBy
  <2>15. (\A a : Spares(a)) /\ HomesInv' /\ spent \subseteq spent'
    BY <1>0, AllSpared, HomesHold DEF KeptInv, HomesInv, server
  <2> QED BY <2>6, <2>9, <2>14, <2>15, StepHands
<1> QED BY <1>1, <1>2

LEMMA LocksHands ==
    ASSUME SwapInv, KeptInv, NEW p \in Procs, Locks(p)
    PROVE  KeptInv'
<1> DEFINE r == run[p]
           z == IF r.store = Live THEN "gate" ELSE "write"
           y == Moved(r, z)
<1>0. r \in Runs /\ r.pc = "lock" /\ z \in Places /\ UNCHANGED <<homes, item, server, plan>>
  BY SwapFacts, RunFacts DEF Locks, TakeLocks, Place, Places, swapVars
<1>1. run' = [run EXCEPT ![p] = y]
  BY ZenonT(30) DEF Locks, TakeLocks, Moves, Moved
<1>2. /\ y \in Runs /\ y.pc = z /\ y.store = r.store /\ y.refresh = r.refresh /\ y.dir = r.dir
      /\ y.of = r.of /\ y.to = r.to /\ y.from = r.from /\ y.wrote = r.wrote
  BY <1>0, MovedFacts
<1> HIDE DEF y
<1>3. run'[p] = y /\ \A q \in Procs \ {p} : run'[q] = run[q]
  BY <1>1, <1>2, SwapFacts, RunPut
<1>4. Onward(p)
  BY <1>0, <1>2, <1>3 DEF Onward
<1> QED BY <1>0, <1>4, PlainStep

-----------------------------------------------------------------------------
(* What the credential that comes out rests on: the decision.              *)

\* A credential that is displaced is of one account.
LEMMA OutFacts ==
    ASSUME SwapInv, KeptInv, NEW p \in Procs
    PROVE  /\ plan[p].out \in SUBSET Grants /\ One(plan[p].out) /\ Of(plan[p].out) \subseteq Accounts
           /\ \A a \in Of(plan[p].out) : Of(plan[p].out) = {a}
<1>1. plan[p].out \in SUBSET Grants /\ One(plan[p].out)
  BY SwapFacts, PlanValues, KeptFacts DEF HasRead
<1> QED BY <1>1 DEF One, Of, Grants

\* What an answer of the decision puts by, and over what.
Answering(p, answer) ==
    LET r == run[p]
        out == plan[p].out
    IN  /\ r.refresh => answer.what = "nothing"
        /\ answer.what # "nothing" => answer.home \in Accounts /\ answer.home \in Locked(r)
        /\ answer.what = "staged" => ~Forward(p) /\ ~OnLive(p)
        /\ answer.what = "store" =>
             /\ Of(out) \subseteq {answer.home} /\ answer.home # r.of
             /\ parked[answer.home] = {} /\ (answer.prior = {} \/ Newer(out, answer.prior))
        /\ answer.what = "nothing" /\ Forward(p) =>
             Of(out) \subseteq {r.of} \/ (answer.prior = out /\ answer.home \in Accounts)
        /\ answer.what = "copy" /\ Forward(p) /\ ~OnLive(p) =>
             copy[answer.home] = {} \/ Newer(out, copy[answer.home])

LEMMA AdoptionAnswers ==
    ASSUME SwapInv, KeptInv, NEW p \in Procs, Place(p, "write"), NEW answer \in Adoption(p)
    PROVE  Answering(p, answer)
<1> DEFINE out == plan[p].out
           r == run[p]
           s == r.store
           of == Of(out)
<1>0. /\ out \in SUBSET Grants /\ One(out) /\ of \subseteq Accounts /\ (\A a \in of : of = {a})
      /\ s \in Stores /\ HasRead(p) /\ LocalsOf(p) /\ r.pc = "write" /\ r.wrote = None
  BY SwapFacts, RunFacts, KeptFacts, OutFacts DEF LogInv, Place, RecordOf, Writing
<1>1. s # Live => s \in Accounts
  BY <1>0, AccountsAssumption DEF Stores
<1>2. \A a : /\ There(a, out).what = "nothing" /\ There(a, out).home = a /\ There(a, out).prior = out
             /\ InCopy(a).what = "copy" /\ InCopy(a).home = a
             /\ Staged(a).what = "staged" /\ Staged(a).home = a
             /\ InStore(a).what = "store" /\ InStore(a).home = a /\ InStore(a).prior = store[a]
  BY DEF There, InCopy, Staged, InStore
<1>3. Dropped.what = "nothing"
  BY DEF Dropped
<1>4. out # {} => ~r.refresh /\ (IF r.from # {} THEN out = r.from ELSE of \subseteq {s})
  BY <1>0 DEF HasRead
<1>5. s = Live => r.from # {}
  BY <1>0 DEF LocalsOf, Holding
<1>6. CASE out = {}
  <2>1. answer = Dropped /\ of = {}
    BY <1>6 DEF Adoption, Of
  <2> QED BY <1>3, <2>1 DEF Answering
<1>7. CASE out # {} /\ ~OnLive(p) /\ ~Forward(p)
  <2>1. answer \in {Dropped, Staged(s)}
    BY <1>7 DEF Adoption, Exchanged
  <2>2. ~r.refresh /\ s \in Accounts /\ s \in Locked(r)
    BY <1>1, <1>4, <1>7 DEF Locked, OnLive
  <2>3. CASE answer = Dropped
    BY <1>3, <1>7, <2>3 DEF Answering
  <2>4. CASE answer = Staged(s)
    BY <1>2, <1>7, <2>2, <2>4 DEF Answering
  <2> QED BY <2>1, <2>3, <2>4
<1>8. CASE out # {} /\ ~(~OnLive(p) /\ ~Forward(p))
  <2>0. ~r.refresh /\ (IF r.from # {} THEN out = r.from ELSE of \subseteq {s})
    BY <1>4, <1>8
  <2>1. s # Live => s \in Locked(r)
    BY <2>0 DEF Locked
  <2>2. ASSUME s # Live, answer \in Placed(out, copy[s], InCopy(s))
        PROVE  Answering(p, answer)
    <3>1. CASE answer = There(s, out)
      BY <1>1, <1>2, <2>2, <3>1 DEF Answering
    <3>2. CASE answer = InCopy(s) /\ (copy[s] = {} \/ Newer(out, copy[s]))
      BY <1>1, <1>2, <2>0, <2>1, <2>2, <3>2 DEF Answering
    <3> QED BY <1>2, <2>2, <3>1, <3>2 DEF Placed
  <2>3. CASE of = {s} /\ answer \in StoresOwn(p)
    <3>1. s # Live
      BY <1>0, <2>3, AccountsAssumption
    <3> QED BY <2>2, <2>3, <3>1 DEF StoresOwn
  <2>4. CASE of = {r.of} /\ answer \in IncomingsOwn(p)
    <3>1. CASE answer = Dropped
      BY <1>3, <2>4, <3>1 DEF Answering
    <3>2. CASE answer # Dropped
      BY <2>2, <2>4, <3>2 DEF IncomingsOwn, OnLive
    <3> QED BY <3>1, <3>2
  <2>5. ASSUME NEW a \in of, OnLive(p), Forward(p), answer \in ThirdsCopy(p, a) PROVE Answering(p, answer)
    <3>1. a \in Accounts /\ a \in Locked(r)
      <4>1. out = r.from
        BY <1>5, <2>0, <2>5 DEF OnLive
      <4>2. a \in {c.of : c \in r.from}
        BY <2>5, <4>1 DEF Of
      <4> QED BY <1>0, <2>0, <2>5, <4>2 DEF Locked, OnLive
    <3>2. answer \in {There(a, out), InCopy(a)}
      BY <2>5 DEF ThirdsCopy
    <3>3. CASE answer = There(a, out)
      BY <1>2, <3>1, <3>3 DEF Answering
    <3>4. CASE answer = InCopy(a)
      BY <1>2, <2>0, <2>5, <3>1, <3>4 DEF Answering
    <3> QED BY <3>2, <3>3, <3>4
  <2>6. ASSUME NEW a \in of, ~(OnLive(p) /\ Forward(p)), of # {s}, of # {r.of}, answer \in ThirdsStore(p, a)
        PROVE  Answering(p, answer)
    <3>1. of = {a} /\ a # r.of /\ a \in Accounts
      BY <1>0, <2>6
    <3>2. out = r.from
      BY <2>0, <2>6, <3>1
    <3>3. a \in Locked(r)
      <4>1. a \in {c.of : c \in r.from}
        BY <2>6, <3>2 DEF Of
      <4> QED BY <1>8, <2>0, <4>1 DEF Locked, OnLive, Forward
    <3>4. parked[a] = {} /\ answer \in Placed(out, store[a], InStore(a))
      BY <2>6 DEF ThirdsStore
    <3>5. CASE answer = There(a, out)
      BY <1>2, <3>1, <3>5 DEF Answering
    <3>6. CASE answer = InStore(a) /\ (store[a] = {} \/ Newer(out, store[a]))
      BY <1>2, <2>0, <3>1, <3>3, <3>4, <3>6 DEF Answering
    <3> QED BY <1>2, <3>4, <3>5, <3>6 DEF Placed
  <2>7. \/ of = {s} /\ answer \in StoresOwn(p)
        \/ of = {r.of} /\ answer \in IncomingsOwn(p)
        \/ \E a \in of : OnLive(p) /\ Forward(p) /\ answer \in ThirdsCopy(p, a)
        \/ of # {s} /\ of # {r.of} /\ ~(OnLive(p) /\ Forward(p)) /\ \E a \in of : answer \in ThirdsStore(p, a)
    BY <1>8 DEF Adoption
  <2> QED BY <2>3, <2>4, <2>5, <2>6, <2>7
<1> QED BY <1>6, <1>7, <1>8

\* A step of p under its locks that changes what it plans.
LEMMA PlannedHands ==
    ASSUME SwapInv, KeptInv, NEW p \in Procs, Place(p, "write"), run'[p] = run[p], NEW x \in Plans,
           plan'[p] = x, x.out = plan[p].out, x.source = plan[p].source, x.step # "decide",
           run[p].refresh => x.step # "save", Weighed(p)', PutBy(p)',
           \/ x.what = plan[p].what /\ x.home = plan[p].home /\ x.prior = plan[p].prior
              /\ plan[p].step # "decide"
           \/ Answering(p, x)
    PROVE  Hands(p)'
<1> DEFINE r == run[p]
<1>0. HasRead(p) /\ HasDecided(p) /\ r.pc = "write" /\ r.wrote = None
  BY SwapFacts, KeptFacts DEF LogInv, Place, RecordOf, Writing
<1>1. HasRead(p)'
  BY <1>0 DEF HasRead, Forward, OnLive
<1>2. HasDecided(p)'
  <2>1. CASE /\ x.what = plan[p].what /\ x.home = plan[p].home /\ x.prior = plan[p].prior
             /\ plan[p].step # "decide"
    BY <1>0, <2>1 DEF HasDecided, Forward, OnLive
  <2>2. CASE Answering(p, x)
    BY <1>0, <2>2 DEF HasDecided, Answering, Forward, OnLive
  <2> QED BY <2>1, <2>2
<1> QED BY <1>1, <1>2 DEF Hands

LEMMA DecideHands ==
    ASSUME SwapInv, KeptInv, NEW p \in Procs, Decide(p)
    PROVE  KeptInv'
<1>1. PICK answer \in Adoption(p) :
         plan' = [plan EXCEPT ![p] = [NoPlan EXCEPT !.step = "renew", !.source = plan[p].source,
                                                    !.out = plan[p].out, !.what = answer.what,
                                                    !.home = answer.home, !.prior = answer.prior]]
  BY DEF Decide
<1> DEFINE x == Answered(NoPlan, plan[p], answer)
<1>2. plan' = [plan EXCEPT ![p] = x]
  BY <1>1 DEF Answered
<1>3. /\ x \in Plans /\ x.source = plan[p].source /\ x.what = answer.what /\ x.step = "renew"
      /\ x.out = plan[p].out /\ x.home = answer.home /\ x.prior = answer.prior
  BY SwapFacts, AdoptionFacts, AnsweredFacts
<1> HIDE DEF x
<1>4. plan'[p] = x /\ \A q \in Procs \ {p} : plan'[q] = plan[q]
  BY <1>2, <1>3, SwapFacts, PlanPut
<1>5. Place(p, "write") /\ UNCHANGED <<homes, item, server, run>>
  BY DEF Decide, At, vars
<1>6. Answering(p, answer)
  BY <1>5, AdoptionAnswers
<1>7. Answering(p, x)
  BY <1>3, <1>6 DEF Answering
<1>8. Weighed(p)' /\ PutBy(p)'
  BY <1>3, <1>4, <1>5, <1>7 DEF Weighed, PutBy, Answering, Forward, OnLive, Newer, homes
<1>9. Hands(p)'
  BY <1>3, <1>4, <1>5, <1>7, <1>8, PlannedHands
<1>10. (\A a : Spares(a)) /\ HomesInv' /\ spent \subseteq spent'
  BY <1>5, AllSpared, HomesHold DEF KeptInv, HomesInv, server
<1> QED BY <1>4, <1>5, <1>9, <1>10, StepHands

\* The credential that goes in is another, of the same account.
LEMMA PostHands ==
    ASSUME SwapInv, KeptInv, NEW p \in Procs, Post(p)
    PROVE  KeptInv'
<1> DEFINE r == run[p]
           s == IF r.refresh THEN "ready" ELSE "save"
           x == Posted(plan[p], r.to, s)
<1>0. /\ r.to \in SUBSET Grants /\ plan[p] \in Plans /\ s \in Phases /\ r \in Runs
      /\ HasRead(p) /\ HasDecided(p) /\ Weighed(p) /\ r.pc = "write" /\ r.wrote = None
      /\ plan[p].step = "renew" /\ UNCHANGED <<homes, item>> /\ spent' = spent \cup r.to
  BY SwapFacts, RunFacts, KeptFacts DEF LogInv, Phases, Post, At, Place, RecordOf, Writing, Renew
<1>1. plan' = [plan EXCEPT ![p] = x]
  BY DEF Post, Posted
<1>2. /\ x \in Plans /\ x.source = plan[p].source /\ x.what = plan[p].what /\ x.step = s
      /\ x.out = plan[p].out /\ x.home = plan[p].home /\ x.prior = plan[p].prior
  BY <1>0, PostedFacts
<1> HIDE DEF x
<1>3. plan'[p] = x /\ \A q \in Procs \ {p} : plan'[q] = plan[q]
  BY <1>1, <1>2, SwapFacts, PlanPut
<1>4. PICK c \in Grants \ r.to : {c.of} = {d.of : d \in r.to} /\ run' = [run EXCEPT ![p].to = {c}]
  BY DEF Post, Renew
<1> DEFINE y == Renewing(r, {c})
<1>5. run' = [run EXCEPT ![p] = y]
  BY <1>4, ZenonT(30) DEF Renewing
<1>6. /\ y \in Runs /\ y.pc = r.pc /\ y.store = r.store /\ y.refresh = r.refresh /\ y.dir = r.dir
      /\ y.of = r.of /\ y.to = {c} /\ y.from = r.from /\ y.wrote = r.wrote
  BY <1>0, RenewingFacts
<1> HIDE DEF y
<1>7. run'[p] = y /\ \A q \in Procs \ {p} : run'[q] = run[q]
  BY <1>5, <1>6, SwapFacts, RunPut
<1>8. (\A d \in r.to : d.of = r.of) => c.of = r.of
  BY <1>4
<1>9. HasRead(p)'
  BY <1>0, <1>2, <1>3, <1>6, <1>7, <1>8 DEF HasRead, Forward, OnLive, One
<1>10. HasDecided(p)'
  <2>1. Locked(y) = Locked(r)
    BY <1>6 DEF Locked
  <2> QED BY <1>0, <1>2, <1>3, <1>6, <1>7, <2>1 DEF HasDecided, Forward, OnLive
<1>11. Weighed(p)'
  BY <1>0, <1>2, <1>3, <1>6, <1>7 DEF Weighed, Forward, OnLive, Newer, homes
<1>12. PutBy(p)'
  <2>1. r.refresh \/ x.step # "ready"
    BY <1>2
  <2>2. r.refresh => x.what = "nothing"
    BY <1>0, <1>2 DEF HasDecided
  <2> QED BY <1>3, <2>1, <2>2 DEF PutBy
<1>13. (\A a : Spares(a)) /\ HomesInv'
  BY <1>0, AllSpared, HomesHold DEF KeptInv, HomesInv
<1> QED BY <1>0, <1>3, <1>7, <1>9, <1>10, <1>11, <1>12, <1>13, StepHands DEF Hands

-----------------------------------------------------------------------------
(* What the credential that comes out rests on: the homes written.         *)

LEMMA ResolvedOwn ==
    ASSUME KeptInv, NEW a \in Accounts PROVE One(Resolved(a)) /\ Of(Resolved(a)) \subseteq {a}
<1>1. Resolved(a) \in {Pends(a), store[a]}
  BY DEF Resolved, Pends
<1> QED BY <1>1 DEF KeptInv, HomesInv, One, Of

\* What a namespace's pending write is after the step.
PendsThen(a) == {w.grant : w \in parked'[a]}

\* A write of a namespace's file, over what is one credential of its account.
LEMMA WritesHold ==
    ASSUME SwapTypeOK, HomesInv, NEW a \in Accounts, NEW S, One(S), Of(S) \subseteq {a}, NEW over,
           NEW base \in [Accounts -> SUBSET Grants], One(base[a]), Of(base[a]) \subseteq {a},
           \A b \in Accounts \ {a} : base[b] = store[b],
           Writes(a, S, over, base), UNCHANGED <<copy, item>>
    PROVE  /\ HomesInv'
           /\ S \subseteq store'[a] \cup PendsThen(a)
           /\ \A b \in Accounts \ {a} : store'[b] = store[b] /\ parked'[b] = parked[b]
<1>0. parked \in [Accounts -> SUBSET Pending]
  BY DEF SwapTypeOK
<1>1. \A b \in Accounts \ {a} : store'[b] = store[b] /\ parked'[b] = parked[b]
  BY <1>0 DEF Writes
<1>2. \/ store'[a] = S /\ PendsThen(a) = {}
      \/ store'[a] = base[a] /\ PendsThen(a) = S
  <2>1. CASE store' = [base EXCEPT ![a] = S] /\ parked' = [parked EXCEPT ![a] = {}]
    BY <1>0, <2>1 DEF PendsThen
  <2>2. CASE store' = base /\ parked' = [parked EXCEPT ![a] = {[grant |-> c, over |-> over] : c \in S}]
    <3>1. parked'[a] = {[grant |-> c, over |-> over] : c \in S}
      BY <1>0, <2>2
    <3>2. ASSUME NEW w \in parked'[a] PROVE w.grant \in S
      <4>1. PICK c \in S : w = [grant |-> c, over |-> over]
        BY <3>1
      <4> QED BY <4>1
    <3>3. ASSUME NEW c \in S PROVE \E w \in parked'[a] : w.grant = c
      <4>1. [grant |-> c, over |-> over] \in parked'[a]
        BY <3>1
      <4>2. [grant |-> c, over |-> over].grant = c
        OBVIOUS
      <4> QED BY <4>1, <4>2
    <3>4. PendsThen(a) = S
      BY <3>2, <3>3 DEF PendsThen
    <3> QED BY <2>2, <3>4
  <2> QED BY <2>1, <2>2 DEF Writes
<1>3. \A b \in Accounts \ {a} : PendsThen(b) = Pends(b)
  BY <1>1 DEF Pends, PendsThen
<1>4. ASSUME NEW b \in Accounts
      PROVE  /\ One(store'[b]) /\ One(copy'[b]) /\ One(PendsThen(b))
             /\ Of(store'[b] \cup PendsThen(b)) \subseteq {b}
  <2>1. CASE b = a
    BY <1>2, <2>1 DEF HomesInv, One, Of
  <2>2. CASE b # a
    BY <1>1, <1>3, <2>2 DEF HomesInv
  <2> QED BY <2>1, <2>2
<1>5. HomesInv'
  BY <1>4 DEF HomesInv, Pends, PendsThen
<1> QED BY <1>1, <1>2, <1>5

\* The result of the refresh goes to the account whose file it was read from, which is locked.
LEMMA SaveHands ==
    ASSUME SwapInv, KeptInv, NEW p \in Procs, Save(p)
    PROVE  KeptInv'
<1> DEFINE r == run[p]
           a == r.of
           base == [store EXCEPT ![a] = Resolved(a)]
           x == Stepped(plan[p], "adopt")
<1>0. /\ SwapTypeOK /\ LocalsOf(p) /\ HasRead(p) /\ HasDecided(p) /\ Weighed(p) /\ r.pc = "write"
      /\ r.wrote = None /\ plan[p].step = "save" /\ plan[p] \in Plans /\ PlanOf(p)
      /\ UNCHANGED <<item, run, lock, spent>> /\ r.dir \in Directions
  BY SwapFacts, RunFacts, KeptFacts DEF LogInv, Save, At, Place, RecordOf, Writing, server
<1>1. a \in Accounts /\ lock[a] = p
  <2>1. ~r.refresh /\ a \in Accounts /\ a # Live
    BY <1>0, AccountsAssumption DEF HasDecided, LocalsOf
  <2> QED BY <1>0, <2>1 DEF LocalsOf, Holding, Locked
<1>2. plan' = [plan EXCEPT ![p] = x]
  BY DEF Save, Step, Stepped
<1>3. /\ x \in Plans /\ x.source = plan[p].source /\ x.what = plan[p].what /\ x.step = "adopt"
      /\ x.out = plan[p].out /\ x.home = plan[p].home /\ x.prior = plan[p].prior
  BY <1>0, SteppedFacts DEF Phases
<1> HIDE DEF x
<1>4. plan'[p] = x /\ \A q \in Procs \ {p} : plan'[q] = plan[q]
  BY <1>2, <1>3, SwapFacts, PlanPut
<1>5. /\ base \in [Accounts -> SUBSET Grants] /\ One(base[a]) /\ Of(base[a]) \subseteq {a}
      /\ \A b \in Accounts \ {a} : base[b] = store[b]
  BY <1>0, <1>1, ResolvedType, ResolvedOwn DEF SwapTypeOK
<1>6. /\ One(r.to)
      /\ plan[p].source = "own" => Of(r.to) \subseteq {a}
  <2>1. plan[p].source = "own" => Forward(p) \/ OnLive(p)
    BY <1>0 DEF PlanOf, Forward, Directions
  <2>2. r.pc \notin {"idle", "item"} /\ ~r.refresh
    BY <1>0 DEF HasDecided
  <2> QED BY <1>0, <2>1, <2>2 DEF HasRead, Of
<1> HIDE DEF base
<1>7. \/ /\ plan[p].source = "own" /\ UNCHANGED copy /\ Writes(a, r.to, plan[p].basis, base)
      \/ /\ UNCHANGED copy /\ store' = base /\ parked' = [parked EXCEPT ![a] = {}]
      \/ /\ copy' = [copy EXCEPT ![a] = r.to] /\ OnLive(p) /\ UNCHANGED <<store, parked>>
      \/ UNCHANGED homes
  BY DEF Save, base, homes
<1>8. /\ HomesInv'
      /\ \A b \in Accounts \ {a} : store'[b] = store[b] /\ parked'[b] = parked[b] /\ copy'[b] = copy[b]
      /\ ~OnLive(p) => copy' = copy
  <2>1. CASE plan[p].source = "own" /\ UNCHANGED copy /\ Writes(a, r.to, plan[p].basis, base)
    BY <1>0, <1>1, <1>5, <1>6, <2>1, WritesHold DEF KeptInv
  <2>2. CASE UNCHANGED copy /\ store' = base /\ parked' = [parked EXCEPT ![a] = {}]
    <3>1. parked'[a] = {} /\ \A b \in Accounts \ {a} : parked'[b] = parked[b] /\ store'[b] = store[b]
      BY <1>0, <1>1, <1>5, <2>2 DEF SwapTypeOK
    <3>2. PendsThen(a) = {} /\ \A b \in Accounts \ {a} : PendsThen(b) = Pends(b)
      BY <3>1 DEF Pends, PendsThen
    <3>3. ASSUME NEW b \in Accounts
          PROVE  /\ One(store'[b]) /\ One(copy'[b]) /\ One(PendsThen(b))
                 /\ Of(store'[b] \cup PendsThen(b)) \subseteq {b}
      <4>1. CASE b = a
        BY <1>5, <2>2, <3>2, <4>1 DEF KeptInv, HomesInv, One, Of
      <4>2. CASE b # a
        BY <2>2, <3>1, <3>2, <4>2 DEF KeptInv, HomesInv
      <4> QED BY <4>1, <4>2
    <3>4. HomesInv'
      BY <1>0, <3>3 DEF KeptInv, HomesInv, Pends, PendsThen
    <3> QED BY <2>2, <3>1, <3>4
  <2>3. CASE copy' = [copy EXCEPT ![a] = r.to] /\ OnLive(p) /\ UNCHANGED <<store, parked>>
    BY <1>0, <1>1, <1>6, <2>3 DEF SwapTypeOK, KeptInv, HomesInv, Pends, PendsThen
  <2>4. CASE UNCHANGED homes
    BY <1>0, <2>4, HomesHold DEF KeptInv, HomesInv, homes
  <2> QED BY <1>7, <2>1, <2>2, <2>3, <2>4
<1>9. \A b \in Accounts \ {a} : Spares(b)
  BY <1>0, <1>8 DEF Spares, Migrated
<1>10. Weighed(p)'
  <2>1. x.what = "store" => x.home \in Accounts \ {a}
    BY <1>0, <1>3 DEF HasDecided
  <2> QED BY <1>0, <1>3, <1>4, <1>8, <2>1 DEF Weighed, Forward, OnLive, Newer
<1>11. PutBy(p)'
  BY <1>3, <1>4 DEF PutBy
<1>12. Hands(p)'
  BY <1>0, <1>3, <1>4, <1>10, <1>11, PlannedHands DEF Place
<1> QED BY <1>0, <1>1, <1>4, <1>8, <1>9, <1>12, StepHands

\* The displaced credential is put by in the namespace that is locked for it.
LEMMA AdoptHands ==
    ASSUME SwapInv, KeptInv, NEW p \in Procs, Adopt(p)
    PROVE  KeptInv'
<1> DEFINE r == run[p]
           a == plan[p].home
           out == plan[p].out
           x == Stepped(plan[p], "ready")
<1>0. /\ SwapTypeOK /\ HasDecided(p) /\ r.pc = "write" /\ plan[p].step \in {"adopt", "renew"}
      /\ plan[p] \in Plans /\ UNCHANGED <<item, run, lock, spent>>
  BY SwapFacts, KeptFacts DEF Adopt, At, Place, server
<1>1. plan' = [plan EXCEPT ![p] = x]
  BY DEF Adopt, Step, Stepped
<1>2. /\ x \in Plans /\ x.source = plan[p].source /\ x.what = plan[p].what /\ x.step = "ready"
      /\ x.out = out /\ x.home = a /\ x.prior = plan[p].prior
  BY <1>0, SteppedFacts DEF Phases
<1> HIDE DEF x
<1>3. plan'[p] = x /\ \A q \in Procs \ {p} : plan'[q] = plan[q]
  BY <1>1, <1>2, SwapFacts, PlanPut
<1>4. One(out)
  BY OutFacts
<1>5. /\ HomesInv'
      /\ \A b \in Accounts : lock[b] # p => store'[b] = store[b] /\ parked'[b] = parked[b] /\ copy'[b] = copy[b]
      /\ x.what = "copy" => copy'[a] = out
      /\ x.what = "store" => out \subseteq store'[a] \cup PendsThen(a)
  <2>1. CASE plan[p].what = "copy"
    <3>1. a \in Accounts /\ lock[a] = p
      BY <2>1, LockedHome
    <3>2. copy' = [copy EXCEPT ![a] = out] /\ UNCHANGED <<store, parked>>
      BY <2>1 DEF Adopt
    <3> QED BY <1>0, <1>2, <1>4, <2>1, <3>1, <3>2 DEF SwapTypeOK, KeptInv, HomesInv, Pends, PendsThen
  <2>2. CASE plan[p].what = "store"
    <3>1. a \in Accounts /\ lock[a] = p
      BY <2>2, LockedHome
    <3>2. Writes(a, out, {}, store) /\ UNCHANGED copy
      BY <2>2 DEF Adopt
    <3>3. Of(out) \subseteq {a}
      BY <1>0, <2>2 DEF HasDecided
    <3>4. One(store[a]) /\ Of(store[a]) \subseteq {a} /\ store \in [Accounts -> SUBSET Grants] /\ HomesInv
      BY <1>0, <3>1 DEF KeptInv, HomesInv, SwapTypeOK, Of
    <3>5. /\ HomesInv' /\ out \subseteq store'[a] \cup PendsThen(a)
          /\ \A b \in Accounts \ {a} : store'[b] = store[b] /\ parked'[b] = parked[b]
      BY <1>0, <1>4, <3>1, <3>2, <3>3, <3>4, WritesHold
    <3> QED BY <1>2, <2>2, <3>1, <3>2, <3>5
  <2>3. CASE plan[p].what \notin {"copy", "store"}
    <3>1. UNCHANGED homes
      BY <2>3 DEF Adopt
    <3> QED BY <1>0, <1>2, <2>3, <3>1, HomesHold DEF KeptInv, HomesInv, homes
  <2> QED BY <2>1, <2>2, <2>3
<1>6. \A b \in Accounts : lock[b] # p => Spares(b)
  BY <1>0, <1>5 DEF Spares, Migrated
<1>7. Weighed(p)'
  BY <1>2, <1>3 DEF Weighed
<1>8. PutBy(p)'
  BY <1>2, <1>3, <1>5 DEF PutBy, Pends, PendsThen
<1>9. Hands(p)'
  BY <1>0, <1>2, <1>3, <1>7, <1>8, PlannedHands DEF Place
<1> QED BY <1>0, <1>3, <1>5, <1>6, <1>9, StepHands

-----------------------------------------------------------------------------
(* What the credential that comes out rests on: the write and the log.     *)

LEMMA DonePlans ==
    ASSUME SwapInv, NEW p \in Procs, Done(p), RunEnds(p) \/ Onward(p)
    PROVE  /\ \A q \in Procs \ {p} : plan'[q] = plan[q] /\ run'[q] = run[q]
           /\ \/ RunEnds(p) /\ plan'[p] = NoPlan
              \/ Onward(p) /\ plan'[p] = plan[p]
<1> DEFINE x == IF run'[p].pc = "idle" THEN NoPlan ELSE plan[p]
<1>1. plan' = [plan EXCEPT ![p] = x] /\ x \in Plans
  BY SwapFacts, NoPlanType DEF Done
<1>2. RunEnds(p) => x = NoPlan
  BY DEF RunEnds, Idle
<1>3. Onward(p) => x = plan[p]
  BY DEF Onward
<1> HIDE DEF x
<1>4. plan'[p] = x /\ \A q \in Procs \ {p} : plan'[q] = plan[q]
  BY <1>1, SwapFacts, PlanPut
<1> QED BY <1>2, <1>3, <1>4 DEF RunEnds, Onward

LEMMA EndsOf ==
    ASSUME SwapInv, NEW p \in Procs, Ends(p) PROVE RunEnds(p)
BY SwapFacts, EndsFacts DEF RunEnds, Others

\* The locals after a step that moves the run, or records its write.
LEMMA OpeningOnward ==
    ASSUME SwapInv, NEW p \in Procs, run[p].pc \notin {"idle", "item"}, NEW i \in Nat, NEW x \in Places,
           x \notin {"idle", "item", "lock", "gate"}, run' = [run EXCEPT ![p] = Opening(run[p], i, x)]
    PROVE  Onward(p)
<1> DEFINE y == Opening(run[p], i, x)
<1>1. /\ y \in Runs /\ y.pc = x /\ y.store = run[p].store /\ y.refresh = run[p].refresh
      /\ y.dir = run[p].dir /\ y.of = run[p].of /\ y.to = run[p].to /\ y.from = run[p].from
      /\ y.wrote = run[p].wrote
  BY SwapFacts, RunFacts, OpeningFacts
<1> HIDE DEF y
<1>2. run'[p] = y /\ \A q \in Procs \ {p} : run'[q] = run[q]
  BY <1>1, SwapFacts, RunPut DEF y
<1> QED BY <1>1, <1>2 DEF Onward

LEMMA SayingOnward ==
    ASSUME SwapInv, NEW p \in Procs, run[p].pc \notin {"idle", "item"}, NEW e \in Entries, NEW x \in Places,
           run' = [run EXCEPT ![p] = Saying(run[p], e, x)]
    PROVE  Onward(p) /\ run'[p].wrote = run[p].wrote
<1> DEFINE y == Saying(run[p], e, x)
<1>1. /\ y \in Runs /\ y.pc = "append" /\ y.store = run[p].store /\ y.refresh = run[p].refresh
      /\ y.dir = run[p].dir /\ y.of = run[p].of /\ y.to = run[p].to /\ y.from = run[p].from
      /\ y.wrote = run[p].wrote
  BY SwapFacts, RunFacts, SayingFacts
<1> HIDE DEF y
<1>2. run'[p] = y /\ \A q \in Procs \ {p} : run'[q] = run[q]
  BY <1>1, SwapFacts, RunPut DEF y
<1> QED BY <1>1, <1>2 DEF Onward

LEMMA RecordedOnward ==
    ASSUME SwapInv, NEW p \in Procs, Place(p, "write"), Recording(p), NEW d, did' = Append(did, d),
           run[p].refresh \/ plan[p].step = "ready"
    PROVE  Onward(p) /\ run'[p].wrote # None
<1> DEFINE n == Len(did')
           y == Recorded(run[p], n)
<1>0. did \in Seq(Deeds) /\ Len(did) \in Nat
  BY SwapFacts, DidFacts DEF LogTypeOK
<1>1. n \in Nat /\ n # None
  <2>1. n = Len(did) + 1
    BY <1>0
  <2> QED BY <1>0, <2>1 DEF None
<1> HIDE DEF n
<1>2. /\ y \in Runs /\ y.pc = "append" /\ y.store = run[p].store /\ y.refresh = run[p].refresh
      /\ y.dir = run[p].dir /\ y.of = run[p].of /\ y.to = run[p].to /\ y.from = run[p].from
      /\ y.wrote = n
  BY <1>1, SwapFacts, RunFacts, RecordedFacts
<1>3. run' = [run EXCEPT ![p] = y]
  BY ZenonT(30) DEF Recording, Recorded, n
<1> HIDE DEF y
<1>4. run'[p] = y /\ \A q \in Procs \ {p} : run'[q] = run[q]
  BY <1>2, <1>3, SwapFacts, RunPut
<1> QED BY <1>1, <1>2, <1>4 DEF Onward, Place

LEMMA BreakHands ==
    ASSUME SwapInv, KeptInv, NEW p \in Procs, BreakLock(p)
    PROVE  KeptInv'
<1> DEFINE e == BreakEntry(p, Len(did))
<1>1. e \in Entries /\ "write" \in Places
  BY SwapFacts, DidFacts, EntryFacts DEF LogTypeOK, Places
<1>2. run' = [run EXCEPT ![p] = Saying(run[p], e, "write")]
  BY ZenonT(30) DEF BreakLock, Break, Saying
<1>3. run[p].pc = "write" /\ UNCHANGED <<homes, item, server, plan>>
  BY DEF BreakLock, Break, Place, swapVars
<1> HIDE DEF e
<1>4. Onward(p)
  BY <1>1, <1>2, <1>3, SayingOnward
<1> QED BY <1>3, <1>4, PlainStep

LEMMA WriteHands ==
    ASSUME SwapInv, KeptInv, NEW p \in Procs, WriteItem(p)
    PROVE  KeptInv'
<1> DEFINE r == run[p]
<1>1. /\ Place(p, "write") /\ Recording(p) /\ plan[p].step = "ready" /\ UNCHANGED <<homes, server, plan>>
      /\ \E d : did' = Append(did, d)
      /\ item' = [item EXCEPT ![r.store] = r.to] \/ UNCHANGED item
  BY DEF WriteItem, Write, Writable, At, swapVars
<1>2. Onward(p) /\ r.pc = "write"
  BY <1>1, RecordedOnward DEF Place
<1>3. One(r.to) /\ r.to # {} /\ item \in [Stores -> SUBSET Grants] /\ r.store \in Stores
  BY <1>2, SwapFacts, KeptFacts, RunFacts DEF HasRead, LogTypeOK
<1>4. \A s \in Stores : item'[s] \in {item[s], r.to}
  BY <1>1, <1>3
<1>5. \A a : Spares(a)
  BY <1>1, <1>3, <1>4, AllSpared
<1>6. HomesInv'
  <2>1. \A s \in Stores : One(item'[s])
    BY <1>3, <1>4 DEF KeptInv, HomesInv
  <2> QED BY <1>1, <2>1, HomesHold DEF KeptInv
<1>7. Hands(p)'
  BY <1>1, <1>2, <1>5, OnwardHands DEF server
<1> QED BY <1>1, <1>2, <1>5, <1>6, <1>7, StepHands DEF Onward, server

LEMMA StopHands ==
    ASSUME SwapInv, KeptInv, NEW p \in Procs, Stop(p)
    PROVE  KeptInv'
<1>1. RunEnds(p) \/ Onward(p)
  <2>1. CASE run[p].refresh /\ run[p].to # run[p].from
    <3>1. Place(p, "write") /\ Recording(p) /\ \E d : did' = Append(did, d)
      BY <2>1 DEF Stop, Withdraw
    <3> QED BY <2>1, <3>1, RecordedOnward
  <2>2. CASE ~(run[p].refresh /\ run[p].to # run[p].from)
    BY <2>2, EndsOf DEF Stop, Withdraw
  <2> QED BY <2>1, <2>2
<1>2. UNCHANGED <<homes, item, server>> /\ Done(p)
  BY DEF Stop, Withdraw
<1> QED BY <1>1, <1>2, DonePlans, PlainStep

\* An append moves the run on, with the file it has open.
LEMMA AppendOpens ==
    ASSUME LogInv, NEW p \in Procs, Refuse(p) \/ Write1(p) \/ Write2(p)
    PROVE  /\ run[p].pc \in Writing
           /\ \E x \in {"rest", "newline", run[p].then}, j \in Nat :
                run' = [run EXCEPT ![p] = Opening(run[p], j, x)]
<1> DEFINE r == run[p]
<1>1. r \in Runs /\ r.fd \in Nat /\ r.pc \in Writing
  BY RunFacts DEF LogInv, Refuse, Write1, Write2, Place, Writing
<1>2. ASSUME Moves(p, r.then)
      PROVE  \E x \in {"rest", "newline", r.then}, j \in Nat : run' = [run EXCEPT ![p] = Opening(r, j, x)]
  <2>1. Moved(r, r.then) = Opening(r, r.fd, r.then)
    BY <1>1, ZenonT(30) DEF Moved, Opening, Runs
  <2>2. run' = [run EXCEPT ![p] = Opening(r, r.fd, r.then)]
    BY <1>2, <2>1, ZenonT(30) DEF Moves, Moved
  <2> QED BY <1>1, <2>2
<1>3. CASE Refuse(p)
  BY <1>1, <1>2, <1>3 DEF Refuse
<1>4. CASE Write1(p)
  <2> DEFINE i == Through(p)
  <2>1. i \in Nat
    BY <1>1, <1>4, AppendableFacts DEF Write1
  <2>2. \/ Moves(p, r.then)
        \/ run' = [run EXCEPT ![p].fd = i, ![p].pc = "rest"]
        \/ run' = [run EXCEPT ![p].fd = i, ![p].pc = "newline"]
    BY <1>4 DEF Write1
  <2> HIDE DEF i
  <2>3. CASE run' = [run EXCEPT ![p].fd = i, ![p].pc = "rest"]
    <3>1. run' = [run EXCEPT ![p] = Opening(r, i, "rest")]
      BY <2>3, ZenonT(30) DEF Opening
    <3> QED BY <1>1, <2>1, <3>1
  <2>4. CASE run' = [run EXCEPT ![p].fd = i, ![p].pc = "newline"]
    <3>1. run' = [run EXCEPT ![p] = Opening(r, i, "newline")]
      BY <2>4, ZenonT(30) DEF Opening
    <3> QED BY <1>1, <2>1, <3>1
  <2> QED BY <1>1, <1>2, <2>2, <2>3, <2>4
<1>5. CASE Write2(p)
  <2> DEFINE j == IF r.store = Live THEN r.fd ELSE None
  <2>1. run' = [run EXCEPT ![p] = Opening(r, j, r.then)]
    BY <1>5, ZenonT(30) DEF Write2, Opening
  <2>2. j \in Nat
    BY <1>1 DEF None
  <2> HIDE DEF j
  <2> QED BY <1>1, <2>1, <2>2
<1> QED BY <1>3, <1>4, <1>5

LEMMA LogsHands ==
    ASSUME SwapInv, KeptInv, NEW p \in Procs, Logs(p)
    PROVE  KeptInv'
<1>0. LogInv /\ RecordOf(p)
  BY SwapFacts DEF LogInv
<1>1. RunEnds(p) \/ Onward(p)
  <2>1. CASE Refuse(p) \/ Write1(p) \/ Write2(p)
    <3>1. PICK x \in {"rest", "newline", run[p].then}, j \in Nat :
            run' = [run EXCEPT ![p] = Opening(run[p], j, x)]
      BY <1>0, <2>1, AppendOpens
    <3>2. run[p].pc \in Writing
      BY <1>0, <2>1, AppendOpens
    <3>3. x \in Places /\ x \notin {"idle", "item", "lock", "gate"}
      BY <1>0, <3>2 DEF RecordOf, Places
    <3> QED BY <3>1, <3>2, <3>3, OpeningOnward DEF Writing
  <2>2. CASE Gate(p)
    <3>1. CASE Appendable(at, files)
      <4>1. run' = [run EXCEPT ![p] = Opening(run[p], Opened(at, files), "write")]
        BY <2>2, <3>1, ZenonT(30) DEF Gate, Opening
      <4>2. Opened(at, files) \in Nat /\ "write" \in Places /\ run[p].pc = "gate"
        BY <1>0, <2>2, <3>1, CreatedFacts DEF Gate, Place, Places
      <4> QED BY <4>1, <4>2, OpeningOnward
    <3>2. CASE ~Appendable(at, files)
      BY <2>2, <3>2, EndsOf DEF Gate
    <3> QED BY <3>1, <3>2
  <2>3. CASE Over(p)
    BY <2>3, EndsOf DEF Over
  <2> QED BY <2>1, <2>2, <2>3 DEF Logs
<1>2. UNCHANGED <<homes, item, server>> /\ Done(p)
  BY DEF Logs, Gate, Refuse, Write1, Write2, Over
<1> QED BY <1>1, <1>2, DonePlans, PlainStep

LEMMA DiesHands ==
    ASSUME SwapInv, KeptInv, NEW p \in Procs, Dies(p)
    PROVE  KeptInv'
<1>1. RunEnds(p)
  BY EndsOf DEF Dies, Crash
<1>2. UNCHANGED <<homes, item, server>> /\ Done(p)
  BY DEF Dies, Crash
<1> QED BY <1>1, <1>2, DonePlans, PlainStep

LEMMA ConfigOnward ==
    ASSUME SwapInv, NEW p \in Procs, Config(p)
    PROVE  RunEnds(p) \/ (Onward(p) /\ run'[p].wrote = run[p].wrote)
<1> DEFINE e == ConfigEntry(run[p].wrote)
<1>1. CASE Ends(p)
  BY <1>1, EndsOf
<1>2. CASE ~Ends(p)
  <2>1. run' = [run EXCEPT ![p] = Saying(run[p], e, "over")]
    BY <1>2, ZenonT(30) DEF Config, Saying
  <2>2. e \in Entries /\ "over" \in Places /\ run[p].pc = "config"
    BY SwapFacts, RunFacts, EntryFacts DEF Config, Place, Places
  <2> HIDE DEF e
  <2> QED BY <2>1, <2>2, SayingOnward
<1> QED BY <1>1, <1>2

\* What a confirmed write takes away or puts by is of the namespaces the run still has locked.
LEMMA AfterWriteHands ==
    ASSUME SwapInv, KeptInv, NEW p \in Procs, AfterWrite(p)
    PROVE  KeptInv'
<1> DEFINE r == run[p]
           out == plan[p].out
<1>1. /\ SwapTypeOK /\ LocalsOf(p) /\ HasRead(p) /\ HasDecided(p) /\ r.pc = "config"
      /\ r.wrote # None /\ r.store \in Stores /\ Config(p) /\ Done(p)
      /\ UNCHANGED <<item, parked, server>>
  BY SwapFacts, KeptFacts, RunFacts DEF LogInv, AfterWrite, Config, Place, RecordOf
<1>2. /\ \A q \in Procs \ {p} : plan'[q] = plan[q] /\ run'[q] = run[q]
      /\ \/ RunEnds(p) /\ plan'[p] = NoPlan
         \/ Onward(p) /\ plan'[p] = plan[p] /\ run'[p].wrote # None
  <2>1. CASE RunEnds(p)
    <3>1. ~Onward(p)
      BY <2>1 DEF RunEnds, Onward, Idle
    <3> QED BY <1>1, <2>1, <3>1, DonePlans
  <2>2. CASE Onward(p) /\ run'[p].wrote = run[p].wrote
    <3>1. ~RunEnds(p)
      BY <2>2 DEF RunEnds, Onward, Idle
    <3> QED BY <1>1, <2>2, <3>1, DonePlans
  <2> QED BY <1>1, <2>1, <2>2, ConfigOnward
<1>3. One(out) /\ out \in SUBSET Grants
  BY OutFacts
<1>4. /\ \/ UNCHANGED copy
         \/ plan[p].what = "staged" /\ copy' = [copy EXCEPT ![r.store] = out]
         \/ ~r.refresh /\ OnLive(p) /\ copy' = [copy EXCEPT ![r.of] = {}]
      /\ \/ UNCHANGED store
         \/ ~r.refresh /\ r.from = {} /\ store' = [store EXCEPT ![r.store] = {}]
  BY DEF AfterWrite
<1>5. /\ plan[p].what = "staged" => r.store \in Accounts /\ lock[r.store] = p
      /\ ~r.refresh => r.of \in Accounts /\ lock[r.of] = p
      /\ ~r.refresh /\ r.from = {} => r.store \in Accounts /\ lock[r.store] = p
  <2>1. ~r.refresh => r.of \in Accounts /\ r.of \in Locked(r)
    BY <1>1, AccountsAssumption DEF LocalsOf, Locked
  <2>2. ~r.refresh /\ r.store # Live => r.store \in Accounts /\ r.store \in Locked(r)
    BY <1>1, AccountsAssumption DEF Stores, Locked
  <2>3. ~r.refresh /\ r.from = {} => r.store # Live
    BY <1>1 DEF LocalsOf, Holding
  <2>4. plan[p].what = "staged" => ~r.refresh /\ r.store # Live
    BY <1>1 DEF HasDecided, OnLive
  <2> QED BY <1>1, <2>1, <2>2, <2>3, <2>4 DEF LocalsOf, Holding
<1>6. \A a \in Accounts : lock[a] # p => copy'[a] = copy[a] /\ store'[a] = store[a]
  BY <1>1, <1>4, <1>5 DEF SwapTypeOK
<1>7. \A a \in Accounts : lock[a] # p => Spares(a)
  BY <1>1, <1>6 DEF Spares, Migrated
<1>8. HomesInv'
  <2>1. \A a \in Accounts : store'[a] \in {store[a], {}} /\ copy'[a] \in {copy[a], out, {}}
    BY <1>1, <1>4 DEF SwapTypeOK
  <2>2. One({})
    BY DEF One
  <2>3. ASSUME NEW a \in Accounts
        PROVE  /\ One(store'[a]) /\ One(copy'[a]) /\ One(PendsThen(a))
               /\ Of(store'[a] \cup PendsThen(a)) \subseteq {a}
    <3>1. PendsThen(a) = Pends(a) /\ HomesInv
      BY <1>1 DEF Pends, PendsThen, KeptInv
    <3>2. One(copy'[a])
      BY <1>3, <2>1, <2>2, <3>1 DEF HomesInv
    <3>3. One(store'[a]) /\ store'[a] \subseteq store[a]
      BY <2>1, <2>2, <3>1 DEF HomesInv
    <3>4. One(Pends(a)) /\ Of(store[a] \cup Pends(a)) \subseteq {a}
      BY <3>1 DEF HomesInv
    <3>5. Of(store'[a] \cup Pends(a)) \subseteq Of(store[a] \cup Pends(a))
      BY <3>3 DEF Of
    <3> QED BY <3>1, <3>2, <3>3, <3>4, <3>5
  <2> QED BY <1>1, <2>3 DEF KeptInv, HomesInv, Pends, PendsThen
<1>9. spent \subseteq spent'
  BY <1>1 DEF server
<1>10. Hands(p)'
  BY <1>2, <1>9, EmptyHands, OnwardHands DEF RunEnds
<1> QED BY <1>2, <1>7, <1>8, <1>9, <1>10, StepHands

-----------------------------------------------------------------------------
(* What the credential that comes out rests on: beside the runs.           *)

LEMMA IssuedOne ==
    ASSUME NEW S, One(S) PROVE One({NextIssued(c.of) : c \in S})
BY DEF One

\* The file of one namespace changes, and no pending write is added.
LEMMA FileHolds ==
    ASSUME SwapTypeOK, HomesInv, NEW a \in Accounts, NEW S, One(S), Of(S) \subseteq {a},
           store' = [store EXCEPT ![a] = S], parked' \in {parked, [parked EXCEPT ![a] = {}]}, copy' = copy,
           \A s \in Stores : One(item'[s])
    PROVE  HomesInv'
<1>1. \A b \in Accounts : /\ store'[b] = IF b = a THEN S ELSE store[b]
                          /\ parked'[b] \in {parked[b], {}}
  BY DEF SwapTypeOK
<1>2. \A b \in Accounts : PendsThen(b) \in {Pends(b), {}}
  BY <1>1 DEF Pends, PendsThen
<1>3. ASSUME NEW b \in Accounts
      PROVE  /\ One(store'[b]) /\ One(copy'[b]) /\ One(PendsThen(b))
             /\ Of(store'[b] \cup PendsThen(b)) \subseteq {b}
  <2>1. /\ One(store[b]) /\ One(copy[b]) /\ One(Pends(b)) /\ Of(store[b] \cup Pends(b)) \subseteq {b}
    BY DEF HomesInv
  <2>2. One(store'[b]) /\ Of(store'[b]) \subseteq {b}
    BY <1>1, <2>1 DEF Of
  <2>3. One(PendsThen(b)) /\ Of(PendsThen(b)) \subseteq {b}
    BY <1>2, <2>1 DEF Of, One
  <2>4. Of(store'[b] \cup PendsThen(b)) = Of(store'[b]) \cup Of(PendsThen(b))
    BY DEF Of
  <2> QED BY <2>1, <2>2, <2>3, <2>4
<1> QED BY <1>3 DEF HomesInv, Pends, PendsThen

LEMMA SettleHands ==
    ASSUME SwapInv, KeptInv, NEW a \in Accounts, Settle(a)
    PROVE  KeptInv'
<1>1. /\ SwapTypeOK /\ UNCHANGED <<item, run, plan, lock, copy, spent>> /\ lock[a] = NoProc
      /\ store' = [store EXCEPT ![a] = Resolved(a)] /\ parked' = [parked EXCEPT ![a] = {}]
  BY DEF Settle, vars, server, SwapInv
<1>2. HomesInv'
  <2>1. One(Resolved(a)) /\ Of(Resolved(a)) \subseteq {a}
    BY ResolvedOwn
  <2> QED BY <1>1, <2>1, FileHolds DEF KeptInv, HomesInv
<1>3. \A b \in Accounts : lock[b] \in Procs => Spares(b)
  BY <1>1, ProcsAssumption DEF Spares, Migrated, SwapTypeOK
<1> QED BY <1>1, <1>2, <1>3, BesideHands

LEMMA RefreshFileHands ==
    ASSUME SwapInv, KeptInv, NEW a \in Accounts, RefreshFile(a)
    PROVE  KeptInv'
<1> DEFINE S == {NextIssued(c.of) : c \in store[a]}
<1>1. /\ SwapTypeOK /\ UNCHANGED <<item, run, plan, lock, copy, parked>>
      /\ store' = [store EXCEPT ![a] = S] /\ spent' = spent \cup store[a]
  BY DEF RefreshFile, SwapInv
<1>2. HomesInv'
  <2>1. One(store[a]) /\ Of(store[a]) \subseteq {a}
    BY DEF KeptInv, HomesInv, Of
  <2>2. One(S)
    BY <2>1, IssuedOne
  <2>3. Of(S) \subseteq {a}
    BY <2>1 DEF Of, NextIssued
  <2>4. HomesInv /\ \A s \in Stores : One(item'[s])
    BY <1>1 DEF KeptInv, HomesInv
  <2> HIDE DEF S
  <2> QED BY <1>1, <2>2, <2>3, <2>4, FileHolds
<1>3. \A b \in Accounts : Spares(b)
  BY <1>1 DEF Spares, Migrated, SwapTypeOK
<1> QED BY <1>1, <1>2, <1>3, BesideHands

\* An item that Claude Code writes holds one credential.
LEMMA ElsewhereHands ==
    ASSUME SwapInv, KeptInv, NEW s \in Stores, NEW S, S # {}, One(S), Elsewhere(s, S),
           UNCHANGED <<homes, plan>>, spent \subseteq spent'
    PROVE  KeptInv'
<1>1. item' = [item EXCEPT ![s] = S] /\ UNCHANGED run /\ item \in [Stores -> SUBSET Grants]
  BY SwapFacts DEF Elsewhere, SwapInv, LogInv, LogTypeOK
<1>2. \A t \in Stores : item'[t] = IF t = s THEN S ELSE item[t]
  BY <1>1
<1>3. HomesInv'
  BY <1>2, HomesHold DEF KeptInv, HomesInv
<1>4. \A a \in Accounts : Spares(a)
  BY <1>2, AllSpared
<1> QED BY <1>1, <1>3, <1>4, BesideHands

LEMMA SessionRefreshesHands ==
    ASSUME SwapInv, KeptInv, NEW s \in Stores, SessionRefreshes(s)
    PROVE  KeptInv'
<1> DEFINE S == {NextIssued(c.of) : c \in item[s]}
<1>1. One(S) /\ S # {}
  <2>1. One(item[s]) /\ item[s] # {}
    BY DEF SessionRefreshes, KeptInv, HomesInv
  <2>2. One(S)
    BY <2>1, IssuedOne
  <2> QED BY <2>1, <2>2
<1>2. Elsewhere(s, S) /\ UNCHANGED <<homes, plan>> /\ spent \subseteq spent'
  BY DEF SessionRefreshes
<1> HIDE DEF S
<1> QED BY <1>1, <1>2, ElsewhereHands

LEMMA SessionLogsInHands ==
    ASSUME SwapInv, KeptInv, NEW s \in Stores, NEW a \in Accounts, SessionLogsIn(s, a)
    PROVE  KeptInv'
<1>1. One({NextIssued(a)})
  BY DEF One
<1> QED BY <1>1, ElsewhereHands DEF SessionLogsIn

LEMMA MigrateHands ==
    ASSUME SwapInv, KeptInv, NEW s \in Spaces, Migrate(s)
    PROVE  KeptInv'
<1>1. /\ SwapTypeOK /\ item \in [Stores -> SUBSET Grants] /\ s \in Stores /\ s \in Accounts
      /\ item' = [item EXCEPT ![s] = store[s]] /\ store' = [store EXCEPT ![s] = {}] /\ store[s] # {}
      /\ UNCHANGED <<run, plan, copy, parked, spent>>
  BY AccountsAssumption DEF Migrate, Elsewhere, SwapInv, LogInv, LogTypeOK, Stores, server
<1>2. \A t \in Stores : item'[t] = IF t = s THEN store[s] ELSE item[t]
  BY <1>1
<1>3. HomesInv'
  <2>1. One({}) /\ Of({}) \subseteq {s}
    BY DEF One, Of
  <2>2. \A t \in Stores : One(item'[t])
    BY <1>1, <1>2 DEF KeptInv, HomesInv
  <2> QED BY <1>1, <2>1, <2>2, FileHolds DEF KeptInv
<1>4. \A b \in Accounts : Spares(b)
  BY <1>1, <1>2 DEF Spares, Migrated, SwapTypeOK, Stores
<1> QED BY <1>1, <1>3, <1>4, BesideHands

LEMMA TamperHands == ASSUME SwapInv, KeptInv, Tamper, UNCHANGED swapVars PROVE KeptInv'
<1>1. UNCHANGED <<homes, item, server, run, plan>>
  BY DEF Tamper, swapVars
<1>2. (\A a : Spares(a)) /\ HomesInv' /\ spent \subseteq spent'
  BY <1>1, AllSpared, HomesHold DEF KeptInv, HomesInv, server
<1> QED BY <1>1, <1>2, BesideHands

LEMMA KeptInit == Init => KeptInv
<1> SUFFICES ASSUME Init PROVE KeptInv
  OBVIOUS
<1>1. PICK moved \in SUBSET Spaces, a \in Accounts :
         /\ item = [s \in Stores |-> CASE s = Live -> {[of |-> a, gen |-> 1]}
                                       [] s \in moved -> {Grant(s)}
                                       [] OTHER -> {}]
         /\ store = [b \in Accounts |-> IF b \in moved THEN {} ELSE {Grant(b)}]
  BY DEF Init
<1>2. \A s \in Stores : One(item[s])
  BY <1>1 DEF One
<1>3. \A b \in Accounts : copy[b] = {} /\ parked[b] = {}
  BY DEF Init
<1>4. ASSUME NEW b \in Accounts
      PROVE  One(store[b]) /\ One(copy[b]) /\ One(Pends(b)) /\ Of(store[b] \cup Pends(b)) \subseteq {b}
  <2>1. Pends(b) = {} /\ store[b] \in {{}, {Grant(b)}}
    BY <1>1, <1>3 DEF Pends
  <2> QED BY <1>3, <2>1 DEF One, Of, Grant
<1>5. ASSUME NEW p \in Procs PROVE Hands(p)
  <2>1. run[p] = Idle /\ plan[p] = NoPlan
    BY DEF Init, LogInit
  <2>2. /\ Idle.pc = "idle" /\ Idle.to = {} /\ Idle.refresh = FALSE /\ Idle.wrote = None
        /\ NoPlan.out = {} /\ NoPlan.source = "own" /\ NoPlan.what = "nothing" /\ NoPlan.step = "decide"
    BY DEF Idle, NoPlan
  <2>3. HasRead(p)
    BY <2>1, <2>2 DEF HasRead, One
  <2>4. HasDecided(p)
    BY <2>1, <2>2 DEF HasDecided, None
  <2> QED BY <2>1, <2>2, <2>3, <2>4 DEF Hands, Weighed, PutBy
<1> QED BY <1>2, <1>4, <1>5 DEF KeptInv, HomesInv, Hands

LEMMA KeptNext == SwapInv /\ KeptInv /\ [Next]_allVars => KeptInv'
<1> SUFFICES ASSUME SwapInv, KeptInv, [Next]_allVars PROVE KeptInv'
  OBVIOUS
<1>1. CASE UNCHANGED allVars
  <2>1. UNCHANGED <<homes, item, server, run, plan>>
    BY <1>1 DEF allVars, vars, swapVars
  <2>2. (\A a : Spares(a)) /\ HomesInv' /\ spent \subseteq spent'
    BY <2>1, AllSpared, HomesHold DEF KeptInv, HomesInv, server
  <2> QED BY <2>1, <2>2, BesideHands
<1>2. ASSUME NEW p \in Procs, NEW s \in Stores, NEW a \in Accounts, Swap(p, s, a) PROVE KeptInv'
  BY <1>2, SwapHands
<1>3. ASSUME NEW p \in Procs, NEW s \in Stores, Refresh(p, s) PROVE KeptInv'
  BY <1>3, RefreshHands
<1>4. ASSUME NEW p \in Procs,
             \/ Undo(p) \/ Read(p) \/ Locks(p) \/ Decide(p) \/ Post(p) \/ Save(p) \/ Adopt(p)
             \/ BreakLock(p) \/ WriteItem(p) \/ Stop(p) \/ Logs(p) \/ AfterWrite(p) \/ Dies(p)
      PROVE  KeptInv'
  BY <1>4, UndoHands, ReadHands, LocksHands, DecideHands, PostHands, SaveHands, AdoptHands, BreakHands,
     WriteHands, StopHands, LogsHands, AfterWriteHands, DiesHands
<1>5. CASE Tamper /\ UNCHANGED swapVars
  BY <1>5, TamperHands
<1>6. ASSUME NEW a \in Accounts, Settle(a) \/ RefreshFile(a) PROVE KeptInv'
  BY <1>6, SettleHands, RefreshFileHands
<1>7. ASSUME NEW s \in Stores, SessionRefreshes(s) \/ \E a \in Accounts : SessionLogsIn(s, a)
      PROVE  KeptInv'
  BY <1>7, SessionRefreshesHands, SessionLogsInHands
<1>8. ASSUME NEW s \in Spaces, Migrate(s) PROVE KeptInv'
  BY <1>8, MigrateHands
<1> QED BY <1>1, <1>2, <1>3, <1>4, <1>5, <1>6, <1>7, <1>8 DEF Next

\* What each run has read and decided, and where the credential it displaces is, as it goes along.
THEOREM KeptInvAlways == Spec => []KeptInv
<1>1. Init => KeptInv
  BY KeptInit
<1>2. SwapInv /\ KeptInv /\ [Next]_allVars => KeptInv'
  BY KeptNext
<1> QED BY <1>1, <1>2, SwapInvAlways, PTL DEF Spec

-----------------------------------------------------------------------------
(* What a swap displaces.                                                  *)

\* The credentials at rest, place by place, before a step and after it.
Holds(a, e) == e \in store[a] \/ e \in copy[a] \/ e \in Pends(a)
HoldsThen(a, e) == e \in store'[a] \/ e \in copy'[a] \/ e \in PendsThen(a)

LEMMA AtRestPlaces ==
    \A e : e \in AtRest <=> \/ \E a \in Accounts : Holds(a, e)
                            \/ \E s \in Stores : e \in item[s]
BY DEF AtRest, Holds, Pends

LEMMA AtRestPlacesThen ==
    \A e : e \in AtRest' <=> \/ \E a \in Accounts : HoldsThen(a, e)
                             \/ \E s \in Stores : e \in item'[s]
BY DEF AtRest, HoldsThen, PendsThen

\* The step of p, whose swap of a forward run displaces c, of an account with an honoured credential e.
Displaces(p, c, e) ==
    /\ Forward(p) /\ run[p].from # {} /\ Stands(p) /\ c \in plan[p].out /\ c.of # run[p].of
    /\ e \in AtRest /\ e \notin spent /\ e.of = c.of

LEMMA KeptBy ==
    ASSUME NEW c, NEW e, e \in AtRest', e \notin spent', e.of = c.of PROVE Usable(c.of)'
BY DEF Usable

LEMMA StaysUsable ==
    ASSUME NEW p, NEW c, NEW e, Displaces(p, c, e), UNCHANGED <<homes, item, spent>> PROVE Usable(c.of)'
BY AtRestStays, KeptBy DEF Displaces

LEMMA DisplacesFacts ==
    ASSUME SwapInv, KeptInv, NEW p \in Procs, NEW c, NEW e, Displaces(p, c, e)
    PROVE  /\ run[p].pc \notin {"idle", "item"} /\ ~run[p].refresh
           /\ plan[p].out = run[p].from /\ plan[p].source = "own"
           /\ \A d \in plan[p].out : d = c
           /\ \A d \in run[p].to : d.of = run[p].of
           /\ LocalsOf(p) /\ HasDecided(p) /\ Weighed(p) /\ PutBy(p)
<1>1. HasRead(p) /\ HasDecided(p) /\ Weighed(p) /\ PutBy(p) /\ LocalsOf(p)
  BY SwapFacts, KeptFacts DEF LogInv
<1>2. run[p].pc \notin {"idle", "item"} /\ ~run[p].refresh
  BY <1>1 DEF HasRead, Displaces
<1> QED BY <1>1, <1>2 DEF HasRead, Displaces, One

LEMMA PostLeavesOne ==
    ASSUME SwapInv, KeptInv, NEW p \in Procs, NEW c, NEW e, Displaces(p, c, e), Post(p)
    PROVE  Usable(c.of)'
<1>1. UNCHANGED <<homes, item>> /\ spent' = spent \cup run[p].to
  BY DEF Post, Renew
<1>2. e \notin run[p].to
  BY DisplacesFacts DEF Displaces
<1> QED BY <1>1, <1>2, AtRestStays, KeptBy DEF Displaces

\* A write of one namespace's file leaves the files and records of the others.
LEMMA WritesSpare ==
    ASSUME NEW a \in Accounts, NEW S, NEW over, NEW base \in [Accounts -> SUBSET Grants],
           parked \in [Accounts -> SUBSET Pending],
           \A b \in Accounts \ {a} : base[b] = store[b],
           Writes(a, S, over, base)
    PROVE  \A b \in Accounts \ {a} : store'[b] = store[b] /\ parked'[b] = parked[b]
BY DEF Writes

\* The result of the refresh replaces what is of the account that goes in.
LEMMA SaveLeavesOne ==
    ASSUME SwapInv, KeptInv, NEW p \in Procs, NEW c, NEW e, Displaces(p, c, e), Save(p)
    PROVE  Usable(c.of)'
<1> DEFINE a == run[p].of
           base == [store EXCEPT ![a] = Resolved(a)]
<1>0. /\ SwapTypeOK /\ HomesInv /\ plan[p].source = "own" /\ UNCHANGED <<item, spent>>
      /\ run[p].refresh = FALSE /\ run[p].pc # "idle" /\ LocalsOf(p) /\ a \in Accounts
  BY SwapFacts, DisplacesFacts DEF KeptInv, Save, server, LocalsOf
<1>1. /\ copy' = copy
      /\ \A b \in Accounts \ {a} : store'[b] = store[b] /\ parked'[b] = parked[b]
  <2>1. base \in [Accounts -> SUBSET Grants] /\ \A b \in Accounts \ {a} : base[b] = store[b]
    BY <1>0, ResolvedType DEF SwapTypeOK
  <2> HIDE DEF base
  <2>2. \/ UNCHANGED copy /\ Writes(a, run[p].to, plan[p].basis, base)
        \/ UNCHANGED copy /\ store' = base /\ parked' = [parked EXCEPT ![a] = {}]
        \/ plan[p].source # "own"
    BY DEF Save, base
  <2>3. ASSUME NEW S, NEW over, Writes(a, S, over, base)
        PROVE  \A b \in Accounts \ {a} : store'[b] = store[b] /\ parked'[b] = parked[b]
    BY <1>0, <2>1, <2>3, WritesSpare DEF SwapTypeOK
  <2>4. CASE UNCHANGED copy /\ store' = base /\ parked' = [parked EXCEPT ![a] = {}]
    BY <1>0, <2>1, <2>4 DEF SwapTypeOK
  <2> QED BY <1>0, <2>2, <2>3, <2>4
<1>2. \A b \in Accounts \ {a} : Holds(b, e) => HoldsThen(b, e)
  BY <1>1 DEF Holds, HoldsThen, Pends, PendsThen
<1>3. Holds(a, e) => e \in copy'[a]
  BY <1>0, <1>1 DEF Holds, HomesInv, Of, Displaces
<1>4. e \in AtRest'
  BY <1>0, <1>2, <1>3, AtRestPlaces, AtRestPlacesThen DEF HoldsThen, Displaces
<1> QED BY <1>0, <1>4, KeptBy DEF Displaces

\* What the displaced credential replaces is older, and it is honoured itself if that was.
LEMMA AdoptLeavesOne ==
    ASSUME SwapInv, KeptInv, NEW p \in Procs, NEW c, NEW e, Displaces(p, c, e), Adopt(p)
    PROVE  Usable(c.of)'
<1> DEFINE h == plan[p].home
           out == plan[p].out
<1>0. /\ SwapTypeOK /\ HomesInv /\ UNCHANGED <<item, spent>> /\ plan[p].step \in {"renew", "adopt"}
      /\ Forward(p) /\ c \in out /\ e \notin spent /\ e \in AtRest /\ e.of = c.of
      /\ Weighed(p) /\ HasDecided(p) /\ (\A d \in out : d = c)
  BY SwapFacts, DisplacesFacts DEF KeptInv, Adopt, At, server, Displaces
<1>1. c \in spent => ~(OnLive(p) /\ plan[p].what = "copy") /\ e.gen > c.gen
  BY <1>0 DEF Displaces, Stands
<1>2. c \notin spent /\ c \in AtRest' => Usable(c.of)'
  BY <1>0, KeptBy
<1>3. e \in AtRest' => Usable(c.of)'
  BY <1>0, KeptBy
<1>4. c \in Grants /\ c.gen \in Nat
  BY <1>0, OutFacts, BoundsAssumption DEF Grants
<1>5. \A S : One(S) /\ e \in S /\ Newer(out, S) => c.gen > e.gen
  BY <1>0 DEF Newer, One
<1>6. ASSUME NEW d, d \in AtRest, NEW b \in Accounts,
             \A k \in Accounts \ {b} : Holds(k, d) => HoldsThen(k, d),
             Holds(b, d) => HoldsThen(b, d)
      PROVE  d \in AtRest'
  <2>1. \A s \in Stores : d \in item[s] => d \in item'[s]
    BY <1>0
  <2> QED BY <1>6, <2>1, AtRestPlaces, AtRestPlacesThen
<1>7. CASE plan[p].what = "copy"
  <2>1. h \in Accounts
    BY <1>7, LockedHome
  <2>2. copy' = [copy EXCEPT ![h] = out] /\ UNCHANGED <<store, parked>>
    BY <1>7 DEF Adopt
  <2>3. copy'[h] = out /\ \A k \in Accounts \ {h} : copy'[k] = copy[k]
    BY <1>0, <2>1, <2>2 DEF SwapTypeOK
  <2>4. c \in AtRest'
    BY <1>0, <2>1, <2>3, AtRestPlacesThen DEF HoldsThen
  <2>5. CASE c \notin spent
    BY <1>2, <2>4, <2>5
  <2>6. CASE c \in spent
    <3>1. e \notin copy[h]
      <4>1. e \in copy[h] => Newer(out, copy[h]) /\ One(copy[h])
        BY <1>0, <1>1, <1>7, <2>1, <2>6 DEF Weighed, HomesInv
      <4>2. e \in copy[h] => c.gen > e.gen /\ e.gen \in Nat
        BY <1>0, <1>5, <2>1, <4>1, BoundsAssumption DEF SwapTypeOK, Grants
      <4> QED BY <1>1, <1>4, <2>6, <4>2
    <3>2. Holds(h, e) => HoldsThen(h, e)
      BY <2>2, <3>1 DEF Holds, HoldsThen, Pends, PendsThen
    <3>3. \A k \in Accounts \ {h} : Holds(k, e) => HoldsThen(k, e)
      BY <2>2, <2>3 DEF Holds, HoldsThen, Pends, PendsThen
    <3> HIDE DEF h
    <3> QED BY <1>0, <1>3, <1>6, <2>1, <3>2, <3>3
  <2> QED BY <2>5, <2>6
<1>8. CASE plan[p].what = "store"
  <2>1. h \in Accounts
    BY <1>8, LockedHome
  <2>2. store[h] = plan[p].prior /\ Writes(h, out, {}, store) /\ UNCHANGED copy
    BY <1>8 DEF Adopt
  <2>3. /\ One(out) /\ Of(out) \subseteq {h} /\ store \in [Accounts -> SUBSET Grants]
        /\ One(store[h]) /\ Of(store[h]) \subseteq {h}
    <3>1. One(out)
      BY OutFacts
    <3>2. Of(out) \subseteq {h} /\ store \in [Accounts -> SUBSET Grants]
      BY <1>0, <1>8 DEF HasDecided, SwapTypeOK
    <3>3. One(store[h]) /\ Of(store[h]) \subseteq {h}
      BY <1>0, <2>1 DEF HomesInv, Of
    <3> QED BY <3>1, <3>2, <3>3
  <2>4. /\ out \subseteq store'[h] \cup PendsThen(h)
        /\ \A k \in Accounts \ {h} : store'[k] = store[k] /\ parked'[k] = parked[k]
    BY <1>0, <2>1, <2>2, <2>3, WritesHold
  <2>5. c \in AtRest'
    BY <1>0, <2>1, <2>4, AtRestPlacesThen DEF HoldsThen
  <2>6. CASE c \notin spent
    BY <1>2, <2>5, <2>6
  <2>7. CASE c \in spent
    <3>1. e \notin store[h]
      <4>1. e \in store[h] => Newer(out, store[h])
        BY <1>0, <1>8, <2>2 DEF Weighed
      <4>2. e \in store[h] => c.gen > e.gen /\ e.gen \in Nat
        BY <1>5, <2>1, <2>3, <4>1, BoundsAssumption DEF Grants
      <4> QED BY <1>1, <1>4, <2>7, <4>2
    <3>2. e \notin Pends(h)
      BY <1>0, <1>8 DEF Weighed, Pends
    <3>3. Holds(h, e) => HoldsThen(h, e)
      BY <2>2, <3>1, <3>2 DEF Holds, HoldsThen
    <3>4. \A k \in Accounts \ {h} : Holds(k, e) => HoldsThen(k, e)
      BY <2>2, <2>4 DEF Holds, HoldsThen, Pends, PendsThen
    <3> HIDE DEF h
    <3> QED BY <1>0, <1>3, <1>6, <2>1, <3>3, <3>4
  <2> QED BY <2>6, <2>7
<1>9. CASE plan[p].what \notin {"copy", "store"}
  <2>1. UNCHANGED <<homes, item, spent>>
    BY <1>0, <1>9 DEF Adopt
  <2> QED BY <2>1, StaysUsable
<1> QED BY <1>7, <1>8, <1>9

\* When the item is written the displaced credential is elsewhere already, or was nobody's to keep.
LEMMA WriteLeavesOne ==
    ASSUME SwapInv, KeptInv, NEW p \in Procs, NEW c, NEW e, Displaces(p, c, e), WriteItem(p)
    PROVE  Usable(c.of)'
<1> DEFINE r == run[p]
           x == plan[p]
           h == x.home
<1>0. /\ UNCHANGED <<homes, spent>> /\ x.step = "ready" /\ r.pc = "write" /\ r.from = item[r.store]
      /\ item' = [item EXCEPT ![r.store] = r.to] \/ UNCHANGED item
  BY DEF WriteItem, Write, Writable, At, Place, swapVars, server
<1>1. /\ x.out = r.from /\ (\A d \in x.out : d = c) /\ HasDecided(p) /\ PutBy(p)
      /\ Forward(p) /\ c \in x.out /\ c.of # r.of /\ Stands(p)
      /\ e \in AtRest /\ e \notin spent /\ e.of = c.of
  BY DisplacesFacts DEF Displaces
<1>2. r.wrote = None /\ item \in [Stores -> SUBSET Grants] /\ r.store \in Stores
  BY <1>0, SwapFacts, RunFacts DEF LogInv, RecordOf, Writing, LogTypeOK
<1>3. CASE UNCHANGED item
  BY <1>0, <1>3, StaysUsable
<1>4. CASE item' = [item EXCEPT ![r.store] = r.to]
  <2>1. \A s \in Stores : s # r.store => item'[s] = item[s]
    BY <1>2, <1>4
  <2>2. \A a : Holds(a, e) => HoldsThen(a, e)
    BY <1>0 DEF Holds, HoldsThen, Pends, PendsThen, homes
  <2>3. CASE e \in AtRest'
    BY <1>0, <1>1, <2>3, KeptBy
  <2>4. CASE e \notin AtRest'
    <3>1. e \in item[r.store]
      BY <1>1, <2>1, <2>2, <2>4, AtRestPlaces, AtRestPlacesThen
    <3>2. e = c
      BY <1>0, <1>1, <3>1
    <3>3. h \in Accounts /\ Holds(h, c)
      <4>1. x.what \in {"nothing", "copy", "staged", "store"} /\ x.what # "staged"
        BY <1>1, SwapFacts, PlanValues DEF HasDecided
      <4>2. CASE x.what = "nothing"
        <5>1. x.prior = x.out /\ h \in Accounts
          BY <1>0, <1>1, <4>2 DEF HasDecided, Of
        <5>2. c \in store[h] \cup copy[h]
          BY <1>1, <4>2, <5>1 DEF Stands
        <5> QED BY <5>1, <5>2 DEF Holds
      <4>3. CASE x.what = "copy"
        BY <1>0, <1>1, <1>2, <4>3, LockedHome DEF PutBy, Holds
      <4>4. CASE x.what = "store"
        <5>1. ~Migrated(h)
          BY <1>1, <4>4 DEF Stands
        <5> QED BY <1>0, <1>1, <1>2, <3>2, <4>4, <5>1, LockedHome DEF PutBy, Holds
      <4> QED BY <4>1, <4>2, <4>3, <4>4
    <3>4. HoldsThen(h, c)
      BY <2>2, <3>2, <3>3
    <3>5. c \in AtRest'
      BY <3>3, <3>4, AtRestPlacesThen
    <3> QED BY <1>0, <1>1, <3>2, <3>5, KeptBy
  <2> QED BY <2>3, <2>4
<1> QED BY <1>0, <1>3, <1>4

\* A forward run that did not write over nothing takes nothing away afterwards.
LEMMA AfterWriteLeavesOne ==
    ASSUME SwapInv, KeptInv, NEW p \in Procs, NEW c, NEW e, Displaces(p, c, e), AfterWrite(p)
    PROVE  Usable(c.of)'
<1>1. plan[p].what # "staged" /\ Forward(p) /\ run[p].from # {}
  BY DisplacesFacts DEF Displaces, HasDecided
<1>2. UNCHANGED <<homes, item, spent>>
  BY <1>1 DEF AfterWrite, Config, homes, server
<1> QED BY <1>2, StaysUsable

\* Whatever a swap of an item does and wherever it dies, the account whose credential it displaces
\* keeps one the server honours, while what it read stands ("adopt the displaced credential or
\* refuse the swap", adopt.rs:1-10).
THEOREM KeepsWhatItDisplaces == Spec => OutgoingIsKept
<1>1. SwapInv /\ KeptInv /\ [Next]_allVars =>
        [\A p \in Procs :
          Forward(p) /\ Acts(p) /\ run[p].from # {} /\ Stands(p) => KeepsOutgoing(p)]_allVars
  <2> SUFFICES ASSUME SwapInv, KeptInv, Next, NEW p \in Procs, Acts(p), NEW c, NEW e, Displaces(p, c, e)
               PROVE  Usable(c.of)'
    BY DEF KeepsOutgoing, Displaces, Usable
  <2>1. CASE \E q \in Procs : \/ \E s \in Stores, a \in Accounts : Swap(q, s, a)
                              \/ \E s \in Stores : Refresh(q, s)
                              \/ Undo(q) \/ Read(q) \/ Locks(q) \/ Decide(q)
                              \/ BreakLock(q) \/ Stop(q) \/ Logs(q) \/ Dies(q)
    <3> SUFFICES UNCHANGED <<homes, item, spent>>
      BY StaysUsable
    <3>1. PICK q \in Procs : \/ \E s \in Stores, a \in Accounts : Swap(q, s, a)
                             \/ \E s \in Stores : Refresh(q, s)
                             \/ Undo(q) \/ Read(q) \/ Locks(q) \/ Decide(q)
                             \/ BreakLock(q) \/ Stop(q) \/ Logs(q) \/ Dies(q)
      BY <2>1
    <3>2. CASE (\E s \in Stores, a \in Accounts : Swap(q, s, a)) \/ (\E s \in Stores : Refresh(q, s))
      BY <3>2 DEF Swap, Refresh, StartSwap, StartRefresh, swapVars, server
    <3>3. CASE Undo(q) \/ Read(q) \/ Locks(q)
      BY <3>3 DEF Undo, Read, Locks, StartUndo, ReadItem, TakeLocks, swapVars, server
    <3>4. CASE Decide(q) \/ BreakLock(q)
      BY <3>4 DEF Decide, BreakLock, Break, swapVars, vars, server
    <3>5. CASE Stop(q) \/ Dies(q)
      BY <3>5 DEF Stop, Dies, Withdraw, Crash, server
    <3>6. CASE Logs(q)
      BY <3>6 DEF Logs, Gate, Refuse, Write1, Write2, Over, server
    <3> QED BY <3>1, <3>2, <3>3, <3>4, <3>5, <3>6
  <2>2. ASSUME NEW q \in Procs, Post(q) \/ Save(q) \/ Adopt(q) \/ WriteItem(q) \/ AfterWrite(q)
        PROVE  Usable(c.of)'
    <3>0. LogInv /\ plan \in [Procs -> Plans]
      BY SwapFacts
    <3>1. q = p
      <4>1. ASSUME Post(q) PROVE \A o \in Procs \ {q} : run'[o] = run[o] /\ plan'[o] = plan[o]
        BY <3>0, <4>1, RenewKeeps DEF Post, RunGoes
      <4>2. ASSUME Save(q) \/ Adopt(q) PROVE \A o \in Procs \ {q} : run'[o] = run[o] /\ plan'[o] = plan[o]
        BY <3>0, <4>2 DEF Save, Adopt, Step
      <4>3. ASSUME WriteItem(q) PROVE \A o \in Procs \ {q} : run'[o] = run[o] /\ plan'[o] = plan[o]
        BY <3>0, <4>3, WriteKeeps DEF WriteItem, RunGoes, swapVars
      <4>4. ASSUME AfterWrite(q) PROVE \A o \in Procs \ {q} : run'[o] = run[o] /\ plan'[o] = plan[o]
        BY <3>0, <4>4, ConfigKeeps DEF AfterWrite, RunSteps, RunEnds, RunGoes, Done
      <4> QED BY <2>2, <4>1, <4>2, <4>3, <4>4 DEF Acts
    <3> QED BY <2>2, <3>1, PostLeavesOne, SaveLeavesOne, AdoptLeavesOne, WriteLeavesOne, AfterWriteLeavesOne
  <2>3. CASE \/ Tamper /\ UNCHANGED swapVars
             \/ \E a \in Accounts : Settle(a) \/ RefreshFile(a)
             \/ \E s \in Stores : SessionRefreshes(s) \/ \E a \in Accounts : SessionLogsIn(s, a)
             \/ \E s \in Spaces : Migrate(s)
    <3>1. UNCHANGED <<run, plan>>
      BY <2>3 DEF swapVars, vars, Tamper, Settle, RefreshFile, SessionRefreshes, SessionLogsIn, Migrate, Elsewhere
    <3> QED BY <3>1 DEF Acts
  <2> QED BY <2>1, <2>2, <2>3 DEF Next
<1> QED BY <1>1, SwapInvAlways, KeptInvAlways, PTL DEF Spec, OutgoingIsKept
=============================================================================
