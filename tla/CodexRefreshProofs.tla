------------------------ MODULE CodexRefreshProofs ------------------------
(***************************************************************************)
(* What CodexRefresh guarantees for any number of processes and tokens.    *)
(***************************************************************************)
EXTENDS CodexRefreshInvariant, TLAPS

USE DEF disk, history, NoRef, Goto, Attempts, ParkAttempt

----------------------------------------------------------------------------
(* Values.                                                                 *)

LEMMA RefFacts ==
    /\ 0 \in Refs
    /\ Tokens \subseteq Refs
    /\ \A n \in 1 .. MaxToken + 1 :
         n <= MaxToken => n \in Tokens /\ n \in Refs /\ n + 1 \in 1 .. MaxToken + 1
BY TokenAssumption DEF Refs, Tokens

LEMMA FileFacts ==
    /\ Absent \notin Docs /\ Torn \notin Kept
    /\ Docs \subseteq Kept /\ Kept \subseteq Files /\ Absent \in Kept /\ Torn \in Files
    /\ \A r \in Refs, a \in Tokens : /\ Doc(r, a) \in Docs
                                     /\ Doc(r, a).ref = r /\ Doc(r, a).acc = a
    /\ \A f \in Files : IsDoc(f) <=> f \in Docs
    /\ \A d \in Docs : d.ref \in Refs /\ d.acc \in Tokens
    /\ \A f \in Files : f.ref \in Refs /\ f.acc \in Refs
    /\ \A d \in Docs, a \in Tokens : [d EXCEPT !.acc = a] \in Docs
BY RefFacts DEF Absent, Torn, Docs, Kept, Files, Doc, IsDoc

LEMMA MarkerTypes ==
    ASSUME TypeOK
    PROVE  /\ DefaultMarker \in Markers
           /\ Cleared \in Markers
           /\ \A d \in Refs : Settled(d) \in Markers
           /\ \A c \in Classes : [marker EXCEPT !.class = c] \in Markers
           /\ \A b \in BOOLEAN : [marker EXCEPT !.resent = b] \in Markers
           /\ \A r \in Refs : [Cleared EXCEPT !.inflight = r] \in Markers
BY RefFacts DEF TypeOK, DefaultMarker, Cleared, Settled, Markers, Classes

LEMMA NoLocalsType == NoLocals \in Locals
BY RefFacts, FileFacts DEF NoLocals, Locals, Outcomes

LEMMA LocalTypes ==
    ASSUME NEW l \in Locals
    PROVE  /\ l.mode \in Sends \cup {"none", "install", "remove"}
           /\ l.cred \in Kept /\ l.base \in Kept /\ l.new \in Kept
           /\ l.out \in Outcomes /\ l.attempt \in 0 .. 4
           /\ l.todo \in SUBSET NamedFiles
BY DEF Locals

LEMMA SetCred ==
    ASSUME TypeOK, NEW p \in Procs, NEW f \in Kept, Set(p, [loc[p] EXCEPT !.cred = f])
    PROVE  /\ loc' \in [Procs -> Locals]
           /\ loc'[p].mode = loc[p].mode /\ loc'[p].cred = f /\ loc'[p].base = loc[p].base
           /\ loc'[p].new = loc[p].new /\ loc'[p].out = loc[p].out /\ loc'[p].attempt = loc[p].attempt
           /\ loc'[p].parked = loc[p].parked /\ loc'[p].todo = loc[p].todo
           /\ \A q \in Procs \ {p} : loc'[q] = loc[q]
<1>1. loc[p] \in Locals
  BY DEF TypeOK
<1>2. [loc[p] EXCEPT !.cred = f] \in Locals
  BY <1>1 DEF Locals
<1>3. loc'[p] = [loc[p] EXCEPT !.cred = f] /\ loc' \in [Procs -> Locals]
  BY <1>2 DEF TypeOK, Set
<1> QED BY <1>1, <1>3 DEF TypeOK, Set, Locals

LEMMA SetNew ==
    ASSUME TypeOK, NEW p \in Procs, NEW f \in Kept, Set(p, [loc[p] EXCEPT !.new = f])
    PROVE  /\ loc' \in [Procs -> Locals]
           /\ loc'[p].mode = loc[p].mode /\ loc'[p].cred = loc[p].cred /\ loc'[p].base = loc[p].base
           /\ loc'[p].new = f /\ loc'[p].out = loc[p].out /\ loc'[p].attempt = loc[p].attempt
           /\ loc'[p].parked = loc[p].parked /\ loc'[p].todo = loc[p].todo
           /\ \A q \in Procs \ {p} : loc'[q] = loc[q]
<1>1. loc[p] \in Locals
  BY DEF TypeOK
<1>2. [loc[p] EXCEPT !.new = f] \in Locals
  BY <1>1 DEF Locals
<1>3. loc'[p] = [loc[p] EXCEPT !.new = f] /\ loc' \in [Procs -> Locals]
  BY <1>2 DEF TypeOK, Set
<1> QED BY <1>1, <1>3 DEF TypeOK, Set, Locals

LEMMA SetOut ==
    ASSUME TypeOK, NEW p \in Procs, NEW o \in Outcomes, Set(p, [loc[p] EXCEPT !.out = o])
    PROVE  /\ loc' \in [Procs -> Locals]
           /\ loc'[p].mode = loc[p].mode /\ loc'[p].cred = loc[p].cred /\ loc'[p].base = loc[p].base
           /\ loc'[p].new = loc[p].new /\ loc'[p].out = o /\ loc'[p].attempt = loc[p].attempt
           /\ loc'[p].parked = loc[p].parked /\ loc'[p].todo = loc[p].todo
           /\ \A q \in Procs \ {p} : loc'[q] = loc[q]
<1>1. loc[p] \in Locals
  BY DEF TypeOK
<1>2. [loc[p] EXCEPT !.out = o] \in Locals
  BY <1>1 DEF Locals
<1>3. loc'[p] = [loc[p] EXCEPT !.out = o] /\ loc' \in [Procs -> Locals]
  BY <1>2 DEF TypeOK, Set
<1> QED BY <1>1, <1>3 DEF TypeOK, Set, Locals

LEMMA SetApplied ==
    ASSUME TypeOK, NEW p \in Procs, NEW o \in Outcomes, NEW f \in Kept, Set(p, [loc[p] EXCEPT !.out = o, !.new = f])
    PROVE  /\ loc' \in [Procs -> Locals]
           /\ loc'[p].mode = loc[p].mode /\ loc'[p].cred = loc[p].cred /\ loc'[p].base = loc[p].base
           /\ loc'[p].new = f /\ loc'[p].out = o /\ loc'[p].attempt = loc[p].attempt
           /\ loc'[p].parked = loc[p].parked /\ loc'[p].todo = loc[p].todo
           /\ \A q \in Procs \ {p} : loc'[q] = loc[q]
<1>1. loc[p] \in Locals
  BY DEF TypeOK
<1>2. [loc[p] EXCEPT !.out = o, !.new = f] \in Locals
  BY <1>1 DEF Locals
<1>3. loc'[p] = [loc[p] EXCEPT !.out = o, !.new = f] /\ loc' \in [Procs -> Locals]
  BY <1>2 DEF TypeOK, Set
<1> QED BY <1>1, <1>3 DEF TypeOK, Set, Locals

LEMMA SetAttempt ==
    ASSUME TypeOK, NEW p \in Procs, NEW a \in 0 .. 4, Set(p, [loc[p] EXCEPT !.attempt = a])
    PROVE  /\ loc' \in [Procs -> Locals]
           /\ loc'[p].mode = loc[p].mode /\ loc'[p].cred = loc[p].cred /\ loc'[p].base = loc[p].base
           /\ loc'[p].new = loc[p].new /\ loc'[p].out = loc[p].out /\ loc'[p].attempt = a
           /\ loc'[p].parked = loc[p].parked /\ loc'[p].todo = loc[p].todo
           /\ \A q \in Procs \ {p} : loc'[q] = loc[q]
<1>1. loc[p] \in Locals
  BY DEF TypeOK
<1>2. [loc[p] EXCEPT !.attempt = a] \in Locals
  BY <1>1 DEF Locals
<1>3. loc'[p] = [loc[p] EXCEPT !.attempt = a] /\ loc' \in [Procs -> Locals]
  BY <1>2 DEF TypeOK, Set
<1> QED BY <1>1, <1>3 DEF TypeOK, Set, Locals

LEMMA SetParked ==
    ASSUME TypeOK, NEW p \in Procs, Set(p, [loc[p] EXCEPT !.parked = TRUE])
    PROVE  /\ loc' \in [Procs -> Locals]
           /\ loc'[p].mode = loc[p].mode /\ loc'[p].cred = loc[p].cred /\ loc'[p].base = loc[p].base
           /\ loc'[p].new = loc[p].new /\ loc'[p].out = loc[p].out /\ loc'[p].attempt = loc[p].attempt
           /\ loc'[p].parked = TRUE /\ loc'[p].todo = loc[p].todo
           /\ \A q \in Procs \ {p} : loc'[q] = loc[q]
<1>1. loc[p] \in Locals
  BY DEF TypeOK
<1>2. [loc[p] EXCEPT !.parked = TRUE] \in Locals
  BY <1>1 DEF Locals
<1>3. loc'[p] = [loc[p] EXCEPT !.parked = TRUE] /\ loc' \in [Procs -> Locals]
  BY <1>2 DEF TypeOK, Set
<1> QED BY <1>1, <1>3 DEF TypeOK, Set, Locals

LEMMA SetTodo ==
    ASSUME TypeOK, NEW p \in Procs, NEW s \in SUBSET NamedFiles, Set(p, [loc[p] EXCEPT !.todo = s])
    PROVE  /\ loc' \in [Procs -> Locals]
           /\ loc'[p].mode = loc[p].mode /\ loc'[p].cred = loc[p].cred /\ loc'[p].base = loc[p].base
           /\ loc'[p].new = loc[p].new /\ loc'[p].out = loc[p].out /\ loc'[p].attempt = loc[p].attempt
           /\ loc'[p].parked = loc[p].parked /\ loc'[p].todo = s
           /\ \A q \in Procs \ {p} : loc'[q] = loc[q]
<1>1. loc[p] \in Locals
  BY DEF TypeOK
<1>2. [loc[p] EXCEPT !.todo = s] \in Locals
  BY <1>1 DEF Locals
<1>3. loc'[p] = [loc[p] EXCEPT !.todo = s] /\ loc' \in [Procs -> Locals]
  BY <1>2 DEF TypeOK, Set
<1> QED BY <1>1, <1>3 DEF TypeOK, Set, Locals

----------------------------------------------------------------------------
(* A process changes only its own place and locals.                        *)

Only(p) == \A q \in Procs \ {p} : pc'[q] = pc[q] /\ loc'[q] = loc[q]

LEMMA ReturnFacts ==
    ASSUME TypeOK, NEW p \in Procs, Return(p)
    PROVE  /\ pc' \in [Procs -> Labels] /\ loc' \in [Procs -> Locals]
           /\ lock' = NoProc /\ pc'[p] = "idle" /\ loc'[p] = NoLocals
           /\ Only(p)
BY NoLocalsType DEF TypeOK, Return, Labels, Only, Set

LEMMA StoreLastFacts ==
    ASSUME TypeOK, NEW p \in Procs, NEW m \in Markers, StoreLast(p, m)
    PROVE  /\ pc' \in [Procs -> Labels] /\ loc' \in [Procs -> Locals]
           /\ lock' = NoProc /\ pc'[p] = "idle" /\ loc'[p] = NoLocals
           /\ Only(p)
           /\ marker' \in Markers /\ marker' \in {marker, m}
BY ReturnFacts DEF TypeOK, StoreLast, StoreFailed

LEMMA StoreThenFacts ==
    ASSUME TypeOK, NEW p \in Procs, NEW m \in Markers, NEW l \in Labels, StoreThen(p, m, l)
    PROVE  /\ pc' \in [Procs -> Labels] /\ loc' \in [Procs -> Locals]
           /\ Only(p)
           /\ marker' \in Markers /\ marker' \in {marker, m}
           /\ \/ lock' = NoProc /\ pc'[p] = "idle" /\ loc'[p] = NoLocals
              \/ UNCHANGED <<loc, lock>> /\ pc'[p] = l /\ marker' = m
BY ReturnFacts DEF TypeOK, StoreThen, StoreFailed, Only

----------------------------------------------------------------------------
(* Every step keeps the types.                                             *)

LEMMA TypeStep == TypeInv /\ [Next]_vars => TypeInv'
<1> SUFFICES ASSUME TypeInv, [Next]_vars PROVE TypeInv'
  OBVIOUS
<1> USE DEF TypeInv
<1>a. CASE UNCHANGED vars
  BY <1>a DEF TypeOK, Shape, vars
<1>b. ASSUME NEW p \in Procs, TypeOK', Shape(p)', Only(p) PROVE TypeInv'
  BY <1>b DEF Shape, Only
<1>c. ASSUME NEW p \in Procs, Start(p) PROVE TypeInv'
  <2>1. PICK m \in Commands : Begin(p, m)
    BY <1>c DEF Start
  <2>2. m \in Sends \cup {"install", "remove"}
    BY CommandsAssumption
  <2>3. (IF m = "after401" THEN auth.acc ELSE 0) \in Refs
    BY <2>1, RefFacts, FileFacts DEF Begin, TypeOK
  <2>4. [NoLocals EXCEPT !.mode = m, !.rejected = IF m = "after401" THEN auth.acc ELSE 0] \in Locals
    BY <2>2, <2>3, NoLocalsType DEF Locals
  <2>5. TypeOK' /\ pc'[p] = "lock" /\ Only(p)
    BY <2>1, <2>4 DEF Begin, TypeOK, Labels, Only, Set
  <2> QED BY <2>5, <1>b DEF Shape, AfterRead, Marked, Writing
<1>d. ASSUME NEW p \in Procs, Acquire(p) \/ GiveUp(p) PROVE TypeInv'
  <2>1. TypeOK' /\ Only(p) /\ pc'[p] \in {"idle", "resolve", "istage", "remove"}
    BY <1>d, NoLocalsType DEF TypeOK, Acquire, GiveUp, Labels, Only, Set
  <2> QED BY <2>1, <1>b DEF Shape, AfterRead, Marked, Writing
<1>e. ASSUME NEW p \in Procs, RefreshStep(p) PROVE TypeInv'
  <2> USE DEF Labels
  <2> SUFFICES TypeOK' /\ Shape(p)' /\ Only(p)
    BY <1>b
  <2>1. CASE Resolve(p)
    <3>1. CASE Return(p)
      BY <2>1, <3>1, ReturnFacts, FileFacts DEF TypeOK, Shape, AfterRead, Marked, Writing, Resolve
    <3>2. CASE ~Return(p)
      <4>1. /\ pc' \in [Procs -> Labels] /\ pc'[p] \in {"read", "discard", "replay"}
            /\ \A q \in Procs \ {p} : pc'[q] = pc[q]
        BY <2>1, <3>2 DEF Resolve, TypeOK
      <4>2. meta' \in Kept /\ UNCHANGED <<loc, lock>>
        BY <2>1, <3>2, FileFacts DEF Resolve, TypeOK
      <4> QED BY <2>1, <4>1, <4>2 DEF TypeOK, Resolve, Only, Shape, AfterRead, Marked, Writing
    <3> QED BY <3>1, <3>2
  <2>2. CASE Replay(p)
    <3>1. TypeOK' /\ Only(p)
      BY <2>2, ReturnFacts, FileFacts DEF TypeOK, Shape, Only, AfterRead, Marked, Writing, Replay
    <3>2. Shape(p)'
      BY <2>2, ReturnFacts, FileFacts DEF TypeOK, Shape, AfterRead, Marked, Writing, Replay
    <3> QED BY <3>1, <3>2
  <2>3. CASE Discard(p)
    <3>1. TypeOK' /\ Only(p)
      BY <2>3, FileFacts DEF TypeOK, Shape, Only, AfterRead, Marked, Writing, Discard
    <3>2. Shape(p)'
      BY <2>3, FileFacts DEF TypeOK, Shape, AfterRead, Marked, Writing, Discard
    <3> QED BY <3>1, <3>2
  <2>4. CASE UnlinkMeta(p)
    <3>1. TypeOK' /\ Only(p)
      BY <2>4, FileFacts DEF TypeOK, Shape, Only, AfterRead, Marked, Writing, UnlinkMeta
    <3>2. Shape(p)'
      BY <2>4, FileFacts DEF TypeOK, Shape, AfterRead, Marked, Writing, UnlinkMeta
    <3> QED BY <3>1, <3>2
  <2>5. CASE ReadAuth(p)
    <3>1. CASE Return(p)
      BY <2>5, <3>1, ReturnFacts DEF ReadAuth, TypeOK, Shape, AfterRead, Marked, Writing
    <3>2. CASE ~Return(p)
      <4>1. Set(p, [loc[p] EXCEPT !.cred = auth]) /\ auth \in Docs /\ auth.ref # 0
        BY <2>5, <3>2, FileFacts DEF ReadAuth, TypeOK
      <4>2. /\ loc' \in [Procs -> Locals] /\ loc'[p].cred = auth
            /\ \A q \in Procs \ {p} : loc'[q] = loc[q]
        BY <4>1, SetCred, FileFacts
      <4>3. TypeOK' /\ Only(p) /\ pc'[p] = "decide"
        BY <2>5, <3>2, <4>2 DEF ReadAuth, TypeOK, Only
      <4> QED BY <4>1, <4>2, <4>3 DEF Shape, AfterRead, Marked, Writing
    <3> QED BY <3>1, <3>2
  <2>6. CASE StopEarly(p)
    <3>1. TypeOK' /\ Only(p)
      BY <2>6, ReturnFacts DEF TypeOK, Shape, Only, AfterRead, Marked, Writing, StopEarly
    <3>2. Shape(p)'
      BY <2>6, ReturnFacts DEF TypeOK, Shape, AfterRead, Marked, Writing, StopEarly
    <3> QED BY <3>1, <3>2
  <2>7. CASE CompareClear(p)
    <3>1. TypeOK' /\ Only(p)
      BY <2>7, ReturnFacts, StoreLastFacts, StoreThenFacts, MarkerTypes DEF TypeOK, Shape, Only, AfterRead, Marked, Writing, CompareClear, MayDecide
    <3>2. Shape(p)'
      BY <2>7, ReturnFacts, StoreLastFacts, StoreThenFacts, MarkerTypes DEF TypeOK, Shape, AfterRead, Marked, Writing, CompareClear, MayDecide
    <3> QED BY <3>1, <3>2
  <2>8. CASE CompareUnknown(p)
    <3>1. TypeOK' /\ Only(p)
      BY <2>8, StoreLastFacts, StoreThenFacts, MarkerTypes DEF TypeOK, Shape, Only, AfterRead, Marked, Writing, CompareUnknown, MayDecide, Classes
    <3>2. Shape(p)'
      BY <2>8, StoreLastFacts, StoreThenFacts, MarkerTypes DEF TypeOK, Shape, AfterRead, Marked, Writing, CompareUnknown, MayDecide, Classes
    <3> QED BY <3>1, <3>2
  <2>9. CASE Gate(p)
    <3>1. TypeOK' /\ Only(p)
      BY <2>9, ReturnFacts DEF TypeOK, Shape, Only, AfterRead, Marked, Writing, Gate
    <3>2. Shape(p)'
      BY <2>9, ReturnFacts DEF TypeOK, Shape, AfterRead, Marked, Writing, Gate
    <3> QED BY <3>1, <3>2
  <2>10. CASE Snapshot(p)
    <3>1. TypeOK' /\ Only(p)
      BY <2>10, ReturnFacts DEF TypeOK, Shape, Only, AfterRead, Marked, Writing, Snapshot
    <3>2. Shape(p)'
      BY <2>10, ReturnFacts DEF TypeOK, Shape, AfterRead, Marked, Writing, Snapshot
    <3> QED BY <3>1, <3>2
  <2>11. CASE WriteMarker(p)
    <3>1. loc[p].cred.ref \in Refs
      BY LocalTypes, FileFacts DEF TypeOK
    <3>2. CASE Return(p) /\ UNCHANGED marker
      BY <2>11, <3>2, ReturnFacts DEF WriteMarker, TypeOK, Shape, AfterRead, Marked, Writing
    <3>3. CASE ~(Return(p) /\ UNCHANGED marker)
      <4>1. PICK m \in Markers : StoreThen(p, m, "post")
        BY <2>11, <3>1, <3>3, MarkerTypes DEF WriteMarker
      <4>2. TypeOK' /\ Only(p)
        BY <2>11, <4>1, StoreThenFacts DEF WriteMarker, TypeOK
      <4>3. Shape(p)'
        BY <2>11, <4>1, StoreThenFacts DEF WriteMarker, Shape, AfterRead, Marked, Writing
      <4> QED BY <4>2, <4>3
    <3> QED BY <3>2, <3>3
  <2>12. CASE Post(p)
    <3>1. open' \in [Refs -> SUBSET Kinds]
      BY <2>12 DEF Post, TypeOK, Kinds, KindOf
    <3>2. pc' \in [Procs -> Labels] /\ pc'[p] = "settle" /\ \A q \in Procs \ {p} : pc'[q] = pc[q]
      BY <2>12 DEF Post, TypeOK
    <3>3. CASE UNCHANGED <<next, from>> /\ \E o \in Outcomes \ {"none", "applied"} :
                  Set(p, [loc[p] EXCEPT !.out = o])
      <4>1. PICK o \in Outcomes \ {"none", "applied"} : Set(p, [loc[p] EXCEPT !.out = o])
        BY <3>3
      <4>2. /\ loc' \in [Procs -> Locals] /\ loc'[p].cred = loc[p].cred /\ loc'[p].out # "applied"
            /\ \A q \in Procs \ {p} : loc'[q] = loc[q]
        BY <4>1, SetOut
      <4>3. TypeOK' /\ Only(p)
        BY <2>12, <3>1, <3>2, <3>3, <4>2 DEF Post, TypeOK, Only
      <4> QED BY <2>12, <3>2, <4>2, <4>3 DEF Post, Shape, AfterRead, Marked, Writing
    <3>4. CASE ~(UNCHANGED <<next, from>> /\ \E o \in Outcomes \ {"none", "applied"} :
                  Set(p, [loc[p] EXCEPT !.out = o]))
      <4>1. PICK ref \in {0, next} :
              /\ next <= MaxToken /\ next' = next + 1
              /\ from' = [from EXCEPT ![next] = loc[p].cred.ref]
              /\ Set(p, [loc[p] EXCEPT !.out = "applied", !.new = Doc(ref, next)])
        BY <2>12, <3>4 DEF Post
      <4>2. Doc(ref, next) \in Docs /\ next' \in 1 .. MaxToken + 1
        BY <4>1, RefFacts, FileFacts DEF TypeOK
      <4>3. from' \in [Tokens -> Refs]
        <5>1. loc[p].cred.ref \in Refs
          BY LocalTypes, FileFacts DEF TypeOK
        <5> QED BY <4>1, <5>1 DEF TypeOK
      <4>4. /\ loc' \in [Procs -> Locals] /\ loc'[p].cred = loc[p].cred
            /\ loc'[p].new = Doc(ref, next)
            /\ \A q \in Procs \ {p} : loc'[q] = loc[q]
        BY <4>1, <4>2, SetApplied, FileFacts DEF Outcomes
      <4>5. TypeOK' /\ Only(p)
        BY <2>12, <3>1, <3>2, <4>2, <4>3, <4>4 DEF Post, TypeOK, Only
      <4> QED BY <2>12, <3>2, <4>2, <4>4, <4>5 DEF Post, Shape, AfterRead, Marked, Writing
    <3> QED BY <3>3, <3>4
  <2>13. CASE SettleUnsent(p)
    <3>1. PICK m \in Markers : StoreLast(p, m)
      BY <2>13, MarkerTypes DEF SettleUnsent
    <3>2. open' \in [Refs -> SUBSET Kinds]
      BY <2>13 DEF SettleUnsent, NotProcessed, TypeOK
    <3> QED BY <2>13, <3>1, <3>2, StoreLastFacts DEF SettleUnsent, TypeOK, Shape, AfterRead, Marked, Writing
  <2>14. CASE SettleUnclear(p)
    <3>1. TypeOK' /\ Only(p)
      BY <2>14, StoreLastFacts, MarkerTypes DEF TypeOK, Shape, Only, AfterRead, Marked, Writing, SettleUnclear, Classes
    <3>2. Shape(p)'
      BY <2>14, StoreLastFacts, MarkerTypes DEF TypeOK, Shape, AfterRead, Marked, Writing, SettleUnclear, Classes
    <3> QED BY <3>1, <3>2
  <2>15. CASE SettlePermanent(p)
    <3>1. TypeOK' /\ Only(p)
      BY <2>15, FileFacts DEF TypeOK, Shape, Only, AfterRead, Marked, Writing, SettlePermanent
    <3>2. Shape(p)'
      BY <2>15, FileFacts DEF TypeOK, Shape, AfterRead, Marked, Writing, SettlePermanent
    <3> QED BY <3>1, <3>2
  <2>16. CASE SettleApplied(p)
    <3>1. TypeOK' /\ Only(p)
      BY <2>16 DEF TypeOK, Shape, Only, AfterRead, Marked, Writing, SettleApplied
    <3>2. Shape(p)'
      BY <2>16 DEF TypeOK, Shape, AfterRead, Marked, Writing, SettleApplied
    <3> QED BY <3>1, <3>2
  <2>17. CASE ClearInflight(p)
    <3>1. TypeOK' /\ Only(p)
      BY <2>17, StoreLastFacts, MarkerTypes DEF TypeOK, Shape, Only, AfterRead, Marked, Writing, ClearInflight
    <3>2. Shape(p)'
      BY <2>17, StoreLastFacts, MarkerTypes DEF TypeOK, Shape, AfterRead, Marked, Writing, ClearInflight
    <3> QED BY <3>1, <3>2
  <2>18. CASE MarkDead(p)
    <3>1. TypeOK' /\ Only(p)
      BY <2>18, StoreLastFacts, MarkerTypes, FileFacts DEF TypeOK, Shape, Only, AfterRead, Marked, Writing, MarkDead
    <3>2. Shape(p)'
      BY <2>18, StoreLastFacts, MarkerTypes, FileFacts DEF TypeOK, Shape, AfterRead, Marked, Writing, MarkDead
    <3> QED BY <3>1, <3>2
  <2>19. CASE MergeBase(p)
    <3> DEFINE b == IF Holds(auth, loc[p].cred.ref) THEN auth ELSE loc[p].cred
               n == Doc(IF loc[p].new.ref = 0 THEN b.ref ELSE loc[p].new.ref, loc[p].new.acc)
    <3>1. b \in Docs
      BY <2>19, FileFacts DEF MergeBase, TypeOK, Holds, Shape, AfterRead, Marked, Writing
    <3>2. n \in Docs
      <4>1. loc[p].new \in Docs
        BY <2>19 DEF MergeBase, Shape, AfterRead, Marked, Writing
      <4> QED BY <3>1, <4>1, FileFacts
    <3> DEFINE one == 1
    <3>3. Set(p, [loc[p] EXCEPT !.base = b, !.attempt = one, !.new = n])
      BY <2>19 DEF MergeBase
    <3>. one \in 0 .. 4 /\ one = 1
      OBVIOUS
    <3> HIDE DEF b, n, one
    <3>4. /\ loc' \in [Procs -> Locals] /\ loc'[p].cred = loc[p].cred
          /\ loc'[p].base = b /\ loc'[p].new = n /\ loc'[p].attempt = one
          /\ \A q \in Procs \ {p} : loc'[q] = loc[q]
      <4>1. loc[p] \in Locals /\ b \in Kept /\ n \in Kept
        BY <3>1, <3>2, FileFacts DEF TypeOK
      <4>2. [loc[p] EXCEPT !.base = b] \in Locals
        BY <4>1 DEF Locals
      <4>3. [[loc[p] EXCEPT !.base = b] EXCEPT !.attempt = one] \in Locals
        BY <4>2 DEF Locals
      <4>4. [[[loc[p] EXCEPT !.base = b] EXCEPT !.attempt = one] EXCEPT !.new = n] \in Locals
        BY <4>1, <4>3 DEF Locals
      <4>5. loc'[p] = [loc[p] EXCEPT !.base = b, !.attempt = one, !.new = n]
            /\ loc' \in [Procs -> Locals]
        BY <3>3, <4>4 DEF TypeOK, Set
      <4> QED BY <3>3, <4>1, <4>5 DEF TypeOK, Set, Locals
    <3>5. /\ pc' \in [Procs -> Labels] /\ pc'[p] \in {"check", "unknown"}
          /\ \A q \in Procs \ {p} : pc'[q] = pc[q]
      BY <2>19 DEF MergeBase, TypeOK
    <3>6. TypeOK' /\ Only(p)
      BY <2>19, <3>4, <3>5 DEF MergeBase, TypeOK, Only
    <3>7. loc[p].cred \in Docs /\ loc[p].cred.ref # 0
      BY <2>19 DEF MergeBase, Shape, AfterRead, Marked, Writing
    <3> QED BY <3>1, <3>2, <3>4, <3>5, <3>6, <3>7 DEF Shape, AfterRead, Marked, Writing, Attempts
  <2>20. CASE CheckUnchanged(p)
    <3>1. TypeOK' /\ Only(p)
      BY <2>20 DEF TypeOK, Shape, Only, AfterRead, Marked, Writing, CheckUnchanged
    <3>2. Shape(p)'
      BY <2>20 DEF TypeOK, Shape, AfterRead, Marked, Writing, CheckUnchanged
    <3> QED BY <3>1, <3>2
  <2>21. CASE Stage(p)
    <3>1. <<loc[p].new, loc[p].attempt>> \in Docs \X (0 .. ParkAttempt)
      BY <2>21 DEF Stage, Shape, AfterRead, Marked, Writing, Attempts, ParkAttempt
    <3>2. TypeOK' /\ Only(p)
      BY <2>21, <3>1 DEF Stage, TypeOK, Only
    <3> QED BY <2>21, <3>2 DEF Stage, TypeOK, Shape, AfterRead, Marked, Writing
  <2>22. CASE Rename(p)
    <3>1. TypeOK' /\ Only(p)
      BY <2>22, FileFacts DEF TypeOK, Shape, Only, AfterRead, Marked, Writing, Rename
    <3>2. Shape(p)'
      BY <2>22, FileFacts DEF TypeOK, Shape, AfterRead, Marked, Writing, Rename
    <3> QED BY <3>1, <3>2
  <2>23. CASE Reread(p)
    <3>1. CASE auth = loc[p].new /\ Goto(p, "landed") /\ UNCHANGED loc
      BY <2>23, <3>1 DEF Reread, TypeOK, Only, Shape, AfterRead, Marked, Writing
    <3>2. CASE ~(auth = loc[p].new /\ Goto(p, "landed") /\ UNCHANGED loc)
      <4>1. PICK a \in 0 .. 4 : a = loc[p].attempt + 1
        BY <2>23 DEF Reread, Shape, AfterRead, Marked, Writing, Attempts
      <4>2. Set(p, [loc[p] EXCEPT !.attempt = a])
        BY <2>23, <3>2, <4>1 DEF Reread
      <4>3. /\ loc' \in [Procs -> Locals] /\ loc'[p].cred = loc[p].cred
            /\ loc'[p].base = loc[p].base /\ loc'[p].new = loc[p].new /\ loc'[p].attempt = a
            /\ \A q \in Procs \ {p} : loc'[q] = loc[q]
        BY <4>2, SetAttempt
      <4>4. /\ pc' \in [Procs -> Labels] /\ pc'[p] \in {"check", "park"}
            /\ pc'[p] = "check" => a \in 1 .. 3
            /\ pc'[p] = "park" => a = 4
            /\ \A q \in Procs \ {p} : pc'[q] = pc[q]
        BY <2>23, <3>2, <4>1 DEF Reread, TypeOK, Shape, AfterRead, Marked, Writing, Attempts
      <4>5. TypeOK' /\ Only(p)
        BY <2>23, <4>3, <4>4 DEF Reread, TypeOK, Only
      <4> QED BY <2>23, <4>3, <4>4, <4>5 DEF Reread, Shape, AfterRead, Marked, Writing, Attempts
    <3> QED BY <3>1, <3>2
  <2>24. CASE ParkStage(p)
    <3>1. <<loc[p].new, loc[p].attempt>> \in Docs \X (0 .. ParkAttempt)
      BY <2>24, LocalTypes DEF ParkStage, TypeOK, Shape, AfterRead, Marked, Writing, ParkAttempt
    <3>2. TypeOK' /\ Only(p)
      BY <2>24, <3>1 DEF ParkStage, TypeOK, Only
    <3> QED BY <2>24, <3>2 DEF ParkStage, TypeOK, Shape, AfterRead, Marked, Writing
  <2>25. CASE ParkMeta(p)
    <3>1. loc[p].base \in Kept
      BY LocalTypes DEF TypeOK
    <3>2. /\ pc' \in [Procs -> Labels] /\ pc'[p] \in {"parkpend", "unknown", "reread"}
          /\ pc'[p] = "reread" => loc[p].attempt # ParkAttempt
          /\ \A q \in Procs \ {p} : pc'[q] = pc[q]
      BY <2>25 DEF ParkMeta, ParkFailed, TypeOK
    <3>3. TypeOK' /\ Only(p)
      BY <2>25, <3>1, <3>2, FileFacts DEF ParkMeta, TypeOK, Only
    <3>4. loc[p].attempt \in 1 .. ParkAttempt
      BY <2>25 DEF ParkMeta, Shape, AfterRead, Marked, Writing
    <3> QED BY <2>25, <3>2, <3>3, <3>4 DEF ParkMeta, Shape, AfterRead, Marked, Writing, Attempts, ParkAttempt
  <2>26. CASE ParkPending(p)
    <3>1. loc[p].new \in Docs /\ loc[p].attempt \in 1 .. ParkAttempt
      BY <2>26 DEF ParkPending, Shape, AfterRead, Marked, Writing
    <3>2. /\ pc' \in [Procs -> Labels] /\ pc'[p] \in {"landed", "unknown", "reread"}
          /\ pc'[p] = "reread" => loc[p].attempt # ParkAttempt
          /\ \A q \in Procs \ {p} : pc'[q] = pc[q]
      BY <2>26 DEF ParkPending, ParkFailed, TypeOK
    <3>3. CASE UNCHANGED loc
      <4>1. TypeOK' /\ Only(p)
        BY <2>26, <3>1, <3>2, <3>3, FileFacts DEF ParkPending, TypeOK, Only
      <4> QED BY <2>26, <3>1, <3>2, <3>3, <4>1 DEF ParkPending, Shape, AfterRead, Marked, Writing, Attempts, ParkAttempt
    <3>4. CASE ~UNCHANGED loc
      <4>1. Set(p, [loc[p] EXCEPT !.parked = TRUE]) /\ pc'[p] = "landed"
        BY <2>26, <3>4 DEF ParkPending, TypeOK
      <4>2. /\ loc' \in [Procs -> Locals] /\ loc'[p].cred = loc[p].cred
            /\ loc'[p].base = loc[p].base /\ loc'[p].new = loc[p].new
            /\ \A q \in Procs \ {p} : loc'[q] = loc[q]
        BY <4>1, SetParked
      <4>3. TypeOK' /\ Only(p)
        BY <2>26, <3>1, <3>2, <3>4, <4>2, FileFacts DEF ParkPending, TypeOK, Only
      <4> QED BY <2>26, <3>1, <4>1, <4>2, <4>3 DEF ParkPending, Shape, AfterRead, Marked, Writing
    <3> QED BY <3>3, <3>4
  <2>27. CASE Landed(p)
    <3>1. TypeOK' /\ Only(p)
      BY <2>27, StoreLastFacts, MarkerTypes, RefFacts DEF TypeOK, Shape, Only, AfterRead, Marked, Writing, Landed
    <3>2. Shape(p)'
      BY <2>27, StoreLastFacts, MarkerTypes, RefFacts DEF TypeOK, Shape, AfterRead, Marked, Writing, Landed
    <3> QED BY <3>1, <3>2
  <2>28. CASE MarkWriteFailed(p)
    <3>1. TypeOK' /\ Only(p)
      BY <2>28, StoreLastFacts, MarkerTypes DEF TypeOK, Shape, Only, AfterRead, Marked, Writing, MarkWriteFailed, Classes
    <3>2. Shape(p)'
      BY <2>28, StoreLastFacts, MarkerTypes DEF TypeOK, Shape, AfterRead, Marked, Writing, MarkWriteFailed, Classes
    <3> QED BY <3>1, <3>2
  <2> QED BY <1>e, <2>1, <2>2, <2>3, <2>4, <2>5, <2>6, <2>7, <2>8, <2>9, <2>10, <2>11, <2>12, <2>13, <2>14, <2>15, <2>16, <2>17, <2>18, <2>19, <2>20, <2>21, <2>22, <2>23, <2>24, <2>25, <2>26, <2>27, <2>28 DEF RefreshStep
<1>f. ASSUME NEW p \in Procs, InstallStep(p) PROVE TypeInv'
  <2> USE DEF Labels
  <2> SUFFICES TypeOK' /\ Shape(p)' /\ Only(p)
    BY <1>b
  <2>1. CASE InstallStage(p)
    <3>1. CASE Return(p) /\ UNCHANGED <<tmps, next, from>>
      BY <2>1, <3>1, ReturnFacts DEF InstallStage, TypeOK, Shape, AfterRead, Marked, Writing
    <3>2. CASE ~(Return(p) /\ UNCHANGED <<tmps, next, from>>)
      <4>1. Doc(next, next) \in Docs /\ next' \in 1 .. MaxToken + 1
        BY <2>1, <3>2, RefFacts, FileFacts DEF InstallStage, TypeOK
      <4>2. Set(p, [loc[p] EXCEPT !.new = Doc(next, next)])
        BY <2>1, <3>2 DEF InstallStage
      <4>3. loc' \in [Procs -> Locals] /\ loc'[p].new = Doc(next, next)
            /\ \A q \in Procs \ {p} : loc'[q] = loc[q]
        BY <4>1, <4>2, SetNew, FileFacts
      <4>4. from' \in [Tokens -> Refs]
        BY <2>1, <3>2, RefFacts DEF InstallStage, TypeOK
      <4>5. TypeOK' /\ Only(p) /\ pc'[p] = "irename"
        BY <2>1, <3>2, <4>1, <4>3, <4>4 DEF InstallStage, TypeOK, ParkAttempt, Only
      <4> QED BY <4>1, <4>3, <4>5 DEF Shape, AfterRead, Marked, Writing
    <3> QED BY <3>1, <3>2
  <2>2. CASE InstallRename(p)
    <3>1. CASE Return(p)
      BY <2>2, <3>1, ReturnFacts, FileFacts DEF InstallRename, TypeOK, Shape, AfterRead, Marked, Writing
    <3>2. CASE ~Return(p)
      BY SMTT(30), <2>2, <3>2, FileFacts DEF InstallRename, TypeOK, Only, Shape, AfterRead, Marked, Writing
    <3> QED BY <3>1, <3>2
  <2>3. CASE InstallReset(p)
    BY <2>3, StoreLastFacts, MarkerTypes DEF InstallReset, TypeOK, Shape, AfterRead, Marked, Writing
  <2> QED BY <1>f, <2>1, <2>2, <2>3 DEF InstallStep
<1>g. ASSUME NEW p \in Procs, RemoveStep(p) PROVE TypeInv'
  <2> USE DEF Labels
  <2> SUFFICES TypeOK' /\ Shape(p)' /\ Only(p)
    BY <1>b
  <2>1. CASE RemoveList(p)
    <3>1. CASE Return(p)
      BY <2>1, <3>1, ReturnFacts DEF RemoveList, TypeOK, Shape, AfterRead, Marked, Writing
    <3>2. CASE ~Return(p)
      <4>1. PICK s \in SUBSET NamedFiles : Set(p, [loc[p] EXCEPT !.todo = s])
        BY <2>1, <3>2 DEF RemoveList
      <4>2. loc' \in [Procs -> Locals] /\ \A q \in Procs \ {p} : loc'[q] = loc[q]
        BY <4>1, SetTodo
      <4>3. TypeOK' /\ Only(p) /\ pc'[p] = "unlink"
        BY <2>1, <3>2, <4>2 DEF RemoveList, TypeOK, Only
      <4> QED BY <4>3 DEF Shape, AfterRead, Marked, Writing
    <3> QED BY <3>1, <3>2
  <2>2. CASE RemoveFile(p)
    <3>1. CASE Return(p) /\ UNCHANGED disk
      BY <2>2, <3>1, ReturnFacts DEF RemoveFile, TypeOK, Shape, AfterRead, Marked, Writing
    <3>2. CASE ~(Return(p) /\ UNCHANGED disk)
      <4>1. PICK n \in loc[p].todo :
              /\ auth' = IF n = "auth" THEN Absent ELSE auth
              /\ pend' = IF n = "pend" THEN Absent ELSE pend
              /\ meta' = IF n = "meta" THEN Absent ELSE meta
              /\ IF n = "tmps" THEN \E t \in tmps : tmps' = tmps \ {t} ELSE UNCHANGED tmps
              /\ Set(p, [loc[p] EXCEPT !.todo =
                           IF tmps' # {} /\ n = "tmps" THEN @ ELSE @ \ {n}])
              /\ UNCHANGED <<pc, lock>>
        BY <2>2, <3>2 DEF RemoveFile
      <4>2. loc' \in [Procs -> Locals] /\ Only(p) /\ pc'[p] = "unlink"
        <5>1. PICK s \in SUBSET NamedFiles : Set(p, [loc[p] EXCEPT !.todo = s])
          BY <4>1, LocalTypes DEF TypeOK
        <5> QED BY <2>2, <4>1, <5>1, SetTodo DEF RemoveFile, Only
      <4>3. auth' \in Files /\ pend' \in Kept /\ meta' \in Kept /\ tmps' \subseteq tmps
        BY <4>1, FileFacts DEF TypeOK
      <4> QED BY <2>2, <4>1, <4>2, <4>3
              DEF RemoveFile, TypeOK, Shape, AfterRead, Marked, Writing
    <3> QED BY <3>1, <3>2
  <2>3. CASE RemoveMarker(p)
    BY <2>3, ReturnFacts, MarkerTypes
       DEF RemoveMarker, TypeOK, Shape, AfterRead, Marked, Writing
  <2> QED BY <1>g, <2>1, <2>2, <2>3 DEF RemoveStep
<1>h. ASSUME NEW p \in Procs, Crash(p) PROVE TypeInv'
  <2>1. TypeOK' /\ Only(p) /\ pc'[p] = "idle"
    BY <1>h, NoLocalsType DEF Crash, TypeOK, Only, Labels, Set
  <2> QED BY <2>1, <1>b DEF Shape, AfterRead, Marked, Writing
<1>i. CASE External
  <2>1. auth' \in Files /\ next' \in 1 .. MaxToken + 1
    <3>1. CASE ExtTruncate \/ ExtDelete
      BY <3>1, FileFacts DEF ExtTruncate, ExtDelete, TypeOK
    <3>2. CASE ExtWrite
      BY <3>2, FileFacts, RefFacts DEF ExtWrite, TypeOK
    <3>3. CASE ExtNewAccess
      BY <3>3, FileFacts, RefFacts DEF ExtNewAccess, TypeOK
    <3> QED BY <1>i, <3>1, <3>2, <3>3 DEF External
  <2>2. UNCHANGED <<pend, meta, tmps, marker, lock, pc, loc, open, from>>
    BY <1>i DEF External, ExtTruncate, ExtWrite, ExtNewAccess, ExtDelete
  <2> QED BY <2>1, <2>2 DEF TypeOK, Shape
<1> QED BY <1>a, <1>c, <1>d, <1>e, <1>f, <1>g, <1>h, <1>i DEF Next, Work

\* The types hold in every reachable state: no step puts a value of another shape
\* on disk, in the marker or in a process's locals.
THEOREM TypeCorrect == Spec => []TypeOK
<1>1. Init => TypeInv
  BY SMTT(30), RefFacts, FileFacts, NoLocalsType, TokenAssumption
     DEF Init, TypeInv, TypeOK, Shape, Labels, Kinds, Tokens, Refs, DefaultMarker, Markers,
         Classes, AfterRead, Marked, Writing
<1>2. TypeInv => TypeOK
  BY DEF TypeInv
<1> QED BY <1>1, <1>2, TypeStep, PTL DEF Spec

----------------------------------------------------------------------------
(* No grant is sent on the program's own account while a POST of it is     *)
(* unsettled: the inductive invariant IInv, kept by every step.            *)

Globals == Fresh /\ FilesIssued /\ Covered /\ ParkedUnsent /\ ResendRecorded

LEMMA MarkerFields ==
    ASSUME TypeOK
    PROVE  /\ marker.inflight \in Refs /\ marker.dead \in Refs /\ marker.resent \in BOOLEAN
           /\ \A c \in Classes : LET m == [marker EXCEPT !.class = c] IN
                /\ m.inflight = marker.inflight /\ m.dead = marker.dead
                /\ m.resent = marker.resent /\ m.class = c
           /\ \A b \in BOOLEAN : LET m == [marker EXCEPT !.resent = b] IN
                m.inflight = marker.inflight /\ m.dead = marker.dead /\ m.resent = b
           /\ Cleared.inflight = 0 /\ Cleared.dead = marker.dead /\ Cleared.resent = FALSE
           /\ \A d \in Refs : Settled(d).inflight = 0 /\ Settled(d).dead = d
           /\ \A r \in Refs : LET m == [Cleared EXCEPT !.inflight = r] IN
                m.inflight = r /\ m.dead = marker.dead /\ m.resent = FALSE
           /\ DefaultMarker.inflight = 0 /\ DefaultMarker.dead = 0
<1>1. marker \in Markers
  BY DEF TypeOK
<1>2. Cleared \in Markers
  BY MarkerTypes
<1> QED BY <1>1, <1>2, RefFacts DEF Markers, Cleared, Settled, DefaultMarker, Classes

----------------------------------------------------------------------------
(* The lock.                                                               *)

LEMMA MutexStep == TypeInv /\ Mutex /\ [Next]_vars => Mutex'
<1> SUFFICES ASSUME TypeInv, Mutex, [Next]_vars PROVE Mutex'
  OBVIOUS
<1> USE DEF TypeInv, Mutex, Unlocked, Labels
<1>a. CASE UNCHANGED vars
  BY <1>a DEF vars
<1>b. ASSUME NEW p \in Procs, pc[p] \notin Unlocked,
             \A q \in Procs \ {p} : pc'[q] = pc[q],
             \/ lock' = lock /\ pc'[p] \notin Unlocked
             \/ lock' = NoProc /\ pc'[p] = "idle"
      PROVE  Mutex'
  BY <1>b, ProcsAssumption
<1>c. ASSUME NEW p \in Procs, Start(p) PROVE Mutex'
  BY <1>c DEF Start, Begin, TypeOK
<1>d. ASSUME NEW p \in Procs, Acquire(p) \/ GiveUp(p) PROVE Mutex'
  BY <1>d, ProcsAssumption DEF Acquire, GiveUp, TypeOK
<1>e. ASSUME NEW p \in Procs, RefreshStep(p) PROVE Mutex'
  <2>1. CASE Resolve(p)
    BY <2>1, <1>b, ProcsAssumption DEF Resolve, Return, StoreLast, StoreThen, TypeOK
  <2>2. CASE Replay(p)
    BY <2>2, <1>b, ProcsAssumption DEF Replay, Return, StoreLast, StoreThen, TypeOK
  <2>3. CASE Discard(p)
    BY <2>3, <1>b, ProcsAssumption DEF Discard, Return, StoreLast, StoreThen, TypeOK
  <2>4. CASE UnlinkMeta(p)
    BY <2>4, <1>b, ProcsAssumption DEF UnlinkMeta, Return, StoreLast, StoreThen, TypeOK
  <2>5. CASE ReadAuth(p)
    BY <2>5, <1>b, ProcsAssumption DEF ReadAuth, Return, StoreLast, StoreThen, TypeOK
  <2>6. CASE StopEarly(p)
    BY <2>6, <1>b, ProcsAssumption DEF StopEarly, Return, StoreLast, StoreThen, TypeOK
  <2>7. CASE CompareClear(p)
    BY <2>7, <1>b, ProcsAssumption DEF CompareClear, Return, StoreLast, StoreThen, TypeOK, MayDecide
  <2>8. CASE CompareUnknown(p)
    BY <2>8, <1>b, ProcsAssumption DEF CompareUnknown, Return, StoreLast, StoreThen, TypeOK, MayDecide
  <2>9. CASE Gate(p)
    BY <2>9, <1>b, ProcsAssumption DEF Gate, Return, StoreLast, StoreThen, TypeOK
  <2>10. CASE Snapshot(p)
    BY <2>10, <1>b, ProcsAssumption DEF Snapshot, Return, StoreLast, StoreThen, TypeOK
  <2>11. CASE WriteMarker(p)
    BY <2>11, <1>b, ProcsAssumption DEF WriteMarker, Return, StoreLast, StoreThen, TypeOK
  <2>12. CASE Post(p)
    BY <2>12, <1>b, ProcsAssumption DEF Post, Return, StoreLast, StoreThen, TypeOK
  <2>13. CASE SettleUnsent(p)
    BY <2>13, <1>b, ProcsAssumption DEF SettleUnsent, Return, StoreLast, StoreThen, TypeOK
  <2>14. CASE SettleUnclear(p)
    BY <2>14, <1>b, ProcsAssumption DEF SettleUnclear, Return, StoreLast, StoreThen, TypeOK
  <2>15. CASE SettlePermanent(p)
    BY <2>15, <1>b, ProcsAssumption DEF SettlePermanent, Return, StoreLast, StoreThen, TypeOK
  <2>16. CASE SettleApplied(p)
    BY <2>16, <1>b, ProcsAssumption DEF SettleApplied, Return, StoreLast, StoreThen, TypeOK
  <2>17. CASE ClearInflight(p)
    BY <2>17, <1>b, ProcsAssumption DEF ClearInflight, Return, StoreLast, StoreThen, TypeOK
  <2>18. CASE MarkDead(p)
    BY <2>18, <1>b, ProcsAssumption DEF MarkDead, Return, StoreLast, StoreThen, TypeOK
  <2>19. CASE MergeBase(p)
    BY <2>19, <1>b, ProcsAssumption DEF MergeBase, Return, StoreLast, StoreThen, TypeOK
  <2>20. CASE CheckUnchanged(p)
    BY <2>20, <1>b, ProcsAssumption DEF CheckUnchanged, Return, StoreLast, StoreThen, TypeOK
  <2>21. CASE Stage(p)
    BY <2>21, <1>b, ProcsAssumption DEF Stage, Return, StoreLast, StoreThen, TypeOK
  <2>22. CASE Rename(p)
    BY <2>22, <1>b, ProcsAssumption DEF Rename, Return, StoreLast, StoreThen, TypeOK
  <2>23. CASE Reread(p)
    BY <2>23, <1>b, ProcsAssumption DEF Reread, Return, StoreLast, StoreThen, TypeOK
  <2>24. CASE ParkStage(p)
    BY <2>24, <1>b, ProcsAssumption DEF ParkStage, Return, StoreLast, StoreThen, TypeOK
  <2>25. CASE ParkMeta(p)
    BY <2>25, <1>b, ProcsAssumption DEF ParkMeta, Return, StoreLast, StoreThen, TypeOK, ParkFailed
  <2>26. CASE ParkPending(p)
    BY <2>26, <1>b, ProcsAssumption DEF ParkPending, Return, StoreLast, StoreThen, TypeOK, ParkFailed
  <2>27. CASE Landed(p)
    BY <2>27, <1>b, ProcsAssumption DEF Landed, Return, StoreLast, StoreThen, TypeOK
  <2>28. CASE MarkWriteFailed(p)
    BY <2>28, <1>b, ProcsAssumption DEF MarkWriteFailed, Return, StoreLast, StoreThen, TypeOK
  <2> QED BY <1>e, <2>1, <2>2, <2>3, <2>4, <2>5, <2>6, <2>7, <2>8, <2>9, <2>10, <2>11, <2>12, <2>13, <2>14, <2>15, <2>16, <2>17, <2>18, <2>19, <2>20, <2>21, <2>22, <2>23, <2>24, <2>25, <2>26, <2>27, <2>28 DEF RefreshStep
<1>f. ASSUME NEW p \in Procs, InstallStep(p) PROVE Mutex'
  <2>1. CASE InstallStage(p)
    BY <2>1, <1>b, ProcsAssumption DEF InstallStage, Return, StoreLast, StoreThen, TypeOK
  <2>2. CASE InstallRename(p)
    BY <2>2, <1>b, ProcsAssumption DEF InstallRename, Return, StoreLast, StoreThen, TypeOK
  <2>3. CASE InstallReset(p)
    BY <2>3, <1>b, ProcsAssumption DEF InstallReset, Return, StoreLast, StoreThen, TypeOK
  <2> QED BY <1>f, <2>1, <2>2, <2>3 DEF InstallStep
<1>g. ASSUME NEW p \in Procs, RemoveStep(p) PROVE Mutex'
  <2>1. CASE RemoveList(p)
    BY <2>1, <1>b, ProcsAssumption DEF RemoveList, Return, StoreLast, StoreThen, TypeOK
  <2>2. CASE RemoveFile(p)
    BY <2>2, <1>b, ProcsAssumption DEF RemoveFile, Return, StoreLast, StoreThen, TypeOK
  <2>3. CASE RemoveMarker(p)
    BY <2>3, <1>b, ProcsAssumption DEF RemoveMarker, Return, StoreLast, StoreThen, TypeOK
  <2> QED BY <1>g, <2>1, <2>2, <2>3 DEF RemoveStep
<1>h. ASSUME NEW p \in Procs, Crash(p) PROVE Mutex'
  BY <1>h, ProcsAssumption DEF Crash, TypeOK
<1>i. CASE External
  BY <1>i DEF External, ExtTruncate, ExtWrite, ExtNewAccess, ExtDelete
<1> QED BY <1>a, <1>c, <1>d, <1>e, <1>f, <1>g, <1>h, <1>i DEF Next, Work

----------------------------------------------------------------------------
(* The grants.                                                             *)

LEMMA SafeInit == Init => IInv
BY RefFacts, FileFacts, NoLocalsType, TokenAssumption, ProcsAssumption
   DEF Init, IInv, TypeInv, TypeOK, Shape, Labels, Kinds, Tokens, Refs, DefaultMarker, Markers,
       Classes, AfterRead, Marked, Writing, Mutex, Unlocked, Fresh, FilesIssued, Issued, Covered,
       ParkedUnsent, ResendRecorded, Knows, Unsent, NoLocals, IsDoc, Doc, Absent

LEMMA SafeStep ==
    ASSUME "access" \notin Codex, "remove" \notin Commands, IInv, [Next]_vars
    PROVE  IInv'
<1>t. TypeInv' /\ Mutex'
  BY TypeStep, MutexStep DEF IInv
<1>u. /\ TypeOK /\ Globals /\ Mutex
      /\ \A q \in Procs : Knows(q) /\ Shape(q)
  BY DEF IInv, TypeInv, Globals
<1>v. /\ 0 \in Refs /\ open[0] = {} /\ marker.inflight \in Refs /\ auth \in Files
      /\ pend \in Files /\ meta \in Files /\ (pend # Absent => pend \in Docs)
      /\ next \in Nat /\ \A r \in Refs : r \in Nat
      /\ \A f \in Files : f.ref \in Refs /\ (IsDoc(f) <=> f \in Docs)
  <2>1. 0 \in Refs /\ open[0] = {}
    BY <1>u, RefFacts DEF Globals, Fresh
  <2>2. next \in Nat /\ \A r \in Refs : r \in Nat
    BY <1>u, TokenAssumption DEF TypeOK, Refs
  <2>3. /\ auth \in Files /\ pend \in Files /\ meta \in Files
        /\ pend # Absent => pend \in Docs
    BY <1>u, FileFacts DEF TypeOK, Kept
  <2> QED BY <1>u, <2>1, <2>2, <2>3, FileFacts, MarkerFields
<1>r. ASSUME NEW p \in Procs, pc'[p] = "idle", loc'[p] = NoLocals PROVE Knows(p)'
  BY <1>r DEF Knows, Shape, AfterRead, Marked, Writing, Unlocked, NoLocals
<1>a. CASE UNCHANGED vars
  <2>1. Globals' BY <1>a, <1>u DEF vars, Globals, Fresh, FilesIssued, Issued, Covered, ParkedUnsent, ResendRecorded, Unsent
  <2>2. \A q \in Procs : Knows(q)'
    BY <1>a, <1>u DEF vars, Knows, Shape, AfterRead, Marked, Writing, Unlocked, Issued, Unsent
  <2> QED BY <1>t, <2>1, <2>2 DEF IInv, Globals
<1>b. ASSUME NEW p \in Procs, pc[p] \notin Unlocked, Only(p), Globals', Knows(p)'
      PROVE  IInv'
  <2>1. ASSUME NEW q \in Procs \ {p} PROVE Knows(q)'
    <3>1. pc[q] \in Unlocked /\ pc'[q] = pc[q] /\ loc'[q] = loc[q]
      BY <1>b, <1>u, <2>1 DEF Mutex, Only
    <3> QED BY <3>1, <1>u DEF Knows, AfterRead, Marked, Writing, Unlocked
  <2> QED BY <1>b, <1>t, <2>1 DEF IInv, Globals
<1>c. ASSUME NEW p \in Procs, Start(p) \/ GiveUp(p) \/ Crash(p) PROVE IInv'
  <2>1. UNCHANGED <<auth, pend, meta, marker, next, open>>
    BY <1>c DEF Start, Begin, GiveUp, Crash
  <2>2. Globals'
    BY <2>1, <1>u DEF Globals, Fresh, FilesIssued, Issued, Covered, ParkedUnsent, ResendRecorded, Unsent
  <2>3. PICK m \in Commands \cup {"none"} :
            /\ pc'[p] = "idle" \/ (pc'[p] = "lock" /\ m \in Commands)
            /\ loc'[p].mode = m /\ ~loc'[p].parked
            /\ \A r \in Procs \ {p} : pc'[r] = pc[r] /\ loc'[r] = loc[r]
    <3>1. CASE Start(p)
      <4>1. PICK m \in Commands : Begin(p, m)
        BY <3>1 DEF Start
      <4> QED BY <4>1, <1>u DEF Begin, Set, TypeOK, NoLocals
    <3>2. CASE GiveUp(p) \/ Crash(p)
      <4>1. /\ pc'[p] = "idle" /\ loc'[p] = NoLocals
            /\ \A r \in Procs \ {p} : pc'[r] = pc[r] /\ loc'[r] = loc[r]
        BY <3>2, <1>u DEF GiveUp, Crash, Set, TypeOK
      <4>2. loc'[p].mode = "none" /\ ~loc'[p].parked
        BY <4>1 DEF NoLocals
      <4> QED BY <4>1, <4>2
    <3> QED BY <1>c, <3>1, <3>2
  <2>4. Knows(p)'
    BY <2>3 DEF Knows, Shape, AfterRead, Marked, Writing, Unlocked
  <2>5. ASSUME NEW q \in Procs \ {p} PROVE Knows(q)'
    BY SMTT(30), <2>1, <2>3, <1>u DEF Knows, Issued, Unsent
  <2> QED BY <2>2, <2>4, <2>5, <1>t DEF IInv, Globals
<1>d. ASSUME NEW p \in Procs, Acquire(p) PROVE IInv'
  <2>1. Globals'
    BY <1>d, <1>u DEF Acquire, Globals, Fresh, FilesIssued, Issued, Covered, ParkedUnsent, ResendRecorded, Unsent
  <2>2. Knows(p)'
    BY <1>d, <1>u, CommandsAssumption DEF Acquire, TypeOK, Knows, Shape, AfterRead, Marked, Writing, Unlocked
  <2>3. ASSUME NEW q \in Procs \ {p} PROVE Knows(q)'
    BY <1>d, <1>u DEF Acquire, TypeOK, Knows, Issued, Unsent
  <2> QED BY <2>1, <2>2, <2>3, <1>t DEF IInv, Globals
<1>e. ASSUME NEW p \in Procs, RefreshStep(p) PROVE IInv'
  <2>k. Knows(p) /\ Shape(p)
    BY <1>u
  <2>1. CASE Resolve(p)
    <3>1. pc[p] \notin Unlocked /\ Only(p)
      BY <2>1, <2>k, <1>u, <1>v, MarkerFields, ReturnFacts DEF Resolve, Only, TypeOK, Unlocked
    <3>4. UNCHANGED <<auth, pend, marker, next, open>> /\ pc[p] = "resolve"
          /\ (pend # Absent => UNCHANGED meta)
      BY <2>1, <2>k, <1>u, <1>v, MarkerFields DEF Resolve
    <3>2. Globals'
      BY <2>1, <2>k, <1>u, <1>v, MarkerFields, <3>4 DEF Globals, Fresh, FilesIssued, Issued, Covered, ParkedUnsent, ResendRecorded, Unsent
    <3>3. Knows(p)'
      <4>1. CASE Return(p)
        BY <4>1, <1>r, <1>u, ReturnFacts
      <4>2. CASE ~Return(p)
        <5>1. /\ UNCHANGED loc
              /\ \/ pc'[p] = "read" /\ pend = Absent
                 \/ pc'[p] = "replay"
                 \/ pc'[p] = "discard" /\ UNCHANGED meta /\ (meta = Absent \/ auth # meta)
          BY <2>1, <2>k, <1>u, <1>v, MarkerFields, <4>2 DEF Resolve, TypeOK
        <5>2. ~IsDoc(Absent)
          BY DEF IsDoc, Absent
        <5> QED BY <2>1, <2>k, <1>u, <1>v, MarkerFields, <3>4, <5>1, <5>2 DEF Knows, Shape, AfterRead, Marked, Writing, Unlocked, Unsent
      <4> QED BY <4>1, <4>2
    <3> QED BY <3>1, <3>2, <3>3, <2>k, <1>b
  <2>2. CASE Replay(p)
    <3>1. pc[p] \notin Unlocked /\ Only(p)
      BY <2>2, <2>k, <1>u, <1>v, MarkerFields, ReturnFacts DEF Replay, Only, TypeOK, Unlocked
    <3>4. /\ UNCHANGED <<meta, marker, next, open>> /\ pc[p] = "replay"
          /\ \/ UNCHANGED <<auth, pend>> /\ Return(p)
             \/ auth' = pend /\ pend' = Absent /\ pc'[p] = "unmeta" /\ UNCHANGED loc
      BY <2>2, <2>k, <1>u, <1>v, MarkerFields DEF Replay, TypeOK
    <3>5. ~IsDoc(Absent)
      BY DEF IsDoc, Absent
    <3>2. Globals'
      BY <1>u, <1>v, <3>4, <3>5 DEF Globals, Fresh, FilesIssued, Issued, Covered, ParkedUnsent, ResendRecorded, Unsent
    <3>3. Knows(p)'
      <4>1. CASE Return(p)
        BY <4>1, <1>r, <1>u, ReturnFacts
      <4>2. CASE ~Return(p)
        BY <1>u, <3>4, <4>2 DEF Knows, Shape, AfterRead, Marked, Writing, Unlocked
      <4> QED BY <4>1, <4>2
    <3> QED BY <3>1, <3>2, <3>3, <2>k, <1>b
  <2>3. CASE Discard(p)
    <3>1. pc[p] \notin Unlocked /\ Only(p)
      BY <2>3, <2>k, <1>u, <1>v, MarkerFields DEF Discard, Only, TypeOK, Unlocked
    <3>4. /\ UNCHANGED <<auth, meta, marker, next, open>> /\ pc[p] = "discard"
          /\ pend' = Absent /\ pc'[p] = "unmeta" /\ UNCHANGED loc
          /\ ~(IsDoc(auth) /\ auth = meta) \/ Unsent(auth)
      BY <2>3, <2>k, <1>u, <1>v, MarkerFields DEF Discard, TypeOK, Knows, Shape, AfterRead, Marked, Writing, Unlocked
    <3>5. ~IsDoc(Absent)
      BY DEF IsDoc, Absent
    <3>2. Globals'
      BY <1>u, <1>v, <3>4, <3>5 DEF Globals, Fresh, FilesIssued, Issued, Covered, ParkedUnsent, ResendRecorded, Unsent
    <3>3. Knows(p)'
      BY <1>u, <3>4 DEF Knows, Shape, AfterRead, Marked, Writing, Unlocked
    <3> QED BY <3>1, <3>2, <3>3, <2>k, <1>b
  <2>4. CASE UnlinkMeta(p)
    <3>1. pc[p] \notin Unlocked /\ Only(p)
      BY <2>4, <1>u DEF UnlinkMeta, Only, Set, TypeOK, Return, StoreLast, StoreThen, Unlocked
    <3>2. Globals'
      BY <2>4, <2>k, <1>u, <1>v, MarkerFields DEF UnlinkMeta, TypeOK, Globals, Fresh, FilesIssued, Issued, Covered, ParkedUnsent, ResendRecorded, Unsent, Knows, Shape, AfterRead, Marked, Writing, Unlocked
    <3>3. Knows(p)'
      BY <2>4, <2>k, <1>u, <1>v, MarkerFields DEF UnlinkMeta, TypeOK, Knows, Shape, AfterRead, Marked, Writing, Unlocked, Issued, Unsent
    <3> QED BY <3>1, <3>2, <3>3, <2>k, <1>b
  <2>5. CASE ReadAuth(p)
    <3>1. pc[p] \notin Unlocked /\ Only(p)
      BY <2>5, <2>k, <1>u, <1>v, MarkerFields, ReturnFacts DEF ReadAuth, Only, Set, TypeOK, Unlocked
    <3>2. Globals'
      BY <2>5, <2>k, <1>u, <1>v, MarkerFields DEF ReadAuth, Globals, Fresh, FilesIssued, Issued, Covered, ParkedUnsent, ResendRecorded, Unsent
    <3>3. Knows(p)'
      <4>1. CASE Return(p)
        BY <2>5, <2>k, <1>u, <1>v, MarkerFields, <4>1, ReturnFacts DEF ReadAuth, NoLocals, Knows, Shape, AfterRead, Marked, Writing, Unlocked
      <4>2. CASE ~Return(p)
        <5>1. Set(p, [loc[p] EXCEPT !.cred = auth]) /\ auth \in Kept /\ IsDoc(auth) /\ auth.ref # 0
          BY <2>5, <2>k, <1>u, <1>v, MarkerFields, <4>2, FileFacts DEF ReadAuth
        <5>2. /\ loc'[p].cred = auth /\ loc'[p].mode = loc[p].mode /\ loc'[p].parked = loc[p].parked
          BY <1>u, <5>1, SetCred
        <5>3. pc'[p] = "decide"
          BY <2>5, <2>k, <1>u, <1>v, MarkerFields, <4>2 DEF ReadAuth, TypeOK
        <5>4. pend = Absent /\ (open[auth.ref] = {} \/ auth.ref \in {marker.inflight, marker.dead})
          BY <2>5, <2>k, <1>u, <1>v, MarkerFields, <5>1 DEF ReadAuth, Globals, Covered, Knows, Shape, AfterRead, Marked, Writing, Unlocked
        <5> QED BY <2>5, <2>k, <1>u, <1>v, MarkerFields, <5>1, <5>2, <5>3, <5>4 DEF ReadAuth, Globals, Fresh, FilesIssued, Issued, Covered, ParkedUnsent, ResendRecorded, Unsent, Knows, Shape, AfterRead, Marked, Writing, Unlocked
      <4> QED BY <4>1, <4>2
    <3> QED BY <3>1, <3>2, <3>3, <2>k, <1>b
  <2>6. CASE StopEarly(p)
    <3>1. pc[p] \notin Unlocked /\ Only(p)
      BY <2>6, <2>k, <1>u, <1>v, MarkerFields, ReturnFacts DEF StopEarly, Unlocked
    <3>2. Globals'
      BY <2>6, <2>k, <1>u, <1>v, MarkerFields DEF StopEarly, Globals, Fresh, FilesIssued, Issued, Covered, ParkedUnsent, ResendRecorded, Unsent
    <3>3. Knows(p)'
      BY <2>6, <2>k, <1>u, <1>v, MarkerFields, <1>r, ReturnFacts DEF StopEarly
    <3> QED BY <3>1, <3>2, <3>3, <2>k, <1>b
  <2>7. CASE CompareClear(p)
    <3>4. /\ UNCHANGED <<auth, pend, meta, next, open, tmps>> /\ ~Outstanding(p) /\ pc[p] = "decide"
          /\ marker.dead # loc[p].cred.ref
      BY <2>7, <2>k, <1>u, <1>v, MarkerFields DEF CompareClear, MayDecide
    <3>5. /\ marker' \in {marker, Cleared} /\ Only(p)
          /\ \/ pc'[p] = "idle" /\ loc'[p] = NoLocals
             \/ pc'[p] = "gate" /\ UNCHANGED loc /\ loc[p].mode # "resend"
      <4>1. CASE UNCHANGED marker /\ Return(p)
        BY <4>1, <1>u, ReturnFacts
      <4>2. CASE UNCHANGED marker /\ ~Return(p)
        BY <2>7, <2>k, <1>u, <1>v, MarkerFields, <4>2 DEF CompareClear, StoreLast, StoreThen, Only, TypeOK
      <4>3. CASE StoreLast(p, Cleared)
        BY <4>3, <1>u, StoreLastFacts, MarkerTypes
      <4>4. CASE loc[p].mode # "resend" /\ StoreThen(p, Cleared, "gate")
        <5>1. "gate" \in Labels
          BY DEF Labels
        <5> QED BY <4>4, <5>1, <1>u, StoreThenFacts, MarkerTypes
      <4> QED BY <2>7, <2>k, <1>u, <1>v, MarkerFields, <4>1, <4>2, <4>3, <4>4 DEF CompareClear
    <3>1. pc[p] \notin Unlocked /\ Only(p)
      BY <3>4, <3>5 DEF Unlocked
    <3>6. /\ open[loc[p].cred.ref] = {} /\ (auth = loc[p].cred \/ Unsent(auth))
          /\ IsDoc(loc[p].cred)
      BY <2>7, <2>k, <1>u, <1>v, MarkerFields, <3>4, FileFacts DEF Outstanding, Knows, Shape, AfterRead, Marked, Writing, Unlocked
    <3>7. Unsent(auth)
      BY <3>6 DEF Unsent
    <3>2. Globals'
      BY <2>7, <2>k, <1>u, <1>v, MarkerFields, <3>4, <3>5, <3>7 DEF Globals, Fresh, FilesIssued, Issued, Covered, ParkedUnsent, ResendRecorded, Unsent
    <3>3. Knows(p)'
      <4>1. CASE pc'[p] = "idle" /\ loc'[p] = NoLocals
        BY <4>1, <1>r
      <4>2. CASE pc'[p] = "gate" /\ UNCHANGED loc /\ loc[p].mode # "resend"
        BY <2>7, <2>k, <1>u, <1>v, MarkerFields, <4>2, <3>4, <3>6 DEF Knows, Shape, AfterRead, Marked, Writing, Unlocked, Issued, Unsent
      <4> QED BY <3>5, <4>1, <4>2
    <3> QED BY <3>1, <3>2, <3>3, <2>k, <1>b
  <2>8. CASE CompareUnknown(p)
    <3>4. UNCHANGED <<auth, pend, meta, next, open>> /\ pc[p] = "decide"
      BY <2>8, <2>k, <1>u, <1>v, MarkerFields DEF CompareUnknown, MayDecide
    <3>5. PICK m \in Markers :
            /\ m.inflight = marker.inflight /\ m.dead = marker.dead /\ m.resent = marker.resent
            /\ \/ StoreLast(p, m)
               \/ loc[p].mode = "resend" /\ StoreThen(p, m, "gate")
      <4>1. marker \in Markers /\ "interrupted" \in Classes
        BY <1>u DEF TypeOK, Classes
      <4> QED BY <2>8, <2>k, <1>u, <1>v, MarkerFields, <4>1, MarkerTypes DEF CompareUnknown
    <3>6. /\ marker' \in {marker, m} /\ Only(p)
          /\ \/ pc'[p] = "idle" /\ loc'[p] = NoLocals
             \/ pc'[p] = "gate" /\ UNCHANGED loc /\ loc[p].mode = "resend"
      <4>1. "gate" \in Labels
        BY DEF Labels
      <4> QED BY <3>5, <4>1, <1>u, StoreLastFacts, StoreThenFacts
    <3>1. pc[p] \notin Unlocked /\ Only(p)
      BY <3>4, <3>6 DEF Unlocked
    <3>2. Globals'
      BY <2>8, <2>k, <1>u, <1>v, MarkerFields, <3>4, <3>5, <3>6 DEF Globals, Fresh, FilesIssued, Issued, Covered, ParkedUnsent, ResendRecorded, Unsent
    <3>3. Knows(p)'
      <4>1. CASE pc'[p] = "idle" /\ loc'[p] = NoLocals
        BY <4>1, <1>r
      <4>2. CASE pc'[p] = "gate" /\ UNCHANGED loc /\ loc[p].mode = "resend"
        BY <2>8, <2>k, <1>u, <1>v, MarkerFields, <4>2, <3>4 DEF Knows, Shape, AfterRead, Marked, Writing, Unlocked, Issued, Unsent
      <4> QED BY <3>6, <4>1, <4>2
    <3> QED BY <3>1, <3>2, <3>3, <2>k, <1>b
  <2>9. CASE Gate(p)
    <3>1. pc[p] \notin Unlocked /\ Only(p)
      BY <2>9, <2>k, <1>u, <1>v, MarkerFields, ReturnFacts DEF Gate, Only, TypeOK, Unlocked
    <3>2. Globals'
      BY <2>9, <2>k, <1>u, <1>v, MarkerFields DEF Gate, Globals, Fresh, FilesIssued, Issued, Covered, ParkedUnsent, ResendRecorded, Unsent
    <3>3. Knows(p)'
      <4>1. CASE Return(p)
        BY <4>1, <1>r, <1>u, ReturnFacts
      <4>2. CASE ~Return(p)
        BY <2>9, <2>k, <1>u, <1>v, MarkerFields, <4>2 DEF Gate, TypeOK, Knows, Shape, AfterRead, Marked, Writing, Unlocked, Issued, Unsent
      <4> QED BY <4>1, <4>2
    <3> QED BY <3>1, <3>2, <3>3, <2>k, <1>b
  <2>10. CASE Snapshot(p)
    <3>1. pc[p] \notin Unlocked /\ Only(p)
      BY <2>10, <2>k, <1>u, <1>v, MarkerFields, ReturnFacts DEF Snapshot, Only, TypeOK, Unlocked
    <3>2. Globals'
      BY <2>10, <2>k, <1>u, <1>v, MarkerFields DEF Snapshot, Globals, Fresh, FilesIssued, Issued, Covered, ParkedUnsent, ResendRecorded, Unsent
    <3>3. Knows(p)'
      <4>1. CASE Return(p)
        BY <4>1, <1>r, <1>u, ReturnFacts
      <4>2. CASE ~Return(p)
        BY SMTT(30), <2>10, <2>k, <1>u, <1>v, MarkerFields, <4>2 DEF Snapshot, TypeOK, Knows, Shape, AfterRead, Marked, Writing, Unlocked, Issued, Unsent
      <4> QED BY <4>1, <4>2
    <3> QED BY <3>1, <3>2, <3>3, <2>k, <1>b
  <2>11. CASE WriteMarker(p)
    <3>4. UNCHANGED <<auth, pend, meta, next, open>> /\ pc[p] = "mark"
      BY <2>11, <2>k, <1>u, <1>v, MarkerFields DEF WriteMarker
    <3>5. /\ loc[p].cred.ref \in Refs /\ IsDoc(loc[p].cred) /\ pend = Absent
          /\ loc[p].mode # "resend" => open[loc[p].cred.ref] = {}
          /\ auth = loc[p].cred \/ Unsent(auth)
      BY <2>11, <2>k, <1>u, <1>v, MarkerFields, <3>4, FileFacts DEF Knows, Shape, AfterRead, Marked, Writing, Unlocked
    <3>6. CASE Return(p) /\ UNCHANGED marker
      <4>1. Only(p) /\ pc[p] \notin Unlocked
        BY <3>4, <3>6, <1>u, ReturnFacts DEF Unlocked
      <4>2. Knows(p)'
        BY <3>6, <1>r, <1>u, ReturnFacts
      <4>3. Globals'
        BY <3>4, <3>6, <1>u DEF Globals, Fresh, FilesIssued, Issued, Covered, ParkedUnsent, ResendRecorded, Unsent
      <4> QED BY <4>1, <4>2, <4>3, <1>b
    <3>7. CASE ~(Return(p) /\ UNCHANGED marker)
      <4>1. PICK m \in Markers :
              /\ StoreThen(p, m, "post")
              /\ m.inflight = loc[p].cred.ref /\ m.dead = marker.dead
              /\ \/ /\ loc[p].mode = "resend" /\ m.resent
                    /\ marker.inflight = loc[p].cred.ref /\ ~marker.resent
                 \/ loc[p].mode # "resend" /\ marker.inflight = 0
        <5>1. CASE loc[p].mode = "resend"
          BY <2>11, <2>k, <1>u, <1>v, MarkerFields, <3>7, <5>1, MarkerTypes DEF WriteMarker, Outstanding
        <5>2. CASE loc[p].mode # "resend"
          BY <2>11, <2>k, <1>u, <1>v, MarkerFields, <3>5, <3>7, <5>2, MarkerTypes DEF WriteMarker
        <5> QED BY <5>1, <5>2
      <4>2. /\ marker' \in {marker, m} /\ Only(p)
            /\ \/ pc'[p] = "idle" /\ loc'[p] = NoLocals
               \/ pc'[p] = "post" /\ UNCHANGED loc /\ marker' = m
        <5>1. "post" \in Labels
          BY DEF Labels
        <5> QED BY <4>1, <5>1, <1>u, StoreThenFacts
      <4>3. Globals'
        BY <3>4, <3>5, <4>1, <4>2, <1>u, <1>v DEF Globals, Fresh, FilesIssued, Issued, Covered, ParkedUnsent, ResendRecorded, Unsent
      <4>4. Knows(p)'
        <5>1. CASE pc'[p] = "idle" /\ loc'[p] = NoLocals
          BY <5>1, <1>r
        <5>2. CASE pc'[p] = "post" /\ UNCHANGED loc /\ marker' = m
          <6>1. loc[p].mode = "resend" => "user" \notin open[loc[p].cred.ref]
            BY <4>1, <1>u DEF Globals, ResendRecorded
          <6> QED BY <2>11, <2>k, <1>u, <1>v, MarkerFields, <3>4, <4>1, <5>2, <6>1 DEF Knows, Shape, AfterRead, Marked, Writing, Unlocked, Issued, Unsent
        <5> QED BY <4>2, <5>1, <5>2
      <4> QED BY <3>4, <4>2, <4>3, <4>4, <1>b DEF Unlocked
    <3> QED BY <3>6, <3>7
  <2>12. CASE Post(p)
    <3>1. pc[p] \notin Unlocked /\ Only(p)
      BY <2>12, <2>k, <1>u, <1>v, MarkerFields DEF Post, Only, Set, TypeOK, Unlocked
    <3>4. PICK new \in Kept, out \in Outcomes :
            /\ Set(p, [loc[p] EXCEPT !.out = out, !.new = new])
            /\ \/ out # "applied" /\ next' = next
               \/ /\ out = "applied" /\ next \in Refs /\ next' = next + 1
                  /\ IsDoc(new) /\ new.ref \in {0, next}
      <4>1. CASE next' = next /\ \E out \in Outcomes \ {"none", "applied"} :
                    Set(p, [loc[p] EXCEPT !.out = out])
        <5>1. PICK out \in Outcomes \ {"none", "applied"} : Set(p, [loc[p] EXCEPT !.out = out])
          BY <4>1
        <5>2. loc[p] \in Locals
          BY <1>u DEF TypeOK
        <5>3. [loc[p] EXCEPT !.out = out] = [loc[p] EXCEPT !.out = out, !.new = loc[p].new]
          BY <5>2 DEF Locals
        <5>4. loc[p].new \in Kept
          BY <5>2, LocalTypes
        <5> QED BY <4>1, <5>1, <5>3, <5>4
      <4>2. CASE ~(next' = next /\ \E out \in Outcomes \ {"none", "applied"} :
                    Set(p, [loc[p] EXCEPT !.out = out]))
        <5>1. PICK ref \in {0, next} :
                /\ next <= MaxToken /\ next' = next + 1
                /\ Set(p, [loc[p] EXCEPT !.out = "applied", !.new = Doc(ref, next)])
          BY <2>12, <2>k, <1>u, <1>v, MarkerFields, <4>2 DEF Post
        <5>2. next \in Refs /\ Doc(ref, next) \in Kept /\ IsDoc(Doc(ref, next))
              /\ Doc(ref, next).ref = ref
          BY <1>u, <5>1, RefFacts, FileFacts DEF TypeOK, IsDoc, Doc
        <5> QED BY <5>1, <5>2 DEF Outcomes
      <4> QED BY <4>1, <4>2
    <3>5. /\ loc'[p].cred = loc[p].cred /\ loc'[p].mode = loc[p].mode /\ loc'[p].parked = loc[p].parked
          /\ loc'[p].out = out /\ loc'[p].new = new
      <4>1. loc[p] \in Locals
        BY <1>u DEF TypeOK
      <4> QED BY <1>u, <3>4, <4>1 DEF Set, Locals, TypeOK
    <3>6. /\ open' = [open EXCEPT ![loc[p].cred.ref] = @ \cup {KindOf(p)}]
          /\ pc' = [pc EXCEPT ![p] = "settle"] /\ pc[p] = "post"
          /\ UNCHANGED <<auth, pend, meta, marker, lock>>
      BY <2>12, <2>k, <1>u, <1>v, MarkerFields DEF Post
    <3>7. /\ loc[p].cred \in Docs /\ loc[p].cred.ref \in Refs /\ loc[p].cred.ref # 0
          /\ loc[p].cred.ref < next /\ marker.inflight = loc[p].cred.ref /\ pend = Absent
          /\ loc[p].mode = "resend" => marker.resent
          /\ loc[p].mode # "resend" => open[loc[p].cred.ref] = {}
          /\ auth = loc[p].cred \/ ~Holds(auth, loc[p].cred.ref)
          /\ auth = loc[p].cred \/ Unsent(auth)
          /\ ~loc[p].parked /\ loc[p].mode \in Commands
      <4>1. IsDoc(loc[p].cred)
        BY <2>12, <2>k, <1>u, <1>v, MarkerFields, <3>6, FileFacts DEF Knows, Shape, AfterRead, Marked, Writing, Unlocked
      <4> QED BY <2>12, <2>k, <1>u, <1>v, MarkerFields, <3>6, <4>1, FileFacts DEF Knows, Shape, AfterRead, Marked, Writing, Unlocked, Issued
    <3>8. open' \in [Refs -> SUBSET Kinds] /\ next \in Int
      BY <3>6, <3>7, <1>u DEF TypeOK, KindOf, Kinds
    <3>9. \A r \in Refs : r # loc[p].cred.ref => open'[r] = open[r]
      BY <3>6, <3>7, <1>u DEF TypeOK
    <3>2. Globals'
      <4>1. Fresh'
        BY <3>4, <3>7, <3>8, <3>9, <1>u DEF Globals, Fresh, Refs
      <4>2. Covered' /\ ParkedUnsent'
        BY <3>6, <3>7, <3>9, <1>u, <1>v DEF Globals, Covered, ParkedUnsent
      <4>3. ResendRecorded'
        BY <3>6, <3>7, <1>u DEF TypeOK, ResendRecorded, KindOf
      <4>4. FilesIssued'
        BY <3>4, <3>6, <3>8, <1>u, <1>v DEF Globals, FilesIssued, Issued, Refs, TypeOK
      <4> QED BY <4>1, <4>2, <4>3, <4>4 DEF Globals
    <3>3. Knows(p)'
      <4>1. auth = loc[p].cred \/ Unsent(auth)'
        BY <3>6, <3>7, <3>9, <1>v DEF Unsent, Holds
      <4>2. out = "applied" =>
              \/ new.ref = 0
              \/ new.ref # 0 /\ new.ref # loc[p].cred.ref /\ open'[new.ref] = {}
        BY <3>4, <3>7, <3>8, <3>9, <1>u DEF Globals, Fresh
      <4>3. loc[p].mode # "resend" => open'[loc[p].cred.ref] = {"auto"}
        BY <3>6, <3>7, <1>u DEF TypeOK, KindOf
      <4>4. out = "applied" => Issued(new)'
        BY <3>4, <3>8 DEF Issued, Refs
      <4>5. pc'[p] = "settle" /\ Issued(loc[p].cred)'
        BY <3>4, <3>5, <3>6, <3>7, <3>8, <1>u DEF TypeOK, Issued, Refs
      <4> QED BY <3>5, <3>6, <3>7, <4>1, <4>2, <4>3, <4>4, <4>5 DEF Knows, Shape, AfterRead, Marked, Writing, Unlocked
    <3> QED BY <3>1, <3>2, <3>3, <2>k, <1>b
  <2>13. CASE SettleUnsent(p)
    <3>4. PICK m \in Markers :
            /\ StoreLast(p, m)
            /\ \/ loc[p].mode = "resend" /\ m.inflight = marker.inflight /\ m.dead = marker.dead
               \/ loc[p].mode # "resend" /\ m.inflight = 0 /\ m.dead = marker.dead
      BY <2>13, <2>k, <1>u, <1>v, MarkerFields, MarkerTypes DEF SettleUnsent
    <3>5. /\ marker' \in {marker, m} /\ pc'[p] = "idle" /\ loc'[p] = NoLocals
          /\ UNCHANGED <<auth, pend, meta, next>>
          /\ open' = [open EXCEPT ![loc[p].cred.ref] = @ \ {KindOf(p)}]
      BY <2>13, <2>k, <1>u, <1>v, MarkerFields, <3>4, StoreLastFacts DEF SettleUnsent, NotProcessed
    <3>1. pc[p] \notin Unlocked /\ Only(p)
      BY <2>13, <2>k, <1>u, <1>v, MarkerFields, <3>4, StoreLastFacts DEF SettleUnsent, Unlocked
    <3>6. /\ loc[p].cred.ref \in Refs /\ marker.inflight = loc[p].cred.ref /\ pend = Absent
          /\ auth = loc[p].cred \/ Unsent(auth)
          /\ loc[p].mode # "resend" => open[loc[p].cred.ref] = {"auto"}
          /\ IsDoc(loc[p].cred)
      BY <2>13, <2>k, <1>u, <1>v, MarkerFields, FileFacts DEF SettleUnsent, Knows, Shape, AfterRead, Marked, Writing, Unlocked
    <3>7. /\ \A r \in Refs : open'[r] = IF r = loc[p].cred.ref THEN open[r] \ {KindOf(p)} ELSE open[r]
      BY <3>5, <1>u DEF TypeOK
    <3>8. /\ loc[p].mode # "resend" => open'[loc[p].cred.ref] = {}
          /\ loc[p].mode = "resend" => "user" \notin open'[loc[p].cred.ref]
      BY <3>6, <3>7 DEF KindOf
    <3>9. \A r \in Refs : open[r] = {} => open'[r] = {}
      BY <3>7
    <3>2. Globals'
      <4>1. Fresh' /\ FilesIssued' /\ ParkedUnsent'
        BY <3>5, <3>6, <3>9, <1>u, <1>v DEF Globals, Fresh, FilesIssued, Issued, Covered, ParkedUnsent, ResendRecorded, Unsent
      <4>2. ResendRecorded'
        BY <3>4, <3>5, <3>6, <3>8, <3>9, <1>u, <1>v DEF ResendRecorded
      <4>3. Covered'
        BY <3>4, <3>5, <3>6, <3>8, <3>9, <1>u, <1>v DEF Covered, Unsent
      <4> QED BY <4>1, <4>2, <4>3 DEF Globals
    <3>3. Knows(p)'
      BY <3>5, <1>r
    <3> QED BY <3>1, <3>2, <3>3, <2>k, <1>b
  <2>14. CASE SettleUnclear(p)
    <3>4. PICK m \in Markers : StoreLast(p, m) /\ m.inflight = marker.inflight /\ m.dead = marker.dead /\ m.resent = marker.resent
      BY <2>14, <2>k, <1>u, <1>v, MarkerFields, MarkerTypes DEF SettleUnclear, Classes
    <3>5. /\ marker' \in {marker, m} /\ pc'[p] = "idle" /\ loc'[p] = NoLocals
          /\ UNCHANGED <<auth, pend, meta, next, open>>
      BY <2>14, <2>k, <1>u, <1>v, MarkerFields, <3>4, StoreLastFacts DEF SettleUnclear
    <3>1. pc[p] \notin Unlocked /\ Only(p)
      BY <2>14, <2>k, <1>u, <1>v, MarkerFields, <3>4, StoreLastFacts DEF SettleUnclear, Unlocked
    <3>2. Globals'
      BY <2>14, <2>k, <1>u, <1>v, MarkerFields, <3>4, <3>5 DEF SettleUnclear, Globals, Fresh, FilesIssued, Issued, Covered, ParkedUnsent, ResendRecorded, Unsent
    <3>3. Knows(p)'
      BY <3>5, <1>r
    <3> QED BY <3>1, <3>2, <3>3, <2>k, <1>b
  <2>15. CASE SettlePermanent(p)
    <3>1. pc[p] \notin Unlocked /\ Only(p)
      BY <2>15, <1>u DEF SettlePermanent, Only, Set, TypeOK, Return, StoreLast, StoreThen, Unlocked, Holds
    <3>2. Globals'
      BY <2>15, <2>k, <1>u, <1>v, MarkerFields DEF SettlePermanent, TypeOK, Globals, Fresh, FilesIssued, Issued, Covered, ParkedUnsent, ResendRecorded, Unsent, Knows, Shape, AfterRead, Marked, Writing, Unlocked, Holds
    <3>3. Knows(p)'
      BY <2>15, <2>k, <1>u, <1>v, MarkerFields DEF SettlePermanent, TypeOK, Knows, Shape, AfterRead, Marked, Writing, Unlocked, Issued, Unsent, Holds
    <3> QED BY <3>1, <3>2, <3>3, <2>k, <1>b
  <2>16. CASE SettleApplied(p)
    <3>1. pc[p] \notin Unlocked /\ Only(p)
      BY <2>16, <1>u DEF SettleApplied, Only, Set, TypeOK, Return, StoreLast, StoreThen, Unlocked
    <3>4. /\ UNCHANGED <<auth, pend, meta, marker, next>> /\ open \in [Refs -> SUBSET Kinds]
          /\ open' = open \/ open' = [open EXCEPT ![loc[p].cred.ref] = {}]
      BY <2>16, <1>u DEF SettleApplied, TypeOK
    <3>5. \A r \in Refs : open'[r] \subseteq open[r]
      BY <3>4
    <3>2. Globals'
      <4>1. Fresh' /\ FilesIssued' /\ ParkedUnsent' /\ ResendRecorded'
        BY <3>4, <3>5, <1>u, <1>v DEF Globals, Fresh, FilesIssued, Issued, ParkedUnsent, ResendRecorded
      <4>2. Covered'
        BY <3>4, <3>5, <1>u, <1>v DEF Globals, Covered, IsDoc
      <4> QED BY <4>1, <4>2 DEF Globals
    <3>3. Knows(p)'
      <4>1. pc[p] = "settle" /\ pc'[p] = "base" /\ loc' = loc /\ loc[p].out = "applied" /\ loc[p].cred.ref \in Refs
        BY <2>16, <1>u, LocalTypes, FileFacts DEF SettleApplied, TypeOK
      <4>2. loc[p].new.ref = 0 => open'[loc[p].cred.ref] = {}
        BY <2>16, <3>4, <4>1 DEF SettleApplied
      <4>3. loc[p].new.ref # 0 => open' = open
        BY <2>16 DEF SettleApplied
      <4>4. auth = loc[p].cred \/ Unsent(auth)'
        BY <2>k, <3>4, <3>5, <4>1, <1>v DEF Knows, AfterRead, Marked, Unsent
      <4> QED BY <2>k, <3>4, <4>1, <4>2, <4>3, <4>4
           DEF Knows, AfterRead, Marked, Writing, Unlocked, Issued, Holds
    <3> QED BY <3>1, <3>2, <3>3, <2>k, <1>b
  <2>17. CASE ClearInflight(p)
    <3>4. PICK m \in Markers : StoreLast(p, m) /\ m.inflight = 0 /\ m.dead = marker.dead
      BY <2>17, <2>k, <1>u, <1>v, MarkerFields, MarkerTypes DEF ClearInflight
    <3>5. /\ marker' \in {marker, m} /\ pc'[p] = "idle" /\ loc'[p] = NoLocals
          /\ UNCHANGED <<auth, pend, meta, next, open>>
      BY <2>17, <2>k, <1>u, <1>v, MarkerFields, <3>4, StoreLastFacts DEF ClearInflight
    <3>1. pc[p] \notin Unlocked /\ Only(p)
      BY <2>17, <2>k, <1>u, <1>v, MarkerFields, <3>4, StoreLastFacts DEF ClearInflight, Unlocked
    <3>6. Unsent(auth)
      BY <2>17, <2>k, <1>u, <1>v, MarkerFields DEF ClearInflight, Knows, Shape, AfterRead, Marked, Writing, Unlocked
    <3>2. Globals'
      BY <2>17, <2>k, <1>u, <1>v, MarkerFields, <3>4, <3>5, <3>6 DEF ClearInflight, Globals, Fresh, FilesIssued, Issued, Covered, ParkedUnsent, ResendRecorded, Unsent
    <3>3. Knows(p)'
      BY <3>5, <1>r
    <3> QED BY <3>1, <3>2, <3>3, <2>k, <1>b
  <2>18. CASE MarkDead(p)
    <3>7. loc[p].cred.ref \in Refs
      BY <1>u, LocalTypes, FileFacts DEF TypeOK
    <3>4. PICK m \in Markers : StoreLast(p, m) /\ m.inflight = 0 /\ m.dead = loc[p].cred.ref
      BY <2>18, <2>k, <1>u, <1>v, MarkerFields, <3>7, MarkerTypes DEF MarkDead
    <3>5. /\ marker' \in {marker, m} /\ pc'[p] = "idle" /\ loc'[p] = NoLocals
          /\ UNCHANGED <<auth, pend, meta, next, open>>
      BY <2>18, <2>k, <1>u, <1>v, MarkerFields, <3>4, StoreLastFacts DEF MarkDead
    <3>1. pc[p] \notin Unlocked /\ Only(p)
      BY <2>18, <2>k, <1>u, <1>v, MarkerFields, <3>4, StoreLastFacts DEF MarkDead, Unlocked
    <3>6. auth = loc[p].cred \/ Unsent(auth)
      BY <2>18, <2>k, <1>u, <1>v, MarkerFields DEF MarkDead, Knows, Shape, AfterRead, Marked, Writing, Unlocked
    <3>2. Globals'
      BY <2>18, <2>k, <1>u, <1>v, MarkerFields, <3>4, <3>5, <3>6 DEF MarkDead, Globals, Fresh, FilesIssued, Issued, Covered, ParkedUnsent, ResendRecorded, Unsent
    <3>3. Knows(p)'
      BY <3>5, <1>r
    <3> QED BY <3>1, <3>2, <3>3, <2>k, <1>b
  <2>19. CASE MergeBase(p)
    <3>1. pc[p] \notin Unlocked /\ Only(p)
      BY <2>19, <2>k, <1>u, <1>v, MarkerFields DEF MergeBase, Only, Set, TypeOK, Unlocked
    <3>2. Globals'
      BY <2>19, <2>k, <1>u, <1>v, MarkerFields DEF MergeBase, Globals, Fresh, FilesIssued, Issued, Covered, ParkedUnsent, ResendRecorded, Unsent
    <3> DEFINE c == loc[p].cred
               got == loc[p].new
               n == Doc(IF got.ref = 0 THEN c.ref ELSE got.ref, got.acc)
    <3>4. pc[p] = "base" /\ UNCHANGED <<auth, pend, meta, marker, next, open>>
          /\ pc'[p] \in {"check", "unknown"}
      BY <2>19, <2>k, <1>u, <1>v, MarkerFields DEF MergeBase, TypeOK
    <3>5. /\ auth = c \/ ~Holds(auth, c.ref)
          /\ auth = c \/ Unsent(auth)
          /\ c \in Docs /\ c.ref # 0 /\ Issued(c) /\ Issued(got) /\ got \in Docs
          /\ pend = Absent /\ marker.inflight = c.ref /\ ~loc[p].parked /\ loc[p].mode \in Commands
          /\ \/ got.ref = 0 /\ open[c.ref] = {}
             \/ got.ref # 0 /\ got.ref # c.ref /\ open[got.ref] = {}
      BY <2>19, <2>k, <1>u, <1>v, MarkerFields, <3>4 DEF Knows, Shape, AfterRead, Marked, Writing, Unlocked
    <3>6. IsDoc(c) /\ IsDoc(got)
      BY <3>5, FileFacts
    <3>7. /\ IsDoc(n) /\ n.ref = IF got.ref = 0 THEN c.ref ELSE got.ref
      BY DEF Doc, IsDoc
    <3>8. open[n.ref] = {} /\ Issued(n)
      BY <3>5, <3>6, <3>7 DEF Issued
    <3> DEFINE one == 1
    <3>9. Set(p, [loc[p] EXCEPT !.base = c, !.attempt = one, !.new = n])
      BY <2>19, <2>k, <1>u, <1>v, MarkerFields, <3>5 DEF MergeBase, Holds
    <3>10. /\ loc'[p].cred = c /\ loc'[p].mode = loc[p].mode /\ loc'[p].base = c
           /\ loc'[p].new = n /\ loc'[p].parked = loc[p].parked
      <4>1. loc[p] \in Locals
        BY <1>u DEF TypeOK
      <4>3. c \in Kept /\ n \in Kept /\ one \in 0 .. 4
        BY <3>5, FileFacts
      <4> HIDE DEF n, c, got, one
      <4>2. loc'[p] = [loc[p] EXCEPT !.base = c, !.attempt = one, !.new = n]
        BY <3>9, <1>u DEF Set, TypeOK
      <4> QED BY <4>1, <4>2, <4>3 DEF Locals, c
    <3> HIDE DEF n, c, got
    <3>3. Knows(p)'
      BY <3>4, <3>5, <3>8, <3>10, <1>u DEF Knows, Shape, AfterRead, Marked, Writing, Unlocked, Issued, Unsent
    <3> QED BY <3>1, <3>2, <3>3, <2>k, <1>b
  <2>20. CASE CheckUnchanged(p)
    <3>1. pc[p] \notin Unlocked /\ Only(p)
      BY <2>20, <1>u DEF CheckUnchanged, Only, Set, TypeOK, Return, StoreLast, StoreThen, Unlocked
    <3>2. Globals'
      BY <2>20, <2>k, <1>u, <1>v, MarkerFields DEF CheckUnchanged, TypeOK, Globals, Fresh, FilesIssued, Issued, Covered, ParkedUnsent, ResendRecorded, Unsent, Knows, Shape, AfterRead, Marked, Writing, Unlocked
    <3>3. Knows(p)'
      BY SMTT(30), <2>20, <2>k, <1>u, <1>v, MarkerFields DEF CheckUnchanged, TypeOK, Knows, Shape, AfterRead, Marked, Writing, Unlocked, Issued, Unsent
    <3> QED BY <3>1, <3>2, <3>3, <2>k, <1>b
  <2>21. CASE Stage(p)
    <3>1. pc[p] \notin Unlocked /\ Only(p)
      BY <2>21, <1>u DEF Stage, Only, Set, TypeOK, Return, StoreLast, StoreThen, Unlocked
    <3>2. Globals'
      BY <2>21, <2>k, <1>u, <1>v, MarkerFields DEF Stage, TypeOK, Globals, Fresh, FilesIssued, Issued, Covered, ParkedUnsent, ResendRecorded, Unsent, Knows, Shape, AfterRead, Marked, Writing, Unlocked
    <3>3. Knows(p)'
      BY SMTT(30), <2>21, <2>k, <1>u, <1>v, MarkerFields DEF Stage, TypeOK, Knows, Shape, AfterRead, Marked, Writing, Unlocked, Issued, Unsent
    <3> QED BY <3>1, <3>2, <3>3, <2>k, <1>b
  <2>22. CASE Rename(p)
    <3>1. pc[p] \notin Unlocked /\ Only(p)
      BY <2>22, <1>u DEF Rename, Only, Set, TypeOK, Return, StoreLast, StoreThen, Unlocked
    <3>2. Globals'
      BY <2>22, <2>k, <1>u, <1>v, MarkerFields DEF Rename, TypeOK, Globals, Fresh, FilesIssued, Issued, Covered, ParkedUnsent, ResendRecorded, Unsent, Knows, Shape, AfterRead, Marked, Writing, Unlocked
    <3>3. Knows(p)'
      BY SMTT(30), <2>22, <2>k, <1>u, <1>v, MarkerFields DEF Rename, TypeOK, Knows, Shape, AfterRead, Marked, Writing, Unlocked, Issued, Unsent
    <3> QED BY <3>1, <3>2, <3>3, <2>k, <1>b
  <2>23. CASE Reread(p)
    <3>1. pc[p] \notin Unlocked /\ Only(p)
      BY <2>23, <2>k, <1>u, <1>v, MarkerFields DEF Reread, Only, Set, TypeOK, Unlocked
    <3>4. /\ loc'[p].cred = loc[p].cred /\ loc'[p].mode = loc[p].mode /\ loc'[p].base = loc[p].base
          /\ loc'[p].new = loc[p].new /\ loc'[p].parked = loc[p].parked /\ loc'[p].out = loc[p].out
      <4>1. loc[p] \in Locals
        BY <1>u DEF TypeOK
      <4> QED BY <2>23, <2>k, <1>u, <1>v, MarkerFields, <4>1 DEF Reread, Set, TypeOK, Locals
    <3>2. Globals'
      BY <2>23, <2>k, <1>u, <1>v, MarkerFields DEF Reread, Globals, Fresh, FilesIssued, Issued, Covered, ParkedUnsent, ResendRecorded, Unsent
    <3>3. Knows(p)'
      <4>1. UNCHANGED <<auth, pend, meta, marker, next, open>> /\ pc[p] = "reread"
        BY <2>23, <2>k, <1>u, <1>v, MarkerFields DEF Reread
      <4>2. \/ pc'[p] = "landed" /\ auth = loc[p].new
            \/ pc'[p] \in {"check", "park"}
        BY <2>23, <2>k, <1>u, <1>v, MarkerFields DEF Reread, TypeOK
      <4> QED BY <2>23, <2>k, <1>u, <1>v, MarkerFields, <3>4, <4>1, <4>2 DEF Knows, Shape, AfterRead, Marked, Writing, Unlocked, Issued, Unsent
    <3> QED BY <3>1, <3>2, <3>3, <2>k, <1>b
  <2>24. CASE ParkStage(p)
    <3>1. pc[p] \notin Unlocked /\ Only(p)
      BY <2>24, <1>u DEF ParkStage, Only, Set, TypeOK, Return, StoreLast, StoreThen, Unlocked
    <3>2. Globals'
      BY <2>24, <2>k, <1>u, <1>v, MarkerFields DEF ParkStage, TypeOK, Globals, Fresh, FilesIssued, Issued, Covered, ParkedUnsent, ResendRecorded, Unsent, Knows, Shape, AfterRead, Marked, Writing, Unlocked
    <3>3. Knows(p)'
      BY <2>24, <2>k, <1>u, <1>v, MarkerFields DEF ParkStage, TypeOK, Knows, Shape, AfterRead, Marked, Writing, Unlocked, Issued, Unsent
    <3> QED BY <3>1, <3>2, <3>3, <2>k, <1>b
  <2>25. CASE ParkMeta(p)
    <3>1. pc[p] \notin Unlocked /\ Only(p)
      BY <2>25, <1>u DEF ParkMeta, Only, Set, TypeOK, Return, StoreLast, StoreThen, Unlocked, ParkFailed
    <3>2. Globals'
      BY <2>25, <2>k, <1>u, <1>v, MarkerFields DEF ParkMeta, TypeOK, Globals, Fresh, FilesIssued, Issued, Covered, ParkedUnsent, ResendRecorded, Unsent, Knows, Shape, AfterRead, Marked, Writing, Unlocked, ParkFailed
    <3>3. Knows(p)'
      BY <2>25, <2>k, <1>u, <1>v, MarkerFields DEF ParkMeta, TypeOK, Knows, Shape, AfterRead, Marked, Writing, Unlocked, Issued, Unsent, ParkFailed
    <3> QED BY <3>1, <3>2, <3>3, <2>k, <1>b
  <2>26. CASE ParkPending(p)
    <3>1. pc[p] \notin Unlocked /\ Only(p)
      BY <2>26, <2>k, <1>u, <1>v, MarkerFields DEF ParkPending, ParkFailed, Only, Set, TypeOK, Unlocked
    <3>4. /\ UNCHANGED <<auth, marker, next, open>> /\ pc[p] = "parkpend"
          /\ \/ /\ pend' = loc[p].new /\ pc'[p] = "landed" /\ UNCHANGED meta
                /\ Set(p, [loc[p] EXCEPT !.parked = TRUE])
             \/ /\ pend' = Absent /\ pc'[p] \in {"unknown", "reread"} /\ UNCHANGED loc
      BY <2>26, <2>k, <1>u, <1>v, MarkerFields DEF ParkPending, ParkFailed, TypeOK
    <3>5. /\ pend = Absent /\ meta = loc[p].cred /\ open[loc[p].new.ref] = {}
          /\ Issued(loc[p].new) /\ loc[p].new \in Docs
      BY <2>26, <2>k, <1>u, <1>v, MarkerFields, <3>4 DEF Knows, Shape, AfterRead, Marked, Writing, Unlocked
    <3>6. loc[p].new # Absent /\ ~IsDoc(Absent)
      BY <3>5, FileFacts DEF IsDoc, Absent
    <3>2. Globals'
      BY <1>u, <1>v, <3>4, <3>5, <3>6 DEF Globals, Fresh, FilesIssued, Issued, Covered, ParkedUnsent, ResendRecorded, Unsent
    <3>3. Knows(p)'
      <4>1. CASE UNCHANGED loc /\ pc'[p] \in {"unknown", "reread"} /\ pend' = Absent
        BY <2>26, <2>k, <1>u, <1>v, MarkerFields, <3>4, <4>1 DEF Knows, Shape, AfterRead, Marked, Writing, Unlocked, Issued, Unsent
      <4>2. CASE pend' = loc[p].new /\ pc'[p] = "landed" /\ UNCHANGED meta
                 /\ Set(p, [loc[p] EXCEPT !.parked = TRUE])
        <5>1. /\ loc'[p].cred = loc[p].cred /\ loc'[p].mode = loc[p].mode
              /\ loc'[p].base = loc[p].base /\ loc'[p].new = loc[p].new /\ loc'[p].parked = TRUE
          BY <4>2, <1>u, SetParked
        <5> QED BY <2>26, <2>k, <1>u, <1>v, MarkerFields, <3>4, <3>5, <3>6, <4>2, <5>1 DEF Knows, Shape, AfterRead, Marked, Writing, Unlocked, Issued, Unsent
      <4> QED BY <3>4, <4>1, <4>2
    <3> QED BY <3>1, <3>2, <3>3, <2>k, <1>b
  <2>27. CASE Landed(p)
    <3>4. PICK m \in Markers : StoreLast(p, m) /\ m.inflight = 0
      BY <2>27, <2>k, <1>u, <1>v, MarkerFields, MarkerTypes DEF Landed
    <3>5. /\ marker' \in {marker, m} /\ pc'[p] = "idle" /\ loc'[p] = NoLocals
          /\ UNCHANGED <<auth, pend, meta, next, open>>
      BY <2>27, <2>k, <1>u, <1>v, MarkerFields, <3>4, StoreLastFacts DEF Landed
    <3>1. pc[p] \notin Unlocked /\ Only(p)
      BY <2>27, <2>k, <1>u, <1>v, MarkerFields, <3>4, StoreLastFacts DEF Landed, Unlocked
    <3>6. \/ Unsent(auth)
          \/ pend # Absent /\ meta = auth
      BY <2>27, <2>k, <1>u, <1>v, MarkerFields DEF Landed, Knows, Shape, AfterRead, Marked, Writing, Unlocked
    <3>2. Globals'
      BY <2>27, <2>k, <1>u, <1>v, MarkerFields, <3>4, <3>5, <3>6 DEF Landed, Globals, Fresh, FilesIssued, Issued, Covered, ParkedUnsent, ResendRecorded, Unsent
    <3>3. Knows(p)'
      BY <3>5, <1>r
    <3> QED BY <3>1, <3>2, <3>3, <2>k, <1>b
  <2>28. CASE MarkWriteFailed(p)
    <3>4. PICK m \in Markers : StoreLast(p, m) /\ m.inflight = marker.inflight /\ m.dead = marker.dead /\ m.resent = marker.resent
      BY <2>28, <2>k, <1>u, <1>v, MarkerFields, MarkerTypes DEF MarkWriteFailed, Classes
    <3>5. /\ marker' \in {marker, m} /\ pc'[p] = "idle" /\ loc'[p] = NoLocals
          /\ UNCHANGED <<auth, pend, meta, next, open>>
      BY <2>28, <2>k, <1>u, <1>v, MarkerFields, <3>4, StoreLastFacts DEF MarkWriteFailed
    <3>1. pc[p] \notin Unlocked /\ Only(p)
      BY <2>28, <2>k, <1>u, <1>v, MarkerFields, <3>4, StoreLastFacts DEF MarkWriteFailed, Unlocked
    <3>2. Globals'
      BY <2>28, <2>k, <1>u, <1>v, MarkerFields, <3>4, <3>5 DEF MarkWriteFailed, Globals, Fresh, FilesIssued, Issued, Covered, ParkedUnsent, ResendRecorded, Unsent
    <3>3. Knows(p)'
      BY <3>5, <1>r
    <3> QED BY <3>1, <3>2, <3>3, <2>k, <1>b
  <2> QED BY <1>e, <2>1, <2>2, <2>3, <2>4, <2>5, <2>6, <2>7, <2>8, <2>9, <2>10, <2>11, <2>12, <2>13, <2>14, <2>15, <2>16, <2>17, <2>18, <2>19, <2>20, <2>21, <2>22, <2>23, <2>24, <2>25, <2>26, <2>27, <2>28 DEF RefreshStep
<1>f. ASSUME NEW p \in Procs, InstallStep(p) PROVE IInv'
  <2>k. Knows(p) /\ Shape(p)
    BY <1>u
  <2>1. CASE InstallStage(p)
    <3>1. pc[p] \notin Unlocked /\ Only(p)
      BY <2>1, <2>k, <1>u, <1>v, MarkerFields, ReturnFacts DEF InstallStage, Only, Set, TypeOK, Unlocked
    <3>4. /\ UNCHANGED <<auth, pend, meta, marker, open>> /\ next' \in {next, next + 1}
          /\ pc[p] = "istage"
      BY <2>1, <2>k, <1>u, <1>v, MarkerFields DEF InstallStage
    <3>2. Globals'
      BY <2>1, <2>k, <1>u, <1>v, MarkerFields, <3>4 DEF Globals, Fresh, FilesIssued, Issued, Covered, ParkedUnsent, ResendRecorded, Unsent
    <3>3. Knows(p)'
      <4>1. CASE Return(p)
        BY <4>1, <1>r, <1>u, ReturnFacts
      <4>2. CASE ~Return(p)
        <5>1. /\ Set(p, [loc[p] EXCEPT !.new = Doc(next, next)]) /\ next <= MaxToken
              /\ next' = next + 1 /\ pc'[p] = "irename"
          BY <2>1, <2>k, <1>u, <1>v, MarkerFields, <4>2 DEF InstallStage, TypeOK
        <5>2. Doc(next, next) \in Kept /\ Doc(next, next).ref = next /\ next \in Refs
          BY <5>1, <1>u, RefFacts, FileFacts DEF TypeOK
        <5>3. /\ loc'[p].mode = loc[p].mode /\ loc'[p].parked = loc[p].parked
              /\ loc'[p].new = Doc(next, next)
          BY <5>1, <5>2, <1>u, SetNew
        <5>4. open[next] = {}
          BY <5>2, <1>u, <1>v DEF Globals, Fresh
        <5> QED BY <2>1, <2>k, <1>u, <1>v, MarkerFields, <3>4, <5>1, <5>2, <5>3, <5>4 DEF Knows, Shape, AfterRead, Marked, Writing, Unlocked, Issued
      <4> QED BY <4>1, <4>2
    <3> QED BY <3>1, <3>2, <3>3, <2>k, <1>b
  <2>2. CASE InstallRename(p)
    <3>1. pc[p] \notin Unlocked /\ Only(p)
      BY <2>2, <2>k, <1>u, <1>v, MarkerFields, ReturnFacts DEF InstallRename, Only, TypeOK, Unlocked
    <3>4. /\ UNCHANGED <<pend, meta, marker, next, open>> /\ auth' \in {auth, loc[p].new}
          /\ pc[p] = "irename" /\ Unsent(loc[p].new) /\ Issued(loc[p].new)
      BY <2>2, <2>k, <1>u, <1>v, MarkerFields DEF InstallRename, Unsent, Knows, Shape, AfterRead, Marked, Writing, Unlocked
    <3>2. Globals'
      BY <2>2, <2>k, <1>u, <1>v, MarkerFields, <3>4 DEF Globals, Fresh, FilesIssued, Issued, Covered, ParkedUnsent, ResendRecorded, Unsent
    <3>3. Knows(p)'
      <4>1. CASE Return(p)
        BY <4>1, <1>r, <1>u, ReturnFacts
      <4>2. CASE ~Return(p)
        <5>1. auth' = loc[p].new /\ pc'[p] = "ireset" /\ UNCHANGED loc
          BY <2>2, <4>2, <1>u DEF InstallRename, TypeOK
        <5>2. Unsent(auth)'
          BY <3>4, <5>1 DEF Unsent
        <5> QED BY <2>k, <3>4, <5>1, <5>2 DEF Knows, AfterRead, Marked, Writing
      <4> QED BY <4>1, <4>2
    <3> QED BY <3>1, <3>2, <3>3, <2>k, <1>b
  <2>3. CASE InstallReset(p)
    <3>4. PICK m \in Markers : StoreLast(p, m) /\ m.inflight = 0 /\ m.dead = 0
      BY <2>3, <2>k, <1>u, <1>v, MarkerFields, MarkerTypes DEF InstallReset
    <3>5. /\ marker' \in {marker, m} /\ pc'[p] = "idle" /\ loc'[p] = NoLocals
          /\ UNCHANGED <<auth, pend, meta, next, open>>
      BY <2>3, <2>k, <1>u, <1>v, MarkerFields, <3>4, StoreLastFacts DEF InstallReset
    <3>1. pc[p] \notin Unlocked /\ Only(p)
      BY <2>3, <2>k, <1>u, <1>v, MarkerFields, <3>4, StoreLastFacts DEF InstallReset, Unlocked
    <3>6. Unsent(auth)
      BY <2>3, <2>k, <1>u, <1>v, MarkerFields DEF InstallReset, Knows, Shape, AfterRead, Marked, Writing, Unlocked
    <3>2. Globals'
      BY <2>3, <2>k, <1>u, <1>v, MarkerFields, <3>4, <3>5, <3>6 DEF InstallReset, Globals, Fresh, FilesIssued, Issued, Covered, ParkedUnsent, ResendRecorded, Unsent
    <3>3. Knows(p)'
      BY <3>5, <1>r
    <3> QED BY <3>1, <3>2, <3>3, <2>k, <1>b
  <2> QED BY <1>f, <2>1, <2>2, <2>3 DEF InstallStep
<1>g. ASSUME NEW p \in Procs, RemoveStep(p) PROVE IInv'
  BY <1>g, <1>u DEF RemoveStep, RemoveList, RemoveFile, RemoveMarker, Knows
<1>i. CASE External
  <2>1. /\ UNCHANGED <<pend, meta, marker, lock, pc, loc, open>>
        /\ next' \in {next, next + 1}
        /\ IsDoc(auth') => auth'.ref \in {0, next} /\ next \in Refs /\ next' = next + 1
    BY <1>i, <1>u, RefFacts
       DEF External, ExtTruncate, ExtWrite, ExtNewAccess, ExtDelete, IsDoc, Torn, Absent, Doc, TypeOK
  <2>2. Unsent(auth')
    BY <2>1, <1>u, <1>v DEF Unsent, Globals, Fresh
  <2>3. Globals'
    BY <2>1, <2>2, <1>u, <1>v DEF Globals, Fresh, FilesIssued, Issued, Covered, ParkedUnsent, ResendRecorded, Unsent
  <2>4. ASSUME NEW q \in Procs PROVE Knows(q)'
    <3>1. Knows(q) /\ Shape(q) /\ UNCHANGED <<pend, meta, marker, pc, loc, open>>
      BY <1>u, <2>1
    <3>2. \A f : Issued(f) /\ (IsDoc(f) => f.ref \in Nat) => Issued(f)'
      BY <2>1, <1>v DEF Issued
    <3>3. /\ pc[q] \in AfterRead => loc[q].cred \in Files
          /\ loc[q].new \in Files
      BY <1>u, FileFacts, LocalTypes DEF TypeOK
    <3>4. /\ Issued(loc[q].cred) => Issued(loc[q].cred)'
          /\ Issued(loc[q].new) => Issued(loc[q].new)'
      BY <3>1, <3>2, <3>3, <1>u, <1>v, LocalTypes, FileFacts DEF TypeOK, Issued
    <3>5. pc[q] \in AfterRead => ~Holds(auth', loc[q].cred.ref)
      BY <3>1, <2>1, <1>u, <1>v, FileFacts DEF Holds, Issued, Knows, Shape
    <3> QED BY <3>1, <3>4, <3>5, <2>2 DEF Knows, Unsent, AfterRead, Marked, Writing, Holds
  <2> QED BY <2>3, <2>4, <1>t DEF IInv, Globals
<1> QED BY <1>a, <1>c, <1>d, <1>e, <1>f, <1>g, <1>i DEF Next, Work


LEMMA SafeAlways ==
    ASSUME "access" \notin Codex, "remove" \notin Commands
    PROVE  Spec => []IInv
<1>1. IInv /\ [Next]_vars => IInv'
  BY SafeStep
<1> QED BY <1>1, SafeInit, PTL DEF Spec

----------------------------------------------------------------------------
(* Which grant each stored token was rotated from.                         *)

LEMMA LineageInit == Init => Lineage
<1> SUFFICES ASSUME Init PROVE Lineage
  OBVIOUS
<1>1. 1 \in Tokens /\ \A t \in Tokens : t >= 2 => t # 1
  BY TokenAssumption DEF Tokens
<1>2. Given(auth) /\ Given(pend) /\ pend = Absent
  BY DEF Init, Given, Doc, Absent, IsDoc
<1> QED BY <1>1, <1>2 DEF Init, Lineage, ParkedFrom, Derives, Writing

LEMMA LineageStep ==
    ASSUME TypeInv, Mutex, Lineage, [Next]_vars
    PROVE  Lineage'
<1>u. /\ TypeOK /\ Mutex /\ \A q \in Procs : Shape(q)
      /\ \A t \in Tokens : t >= next => from[t] = 0
      /\ Given(auth) /\ Given(pend) /\ ParkedFrom /\ \A q \in Procs : Derives(q)
  BY DEF TypeInv, Lineage
<1>v. /\ next \in Nat /\ \A t \in Tokens : t \in Nat /\ t # 0
      /\ auth \in Files /\ pend \in Kept /\ meta \in Kept
      /\ \A f \in Files : IsDoc(f) => f.acc \in Tokens
      /\ pend # Absent => IsDoc(pend) /\ pend.acc \in Tokens
      /\ next <= MaxToken => next \in Tokens
      /\ ~IsDoc(Absent) /\ ~IsDoc(Torn)
      /\ \A p \in Procs : loc[p].new \in Kept /\ loc[p].base \in Kept /\ loc[p].cred \in Kept
  <2>1. next \in Nat /\ \A t \in Tokens : t \in Nat /\ t # 0
    BY <1>u, TokenAssumption DEF TypeOK, Tokens
  <2>2. \A f \in Files : IsDoc(f) => f.acc \in Tokens
    BY FileFacts
  <2>3. pend # Absent => IsDoc(pend) /\ pend \in Files
    BY <1>u, FileFacts DEF TypeOK, Kept
  <2>4. next <= MaxToken => next \in Tokens
    BY <1>u, RefFacts DEF TypeOK
  <2>5. \A p \in Procs : loc[p].new \in Kept /\ loc[p].base \in Kept /\ loc[p].cred \in Kept
    BY <1>u, LocalTypes DEF TypeOK
  <2> QED BY <1>u, <2>1, <2>2, <2>3, <2>4, <2>5 DEF TypeOK, IsDoc, Absent, Torn
<1>a. CASE UNCHANGED vars
  BY <1>a, <1>u DEF vars, Lineage, ParkedFrom, Derives, Given, Foreign
\* A step of the lock holder: the others hold nothing Derives speaks of.
<1>b. ASSUME NEW p \in Procs, pc[p] \notin Unlocked, Only(p),
             \A t \in Tokens : t >= next' => from'[t] = 0,
             Given(auth)', Given(pend)', ParkedFrom', Derives(p)'
      PROVE  Lineage'
  <2>1. ASSUME NEW q \in Procs \ {p} PROVE Derives(q)'
    <3>1. pc[q] \in Unlocked /\ pc'[q] = pc[q]
      BY <1>b, <1>u, <2>1 DEF Mutex, Only
    <3> QED BY <1>b, <1>u, <2>1, <3>1 DEF Derives, AfterRead, Marked, Writing, AfterRead, Marked, Unlocked, Only
  <2> QED BY <1>b, <2>1 DEF Lineage
\* One that leaves the files and the tokens alone.
<1>n. ASSUME NEW p \in Procs, pc[p] \notin Unlocked, Only(p),
             UNCHANGED <<auth, pend, meta, next, from>>, Derives(p)'
      PROVE  Lineage'
  BY <1>n, <1>b, <1>u DEF Given, ParkedFrom
<1>q. ASSUME NEW p \in Procs, pc[p] \notin Unlocked, Only(p),
             UNCHANGED <<auth, pend, meta, next, from>>,
             pc'[p] \notin {"settle", "base", "irename", "replay", "remove", "unlink"} \cup Writing,
             pc'[p] = "idle" \/ (loc'[p].mode = loc[p].mode /\ pend = Absent)
      PROVE  Lineage'
  <2>1. Derives(p)'
    BY <1>q, <1>u DEF Derives, AfterRead, Marked, Writing, Unlocked
  <2> QED BY <1>q, <1>n, <2>1
<1>c. ASSUME NEW p \in Procs, Start(p) \/ Acquire(p) \/ GiveUp(p) \/ Crash(p) PROVE Lineage'
  <2>1. /\ UNCHANGED <<auth, pend, meta, next, from>> /\ Only(p)
        /\ pc'[p] \in {"idle", "lock", "resolve", "istage", "remove"}
        /\ pc'[p] # "idle" => loc'[p].mode \in Commands
        /\ pc'[p] = "remove" => loc'[p].mode = "remove"
    <3>1. CASE Start(p)
      BY <1>u, <3>1 DEF Start, Begin, Only, Set, TypeOK, NoLocals
    <3>2. CASE Acquire(p)
      <4>1. pc[p] = "lock" /\ loc[p].mode \in Commands
        BY <1>u, <3>2 DEF Acquire, Derives
      <4> QED BY <1>u, <3>2, <4>1, CommandsAssumption DEF Acquire, Only, TypeOK
    <3>3. CASE GiveUp(p) \/ Crash(p)
      BY <1>u, <3>3 DEF GiveUp, Crash, Only, Set, TypeOK
    <3> QED BY <1>c, <3>1, <3>2, <3>3
  <2>2. ASSUME NEW q \in Procs PROVE Derives(q)'
    <3>1. CASE q = p
      BY <2>1, <3>1 DEF Derives, AfterRead, Marked, Writing
    <3>2. CASE q # p
      BY <2>1, <3>2, <1>u DEF Only, Derives, Given, Foreign
    <3> QED BY <3>1, <3>2
  <2> QED BY <2>1, <2>2, <1>u DEF Lineage, Given, ParkedFrom
<1>e. ASSUME NEW p \in Procs, RefreshStep(p) PROVE Lineage'
  <2>k. Shape(p) /\ Derives(p)
    BY <1>u
  <2>1. CASE Resolve(p)
    <3>1. pc[p] = "resolve" /\ UNCHANGED <<auth, pend, next, from>>
      BY <2>1 DEF Resolve
    <3>2. CASE Return(p) /\ UNCHANGED meta
      BY <3>1, <3>2, <1>q, <1>u, ReturnFacts DEF Unlocked, Writing
    <3>3. CASE ~(Return(p) /\ UNCHANGED meta)
      <4>0. UNCHANGED <<loc, lock>> /\ pc \in [Procs -> Labels]
        BY <2>1, <3>3, <1>u DEF Resolve, TypeOK
      <4>1. /\ pc[p] \notin Unlocked /\ Only(p)
            /\ \/ pc'[p] = "read" /\ pend = Absent
               \/ pc'[p] = "replay" /\ pend # Absent /\ meta # Absent /\ auth = meta /\ UNCHANGED meta
               \/ pc'[p] = "discard" /\ UNCHANGED meta
        BY <2>1, <3>1, <3>3, <4>0 DEF Resolve, Only, Unlocked
      <4>2. Derives(p)'
        BY <2>k, <3>1, <4>0, <4>1, <1>u DEF Derives, AfterRead, Marked, Writing, Foreign
      <4>3. Given(auth)' /\ Given(pend)' /\ ParkedFrom'
        BY <3>1, <4>1, <1>u DEF Given, ParkedFrom
      <4> QED BY <3>1, <4>1, <4>2, <4>3, <1>b, <1>u
    <3> QED BY <3>2, <3>3
  <2>2. CASE Replay(p)
    <3>1. pc[p] = "replay" /\ UNCHANGED <<meta, next, from>>
      BY <2>2 DEF Replay
    <3>2. CASE Return(p) /\ UNCHANGED <<auth, pend>>
      BY <3>1, <3>2, <1>q, <1>u, ReturnFacts DEF Unlocked, Writing
    <3>3. CASE ~(Return(p) /\ UNCHANGED <<auth, pend>>)
      <4>1. /\ pc[p] \notin Unlocked /\ Only(p) /\ pc'[p] = "unmeta"
            /\ auth' = pend /\ pend' = Absent /\ loc' = loc
        BY <2>2, <3>3, <1>u DEF Replay, TypeOK, Only, Unlocked
      <4>2. Derives(p)'
        BY <2>k, <3>1, <4>1 DEF Derives, AfterRead, Marked, Writing
      <4>3. Given(auth)' /\ Given(pend)' /\ ParkedFrom'
        BY <3>1, <4>1, <1>u, <1>v DEF Given, ParkedFrom
      <4> QED BY <3>1, <4>1, <4>2, <4>3, <1>b, <1>u
    <3> QED BY <3>2, <3>3
  <2>3. CASE Discard(p) \/ UnlinkMeta(p)
    <3>1. /\ pc[p] \notin Unlocked /\ Only(p) /\ pc'[p] \in {"unmeta", "read"}
          /\ UNCHANGED <<auth, next, from>> /\ pend' = Absent /\ loc' = loc /\ pc[p] # "idle"
      BY <2>3, <2>k, <1>u DEF Discard, UnlinkMeta, TypeOK, Only, Unlocked, Derives
    <3>2. Derives(p)'
      BY <2>k, <3>1 DEF Derives, AfterRead, Marked, Writing
    <3>3. Given(auth)' /\ Given(pend)' /\ ParkedFrom'
      BY <3>1, <1>u, <1>v DEF Given, ParkedFrom
    <3> QED BY <3>1, <3>2, <3>3, <1>b, <1>u
  <2>4. CASE ReadAuth(p) \/ StopEarly(p) \/ Gate(p) \/ Snapshot(p)
    <3>1. /\ pc[p] \notin Unlocked /\ pc'[p] \in {"idle", "decide", "snap", "mark"} /\ Only(p)
          /\ UNCHANGED <<auth, pend, meta, next, from>>
          /\ pc[p] \in {"read", "decide", "gate", "snap"}
          /\ pc'[p] = "idle" \/ loc'[p].mode = loc[p].mode
      <4>1. CASE ReadAuth(p)
        <5>1. CASE Return(p)
          BY <4>1, <5>1, <1>u, ReturnFacts DEF ReadAuth, Unlocked
        <5>2. CASE ~Return(p)
          <6>1. auth \in Kept
            BY <4>1, <5>2, <1>u, FileFacts DEF ReadAuth, TypeOK, Kept
          <6> QED BY <4>1, <5>2, <6>1, <1>u, SetCred DEF ReadAuth, TypeOK, Only, Unlocked
        <5> QED BY <5>1, <5>2
      <4>2. CASE StopEarly(p) \/ Gate(p) \/ Snapshot(p)
        BY <4>2, <1>u, ReturnFacts DEF StopEarly, Gate, Snapshot, TypeOK, Only, Unlocked
      <4> QED BY <2>4, <4>1, <4>2
    <3>2. pend = Absent
      BY <2>k, <3>1 DEF Derives, AfterRead
    <3> QED BY <3>1, <3>2, <1>q DEF Writing
  <2>5. CASE CompareClear(p)
    <3>1. /\ pc[p] \notin Unlocked /\ pc'[p] \in {"idle", "gate"} /\ Only(p)
          /\ UNCHANGED <<auth, pend, meta, next, from>>
          /\ pc[p] = "decide" /\ (pc'[p] = "idle" \/ loc' = loc)
      BY <2>5, <1>u, ReturnFacts
         DEF CompareClear, MayDecide, StoreLast, StoreThen, TypeOK, Only, Unlocked
    <3>2. pend = Absent
      BY <2>k, <3>1 DEF Derives, AfterRead
    <3> QED BY <3>1, <3>2, <1>q DEF Writing
  <2>6. CASE CompareUnknown(p)
    <3>1. /\ pc[p] \notin Unlocked /\ pc'[p] \in {"idle", "gate"} /\ Only(p)
          /\ UNCHANGED <<auth, pend, meta, next, from>>
          /\ pc[p] = "decide" /\ (pc'[p] = "idle" \/ loc' = loc)
      BY <2>6, <1>u, ReturnFacts
         DEF CompareUnknown, MayDecide, StoreLast, StoreThen, TypeOK, Only, Unlocked
    <3>2. pend = Absent
      BY <2>k, <3>1 DEF Derives, AfterRead
    <3> QED BY <3>1, <3>2, <1>q DEF Writing
  <2>7. CASE WriteMarker(p)
    <3>1. /\ pc[p] \notin Unlocked /\ pc'[p] \in {"idle", "post"} /\ Only(p)
          /\ UNCHANGED <<auth, pend, meta, next, from>>
          /\ pc[p] = "mark" /\ (pc'[p] = "idle" \/ loc' = loc)
      BY <2>7, <1>u, ReturnFacts DEF WriteMarker, StoreThen, TypeOK, Only, Unlocked
    <3>2. pend = Absent
      BY <2>k, <3>1 DEF Derives, AfterRead
    <3> QED BY <3>1, <3>2, <1>q DEF Writing
  <2>8. CASE Post(p)
    <3>1. /\ pc[p] = "post" /\ pc[p] \notin Unlocked /\ pc'[p] = "settle" /\ pend = Absent
          /\ UNCHANGED <<auth, pend, meta>> /\ \A q \in Procs \ {p} : pc'[q] = pc[q]
      BY <2>8, <2>k, <1>u DEF Post, TypeOK, Unlocked, Derives, AfterRead
    <3>2. CASE UNCHANGED <<next, from>> /\ \E o \in Outcomes \ {"none", "applied"} :
                  Set(p, [loc[p] EXCEPT !.out = o])
      <4>1. PICK o \in Outcomes \ {"none", "applied"} : Set(p, [loc[p] EXCEPT !.out = o])
        BY <3>2
      <4>2. loc'[p].out # "applied" /\ loc'[p].mode = loc[p].mode /\ \A q \in Procs \ {p} : loc'[q] = loc[q]
        BY <4>1, <1>u, SetOut
      <4>3. Derives(p)'
        BY <2>k, <3>1, <4>2 DEF Derives, AfterRead, Marked, Writing
      <4> QED BY <3>1, <3>2, <4>2, <4>3, <1>n DEF Only
    <3>3. CASE ~(UNCHANGED <<next, from>> /\ \E o \in Outcomes \ {"none", "applied"} :
                  Set(p, [loc[p] EXCEPT !.out = o]))
      <4>1. PICK ref \in {0, next} :
              /\ next <= MaxToken /\ next' = next + 1
              /\ from' = [from EXCEPT ![next] = loc[p].cred.ref]
              /\ Set(p, [loc[p] EXCEPT !.out = "applied", !.new = Doc(ref, next)])
        BY <2>8, <3>3 DEF Post
      <4>2. Doc(ref, next) \in Kept /\ Doc(ref, next).acc = next
        BY <4>1, <1>u, RefFacts, FileFacts DEF TypeOK
      <4>3. /\ loc'[p].cred = loc[p].cred /\ loc'[p].new = Doc(ref, next) /\ loc'[p].mode = loc[p].mode
            /\ \A q \in Procs \ {p} : loc'[q] = loc[q]
        BY <4>1, <4>2, <1>u, SetApplied DEF Outcomes
      <4>4. from'[next] = loc[p].cred.ref /\ \A t \in Tokens \ {next} : from'[t] = from[t]
        BY <4>1, <1>u, <1>v DEF TypeOK
      <4>5. Given(auth)' /\ Given(pend)' /\ ParkedFrom'
        BY <3>1, <4>1, <1>u, <1>v DEF Given, ParkedFrom
      <4>6. Derives(p)'
        BY <2>k, <3>1, <4>1, <4>2, <4>3, <4>4, <1>v DEF Derives, AfterRead, Marked, Writing, Given
      <4>7. \A t \in Tokens : t >= next' => from'[t] = 0
        BY <4>1, <4>4, <1>u, <1>v
      <4> QED BY <3>1, <4>3, <4>5, <4>6, <4>7, <1>b DEF Only
    <3> QED BY <3>2, <3>3
  <2>9. CASE SettleUnsent(p) \/ SettleUnclear(p) \/ SettlePermanent(p)
             \/ ClearInflight(p) \/ MarkDead(p) \/ Landed(p) \/ MarkWriteFailed(p)
    <3>1. /\ pc[p] \notin Unlocked /\ pc'[p] \in {"idle", "clear", "dead"} /\ Only(p)
          /\ UNCHANGED <<auth, pend, meta, next, from>>
          /\ pc'[p] = "idle" \/ (loc' = loc /\ pc[p] = "settle")
      BY <2>9, <1>u, ReturnFacts
         DEF SettleUnsent, SettleUnclear, SettlePermanent, ClearInflight, MarkDead, Landed,
             MarkWriteFailed, StoreLast, TypeOK, Only, Unlocked
    <3>2. pc'[p] = "idle" \/ pend = Absent
      BY <2>k, <3>1 DEF Derives, AfterRead, Marked
    <3> QED BY <3>1, <3>2, <1>q DEF Writing
  <2>10. CASE SettleApplied(p)
    <3>1. /\ pc[p] = "settle" /\ loc[p].out = "applied" /\ pc'[p] = "base" /\ Only(p)
          /\ UNCHANGED <<auth, pend, meta, next, from, loc>>
      BY <2>10, <1>u DEF SettleApplied, TypeOK, Only
    <3>2. Derives(p)'
      BY <3>1, <2>k DEF Derives, AfterRead, Marked, Writing, Given
    <3> QED BY <3>1, <3>2, <1>n DEF Unlocked
  <2>11. CASE MergeBase(p)
    <3> DEFINE c == loc[p].cred
               got == loc[p].new
               b == IF Holds(auth, c.ref) THEN auth ELSE c
               one == 1
    <3>1. /\ pc[p] = "base" /\ UNCHANGED <<auth, pend, meta, next, from>>
          /\ pc'[p] \in {"check", "unknown"} /\ \A q \in Procs \ {p} : pc'[q] = pc[q]
      BY <2>11, <1>u DEF MergeBase, TypeOK
    <3> DEFINE n == Doc(IF got.ref = 0 THEN b.ref ELSE got.ref, got.acc)
    <3>2. Set(p, [loc[p] EXCEPT !.base = b, !.attempt = one, !.new = n])
      BY <2>11 DEF MergeBase
    <3>3. /\ b.ref = c.ref /\ n.acc = got.acc /\ IsDoc(n) /\ IsDoc(got)
          /\ Given(got) /\ from[got.acc] = c.ref
      BY <3>1, <2>k, FileFacts DEF Holds, Derives, Shape, IsDoc, Doc, Docs
    <3>4. loc'[p].base = b /\ loc'[p].new = n /\ loc'[p].mode = loc[p].mode /\ \A q \in Procs \ {p} : loc'[q] = loc[q]
      <4>1. loc[p] \in Locals
        BY <1>u DEF TypeOK
      <4> HIDE DEF n, b, one
      <4> QED BY <3>2, <4>1, <1>u DEF Set, TypeOK, Locals
    <3> HIDE DEF n, b, one
    <3>5. Derives(p)'
      BY <2>k, <3>1, <3>3, <3>4 DEF Derives, AfterRead, Marked, Writing, Given
    <3> QED BY <3>1, <3>4, <3>5, <1>n DEF Unlocked, Only
  <2>12. CASE CheckUnchanged(p)
    <3>1. /\ pc[p] = "check" /\ Only(p) /\ UNCHANGED <<auth, pend, meta, next, from, loc>>
          /\ \/ pc'[p] = "stage" /\ (IsDoc(auth) => auth.ref = loc[p].base.ref)
             \/ pc'[p] \in {"clear", "reread"}
      BY <2>12, <1>u DEF CheckUnchanged, TypeOK, Only
    <3>2. Derives(p)'
      BY <3>1, <2>k DEF Derives, AfterRead, Marked, Writing, Given, Foreign
    <3> QED BY <3>1, <3>2, <1>n DEF Unlocked
  <2>13. CASE Stage(p) \/ ParkStage(p)
    <3>1. /\ pc[p] \in {"stage", "park"} /\ Only(p)
          /\ UNCHANGED <<auth, pend, meta, next, from, loc>>
          /\ \/ pc'[p] = "rename" /\ pc[p] = "stage"
             \/ pc'[p] \in {"reread", "parkmeta", "unknown"}
      BY <2>13, <1>u DEF Stage, ParkStage, TypeOK, Only
    <3>2. Derives(p)'
      BY <3>1, <2>k DEF Derives, AfterRead, Marked, Writing, Given, Foreign
    <3> QED BY <3>1, <3>2, <1>n DEF Unlocked
  <2>14. CASE Rename(p)
    <3>1. /\ pc[p] = "rename" /\ Only(p) /\ UNCHANGED <<pend, meta, next, from, loc>>
          /\ \/ auth' = loc[p].new /\ pc'[p] \in {"landed", "reread"}
             \/ UNCHANGED auth /\ pc'[p] = "parkmeta"
      BY <2>14, <1>u DEF Rename, TypeOK, Only
    <3>2. Given(loc[p].new) /\ from[loc[p].new.acc] = loc[p].base.ref
      BY <3>1, <2>k DEF Derives, AfterRead, Marked, Writing
    <3>3. Derives(p)'
      BY <2>k, <3>1, <3>2 DEF Derives, AfterRead, Marked, Writing, Given
    <3>4. Given(auth)' /\ Given(pend)' /\ ParkedFrom'
      BY <3>1, <3>2, <1>u DEF Given, ParkedFrom
    <3> QED BY <3>1, <3>3, <3>4, <1>b, <1>u DEF Unlocked
  <2>15. CASE Reread(p)
    <3>1. /\ pc[p] = "reread" /\ UNCHANGED <<auth, pend, meta, next, from>>
          /\ pc'[p] \in {"landed", "check", "park"} /\ \A q \in Procs \ {p} : pc'[q] = pc[q]
      BY <2>15, <1>u DEF Reread, TypeOK
    <3>2. /\ loc'[p].base = loc[p].base /\ loc'[p].new = loc[p].new /\ loc'[p].mode = loc[p].mode
          /\ \A q \in Procs \ {p} : loc'[q] = loc[q]
      <4>1. loc[p] \in Locals
        BY <1>u DEF TypeOK
      <4> QED BY <2>15, <4>1, <1>u DEF Reread, Set, TypeOK, Locals
    <3>3. Derives(p)'
      BY <3>1, <3>2, <2>k DEF Derives, AfterRead, Marked, Writing, Given
    <3> QED BY <3>1, <3>2, <3>3, <1>n DEF Unlocked, Only
  <2>16. CASE ParkMeta(p)
    <3>1. /\ pc[p] = "parkmeta" /\ Only(p) /\ UNCHANGED <<auth, pend, next, from, loc>>
          /\ \/ pc'[p] = "parkpend" /\ meta' = loc[p].base
             \/ pc'[p] \in {"unknown", "reread"} /\ meta' = Absent
      BY <2>16, <1>u DEF ParkMeta, ParkFailed, TypeOK, Only
    <3>2. pend = Absent
      BY <3>1, <2>k DEF Derives, AfterRead, Marked, Writing, Unlocked
    <3>3. Derives(p)'
      BY <3>1, <3>2, <2>k DEF Derives, AfterRead, Marked, Writing, Given
    <3>4. Given(auth)' /\ Given(pend)' /\ ParkedFrom'
      BY <3>1, <3>2, <1>u DEF Given, ParkedFrom
    <3> QED BY <3>1, <3>3, <3>4, <1>b, <1>u DEF Unlocked
  <2>17. CASE ParkPending(p)
    <3>1. /\ pc[p] = "parkpend" /\ UNCHANGED <<auth, next, from>>
          /\ \A q \in Procs \ {p} : pc'[q] = pc[q]
          /\ \/ /\ pend' = loc[p].new /\ UNCHANGED meta /\ pc'[p] = "landed"
                /\ Set(p, [loc[p] EXCEPT !.parked = TRUE])
             \/ /\ pend' = Absent /\ pc'[p] \in {"unknown", "reread"} /\ UNCHANGED loc
      BY <2>17, <1>u DEF ParkPending, ParkFailed, TypeOK
    <3>2. /\ meta = loc[p].base /\ meta \in Docs /\ meta # Absent
          /\ Given(loc[p].new) /\ from[loc[p].new.acc] = loc[p].base.ref
      BY <3>1, <2>k, FileFacts DEF Derives, Shape, Writing, AfterRead, Marked, Unlocked
    <3>3. /\ loc'[p].base = loc[p].base /\ loc'[p].new = loc[p].new /\ loc'[p].mode = loc[p].mode
          /\ \A q \in Procs \ {p} : loc'[q] = loc[q]
      BY <3>1, <1>u, SetParked
    <3>4. Derives(p)'
      BY <3>1, <3>3, <2>k DEF Derives, AfterRead, Marked, Writing, Given
    <3>5. Given(auth)' /\ Given(pend)' /\ ParkedFrom'
      BY <3>1, <3>2, <1>u, <1>v DEF Given, ParkedFrom
    <3> QED BY <3>1, <3>3, <3>4, <3>5, <1>b, <1>u DEF Unlocked, Only
  <2> QED
    BY <1>e, <2>1, <2>2, <2>3, <2>4, <2>5, <2>6, <2>7, <2>8, <2>9, <2>10, <2>11, <2>12, <2>13,
       <2>14, <2>15, <2>16, <2>17 DEF RefreshStep
<1>f. ASSUME NEW p \in Procs, InstallStep(p) PROVE Lineage'
  <2>1. CASE InstallStage(p)
    <3>1. CASE Return(p)
      BY <2>1, <3>1, <1>u, <1>q, ReturnFacts DEF InstallStage, Unlocked, Writing
    <3>2. CASE ~Return(p)
      <4>1. /\ pc[p] = "istage" /\ pc'[p] = "irename" /\ \A q \in Procs \ {p} : pc'[q] = pc[q]
            /\ UNCHANGED <<auth, pend, meta>> /\ next <= MaxToken /\ next' = next + 1
            /\ from' = [from EXCEPT ![next] = next]
            /\ Set(p, [loc[p] EXCEPT !.new = Doc(next, next)])
        BY <2>1, <3>2, <1>u DEF InstallStage, TypeOK
      <4>2. Doc(next, next) \in Kept /\ Doc(next, next).acc = next
        BY <4>1, <1>u, RefFacts, FileFacts DEF TypeOK
      <4>3. loc'[p].new = Doc(next, next) /\ loc'[p].mode = loc[p].mode /\ \A q \in Procs \ {p} : loc'[q] = loc[q]
        BY <4>1, <4>2, <1>u, SetNew
      <4>4. \A t \in Tokens \ {next} : from'[t] = from[t]
        BY <4>1, <1>u DEF TypeOK
      <4>5. Given(auth)' /\ Given(pend)' /\ ParkedFrom'
        BY <4>1, <4>4, <1>u, <1>v DEF Given, ParkedFrom
      <4>6. Derives(p)'
        BY <1>u, <4>1, <4>2, <4>3, <1>v DEF Derives, AfterRead, Marked, Writing, Given
      <4>7. \A t \in Tokens : t >= next' => from'[t] = 0
        BY <4>1, <4>4, <1>u, <1>v
      <4> QED BY <4>1, <4>3, <4>5, <4>6, <4>7, <1>b DEF Only, Unlocked
    <3> QED BY <3>1, <3>2
  <2>2. CASE InstallRename(p)
    <3>1. /\ pc[p] = "irename" /\ pc'[p] \in {"idle", "ireset"} /\ Only(p)
          /\ UNCHANGED <<pend, meta, next, from>> /\ auth' \in {auth, loc[p].new}
          /\ pc'[p] = "idle" \/ loc' = loc
      BY <2>2, <1>u, ReturnFacts DEF InstallRename, TypeOK, Only
    <3>2. Given(auth)' /\ Given(pend)' /\ ParkedFrom'
      BY <3>1, <1>u DEF Given, ParkedFrom, Derives
    <3>3. Derives(p)'
      BY <1>u, <3>1 DEF Derives, AfterRead, Marked, Writing
    <3> QED BY <3>1, <3>2, <3>3, <1>b, <1>u DEF Unlocked
  <2>3. CASE InstallReset(p)
    <3>1. /\ pc[p] = "ireset" /\ pc'[p] = "idle" /\ Only(p)
          /\ UNCHANGED <<auth, pend, meta, next, from>>
      BY <2>3, <1>u, ReturnFacts DEF InstallReset, StoreLast
    <3> QED BY <3>1, <1>q DEF Unlocked, Writing
  <2> QED BY <1>f, <2>1, <2>2, <2>3 DEF InstallStep
<1>g. ASSUME NEW p \in Procs, RemoveStep(p) PROVE Lineage'
  <2>1. /\ pc[p] \in {"remove", "unlink"} /\ Derives(p) /\ UNCHANGED <<next, from>>
        /\ \A q \in Procs \ {p} : pc'[q] = pc[q] /\ loc'[q] = loc[q]
        /\ auth' \in {auth, Absent} /\ pend' \in {pend, Absent} /\ meta' \in {meta, Absent}
        /\ pc'[p] = "idle" \/ (pc'[p] = "unlink" /\ loc'[p].mode = loc[p].mode)
    <3>1. CASE RemoveList(p)
      <4>1. CASE Return(p)
        BY <3>1, <4>1, <1>u, ReturnFacts DEF RemoveList, Only
      <4>2. CASE ~Return(p)
        <5>1. PICK T \in SUBSET NamedFiles : Set(p, [loc[p] EXCEPT !.todo = T]) /\ pc' = [pc EXCEPT ![p] = "unlink"]
          BY <3>1, <4>2 DEF RemoveList
        <5> QED BY <3>1, <5>1, <1>u, SetTodo DEF RemoveList, TypeOK
      <4> QED BY <4>1, <4>2
    <3>2. CASE RemoveFile(p)
      <4>1. CASE Return(p)
        BY <3>2, <4>1, <1>u, ReturnFacts DEF RemoveFile, Only
      <4>2. CASE ~Return(p)
        <5>0. loc[p].todo \in SUBSET NamedFiles
          BY <1>u, LocalTypes DEF TypeOK
        <5>1. PICK T \in SUBSET NamedFiles : Set(p, [loc[p] EXCEPT !.todo = T])
          BY <3>2, <4>2, <5>0 DEF RemoveFile
        <5> QED BY <3>2, <4>2, <5>1, <1>u, SetTodo DEF RemoveFile
      <4> QED BY <4>1, <4>2
    <3>3. CASE RemoveMarker(p)
      BY <3>3, <1>u, ReturnFacts DEF RemoveMarker, Only
    <3> QED BY <1>g, <1>u, <3>1, <3>2, <3>3 DEF RemoveStep
  <2>2. "remove" \in Commands
    BY <2>1 DEF Derives
  <2>3. Derives(p)'
    BY <2>1 DEF Derives, AfterRead, Marked, Writing
  <2>4. Given(auth)' /\ Given(pend)' /\ ParkedFrom'
    BY <2>1, <2>2, <1>u, <1>v DEF Given, ParkedFrom
  <2> QED BY <2>1, <2>3, <2>4, <1>b, <1>u DEF Only, Unlocked
<1>i. CASE External
  <2>1. /\ UNCHANGED <<pend, meta, pc, loc, from>> /\ next' \in {next, next + 1}
        /\ \/ ~IsDoc(auth')
           \/ next' = next + 1 /\ auth'.acc = next /\ next \in Tokens
    <3>1. CASE ExtNewAccess
      <4>1. auth.acc \in Tokens /\ auth' = [auth EXCEPT !.acc = next] /\ next' = next + 1 /\ next \in Tokens
            /\ auth \in Docs
        BY <3>1, <1>u, <1>v, FileFacts DEF ExtNewAccess
      <4> QED BY <3>1, <4>1 DEF ExtNewAccess, Docs
    <3>2. CASE ExtTruncate \/ ExtWrite \/ ExtDelete
      BY <3>2, <1>u, <1>v DEF ExtTruncate, ExtWrite, ExtDelete, Doc, IsDoc
    <3> QED BY <1>i, <3>1, <3>2 DEF External
  <2>2. Foreign(auth)'
    BY <2>1, <1>u, <1>v DEF Foreign
  <2>3. \A f \in Kept : Given(f) => Given(f)'
    BY <2>1, <1>v, FileFacts DEF Given
  <2>4. Given(auth)' /\ Given(pend)' /\ ParkedFrom'
    BY <2>1, <2>3, <1>u, <1>v DEF Given, ParkedFrom
  <2>5. ASSUME NEW q \in Procs PROVE Derives(q)'
    BY <2>1, <2>2, <2>3, <1>u, <1>v DEF Derives
  <2>6. \A t \in Tokens : t >= next' => from'[t] = 0
    BY <2>1, <1>u, <1>v
  <2> QED BY <2>4, <2>5, <2>6 DEF Lineage
<1> QED BY <1>a, <1>c, <1>e, <1>f, <1>g, <1>i DEF Next, Work

LEMMA LineageAlways == Spec => [](TypeInv /\ Mutex /\ Lineage)
<1>1. Init => TypeInv /\ Mutex /\ Lineage
  BY SafeInit, LineageInit DEF IInv
<1>2. TypeInv /\ Mutex /\ Lineage /\ [Next]_vars => (TypeInv /\ Mutex /\ Lineage)'
  BY TypeStep, MutexStep, LineageStep
<1> QED BY <1>1, <1>2, PTL DEF Spec

----------------------------------------------------------------------------
(* What follows.                                                           *)

\* A process past the wait holds the namespace lock, and only one does, whatever
\* the commands are and however Codex rewrites the file.
THEOREM MutualExclusion == Spec => []Mutex
<1>1. Init => TypeInv /\ Mutex
  BY SafeInit DEF IInv
<1>2. TypeInv /\ Mutex /\ [Next]_vars => (TypeInv /\ Mutex)'
  BY TypeStep, MutexStep
<1> QED BY <1>1, <1>2, PTL DEF Spec

\* No automatic POST carries a grant with an unsettled POST, for any number of
\* processes and tokens, when Codex stores no new access token beside an old
\* refresh token and no command removes the namespace.  The two assumptions are the
\* ones the violation runs show needed.
THEOREM NoResend ==
    ASSUME "access" \notin Codex, "remove" \notin Commands
    PROVE  Spec => []NoAutomaticResend
<1>1. IInv => NoAutomaticResend
  BY DEF IInv, Knows, NoAutomaticResend
<1> QED BY <1>1, SafeAlways, PTL

\* The user's consent sends one POST of an unsettled grant, and never a second.
THEOREM OneResend ==
    ASSUME "access" \notin Codex, "remove" \notin Commands
    PROVE  Spec => []OneConsentedResend
<1>1. IInv => OneConsentedResend
  BY DEF IInv, Knows, OneConsentedResend
<1> QED BY <1>1, SafeAlways, PTL

\* auth.json never presents an unsettled grant that nothing on disk accounts for.
THEOREM AlwaysCovered ==
    ASSUME "access" \notin Codex, "remove" \notin Commands
    PROVE  Spec => []Covered
<1>1. IInv => Covered
  BY DEF IInv
<1> QED BY <1>1, SafeAlways, PTL

\* Only the holder of the lock writes the marker: the step of another leaves the record of a POST.
LEMMA RecordStep ==
    ASSUME TypeInv, Mutex, SendIsRecorded, [Next]_vars, NEW p \in Procs, pc'[p] \in {"post", "settle"}
    PROVE  marker'.inflight = loc'[p].cred.ref
<1>0. TypeOK /\ (pc[p] \in {"post", "settle"} => lock = p /\ marker.inflight = loc[p].cred.ref)
  BY DEF TypeInv, SendIsRecorded
<1>1. CASE UNCHANGED <<pc, loc, marker>>
  BY <1>0, <1>1
<1>2. CASE \E q \in Procs : Start(q) \/ Acquire(q) \/ GiveUp(q) \/ Crash(q)
  BY <1>0, <1>2 DEF Start, Begin, Acquire, GiveUp, Crash, Set, TypeOK
<1>3. ASSUME NEW q \in Procs, RefreshStep(q) \/ InstallStep(q) \/ RemoveStep(q), q # p PROVE FALSE
  <2>1. pc[q] \notin Unlocked
    BY <1>3 DEF RefreshStep, Resolve, Replay, Discard, UnlinkMeta, ReadAuth, StopEarly, CompareClear,
         CompareUnknown, MayDecide, Gate, Snapshot, WriteMarker, Post, SettleUnsent, SettleUnclear,
         SettlePermanent, SettleApplied, ClearInflight, MarkDead, MergeBase, CheckUnchanged, Stage, Rename,
         Reread, ParkStage, ParkMeta, ParkPending, Landed, MarkWriteFailed, InstallStep, InstallStage,
         InstallRename, InstallReset, RemoveStep, RemoveList, RemoveFile, RemoveMarker, Unlocked
  <2>2. Mutex'
    BY MutexStep
  <2>3. lock = q /\ lock' = p /\ pc'[p] # "idle"
    BY <2>1, <2>2 DEF Mutex, Unlocked
  <2>4. lock' \in {lock, NoProc}
    BY <1>3 DEF RefreshStep, Resolve, Replay, Discard, UnlinkMeta, ReadAuth, StopEarly, CompareClear,
         CompareUnknown, MayDecide, Gate, Snapshot, WriteMarker, Post, SettleUnsent, SettleUnclear,
         SettlePermanent, SettleApplied, ClearInflight, MarkDead, MergeBase, CheckUnchanged, Stage, Rename,
         Reread, ParkStage, ParkMeta, ParkPending, Landed, MarkWriteFailed, InstallStep, InstallStage,
         InstallRename, InstallReset, RemoveStep, RemoveList, RemoveFile, RemoveMarker, StoreThen, StoreLast,
         Return
  <2> QED BY <1>3, <2>3, <2>4, ProcsAssumption
<1>4. CASE WriteMarker(p)
  <2> DEFINE r == loc[p].cred.ref
  <2>1. pc' = [pc EXCEPT ![p] = "post"] /\ UNCHANGED loc
    BY <1>0, <1>4, ReturnFacts DEF WriteMarker, StoreThen
  <2>2. \/ marker' = [marker EXCEPT !.resent = TRUE] /\ marker.inflight = r
        \/ marker' = [Cleared EXCEPT !.inflight = r]
    BY <1>0, <1>4, ReturnFacts DEF WriteMarker, StoreThen, Outstanding
  <2>3. marker \in Markers /\ Cleared \in Markers
    BY <1>0, MarkerTypes DEF TypeOK
  <2> QED BY <2>1, <2>2, <2>3 DEF Markers
<1>5. CASE Post(p)
  <2>1. pc[p] = "post" /\ UNCHANGED marker
    BY <1>5 DEF Post
  <2>2. loc'[p].cred = loc[p].cred
    <3>1. loc[p] \in Locals
      BY <1>0 DEF TypeOK
    <3> QED BY <1>0, <1>5, <3>1 DEF Post, Set, TypeOK, Locals
  <2> QED BY <1>0, <2>1, <2>2
<1>6. CASE RefreshStep(p) /\ ~WriteMarker(p) /\ ~Post(p)
  <2>1. pc'[p] \notin {"post", "settle"}
    BY <1>0, <1>6, ReturnFacts
       DEF RefreshStep, Resolve, Replay, Discard, UnlinkMeta, ReadAuth, StopEarly, CompareClear,
         CompareUnknown, MayDecide, Gate, Snapshot, SettleUnsent, SettleUnclear,
         SettlePermanent, SettleApplied, ClearInflight, MarkDead, MergeBase, CheckUnchanged, Stage, Rename,
         Reread, ParkStage, ParkMeta, ParkPending, ParkFailed, Landed, MarkWriteFailed, StoreThen, StoreLast,
         TypeOK
  <2> QED BY <2>1
<1>7. CASE InstallStep(p) \/ RemoveStep(p)
  <2>1. pc'[p] \notin {"post", "settle"}
    BY <1>0, <1>7, ReturnFacts
       DEF InstallStep, InstallStage, InstallRename, InstallReset, RemoveStep, RemoveList, RemoveFile,
           RemoveMarker, StoreLast, TypeOK
  <2> QED BY <2>1
<1>8. CASE External
  BY <1>1, <1>8 DEF External, ExtTruncate, ExtWrite, ExtNewAccess, ExtDelete
<1> QED BY <1>1, <1>2, <1>3, <1>4, <1>5, <1>6, <1>7, <1>8 DEF Next, Work, vars

\* A POST is under way only under the lock and behind a marker that names it.
THEOREM SendRecorded == Spec => []SendIsRecorded
<1>1. Init => TypeInv /\ Mutex /\ SendIsRecorded
  BY SafeInit DEF Init, IInv, SendIsRecorded
<1>2. TypeInv /\ Mutex /\ SendIsRecorded /\ [Next]_vars => (TypeInv /\ Mutex /\ SendIsRecorded)'
  <2> SUFFICES ASSUME TypeInv, Mutex, SendIsRecorded, [Next]_vars
               PROVE  TypeInv' /\ Mutex' /\ SendIsRecorded'
    OBVIOUS
  <2>1. TypeInv' /\ Mutex'
    BY TypeStep, MutexStep
  <2>2. \A p \in Procs : pc'[p] \in {"post", "settle"} => lock' = p
    BY <2>1 DEF Mutex, Unlocked
  <2> QED BY <2>1, <2>2, RecordStep DEF SendIsRecorded
<1> QED BY <1>1, <1>2, PTL DEF Spec

\* Every step of the protocol is one GrantSend allows, or touches neither the
\* POST on the wire nor any POST's standing: the protocol implements the promise.
THEOREM KeepsPromise ==
    ASSUME "access" \notin Codex, "remove" \notin Commands
    PROVE  Spec => SendsAsPromised
<1>1. Init => GS!Init
  BY DEF Init, GS!Init, wire
<1>2. IInv /\ [Next]_vars => [GS!Next]_<<open, wire>>
  <2> SUFFICES ASSUME IInv, [Next]_vars PROVE GS!Next \/ UNCHANGED <<open, wire>>
    OBVIOUS
  <2> DEFINE g(p) == loc[p].cred.ref
  <2>t. open \in [Refs -> SUBSET Kinds] /\ \A p \in Procs : g(p) \in Refs
    BY LocalTypes, FileFacts DEF IInv, TypeInv, TypeOK
  <2>w. \A p \in Procs : pc[p] \notin Unlocked =>
          wire = IF pc[p] = "settle" THEN {<<g(p), KindOf(p)>>} ELSE {}
    BY DEF wire, IInv, Mutex, Unlocked
  <2>q. ASSUME NEW p \in Procs, pc[p] \notin Unlocked, \A q \in Procs \ {p} : pc'[q] = pc[q],
               pc'[p] # "settle"
        PROVE  wire' = {}
    BY <2>q DEF wire, IInv, Mutex, Unlocked
  <2>i. ASSUME NEW p \in Procs, pc[p] \notin Unlocked, pc[p] # "settle", pc'[p] # "settle",
               \A q \in Procs \ {p} : pc'[q] = pc[q], UNCHANGED open
        PROVE  UNCHANGED <<open, wire>>
    BY <2>i, <2>q, <2>w
  <2>a. CASE UNCHANGED vars
    BY <2>a DEF vars, wire, KindOf
  <2>b. ASSUME NEW p \in Procs, Start(p) \/ Acquire(p) \/ GiveUp(p)
        PROVE  UNCHANGED <<open, wire>>
    <3>1. /\ UNCHANGED open /\ pc[p] # "settle" /\ pc'[p] # "settle"
          /\ \A q \in Procs \ {p} : pc'[q] = pc[q] /\ loc'[q] = loc[q]
      <4> USE DEF Set, IInv, TypeInv, TypeOK, history
      <4>1. CASE Start(p)
        BY <4>1 DEF Start, Begin
      <4>2. CASE Acquire(p)
        BY <4>2 DEF Acquire
      <4>3. CASE GiveUp(p)
        BY <4>3 DEF GiveUp
      <4> QED BY <2>b, <4>1, <4>2, <4>3
    <3> QED BY <3>1 DEF wire, KindOf
  <2>c. ASSUME NEW p \in Procs, Crash(p) PROVE UNCHANGED <<open, wire>> \/ GS!Unsettled
    <3>1. /\ UNCHANGED open /\ pc'[p] # "settle"
          /\ \A q \in Procs \ {p} : pc'[q] = pc[q] /\ loc'[q] = loc[q]
      BY <2>c DEF Crash, Set, IInv, TypeInv, TypeOK, history
    <3>2. CASE pc[p] \in Unlocked
      BY <3>1, <3>2 DEF wire, KindOf, Unlocked
    <3>3. CASE pc[p] \notin Unlocked
      BY <3>1, <3>3, <2>q DEF GS!Unsettled
    <3> QED BY <3>2, <3>3
  <2>d. ASSUME NEW p \in Procs, InstallStep(p) \/ RemoveStep(p) PROVE UNCHANGED <<open, wire>>
    <3>1. CASE InstallStep(p)
      BY <3>1, <2>i DEF InstallStep, InstallStage, InstallRename, InstallReset, Return, StoreLast,
                        Unlocked, IInv, TypeInv, TypeOK, history
    <3>2. CASE RemoveStep(p)
      BY <3>2 DEF RemoveStep, RemoveList, RemoveFile, RemoveMarker, IInv, Knows
    <3> QED BY <2>d, <3>1, <3>2
  <2>e. ASSUME NEW p \in Procs, Post(p) PROVE GS!Next
    <3>1. /\ open' = [open EXCEPT ![g(p)] = @ \cup {KindOf(p)}] /\ pc[p] = "post"
          /\ pc' = [pc EXCEPT ![p] = "settle"] /\ \A q \in Procs \ {p} : loc'[q] = loc[q]
          /\ loc'[p].cred = loc[p].cred /\ loc'[p].mode = loc[p].mode
      <4>1. loc \in [Procs -> Locals] /\ loc[p] \in Locals
        BY DEF IInv, TypeInv, TypeOK
      <4> DEFINE Same(l) == l.cred = loc[p].cred /\ l.mode = loc[p].mode
      <4>2. /\ \A o : Same([loc[p] EXCEPT !.out = o])
            /\ \A o, n : Same([loc[p] EXCEPT !.out = o, !.new = n])
        BY <4>1 DEF Locals
      <4>3. CASE \E o \in Outcomes \ {"none", "applied"} : Set(p, [loc[p] EXCEPT !.out = o])
        <5>1. PICK o : Set(p, [loc[p] EXCEPT !.out = o])
          BY <4>3
        <5>2. Same([loc[p] EXCEPT !.out = o])
          BY <4>2
        <5> QED BY <2>e, <4>1, <5>1, <5>2 DEF Post, Set
      <4>4. CASE ~\E o \in Outcomes \ {"none", "applied"} : Set(p, [loc[p] EXCEPT !.out = o])
        <5>1. PICK r \in {NoRef, next} :
                Set(p, [loc[p] EXCEPT !.out = "applied", !.new = Doc(r, next)])
          BY <2>e, <4>4 DEF Post
        <5>2. Same([loc[p] EXCEPT !.out = "applied", !.new = Doc(r, next)])
          BY <4>2
        <5> QED BY <2>e, <4>1, <5>1, <5>2 DEF Post, Set
      <4> QED BY <4>3, <4>4
    <3>2. wire = {}
      BY <3>1, <2>w DEF Unlocked
    <3>3. wire' = {<<g(p), KindOf(p)>>}
      <4>1. pc'[p] = "settle" /\ \A q \in Procs \ {p} : pc'[q] \in Unlocked
        BY <3>1 DEF IInv, Mutex, TypeInv, TypeOK, Unlocked
      <4>2. <<loc'[p].cred.ref, KindOf(p)'>> = <<g(p), KindOf(p)>>
        BY <3>1 DEF KindOf
      <4> QED BY <4>1, <4>2 DEF wire, Unlocked
    <3>4. CASE loc[p].mode = "resend"
      <4>1. "user" \notin open[g(p)] /\ KindOf(p) = "user"
        BY <3>1, <3>4 DEF IInv, Knows, KindOf
      <4>2. GS!ConsentedSend(g(p))
        BY <3>1, <3>2, <3>3, <4>1 DEF GS!ConsentedSend
      <4> QED BY <2>t, <4>2 DEF GS!Next
    <3>5. CASE loc[p].mode # "resend"
      <4>1. open[g(p)] = {} /\ KindOf(p) = "auto"
        BY <3>1, <3>5 DEF IInv, Knows, KindOf
      <4>2. open' = [open EXCEPT ![g(p)] = {"auto"}]
        BY <2>t, <3>1, <4>1
      <4>3. GS!AutomaticSend(g(p))
        BY <3>2, <3>3, <4>1, <4>2 DEF GS!AutomaticSend
      <4> QED BY <2>t, <4>3 DEF GS!Next
    <3> QED BY <3>4, <3>5
  <2>f. ASSUME NEW p \in Procs, pc[p] = "settle", pc'[p] # "settle",
               \A q \in Procs \ {p} : pc'[q] = pc[q]
        PROVE  wire = {<<g(p), KindOf(p)>>} /\ wire' = {} /\ KindOf(p) \in {"auto", "user"}
    BY <2>f, <2>w, <2>q DEF Unlocked, KindOf
  <2>g. ASSUME NEW p \in Procs, SettleUnsent(p) PROVE GS!Next
    <3>1. /\ open' = [open EXCEPT ![g(p)] = @ \ {KindOf(p)}] /\ pc[p] = "settle"
          /\ Return(p)
      BY <2>g DEF SettleUnsent, NotProcessed, StoreLast
    <3>2. GS!NotProcessed(g(p), KindOf(p)) /\ KindOf(p) \in {"auto", "user"}
      BY <3>1, <2>f DEF GS!NotProcessed, Return, IInv, TypeInv, TypeOK
    <3> QED BY <2>t, <3>2 DEF GS!Next
  <2>h. ASSUME NEW p \in Procs, SettleApplied(p) PROVE GS!Next
    <3>1. /\ open' \in {open, [open EXCEPT ![g(p)] = {}]} /\ pc[p] = "settle"
          /\ pc' = [pc EXCEPT ![p] = "base"]
      BY <2>h DEF SettleApplied
    <3>2. wire = {<<g(p), KindOf(p)>>} /\ wire' = {} /\ KindOf(p) \in {"auto", "user"}
      BY <3>1, <2>f DEF IInv, TypeInv, TypeOK
    <3>3. CASE open' = open
      BY <3>2, <3>3 DEF GS!Unsettled, GS!Next
    <3>4. CASE open' = [open EXCEPT ![g(p)] = {}]
      BY <2>t, <3>2, <3>4 DEF GS!StillGood, GS!Next
    <3> QED BY <3>1, <3>3, <3>4
  <2>j. ASSUME NEW p \in Procs, SettleUnclear(p) \/ SettlePermanent(p) PROVE GS!Next
    <3>1. /\ UNCHANGED open /\ pc[p] = "settle" /\ pc'[p] # "settle"
          /\ \A q \in Procs \ {p} : pc'[q] = pc[q]
      BY <2>j DEF SettleUnclear, SettlePermanent, StoreLast, Return, IInv, TypeInv, TypeOK, history
    <3> QED BY <3>1, <2>f DEF GS!Unsettled, GS!Next
  <2>k. ASSUME NEW p \in Procs, RefreshStep(p), ~Post(p), ~SettleUnsent(p), ~SettleApplied(p),
               ~SettleUnclear(p), ~SettlePermanent(p)
        PROVE  UNCHANGED <<open, wire>>
    <3> USE DEF Return, StoreLast, StoreThen, Unlocked, IInv, TypeInv, TypeOK
    <3>1. CASE Resolve(p) \/ Replay(p) \/ Discard(p) \/ UnlinkMeta(p) \/ ReadAuth(p)
               \/ StopEarly(p) \/ Gate(p) \/ Snapshot(p)
      BY <3>1, <2>i DEF Resolve, Replay, Discard, UnlinkMeta, ReadAuth, StopEarly, Gate, Snapshot
    <3>2. CASE CompareClear(p)
      BY <3>2, <2>i DEF CompareClear, MayDecide
    <3>3. CASE CompareUnknown(p)
      BY <3>3, <2>i DEF CompareUnknown, MayDecide
    <3>4. CASE WriteMarker(p)
      BY <3>4, <2>i DEF WriteMarker
    <3>5. CASE ClearInflight(p) \/ MarkDead(p) \/ Landed(p) \/ MarkWriteFailed(p)
      BY <3>5, <2>i DEF ClearInflight, MarkDead, Landed, MarkWriteFailed
    <3>6. CASE MergeBase(p) \/ CheckUnchanged(p) \/ Stage(p) \/ Rename(p) \/ Reread(p)
      BY <3>6, <2>i DEF MergeBase, CheckUnchanged, Stage, Rename, Reread
    <3>7. CASE ParkStage(p) \/ ParkMeta(p) \/ ParkPending(p)
      BY <3>7, <2>i DEF ParkStage, ParkMeta, ParkPending, ParkFailed
    <3> QED BY <2>k, <3>1, <3>2, <3>3, <3>4, <3>5, <3>6, <3>7 DEF RefreshStep
  <2>l. CASE External
    BY <2>l DEF External, ExtTruncate, ExtWrite, ExtNewAccess, ExtDelete, wire, KindOf, history
  <2> QED BY <2>a, <2>b, <2>c, <2>d, <2>e, <2>g, <2>h, <2>j, <2>k, <2>l DEF Next, Work, GS!Next
<1> QED BY <1>1, <1>2, SafeAlways, PTL DEF Spec, SendsAsPromised, GS!Spec

\* A parked grant always has its metadata beside it, and was rotated from the grant
\* the metadata names, through every crash and failed write of the park and whatever Codex
\* stores; only a removal may unlink the metadata first.
THEOREM ParkedFromWhatItReplaces ==
    ASSUME "remove" \notin Commands
    PROVE  Spec => []ParkedIsSuccessor
<1>1. Lineage => ParkedIsSuccessor
  BY DEF Lineage, ParkedFrom, ParkedIsSuccessor
<1> QED BY <1>1, LineageAlways, PTL

\* A refresh or a replay renames only over the grant its own was rotated from, or
\* over one no send of agctl brought, whatever Codex stores and however a removal ends.
THEOREM KeepsNewerGrant == Spec => NewerGrantKept
<1> DEFINE Replaced == \A p \in Procs :
             (Replay(p) \/ Rename(p)) /\ IsDoc(auth) /\ from[auth.acc] # NoRef /\ auth' # auth =>
                 from[auth'.acc] = auth.ref
<1>1. Lineage /\ [Next]_vars => [Replaced]_vars
  <2> SUFFICES ASSUME Lineage,
                      NEW p \in Procs, Replay(p) \/ Rename(p), IsDoc(auth),
                      from[auth.acc] # NoRef, auth' # auth
               PROVE  from[auth'.acc] = auth.ref
    OBVIOUS
  <2>1. Derives(p) /\ ParkedFrom
    BY DEF Lineage
  <2>2. CASE Replay(p)
    BY <2>1, <2>2 DEF Replay, Derives, Foreign, ParkedFrom
  <2>3. CASE Rename(p)
    BY <2>1, <2>3 DEF Rename, Derives, Foreign, Writing
  <2> QED BY <2>2, <2>3
<1>2. Spec => [][Replaced]_vars
  BY <1>1, LineageAlways, PTL DEF Spec
<1> QED BY <1>2 DEF NewerGrantKept
=============================================================================
