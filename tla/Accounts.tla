------------------------------ MODULE Accounts ------------------------------
(***************************************************************************)
(* The commands that change which Claude accounts agctl has: `login`,      *)
(* `import`, `accounts remove`, `accounts relocate` and `accounts forget`  *)
(* (commands/login.rs, commands/import.rs, commands/accounts.rs), over the *)
(* registry every one of them rewrites as a whole under the configuration  *)
(* lock (config/mod.rs) and the namespaces that hold the credentials, each *)
(* under its own lock (secret/file_store.rs).  They run beside each other  *)
(* and beside `status`, which refreshes and parks, and `use --live`, which *)
(* leaves a displaced credential beside the namespace's own.               *)
(*                                                                         *)
(* One person's accounts: a key is an organization of theirs, and Unknown  *)
(* the `_unknown-org` a login that named none is filed under.  A grant is  *)
(* a number, in the order issued; refreshing one spends it.                *)
(***************************************************************************)
EXTENDS Integers, FiniteSets

CONSTANTS
    Procs,      \* processes, each running one command
    NoProc,     \* the value of a lock nobody holds
    Keys,       \* the accounts, by organization
    Unknown,    \* the one whose organization no login named
    Starts,     \* which keys a behaviour may begin with a login at
    Orders,     \* the commands a process may be given
    MaxGrants,  \* how many grants a behaviour may issue
    Faults      \* what may go wrong

None == 0
Ops == {"login", "remove", "relocate", "import", "forget"}

ASSUME ProcsAssumption == NoProc \notin Procs
ASSUME KeysAssumption == Unknown \in Keys /\ Starts \subseteq SUBSET Keys /\ IsFiniteSet(Keys)
ASSUME StartsAssumption == \A owned \in Starts : Cardinality(owned) <= MaxGrants
ASSUME OrdersAssumption == Orders \subseteq [op : Ops, key : Keys, secret : BOOLEAN]
ASSUME BoundsAssumption ==
    MaxGrants \in Nat /\ Faults \subseteq {"crash", "park", "write", "refuse"}

VARIABLES
    registry,   \* config.json: each key's record, and the services hidden by name
    config,     \* holder of the configuration lock
    file,       \* each namespace's .credentials.json
    pending,    \* its parked write
    adopted,    \* its .credentials.adopted.json
    made,       \* the namespaces whose directory exists
    lock,       \* holder of its lock
    issued,     \* how many grants have been issued
    spent,      \* the grants refreshed away
    run         \* each process: its place and its locals

stores == <<file, pending, adopted, made>>
vars == <<registry, config, stores, lock, issued, spent, run>>

-----------------------------------------------------------------------------
(* Helpers.                                                                *)

Grants == 1 .. MaxGrants
NoRecord == [kind |-> "none", by |-> NoProc, hidden |-> FALSE]
Owned(by) == [kind |-> "owned", by |-> by, hidden |-> FALSE]
Imported(by) == [kind |-> "imported", by |-> by, hidden |-> FALSE]
Records == {NoRecord} \cup [kind : {"owned", "imported"}, by : Procs \cup {NoProc}, hidden : BOOLEAN]
Registries == [record : [Keys -> Records], hidden : SUBSET Keys]

Current(k) == IF pending[k] # None THEN pending[k] ELSE file[k]
Stored == {Current(k) : k \in Keys} \cup {adopted[k] : k \in Keys}
IsOwned(k) == registry.record[k].kind = "owned"
At(p, place) == run[p].pc = place
Fails(what) == what \in Faults

Idle == [pc |-> "idle", op |-> "none", key |-> Unknown, secret |-> FALSE, to |-> Unknown,
         hand |-> None, probe |-> None, tries |-> 0, plan |-> {}, record |-> NoRecord,
         read |-> [record |-> [k \in Keys |-> NoRecord], hidden |-> {}],
         resumed |-> FALSE, emptied |-> FALSE]

Moves(p, place) == run' = [run EXCEPT ![p].pc = place]

\* The command is over, done or failed, and what it held of the namespaces is let go.
Ends(p, how) ==
    /\ run' = [run EXCEPT ![p] = [@ EXCEPT !.pc = how, !.hand = None, !.tries = 0, !.resumed = FALSE,
                                           !.record = NoRecord, !.read = Idle.read]]
    /\ lock' = [k \in Keys |-> IF lock[k] = p THEN NoProc ELSE lock[k]]

\* A command that fails holding nothing of the configuration.
Fail(p) == Ends(p, "failed") /\ UNCHANGED <<registry, config, stores, issued, spent>>

-----------------------------------------------------------------------------
(* login: the browser, the exchange, the question.                         *)

Begin(p) ==
    /\ At(p, "idle")
    /\ \E o \in Orders :
         run' = [run EXCEPT ![p] = [Idle EXCEPT !.op = o.op, !.key = o.key, !.secret = o.secret,
                    !.pc = CASE o.op = "login" -> "authorize"
                             [] o.op = "import" -> "plan"
                             [] o.op = "forget" -> "config"
                             [] OTHER -> "resolve"]]
    /\ UNCHANGED <<registry, config, stores, lock, issued, spent>>

\* The browser comes back with this login's state and a code; or with an error, another state or
\* nothing before the deadline, and the login ends.
Authorize(p) ==
    /\ At(p, "authorize")
    /\ \/ Moves(p, "exchange") /\ UNCHANGED <<registry, config, stores, lock, issued, spent>>
       \/ Fails("refuse") /\ Fail(p)

\* Whom the exchange may name, and the account the login is then for: the profile is asked only
\* where the exchange named nobody, and never adds an organization to the account it named.
Exchanged == {"nobody", "account", "organization"}

Identified(exchanged, profile) ==
    CASE exchanged = "organization" -> Keys \ {Unknown}
      [] exchanged = "account" -> {Unknown}
      [] exchanged = "nobody" /\ profile -> Keys \ {Unknown}
      [] OTHER -> {}

\* The code is exchanged, once more after a rate limit.  A grant that names nobody is not stored.
Exchange(p) ==
    /\ At(p, "exchange")
    /\ \/ /\ issued < MaxGrants
          /\ issued' = issued + 1
          /\ \E exchanged \in Exchanged, profile \in BOOLEAN :
               \E k \in Identified(exchanged, profile) :
                 run' = [run EXCEPT ![p].hand = issued + 1, ![p].key = k, ![p].pc = "ask"]
          /\ UNCHANGED <<registry, config, stores, lock, spent>>
       \/ /\ Fails("refuse")
          /\ run[p].tries = 0
          /\ run' = [run EXCEPT ![p].tries = 1]
          /\ UNCHANGED <<registry, config, stores, lock, issued, spent>>
       \/ (Fails("refuse") \/ issued = MaxGrants) /\ Fail(p)

\* An account the registry knows is only replaced if the user says so.
Ask(p) ==
    /\ At(p, "ask")
    /\ \/ Moves(p, "lock") /\ UNCHANGED <<registry, config, stores, lock, issued, spent>>
       \/ registry.record[run[p].key] # NoRecord /\ Fail(p)

-----------------------------------------------------------------------------
(* remove, relocate, import: what is read before anything is held.         *)

\* Only a namespace that names no organization is moved.
Movable(r) == r.op = "relocate" => r.key = Unknown

\* The record, as the registry has it now; only an account agctl owns is removed or moved.
Resolve(p) ==
    LET r == run[p] IN
    /\ At(p, "resolve")
    /\ IF IsOwned(r.key) /\ Movable(r)
       THEN /\ run' = [run EXCEPT ![p].record = registry.record[r.key],
                                  ![p].pc = CASE r.op = "relocate" -> "probe"
                                              [] r.op = "remove" /\ r.secret -> "confirm"
                                              [] OTHER -> "config"]
            /\ UNCHANGED <<registry, config, stores, lock, issued, spent>>
       ELSE Fail(p)

\* relocate reads the credential, and asks it or the host for an organization.
Probe(p) ==
    /\ At(p, "probe")
    /\ \/ /\ file[Unknown] # None
          /\ \E k \in Keys \ {Unknown} :
               run' = [run EXCEPT ![p].probe = file[Unknown], ![p].to = k, ![p].pc = "confirm"]
          /\ UNCHANGED <<registry, config, stores, lock, issued, spent>>
       \/ (file[Unknown] = None \/ Fails("refuse")) /\ Fail(p)

Confirm(p) ==
    /\ At(p, "confirm")
    /\ \/ Moves(p, "lock") /\ UNCHANGED <<registry, config, stores, lock, issued, spent>>
       \/ Fails("refuse") /\ Fail(p)

\* import plans a record for every item of the keychain whose account the registry, as read here,
\* does not know.
Plan(p) ==
    /\ At(p, "plan")
    /\ \/ /\ \E items \in SUBSET Keys :
               LET plan == {k \in items : registry.record[k] = NoRecord} IN
               run' = [run EXCEPT ![p].plan = plan,
                                  ![p].pc = IF plan = {} THEN "done" ELSE "config"]
          /\ UNCHANGED <<registry, config, stores, lock, issued, spent>>
       \/ Fails("refuse") /\ Fail(p)

-----------------------------------------------------------------------------
(* Under the namespaces' locks.                                            *)

\* relocate takes the source's lock and then the target's.
Wanted(r) == IF r.pc = "lock" THEN r.key ELSE r.to

Acquire(p) ==
    LET r == run[p]
        k == Wanted(r)
    IN
    /\ At(p, "lock") \/ At(p, "lock target")
    /\ lock[k] = NoProc
    /\ lock' = [lock EXCEPT ![k] = p]
    /\ Moves(p, CASE r.op = "login" -> "clear"
                  [] r.op = "remove" -> "erase"
                  [] r.op = "relocate" /\ r.pc = "lock" -> "lock target"
                  [] OTHER -> "check")
    /\ UNCHANGED <<registry, config, stores, issued, spent>>

\* The wait for a lock is bounded.
Busy(p) ==
    /\ Fails("refuse")
    /\ \/ (At(p, "lock") \/ At(p, "lock target")) /\ lock[Wanted(run[p])] # NoProc
       \/ At(p, "config") /\ config # NoProc
    /\ Fail(p)

\* Unchanged since the probe, and nothing in the way but this move's own earlier attempt.
Unmoved(p) == file[Unknown] = run[p].probe

Check(p) ==
    LET r == run[p]
        resumed == file[r.to] = file[Unknown]
    IN
    /\ At(p, "check")
    /\ IF file[Unknown] # None /\ Unmoved(p) /\ (resumed \/ r.to \notin made)
       THEN /\ run' = [run EXCEPT ![p].resumed = resumed, ![p].pc = "clear"]
            /\ UNCHANGED <<registry, config, stores, lock, issued, spent>>
       ELSE Fail(p)

\* A parked write is superseded: it goes before the new credential is written.
ClearStale(p) ==
    LET r == run[p] IN
    /\ At(p, "clear")
    /\ \/ /\ pending' = [pending EXCEPT ![r.key] = None]
          /\ run' = [run EXCEPT ![p].emptied = r.op = "login" /\ pending[r.key] # None,
                                ![p].pc = IF r.resumed THEN "config" ELSE "write"]
          /\ UNCHANGED <<registry, config, file, adopted, made, lock, issued, spent>>
       \/ Fails("write") /\ Fail(p)

WriteForgets(p) ==
    LET r == run[p] IN
    /\ At(p, "write")
    /\ r.op = "login"
    /\ \/ file' = [file EXCEPT ![r.key] = r.hand] /\ Moves(p, "config") /\ UNCHANGED pending
       \/ pending' = [pending EXCEPT ![r.key] = r.hand] /\ Moves(p, "release") /\ UNCHANGED file
    /\ made' = made \cup {r.key}
    /\ UNCHANGED <<registry, config, adopted, lock, issued, spent>>

\* The credential is renamed into place, or parked when the rename fails.
Write(p) ==
    LET r == run[p]
        k == IF r.op = "login" THEN r.key ELSE r.to
        g == IF r.op = "login" THEN r.hand ELSE r.probe
    IN
    /\ At(p, "write")
    /\ \/ /\ \/ file' = [file EXCEPT ![k] = g] /\ UNCHANGED pending
             \/ Fails("park") /\ pending' = [pending EXCEPT ![k] = g] /\ UNCHANGED file
          /\ run' = [run EXCEPT ![p].emptied = FALSE, ![p].pc = "config"]
          /\ made' = made \cup {k}
          /\ UNCHANGED <<registry, config, adopted, lock, issued, spent>>
       \/ /\ Fails("write")
          /\ made' = made \cup {k}
          /\ Ends(p, "failed")
          /\ UNCHANGED <<registry, config, file, pending, adopted, issued, spent>>

\* The namespace's files go one after another, until one will not.
Erase(p) ==
    LET k == run[p].key IN
    /\ At(p, "erase")
    /\ \E n \in IF Fails("write") THEN 0 .. 3 ELSE {3} :
         /\ file' = [file EXCEPT ![k] = IF n >= 1 THEN None ELSE @]
         /\ adopted' = [adopted EXCEPT ![k] = IF n >= 2 THEN None ELSE @]
         /\ pending' = [pending EXCEPT ![k] = IF n = 3 THEN None ELSE @]
         /\ made' = IF n = 3 THEN made \ {k} ELSE made
         /\ run' = [run EXCEPT ![p].emptied = run[p].op = "remove" /\ n >= 1,
                               ![p].pc = IF n = 3 THEN "release" ELSE "failed"]
         /\ lock' = [j \in Keys |-> IF n < 3 /\ lock[j] = p THEN NoProc ELSE lock[j]]
    /\ UNCHANGED <<registry, config, issued, spent>>

\* remove lets the namespace go before it touches the registry; the others after.
Release(p) ==
    /\ At(p, "release")
    /\ Ends(p, IF run[p].op = "remove" THEN "config" ELSE "done")
    /\ UNCHANGED <<registry, config, stores, issued, spent>>

-----------------------------------------------------------------------------
(* The registry: read, changed and written under one hold of its lock.     *)

Put(reg, k, rec) == [reg EXCEPT !.record[k] = rec]

\* A move replaces the record by the one it read, under the key it moved to.
Relocated(r, reg) == Put(Put(reg, Unknown, NoRecord), r.to, r.record)

\* A row is hidden, or shown again, by its record where it has one, and else by its service's name.
Forgotten(r, reg) ==
    IF reg.record[r.key].kind = "imported"
    THEN [reg EXCEPT !.record[r.key].hidden = ~r.secret]
    ELSE [reg EXCEPT !.hidden = IF r.secret THEN @ \ {r.key} ELSE @ \cup {r.key}]

Removed(r, reg) == Put(reg, r.key, NoRecord)

\* What a command makes of the registry it is given.
Applied(p, reg) ==
    LET r == run[p] IN
    CASE r.op = "login" -> Put(reg, r.key, Owned(p))
      [] r.op = "remove" -> Removed(r, reg)
      [] r.op = "relocate" -> Relocated(r, reg)
      [] r.op = "import" ->
            [reg EXCEPT !.record = [k \in Keys |-> IF k \in r.plan THEN Imported(p) ELSE @[k]]]
      [] OTHER -> Forgotten(r, reg)

\* The accounts a command's update may touch.
Touches(p) ==
    LET r == run[p] IN
    CASE r.op = "relocate" -> {Unknown, r.to}
      [] r.op = "import" -> r.plan
      [] OTHER -> {r.key}

TakeUnlocked(p) ==
    /\ At(p, "config")
    /\ run' = [run EXCEPT ![p].read = registry, ![p].pc = "update"]
    /\ UNCHANGED <<registry, config, stores, lock, issued, spent>>

TakeConfig(p) ==
    /\ At(p, "config")
    /\ config = NoProc
    /\ config' = p
    /\ run' = [run EXCEPT ![p].read = registry, ![p].pc = "update"]
    /\ UNCHANGED <<registry, stores, lock, issued, spent>>

UpdateLeaves(p) ==
    LET r == run[p] IN
    /\ At(p, "update")
    /\ config' = NoProc
    /\ registry' = Applied(p, r.read)
    /\ run' = [run EXCEPT ![p].read = Idle.read,
                          ![p].pc = IF r.op \in {"login", "relocate"} THEN "release" ELSE "done"]
    /\ UNCHANGED <<stores, lock, issued, spent>>

\* The registry is written whole; a login still holds its namespace, and a move then empties the
\* source.
Update(p) ==
    LET r == run[p] IN
    /\ At(p, "update")
    /\ config' = NoProc
    /\ \/ /\ registry' = Applied(p, r.read)
          /\ run' = [run EXCEPT ![p].read = Idle.read,
                                ![p].pc = CASE r.op = "login" -> "release"
                                            [] r.op = "relocate" -> "erase"
                                            [] OTHER -> "done"]
          /\ UNCHANGED lock
       \/ Fails("write") /\ Ends(p, "failed") /\ UNCHANGED registry
    /\ UNCHANGED <<stores, issued, spent>>

-----------------------------------------------------------------------------
(* What runs beside the commands.                                          *)

\* A process dies, and the locks the kernel held for it are free.
Crash(p) ==
    /\ Fails("crash")
    /\ run[p].pc \notin {"idle", "done", "failed", "dead"}
    /\ config' = IF config = p THEN NoProc ELSE config
    /\ Ends(p, "dead")
    /\ UNCHANGED <<registry, stores, issued, spent>>

\* A `status` pass over an account agctl owns, from the moment it has its lock: a parked write is
\* put in place, and a grant that is still good is refreshed and stored, or parked.
Status(k) ==
    /\ IsOwned(k)
    /\ lock[k] = NoProc
    /\ Current(k) # None
    /\ \/ /\ pending[k] # None
          /\ file' = [file EXCEPT ![k] = pending[k]]
          /\ pending' = [pending EXCEPT ![k] = None]
          /\ UNCHANGED <<issued, spent>>
       \/ /\ issued < MaxGrants
          /\ Current(k) \notin spent
          /\ issued' = issued + 1
          /\ spent' = spent \cup {Current(k)}
          /\ \/ file' = [file EXCEPT ![k] = issued + 1] /\ pending' = [pending EXCEPT ![k] = None]
             \/ /\ Fails("park")
                /\ file' = [file EXCEPT ![k] = Current(k)]
                /\ pending' = [pending EXCEPT ![k] = issued + 1]
    /\ UNCHANGED <<registry, config, adopted, made, lock, run>>

\* `use --live` leaves the credential it displaced from the session beside the account's own.
Adopt(k) ==
    /\ Fails("park")
    /\ IsOwned(k)
    /\ lock[k] = NoProc
    /\ pending[k] = None
    /\ adopted[k] = None
    /\ issued < MaxGrants
    /\ issued' = issued + 1
    /\ adopted' = [adopted EXCEPT ![k] = issued + 1]
    /\ UNCHANGED <<registry, config, file, pending, made, lock, spent, run>>

-----------------------------------------------------------------------------
(* The specification.                                                      *)

Step(p) ==
    \/ Begin(p) \/ Authorize(p) \/ Exchange(p) \/ Ask(p) \/ Resolve(p) \/ Probe(p) \/ Confirm(p)
    \/ Plan(p) \/ Acquire(p) \/ Check(p) \/ ClearStale(p) \/ Write(p) \/ Erase(p) \/ Release(p)
    \/ TakeConfig(p) \/ Update(p)

\* The accounts of a store a login each made, with the grants in the order of some choice.
Init ==
    /\ \E owned \in Starts :
         /\ registry = [record |-> [k \in Keys |-> IF k \in owned THEN Owned(NoProc) ELSE NoRecord],
                        hidden |-> {}]
         /\ file \in [Keys -> 0 .. Cardinality(owned)]
         /\ \A k \in Keys : k \in owned <=> file[k] # None
         /\ \A j, k \in owned : file[j] = file[k] => j = k
         /\ made = owned
         /\ issued = Cardinality(owned)
    /\ config = NoProc
    /\ pending = [k \in Keys |-> None]
    /\ adopted = [k \in Keys |-> None]
    /\ lock = [k \in Keys |-> NoProc]
    /\ spent = {}
    /\ run = [p \in Procs |-> Idle]

Next ==
    \/ \E p \in Procs : Step(p) \/ Busy(p) \/ Crash(p)
    \/ \E k \in Keys : Status(k) \/ Adopt(k)

Spec == Init /\ [][Next]_vars

\* A command that can go on does; that it gives up waiting, or dies, is nothing it relies on.
FairSpec == Spec /\ \A p \in Procs : WF_vars(Step(p))

-----------------------------------------------------------------------------
(* Properties.                                                             *)

Places == {"idle", "authorize", "exchange", "ask", "resolve", "probe", "confirm", "plan", "lock",
           "lock target", "check", "clear", "write", "erase", "release", "config", "update",
           "done", "failed", "dead"}

\* What a process keeps.
Runs == [pc : Places, op : Ops \cup {"none"}, key : Keys, secret : BOOLEAN, to : Keys,
         hand : Grants \cup {None}, probe : Grants \cup {None}, tries : {0, 1}, plan : SUBSET Keys,
         record : Records, read : Registries, resumed : BOOLEAN, emptied : BOOLEAN]

\* Every variable has its type.
TypeOK ==
    /\ registry \in Registries
    /\ config \in Procs \cup {NoProc}
    /\ file \in [Keys -> Grants \cup {None}]
    /\ pending \in [Keys -> Grants \cup {None}]
    /\ adopted \in [Keys -> Grants \cup {None}]
    /\ made \subseteq Keys
    /\ lock \in [Keys -> Procs \cup {NoProc}]
    /\ issued \in 0 .. MaxGrants
    /\ spent \subseteq Grants
    /\ run \in [Procs -> Runs]

\* No command's rewrite of the registry undoes another's: the record of an account it does not
\* name is as the last command that named it left it (config/mod.rs `update`).
OthersRecordsKept ==
    [][\A p \in Procs : At(p, "update") /\ registry' # registry =>
          \A k \in Keys \ Touches(p) : registry'.record[k] = registry.record[k]]_vars

\* An account agctl says it owns has a credential to be read in its namespace, but where a
\* `remove` has deleted it and not yet, or never, taken the record away, or a login could not
\* store its own after it discarded a parked one (accounts.rs, "an account nothing can read").
RecordIsReadable ==
    \A k \in Keys : IsOwned(k) /\ Current(k) = None =>
        \E p \in Procs : run[p].emptied /\ run[p].key = k /\ ~At(p, "done")

\* A grant that is still good and is stored somewhere stays stored, until the user deletes it,
\* a login replaces it, or the account it is parked or set aside beside is moved.
StoredGrantKept ==
    [][\A g \in Stored \ (spent \cup {None}) : g \notin Stored' \cup spent' =>
          \E p \in Procs :
              \/ run[p].op = "remove" /\ At(p, "erase")
              \/ run[p].op = "login" /\ (At(p, "clear") \/ At(p, "write"))
              \/ run[p].op = "relocate" /\ (At(p, "clear") \/ At(p, "erase")) /\ file[Unknown] # g]_vars

\* Two namespaces share a grant that is still good, which each would spend for the other, only
\* while `relocate` has both their locks, or where it failed or died between its copy and the end
\* of its removal (accounts.rs, "The crash windows").
NoSharedGrant ==
    \A j, k \in {i \in Keys : Current(i) \notin spent \cup {None}} :
        j # k /\ Current(j) = Current(k) =>
            \E p \in Procs : /\ run[p].op = "relocate" /\ run[p].probe = Current(j)
                             /\ {lock[j], lock[k]} = {p} \/ run[p].pc \in {"failed", "dead"}

\* A credential in a namespace is one the registry will bring `status` back for: without a record
\* it is only while a command holds the namespace, or where the command that put it there failed
\* or died, or where another took the record away.
StoredIsRecorded ==
    \A k \in Keys : Current(k) # None /\ ~IsOwned(k) =>
        \E p \in Procs :
            /\ k \in Touches(p)
            /\ \/ run[p].op \in {"login", "relocate"} /\ (lock[k] = p \/ run[p].pc \in {"failed", "dead"})
               \/ run[p].op \in {"remove", "import"} /\ At(p, "done")

\* The registry and the namespaces agree, both ways: what agctl says it owns can be read, and
\* what is stored will be found again (accounts.rs, login.rs, import.rs).
RegistryAgrees == RecordIsReadable /\ StoredIsRecorded

\* Every command that is begun ends, though none gives up waiting for a lock.
CommandsEnd ==
    \A p \in Procs : run[p].pc # "idle" ~> run[p].pc \in {"done", "failed", "dead"}

\* An import leaves an account the registry has as it is (import.rs, "An import never overwrites
\* what you have").
ImportNeverOverwrites ==
    [][\A p \in Procs, k \in Keys :
          run[p].op = "import" /\ At(p, "update") /\ registry.record[k] # NoRecord =>
              registry'.record[k] = registry.record[k]]_vars

\* A move takes the account's live grant with it (accounts.rs `relocate`: the alternative it rules
\* out is "a dead refresh chain and no copy of the live one").
MoveKeepsTheGrant ==
    [][\A p \in Procs : run[p].op = "relocate" /\ (At(p, "clear") \/ At(p, "erase")) =>
          Stored \ (spent \cup {None}) \subseteq Stored']_vars

-----------------------------------------------------------------------------
(* The inductive invariant behind the safety properties.                   *)

Over == {"done", "failed", "dead"}

\* Where a process is on behalf of each command.
Track(op) ==
    CASE op = "none" -> {"idle"}
      [] op = "login" -> {"authorize", "exchange", "ask", "lock", "clear", "write", "config",
                          "update", "release"}
      [] op = "remove" -> {"resolve", "confirm", "lock", "erase", "release", "config", "update"}
      [] op = "relocate" -> {"resolve", "probe", "confirm", "lock", "lock target", "check",
                             "clear", "write", "config", "update", "erase", "release"}
      [] op = "import" -> {"plan", "config", "update"}
      [] OTHER -> {"config", "update"}

\* Where it holds the namespace it names, and where a move holds its target as well.
Holding(op) ==
    CASE op = "login" -> {"clear", "write", "config", "update", "release"}
      [] op = "remove" -> {"erase", "release"}
      [] op = "relocate" -> {"lock target", "check", "clear", "write", "config", "update",
                             "erase", "release"}
      [] OTHER -> {}
HoldingBoth == {"check", "clear", "write", "config", "update", "erase", "release"}

\* The registry's lock is held by the process at its update, over the registry it read.
ConfigInv ==
    \A p \in Procs :
        /\ At(p, "update") <=> config = p
        /\ At(p, "update") => run[p].read = registry

PlaceOf(p) ==
    /\ run[p].pc \in Track(run[p].op) \cup Over
    /\ run[p].pc \in Holding(run[p].op) => lock[run[p].key] = p

\* A move goes from the account without an organization, with the record it read, to another.
MoveOf(p) ==
    /\ run[p].resumed => run[p].op = "relocate" /\ run[p].pc \in HoldingBoth \cup Over
    /\ run[p].op = "relocate" /\ run[p].pc \notin Over \cup {"resolve"} =>
         /\ run[p].key = Unknown
         /\ run[p].record.kind = "owned"
         /\ ~At(p, "probe") => run[p].to # Unknown /\ run[p].probe # None
         /\ run[p].pc \in HoldingBoth => lock[run[p].to] = p
         /\ run[p].pc \in {"clear", "write"} => file[Unknown] = run[p].probe
         /\ At(p, "clear") /\ run[p].resumed => file[run[p].to] = run[p].probe
         /\ run[p].pc \in {"config", "update"} => Current(run[p].to) # None
         /\ At(p, "erase") => ~IsOwned(Unknown)
         /\ At(p, "release") => file[Unknown] = None /\ pending[Unknown] = None

\* A login has stored what it was given before it enters it in the registry.
LoginOf(p) == run[p].op = "login" /\ run[p].pc \in {"config", "update"} => Current(run[p].key) # None

EmptiedOf(p) == run[p].emptied =>
    \/ run[p].op = "login" /\ run[p].pc \in {"write", "failed", "dead"}
    \/ run[p].op = "remove" /\ run[p].pc \in {"release", "config", "update"} \cup Over

ProcessInv == \A p \in Procs : PlaceOf(p) /\ MoveOf(p) /\ LoginOf(p) /\ EmptiedOf(p)

Holds(k, g) == file[k] = g \/ pending[k] = g

\* What a login was given and has not stored is nowhere else.
Handed == {p \in Procs : run[p].op = "login" /\ run[p].pc \in {"ask", "lock", "clear", "write"}}

HandedInv ==
    /\ \A k \in Keys : file[k] <= issued /\ pending[k] <= issued
    /\ \A p \in Handed :
         /\ run[p].hand \in 1 .. issued
         /\ \A k \in Keys : ~Holds(k, run[p].hand)
         /\ \A q \in Handed \ {p} : run[q].hand # run[p].hand

\* A good grant in two namespaces, parked or not, is a move's copy.
SharedInv ==
    \A j, k \in Keys, g \in Grants \ spent : j # k /\ Holds(j, g) /\ Holds(k, g) =>
        \E p \in Procs :
            /\ run[p].op = "relocate" /\ run[p].probe = g
            /\ \/ run[p].pc \in {"failed", "dead"}
               \/ run[p].pc \in HoldingBoth /\ {j, k} = {Unknown, run[p].to}

\* Who answers for a credential without a record.
Answers(p, k) ==
    /\ k \in Touches(p)
    /\ \/ run[p].op \in {"login", "relocate"} /\ run[p].pc \in {"config", "update", "failed", "dead"}
       \/ run[p].op = "relocate" /\ At(p, "erase") /\ k = Unknown
       \/ run[p].op \in {"remove", "import"} /\ At(p, "done")

RecordedInv ==
    \A k \in Keys : Current(k) # None /\ ~IsOwned(k) => \E p \in Procs : Answers(p, k)

IInv == /\ TypeOK
        /\ ConfigInv
        /\ ProcessInv
        /\ HandedInv
        /\ SharedInv
        /\ RecordIsReadable
        /\ RecordedInv
=============================================================================
