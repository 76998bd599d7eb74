# A verification of agctl in TLA+

agctl keeps the logins of several Claude Code and Codex accounts, asks each provider how much
of its quota is used, refreshes the logins when they expire, and switches which account is the
live one. It shares the files and keychain items it works on with programs that know nothing of
it. These modules model the parts where that is hard, check them with TLC and prove theorems
about them with TLAPS.

    tlc -config CodexRefresh.cfg MCCodexRefresh      # a run: see "Runs"
    tlapm CodexRefreshProofs.tla                     # proofs: see "What is proved"

`PROJECT.json` lists the components, the runs, the code lines each definition stands for, the
findings, the hazards, the theorems, and for each property a mutation of the code's model that
breaks it.

## The system

| component | state | operations | meets | what is hard |
|---|---|---|---|---|
| Codex refresh protocol (`provider/codex/refresh.rs`, `auth_store.rs`, `secret/pending.rs`, `secret_file.rs`, `namespace_lock.rs`) | per account: `auth.json`, a pending pair, staged temporaries, a refresh marker, a lock file | refresh before expiry, after a 401, the user's re-send, install a login, remove | other agctl processes through the lock, Codex through `auth.json` with no lock, the token host | one POST spends the grant it carries; its answer may be lost; a crash between any two writes |
| Codex status pass and floors (`commands/codex/status.rs`, `pass.rs`) | the marker's times and counters | pre-pass, row, usage request, 401 post-pass, reset, re-send | the refresh protocol, another pass over the same account | what is decided with the lock released may be stale; when to stop asking |
| Pass runtime (`runtime/`, `commands/watch.rs`, `tui/mod.rs`, `export.rs`) | threads, child table, emergency registry, terminal, cancellation | start, answer and cancel a pass, kill and reap children, clean up, quit, die of a signal | every pass, `security(1)`, the user | detached threads, two tables for one child, several cleaners, a signal at any instruction |
| Claude Code lock protocol (`secret/claude_lock.rs`, `held_locks.rs`) | three nested directory locks, the record of held locks | plan, probe, sample, break a stale lock, take, hold, release, `doctor --remove-stale` | Claude Code, which beats on its locks, other agctl processes | judging a lock stale without a clock in common; a signal while holding |
| Live swap (`commands/use.rs`, `provider/claude/swap.rs`, `adopt.rs`, `secret/keychain_write.rs`) | the live keychain item, two files per namespace, `~/.claude.json` | `use --live`, `--undo` | the lock protocol, Claude Code, `status`, `login`, other runs | a credential is read, identified, filed, refreshed and replaced in three phases with a prompt between; any write may fail |
| Audit log and namespace swap (`secret/audit.rs`, `commands/use.rs`, `adopt.rs`) | the append-only log, a namespace's item, its file, its adopted copy, its pending write | `use --live` of a namespace's item, its `--undo`, what the log selects | live swaps, `status`, sessions, whoever replaces the log | nothing locks the log; a torn line; where the displaced credential is kept while the item is written |
| Claude refresh and usage cache (`commands/status.rs`, `secret/file_store.rs`, `usage/cache.rs`) | a namespace's file or keychain item, a pending write, the cached answer and rate-limit window | discover a row, fold in a pending write, refresh a file under the lock, refresh a keychain item in place, ask for the usage | Claude Code sessions, logins, swaps, other passes | a POST before the write is certain; what was listed may have moved |
| Registry and account management (`config/`, `commands/accounts.rs`, `login.rs`, `import.rs`) | the registry file, the namespaces | login, import, remove, relocate, forget | every command | read, change and write under a lock; directory and row must agree; three locks in turn |
| Codex login and import (`commands/codex/login.rs`, `import.rs`, `accounts.rs`, `provider/codex/login_child.rs`, `proof.rs`) | a scratch home, `scratch.lock`, the keychain's `Codex Auth` items | run `codex login` as a child, verify, install, record, discard; sweep stale homes | the child and what it leaves running, other Codex homes | the child writes where it likes and may outlive its end |
| Sessions and `.claude.json` (`provider/claude/claude_json.rs`, `secret/config_lock.rs`, `commands/isolate.rs`, `export.rs`) | `.claude.json`, its lock directory, backups; a session directory | rewrite the account after a swap, catch up; build, seed, start, forget | Claude Code, which writes the file whole, under the lock or without it | a lock reclaimed while its holder is stopped; two builders of one directory |
| Doctor | none of its own | report, `--remove-stale` | the lock protocol | see above |
| Codex watch, doctor, usage; keychain readers and discovery; command line and rendering | none | run `security(1)`, classify, parse, print | the runtime's child table | no protocol state |

What makes each component correct:

- *Codex refresh*: no grant that a POST may have spent is sent again unless the user says so,
  and then once; whatever dies where, the disk accounts for every grant without an answer; a
  writer never replaces a newer grant of another writer; every command ends.
- *Floors*: after a refresh that did not help, the next waits an hour, then two, then four, and
  after the third there is none; the token host's own waiting time is kept.
- *Runtime*: passes do not overlap; a cancelled run ends whatever is stuck; a signal leaves no
  registered child, and its status is the process's; a raw terminal is always given back.
- *Locks*: a lock whose owner is alive is never broken; a live peer's lock is never removed;
  every leaked lock is explained by a record.
- *Swaps*: the displaced credential is filed in its own account's namespace or the swap is
  refused; what is installed is not spent; `~/.claude.json` and the audit log are right about whose
  it is; `--undo` reverses the newest swap that stands, and loses nothing while it does.
- *Claude refresh*: no step of a pass loses the last copy of a good refresh token without saying so;
  the log is true of every refresh in place; a rate-limit window survives the passes.
- *Accounts*: no update of another process is lost; what the registry says agctl owns can be read,
  and what is stored is found again; no two namespaces share a grant.
- *Codex login*: what is installed belongs to the account it is installed for; no sweep removes the
  home of a login that is under way.
- *Sessions*: a rewrite never replaces what it has not read; no lock of somebody else is removed; a
  directory is seeded once.

The hazards this leads to, each at its line, are under `hazards` in `PROJECT.json`.

## Modules

| module | content |
|---|---|
| `CodexRefresh` | the refresh protocol over one namespace; its properties |
| `GrantSend` | the abstract promise: when a grant may be sent |
| `CodexRefreshInvariant`, `CodexRefreshProofs` | its inductive invariants `IInv` and `Lineage`; theorems |
| `CodexPass` | the status pass with a clock: floors, waits, counters |
| `PassRuntime` | one process: watch loop, passes, exec, registry, signal thread |
| `ClaudeLock` | the directory locks shared with Claude Code; `doctor --remove-stale` |
| `ClaudeLockInvariant`, `ClaudeLockProofs` | its inductive invariants `LockInv` and `WriteInv`; theorems |
| `LiveSwap` | `use --live` and `use --undo` of the live item |
| `LiveSwapInvariant`, `LiveSwapProofs` | its inductive invariant `SwapInv`; theorems |
| `LogFile` | an append-only file: opening, torn lines, what a reader parses |
| `AuditLog` | the runs as the audit log sees them, and what `--undo` selects; composed below |
| `NamespaceSwap`, `NamespaceSwapProofs` | `AuditLog` together with the credentials: `use --live` and `--undo` of any item; theorems of both |
| `ClaudeRefresh`, `ClaudeRefreshProofs` | a `claude status` pass over one account, and the usage cache; theorems |
| `Accounts`, `AccountsProofs` | `login`, `import`, `accounts remove`, `relocate` and `forget` over registry and namespaces; theorems |
| `CodexLogin`, `CodexLoginProofs` | `codex login` with its child, `codex import` and `codex accounts remove`; theorems |
| `ConfigFile` | `.claude.json` and the lock beside it; composed below |
| `Sessions` | `ConfigFile` together with the session directories of `use`, `exec`, `use --forget` |
| `PassAndSessionProofs` | theorems of `PassRuntime`, `CodexPass`, and `Sessions` with `ConfigFile` |
| `MC*` | symmetry or bounds for TLC |

The other modules end with their inductive invariant: `IInv` in `PassRuntime`, `ClaudeRefresh`, `Accounts` and
`CodexLogin`, `MarkerInv` in `CodexPass`, `SessionsInv` in `Sessions`, `LogInv` in `AuditLog`, `SwapInv` and
`KeptInv` in `NamespaceSwap`. `PassRuntime`, `CodexPass` and `Sessions` are proved about in one module, so no two of
them use a name for two things: hence `PassSpec` and `SessionsSpec`.

`LiveSwap` and `NamespaceSwap` both have a live swap. `LiveSwap` has it in full, with the refresh's
write-back, the hold, clock and `~/.claude.json`; `NamespaceSwap` has the part the two kinds of swap share, the
log's lines and the pending files. Each has its own theorems.

### CodexRefresh

Each step is one system call on shared state, or one decision of the code between two of them.
`auth`, `pend`, `meta`, `tmps` and `marker` are the files of a namespace; `lock` is the holder of
its flock; `pc` and `loc` are the place and the locals of each process. Tokens are numbers in the
order the token host issues them, so "newer" is an order. A document is its refresh token and its
access token; everything else in `auth.json` is carried along and abstracted. `open` and `from`
are history: the POSTs of each grant nobody has answered, and the grant each token was rotated
from. They never guard a step.

`Acquire` and `GiveUp` are `lock_at`. `Resolve` to `UnlinkMeta` are what every locked run does
first with a pending pair. `ReadAuth` to `Gate` are `Driver::drive`'s decisions, `Snapshot` and
`WriteMarker` the last look and the durable marker before `Post`, whose outcome is any the token
host and the network allow. `SettleUnsent`, `SettleUnclear`, `SettlePermanent` and `SettleApplied`
are the four ways to settle; `MergeBase` to `Reread` write the rotated grant in at most
`Attempts` attempts, `ParkStage` to `ParkPending` park it, `Landed` and `MarkWriteFailed` end
it. `Install*` is the write of a login, `Remove*` a removal. A marker store that reports an
error may have been written or not, because the code cannot tell a failed flush from a failed
rename. `Crash` drops the lock and the locals at any step. Codex (`Ext*`) truncates, fills and
deletes `auth.json` at any time.

The time rules are only "the gate may refuse" here; `CodexPass` has them. The inode checks of
the lock file, file modes, the directory walk of a removal, audit lines and registry rows are
left out.

### CodexPass

A refresh is one step here, with the outcomes the first module details, because it runs under
one lock from its first check to its last write. What happens with the lock released is a step
of its own: `ReadRow`, `Answered` (the usage request), `Settle` (what the retried request said,
under a lock taken again). Two passes, the user (`ResetFloor`, `Resend`, `Login`) and Codex run
beside each other, and `Crash` ends a pass anywhere. The clock counts hours, the unit of the
floors: a floor of an hour is one tick, so "before" and "at" are told apart.

### PassRuntime

One process, `watch` or `exec`. A slot is a pass thread with its coordinator; nobody joins
either, so a slot is free only when both ended. `main` is the main thread: the loop's head
(`SeeCancel`, `StartPass`, `StartFails`, `NothingDue`), its tail (`NoKey`, `KeyRefresh`,
`KeyQuit`, `LoopFails`), the quit (`QuitCleans`, `QuitRestores`), the terminal (`Enter`,
`RawMode`, `Leave`, `Unarm`), or exec (`OpenWindow` to `WaitChild`). A worker takes jobs
(`TakeJob`) that spawn a child, stage a file or do neither. The watchdog kills what the pass's
table holds. The emergency registry (`entries`, `paths`, `armed`) is drained by `EmergencyTake`
and acted on by `EmergencyRestore`, two steps because the mutex covers only the first. The signal
thread announces, cancels, looks at the spawn window, takes children, kills, cleans up and ends
the process (`Signal` to `SigRestores`).

Time is an order only: a deadline or a budget may be over at any step, and an interval is over
after the deadlines of the passes before it (`pass_deadline` is the interval, counted earlier).
Left out: a child whose start time cannot be read, the child discovery runs outside a pass, the
log writer, the limit of the exit deferral (30 s), a schedule that overflows, what a job does.

### ClaudeLock

`lock` is the nested directories, outermost first: who made each, and whether its modification
time is past its staleness window. The module has no clock. Every comparison of two modification
times in the code asks whether a directory was touched or made anew in between, so `same[a]` is
the set of locks that were not, since agent `a` read or made them: the heartbeat samples, the drift
check and the doctor's samples all read it. Twelve seconds are long enough for a running Claude
Code to beat: `SampleB` and `SecondSample` are not possible before it did, unless the run is
cancelled.

`Probe` to `Break` are `acquire_with`'s first step with `resolve_stale_with` in it, one system
call each; `Retaken`, `Primary`, `Contend` are its second, `Record` its third, `Take` and `Undo` the
`mkdir`s with `release_all` and the restart. `Arm`, `Check`, `Write`, `Release` and `Unarm` are a
hold. `Emergency` and `EmergencyRelease` are the closure of the cleanup registry, which runs in
another thread beside the hold. `Permit` to `Remove` are `doctor --remove-stale`. `Peer*` is Claude
Code, external: it takes, beats, breaks and gives back. Processes may be stopped and go on late, an
agent may die anywhere, the machine may sleep, after which every lock looks old. `rmdir` removes
whatever bears the name, which is the point of the module. The record is one per hold; a late
emergency release removes its own hold's record only (`undoing[a].own`).

`lapsed` is history: an agctl was stopped, slept or began an emergency release in a hold, or a
removal met a lock that had changed after its last sample. The code accepts both (the hold budget is
checked before the write, not during it; `claude_lock.rs:1674-1676`), so `WriteUnderLocks` excepts
them and `CheckSeesAll` says what is promised even then. A release's `rmdir` does not fail here. In the code its
error is swallowed and the record goes all the same (`claude_lock.rs:1118-1121`, `1430-1431`, `1547-1551`). For
a directory that is gone already, or that is another's by now, that is what the model does; an I/O error, or a file put in the directory,
would leave a lock with no record to name it, which `LeakExplained` does not cover. The `rmdir` of a break
does fail. Left out: the walk to the directories, the
`.claude.json` lock (`ConfigFile`), the clocks' arithmetic (a clock jump is a nondeterministic `Abandon`), the
figures of the hold budget, which paths `--remove-stale` accepts.

### LiveSwap

A credential is a number, in the order the token host issued it; `owner` says whose each is. Its
expiry grows with the number, which is all the code's comparisons of expiry times see of it (a
login in a browser while an older login of the account lives on is the exception the namespace's
two files are for). `clock` is the newest credential that has expired or is within agctl's margin
of it. `item` is the live keychain item, `home` and `parked` the two files of each namespace
(`.credentials.json` and `.credentials.adopted.json`), `moved` the keychain item a session moved
`home` into, `log` the live writes in the audit log, `name` the account in `~/.claude.json`.

A run is one sequence of steps through `swap_phases`: `StartForward` or `StartUndo` (`select_undo`
and `live_reversal`), `ReadItem` (the read and `identify`), `ReadIncoming`, the namespace locks in
order (`TakeNamespace`), `Decide` (`decide_adoption` with the matrix of `adopt.rs`, before the prompt),
the refresh and its write-back (`SkipRefresh` to `SaveFails`), `Adopt` (the server's check of the
installed credential and `perform_adoption`), then `phase_c` under Claude Code's locks: `TakeHold`,
`Reread`, `Write`, `WriteFails`, and outside them `Applied` or `Unknown`, and `Config`. `CatchUp` is
what a run does that finds nothing to swap. Every early return is `Refuse`, which may also be taken
where the code could go on: a prompt that is declined, a read that fails. A write that times out may
have landed or not. Claude Code's locks are one holder here; `ClaudeLock` is about how they are
taken and what breaks them. A session refreshes a credential only once it is within agctl's margin of
its expiry, and takes those locks to write the item.

`given` is history: the credentials given up by a rule of the code. They are those a login replaces, a
refreshed pair that could be saved nowhere, an older parking of a live swap under a newer one, an
older copy of an account's credential under a newer one, and what the matrix discards. `Kept` is
about all others. Left out: swaps of a namespace's own item, pending files and a log that tears or cannot
be opened (`NamespaceSwap`), logout, refreshes of the credential that `moved`, and a write that lands after
agctl gave it up.

### ClaudeRefresh

One account of which agctl owns the login, in a namespace whose credential is in `.credentials.json` (`file`)
or, once a session moved it there, in a keychain item (`item`). `grant[c]` is the refresh token a
credential carries: a refresh may rotate it or give it back. `Discover` lists the row and says where
its credential is; `Acquire` to `Settle` take the lock, look for a session and fold a parked write in
(`resolve_pending`); `Snapshot`, `Post`, `AskPlan`, `LastLook` and `WriteFile` are the refresh of a file,
with its parking when the rename fails; `CheckOwner` to `Confirm` the refresh in place, which POSTs first and
then takes Claude Code's locks (`Claim`), looks again (`Observe`), writes the item and reads it back. `Fetch`
asks for the usage or serves the cache, with the rate-limit window a `retry-after` set. `Cancel` is the
pass's deadline or a signal, after which the code's own `should_stop` tests decide.

Beside the passes: the session refreshes, saves and logs in; a login; a removal; a live swap of the
item. `log`, `landed` and `minted` are history. Left out: how Claude Code's locks are taken
(`ClaudeLock`), the bytes of a credential, several accounts (a pass treats each by itself), the
keychain item of Claude Code's own that is never refreshed.

### Accounts

One person's accounts: keys are organizations, and `Unknown` is the `_unknown-org` a login without one is
filed under. `registry` is what `config.json` says, rewritten whole under `config`, the configuration lock;
`file`, `pending` and `adopted` are each namespace's stores, under `lock`. Each command is its sequence
of steps: a login from `Authorize` to its record; an import from `Plan` on, namespace by namespace;
`relocate` with both locks, its copy, its check of the server's answer and its removal; `remove` with or
without `--delete-secret`; `forget`. `status` refreshes and parks, and `use --live` files an adopted
copy, as steps of the environment. `Faults` are a crash, a parked write, a write that fails and a refusal.
Left out: the contents of an account's row, the Codex rows, the rename of an account's label.

### CodexLogin

Each process runs one command. `lifecycle` is `scratch.lock`; `home`, `child` and `left` are a
login's scratch home, its child, and whether anything the child started lives on. `TakeLifecycle`,
`Sweep`, `List` and `Create` come before the child, `Wait` or `GiveUp` end it, `Survey` and `ListAgain`
look at what it did to the home and the keychain, and only `Verify` reads its credential. `Ask` is the
question where an owned account would be replaced, `Install` to `Record` store it under the namespace's
lock, `Discard` and `Unlock` end every path. `LeftWrites` may write another credential in the home
at any time; `OtherHome` is a login in a Codex home that is not agctl's, which makes keychain items too.
`Signal` ends the process through the cleanup registry, `Crash` without it. `owes` is history, for
`StoredIsOwned`: the stored grant a login has yet to record, or over which a removal took the record. A process
answers for that grant alone: a failed login does not excuse what an import or a later login does. Left out: what the child
prints, the fields of the document `Verify` compares, the descent into the home's directories.

### ConfigFile and Sessions

`ConfigFile` is the rewrite of `~/.claude.json` after a swap and its catch-up, from the preflight
(`Preflight`, `Ask`, `Resolve`) through the one-`mkdir` ladder (`Acquire`) and the `stat` and registration after it
(`RecordTime`) to the terms of the hold (`ReadUnderLock` to `Rename`, `Withdraw`, `RemoveLock`), each of which
starts only within the hold's budget. A document is the account it names, whether the caches of the account before
are in it, and a version of the rest. The lock's age has three values: fresh, past agctl's budget, past what a
session reclaims; `overdue` is the rewrites past their own budget, which counts from their `mkdir`. `stamped` is those whose
recorded modification time the lock still has, which is all the drift check asks: a rewrite stopped right after its
`mkdir` may record the time of a session's lock. A Claude Code session takes the lock and beats it, or writes
without it, and reclaims a stale one; `Emergency` runs the cleanup registry's closure beside the hold. `raced` and
`broken` are history: a rewrite past its last look when a document was written that its looks do not see, and
those of agctl whose lock a session has reclaimed.

`Sessions` EXTENDS it with the session directories: `Begin` to `StartChild` of a `use`, which looks at each name
(`Link`) and then makes the link (`Symlink`), so that of two at the same name one fails; its seed is read
under the same lock where it is free (`TryOnce`) and otherwise twice until both reads agree (`FirstRead`,
`SecondRead`), and is made by `create_new` and then written (`OpenSeed`, `WriteSeed`); `Remove` and `RemoveDir`
remove entry by entry. Left out: what the links point to, `exec`'s child (`PassRuntime` has it),
symbolic links above the directory.

### LogFile, AuditLog and NamespaceSwap

`LogFile` is a log: a name, the files that have been at that name, their lines, and the parts of entries in
each. `Extended` appends where the file ends now, so that a torn entry and another's share a line, and
`Parses` says which lines a reader can use. `AuditLog` runs the commands over it: `StartSwap`,
`StartRefresh`, `StartUndo` with `Selected` (`select_undo`), `Gate` (the log is opened before the item is written),
`WriteItem`, `Write1` and `Write2` (an append that may be torn), the config entry and the lock-break
entry, `Refuse`, `Crash`, and `Tamper`, somebody who replaces the log or its mode.

`NamespaceSwap` EXTENDS it: each action is one of `AuditLog`'s together with what it does to the
credentials. `store`, `copy` and `parked` are an account's `.credentials.json`, its adopted copy and its pending write
with what that says it replaces; `spent` what the server has rotated away. `Decide` is the matrix of
`adopt.rs`, `Post` and `Save` the refresh of the incoming credential and its write-back, `Adopt` the copy or
the parking of the displaced one (`plan` is what a run has in hand for this, and `NoPlan` once it ended), `AfterWrite` the rename of the staged copy, the removal of a first write's file
and of a live undo's second copy. `status`, sessions and logins change the same stores. Left out: the
hold's locks and `~/.claude.json`, which `LiveSwap` has, refusals for a log that cannot be opened beyond
its mode and its type.

## Runs

| run | instance | shows |
|---|---|---|
| `codex_crash_recovery` | 1 process that dies and restarts, 3 tokens, re-send, install, Codex | no automatic re-send; the disk accounts for every lost grant; one consented re-send; the parked pair; no newer grant replaced; `GrantSend` is implemented |
| `codex_commands_end` | 2 processes, 2 tokens, removal, Codex, fairness | every command ends and gives the lock back |
| `codex_status_passes` | 2 passes, 3 hours, after 0, 1 or 3 refreshes that did not help | floors, the terminal state, the token host's waits, the re-send's wait |
| `process_ends` | `watch` or `exec`, 2 slots, 1 worker, 1 job, key and signal, fairness | passes do not overlap; the terminal; `r` is kept; what a signal leaves; the status; that the process ends |
| `lock_alone` | 1 agent, 1 peer, 2 locks, 1 restart, everything, fairness | who owns the locks at a write; that a leak is explained; no beating lock broken; every command ends |
| `live_swap` | one process with 1 to 3 runs, two with one each; 2 or 3 accounts; session, `status`, `login`, crash | no credential lost; each at home; what is installed is not spent; `.claude.json` names it |
| `claude_refresh` | 7 histories of 1 or 2 passes over the file or the item | no grant lost but where it is said; the log is true; the rate-limit window is kept |
| `accounts` | 2 processes, each with any of 8 orders, 2 keys, 3 grants, all faults | registry and stores agree; no shared grant; no lost update |
| `codex_login` | 2 processes, each with a login, removal or import, one of them in bad luck; 2 accounts, 3 grants | what is installed is the account's; what is stored is recorded, or owed by the very command that stored it; no sweep of a living login |
| `sessions` | 1 rewrite and 2 sessions, or 1 `use` and 1 session, or 2 `use`s and a `--forget` | no document replaced unread; no lock of another removed; seeded once |
| `namespace_swap` | 2 processes, the live item and one namespace's, 3 accounts, 10 mixes | the log's order; what `--undo` picks; neither the outgoing nor the restored credential lost |
| `first_write` | 1 swap of a namespace without an item, 1 refresh of its file | what the code does against what it says: see "Findings" |

The bounds. Under a namespace lock a second process adds only a wait, which `codex_commands_end` has, so
`codex_crash_recovery` spends its states on a third token: two are a rotation, three a rotation parked or
lost and another on top, or a login beside it, and a crash makes one process as many as there are restarts.
`CodexRefresh.cfg` is the same with two processes and two tokens. `CodexPass` starts with the past as a
parameter (`Unhelped`): three hours are enough for the floor of an hour, for the two hours after one refresh
that did not help and for the step to four; after three it starts in the hour the last floor ends, when only
the terminal count still refuses. Two slots are a coordinator that outlived its pass beside a new pass; a third
would be a second leftover. One worker and one job are what a signal, a watchdog or a quit finds running;
`WatchPasses.cfg` has two of each, for the passes alone. Two nested locks have everything three have: an outer one
that is waited for, an inner one that is not, an order. One agent has restarts, stops and cancellation with the
peer as the other owner; `LockTwoAgents.cfg` has two agents and the peer. Runs that check liveness use no symmetry.

Everything at once is out of reach for the larger modules, so their runs are sets of histories, each with its
processes, stores and what may happen beside them. `live_swap`: one process swaps twice beside logins
and a crash, or beside a session and a migration, or three times with a refresh between; two processes swap
at once over two accounts with everything beside, or over three with nothing; each starts before any
swap or after one that is over, so that two more reach an undo of an undo. `namespace_swap`: two swaps and an undo
with a refresh of what goes in, a torn append, or a death; a swap and two undos; swaps with a session's writes,
a rename that fails, somebody at the log, or `status`. Three accounts are the store's own, the incoming and a third
whose credential is displaced; the live store is the second store for the log. `claude_refresh`: two passes over the file beside a
session and a crash; one after another with a parked write, or beside logins; two over the item beside a
session and a swap; one with everything that can fail; an item the registry does not predict; and the cache
under a clock. Two keys and three grants in `accounts` are a login, another at the other key and one more on
top; the fourth would be a grant like the third. In `codex_login` one process has the faults and the other is
the one whose account must not suffer.

Deadlock is checked in the Codex and the lock runs, whose commands can always be started again. Elsewhere the
process ends or the history's bounds are spent, and the configurations say so.

Fairness. In `CodexRefresh` it is weak fairness of each running command: the operating system
runs it. No command needs a crash, a new command or Codex for its end, so none of these is fair.
The time a lock is waited for is bounded in the code, so `GiveUp` is part of the running command.
In `PassRuntime` the threads run and deadlines and intervals pass; jobs are not fair, because a
job may hang in a request or on a lock, nor are children, keys or signals: `CancelEnds` holds with
just that. In `ClaudeLock` it is weak fairness of an agent's work and of a peer's heartbeat while both run: a
process that is stopped need not go on, and a peer need not take or give back anything. `Accounts` and
`CodexLogin` state `FairSpec` and their own `CommandsEnd` for use with it: a command that can go on does, the
user's answers included, and no child need ever return.

Some configurations belong to no run. `CodexRefresh`, `LockTwoAgents` and `WatchPasses` are the other
instances named above; the first two also check `IInv` and `WriteInv`, the invariants the proofs rest on. The
rest violate their one property: see "Findings". A module also states its `TypeOK` and some properties no run
lists, which hold in the same instances: `ServerFloorKept`, `ResendOnlyWhatIsLost`, `ReplacesItsOwn`, `StoredGrantKept`,
`NothingLeftBehind`, `ReplacedWhenAsked`, `GainedIsNamed`, `StartsComplete`, `LiveIsTold`.

## Findings

Where the code does other than a document, a comment or a message of its own says. The first has a run; the
next ones have a configuration that violates the named property in a second.

- `first_write`: the first write into a namespace parks what it read of `.credentials.json` before it had the lock and
  removes the file unread once the item is written (`use.rs:2551`), as "a second copy". A refresh in
  between made it the only copy.
- `CodexRemoveCrash.cfg`: a removal that stops half-way can leave a spent grant and no record of it.
- `DoctorCancelled.cfg`: `--remove-stale` interrupted in its twelve seconds takes the second sample at
  once and removes the lock of a holder that had no time to beat. A machine that just woke from
  sleep is enough for the lock to look old. The break rule of an acquire ends as cancelled there.
- `UndoAgain.cfg`: an undo that refreshes an expired parked credential puts the new pair in its place. If
  the write of the item then fails, agctl says the rollback can be run again; but `--undo` looks for
  the old one by its digest and finds nothing. The credential is not lost, it is in the parked file,
  but no `--undo` puts it back.
- `CancelledWrite.cfg`: a keychain write that a signal cuts short is recorded as failed
  (`keychain_write.rs:406`), which by `status.rs:1878-1883` means the item was not touched; the killed
  `security(1)` may have written it.
- `ImportOverwrites.cfg`: an import checks each account against the registry it read before the namespaces' locks, and
  records it over one a login made since (`import.rs:96-118`); "an import never overwrites what you have"
  (`import.rs:19-25`).
- `RelocateParked.cfg`: a relocation copies the source's file and removes the namespace with the
  parked write in it (`accounts.rs:740`), whose grant is the live one; `accounts.rs:583-590` rules that out.
- `CodexLoginNames.cfg`: the items a login "gained" are those of the second listing that the first had not
  (`codex/login.rs:370`), another Codex home's among them; agctl's README (664-671) says the child's.
- `ReleasedAfterReclaim.cfg`: a run stopped past the reclaim age whose hold a session took over removes, by name, the
  session's lock when it goes on (`config_lock.rs:210`), against `config_lock.rs:19` and agctl's README (832).

Others, met while modelling and without a configuration. A plain `status` can lift the terminal 401 state once
the access token has expired (the pre-pass does not ask for it, `refresh.rs:510-534`, and the answer that
follows resets it), which agctl's README reserves for a login and `--reset-floor`. The watchdog of a
pass is part of the scope it is said not to hold open (`coordinator.rs:491`, `529-531`), so a pass
that finished keeps its coordinator until its deadline, which then cleans up for the whole process.
With `"access"` in `Codex`, `NoAutomaticResend` is violated: a parked grant is thrown away because Codex stored a
new access token next to the refresh token the parked one had replaced (`pending.rs:357`), and the next pass
sends the replaced one. `security(1)` and `codex login` are spawned without the spawn window that
`cleanup.rs:182-184` says every such spawner uses, so the signal thread may end the process while one of them
lives. An audit entry is "written with a single `write`" and is to survive the crash that follows
(`audit.rs:577-580`), but `write_all` goes on after a short one (`audit.rs:712`): another's entry may land
in between, or begin the line, and then neither is read. A seed is made with `create_new` and then
written, so a second `use` may start its child beside an empty one (`isolate.rs:653-682`; `StartsSeeded`).
The time that the drift check compares is said to be the one "recorded at `mkdir`" (`config_lock.rs:154-156`), but it is read
by a `stat` that follows (`config_lock.rs:395`): a rewrite stopped in between may take a session's lock for its own.

Of the swaps: a live swap that waited for the namespace parks a credential over a newer one parked meanwhile;
the row of `adopt::decide` for one namespace overwrites another account's only copy; `perform_adoption` takes
a write parked for the next `status` as adopted, where nothing was there before, and `resolve_pending`
discards it later; a namespace's undo that refreshed its parked credential and whose write then fails has
lost the new pair, while its note says that nothing was lost (`use.rs:2456-2457`); a forward write that failed
says `--undo` recovers the outgoing credential (`use.rs:2448`), but `--undo` passes over failed writes; two
undos at once may reverse the same swap. `Kept`, `OutgoingIsKept` and `RestoredIsKept` name what they except
(`given`, `Stands`, `spent'`).

The proof of `OutgoingIsKept` needed one case more, which the run's bounds do not reach. Claude Code, which takes
none of agctl's locks, may refresh the displaced credential between a run's read and its parking. What is parked
is then spent, and it may replace the one credential of that account the server still honours: the matrix goes by
expiries, so it replaces an honoured one of an earlier login, and a live swap's parking replaces, by the log, what an
earlier live swap parked. `Stands` excepts both.

## What is proved

Each proof goes along an inductive invariant: it holds initially, every step keeps it, and it implies the
property, or with one step the action property. TLC checked each of them on an instance before it was proved; to repeat
that, add `INVARIANT IInv` to the configuration of the run. The theorems hold for every value of the constants
that the named assumptions of the modules allow, which are said below where they are more than that distinct kinds of
process are distinct and bounds are numbers.

### CodexRefreshProofs

`TypeCorrect`: `TypeOK` holds for any processes, any number of tokens, any commands and any behaviour of
Codex. The inductive form is `TypeInv`: `TypeOK` and `Shape`, which says what each local holds by the step
that uses it. Without `Shape` the step that reads a local could not be typed.

Then `MutualExclusion`, `NoResend` (`NoAutomaticResend`), `OneResend` (`OneConsentedResend`), `AlwaysCovered`
(`Covered`), `SendRecorded` (`SendIsRecorded`), `KeepsPromise` (`CodexRefresh` implements `GrantSend`),
`ParkedFromWhatItReplaces` (`ParkedIsSuccessor`) and `KeepsNewerGrant` (`NewerGrantKept`).

`MutualExclusion`, `SendRecorded` and `KeepsNewerGrant` assume nothing: they hold with every command and
everything Codex is modelled to do. `ParkedFromWhatItReplaces` assumes that no removal runs
(`"remove" \notin Commands`), as a removal may unlink the metadata before the grant. The other four also assume that
Codex does not store a new access token beside a parked grant's predecessor (`"access" \notin Codex`). Each of them needs
both: with either left out TLC finds all four properties violated, as a parked grant is then lost or discarded and the
spent one in `auth.json` is sent again (`CodexRemoveCrash.cfg`, and the note on `"access"` above).

`NoAutomaticResend` is not inductive: whether a POST is safe depends on the marker, on what the
marker knew before a crash, and on what a pending file says of `auth.json`. `IInv` adds that.
`Covered` says of every file state that a spent grant in `auth.json` is named by the marker, or has
its successor parked beside it. `Fresh`, `FilesIssued` and `ParkedUnsent` say that a token nobody
sent has no open POST and that what is parked is such a token. `ResendRecorded` ties the user's
re-send to the marker. `Mutex` gives the holder sole use of the files, but for Codex. `Knows(p)`
says, step by step, what the holder knows: that the grant it read is still the file's or the
file has moved on to an unsent one, what the marker names, what is unsettled, and what was parked. The
proof has one case per action and one part per conjunct the action can disturb; `SafeStep` is its
main lemma, and the refinement in `KeepsPromise` maps each step to a step of `GrantSend` or to a
stutter from the same invariant. TLC checks `IInv` in `CodexRefresh.cfg`.

`SendIsRecorded` is inductive with `TypeInv` and `Mutex` alone (`RecordStep`). The last two theorems are about which grant a
token was rotated from, which `IInv` does not say. `Lineage` does: what a run is about to write comes
from the grant it read (`Derives`, with `Given`: the token of an answer already given, so that no later answer
changes where it came from); what it is about to write over is that grant or one no answer to agctl brought
(`Foreign`); and what is parked beside its metadata is the successor of what the metadata names
(`ParkedFrom`). With `TypeInv` and `Mutex` it is inductive (`LineageStep`, `LineageAlways`), without `IInv` and so
without its two assumptions. TLC checks it in `CodexRefresh.cfg`; with every command and everything Codex does it
checked `Lineage`, `SendIsRecorded` and `NewerGrantKept` for one process and three tokens (3,833,780 distinct states)
and for two and two (1,136,940).

### ClaudeLockProofs

`ClaudeLockProofs` proves every safety property of `ClaudeLock`, for any number of agents, peers,
nested locks and restarts, any of the commands and whatever happens beside them; it assumes only
that the processes are distinct and the bounds are numbers. `LockInv` carries `TypeOK`, `OneBreak`,
`WaitsHoldNothing` and `LeakExplained`: a directory of an agent is one it took and has not given back,
and its record is on disk, or the agent is dead and its record too (`OwnedIsTaken`). For that the
record must be there before the first `mkdir` (`RecordFirst`), and an emergency release may remove
the record only of its own hold and only after the last directory (`UndoingInOrder`), which it can
since it is not registered before everything is taken (`ArmedIsTaken`). `WriteInv` adds what
`WriteUnderLocks`, `CheckSeesAll` and the two `SparesTheBeating` rest on: what was sampled and not
touched since is still past its window (`ReadIsOld`) and, once waited out, is nobody's who beats
(`WaitedOut`); what was made and not touched since is still the agent's (`MadeIsOwn`); the hold has
everything (`FullyTaken`); and, until something lapses, no directory of an agent is past its window,
so nobody who only removes stale ones removes it (`NoLapse`). The proofs have one lemma per action
for `LockInv`; for `WriteInv` they go by what a step may do to one directory (`LockChanges`), to what
an agent finds the same (`FaithfulStep`) and to its place (`SampledStep`, `OwningStep`). TLC checks
`WriteInv` in `LockTwoAgents.cfg`.

### LiveSwapProofs

`LiveSwapProofs` proves every safety property `live_swap` checks, for any number of processes, accounts
(at least two), commands and credentials, and whatever logs in, refreshes, migrates or dies beside them:
`SwapInvariant`, `NothingIsLost` (`Kept`), `FiledByOwner` (`FiledAtHome`), `InstallsTheLiving`
(`InstalledIsLive`), `ConfigNamesTheInstalled` (`ConfigNamesTheItem`). It assumes that the processes are
distinct from `NoProc` and that a history's bounds are numbers and known companions. `SwapInv` adds to the
properties, for each run, what it may rely on at its step: its locals mean what they are used for
(`LocalsOf`); the namespaces it needs are its own (`LocksOf`); what its decision would overwrite is nothing,
an earlier live parking or an older copy (`PlanOf`); once the decision is carried out the displaced
credential is in its own account's namespace, or given up or replaced there by others (`DisplacedOf`); the
credential to be installed is not spent unless a session had it in the item, and then the comparison fails
(`InstallOf`); and the item is what was compared or what was installed (`ItemOf`). `SpentExpired` says that
only an expired credential is refreshed, which is why an unexpired one can be relied on through a prompt.
There is one lemma for each action and for each thing that happens beside the runs; `BesideSound` carries the
runs that do not move through all of them. In the abstraction's favour count that credentials expire in the
order they were issued and that Claude Code's locks exclude (`ClaudeLock` proves it but for a lapse).

### PassAndSessionProofs: PassRuntime

`TypeCorrect`, `PassesNeverOverlap` (`PassesDoNotOverlap`), `TerminalGivenBack` (`TerminalCovered`), `ChildrenDie`
(`NoChildSurvives`), `SignalStatus` (`StatusIsTheSignals`) and `RefreshKept` (`RefreshKeyKept`): every safety
property of the run, for any number of slots, workers and jobs. `PassInv` says that the loop waits for every pass whose
workers run or whose answer it has not read, so that only what is left of a pass is beside the next one. `TerminalInv`
names where the terminal can be raw and who has the restore then; it needs that before the loop only the signal thread
takes it out. `TableInv` ties the pass's table of children to the registry and to who waits for them.
`CauseInv` traces every cancellation before the end of the loop to the signal thread. `DoomInv` and `SpawnInv` are about the
signal: the registered children it found are still registered, in its hands or dead (a child's name may not be taken
again by a job behind it), and a spawn window it has read as closed stays closed, so that `exec`'s child is
registered before the registry is taken or is never started, but for a spawn that outlasted the budget (`spent`).
The proof has a lemma per conjunct and in it a step per action. TLC checked `IInv` in `ProcessEnds.cfg` (620,530 states).

### PassAndSessionProofs: CodexPass

`PassTypeCorrect`, `KeepsTheFloor` (`FloorKept`), `WaitsToResend` (`ResendWaits`) and `KeepsTheServersFloor`
(`ServerFloorKept`, which no run lists), for any number of passes, hours and tokens and any waits. It assumes that the
bounds are positive (`BoundsAssumption`) and that the clock of a history with a past of 0 to 3 refreshes that did not help
has room for it (`UnhelpedAssumption`). The properties compare a send with `seen`, the history of what was sent and
answered; the code compares it with the marker, which is cleared and dated in several places. `MarkerInv` ties the two.
`FloorInv`: no recorded answer that did not help is missing from the marker's count, and the floor has grown with it.
`DateInv`: the marker's date is no earlier than the last POST, whatever cleared the rest of it. `ServerInv`: the floor the
token host named for the file's grant is the marker's. `SendInv`: a grant the marker names cannot come back to the file
after a later one, and what the user may re-send became unclear after its POST. With them each send follows from the gate
it passed, an hour being one tick. TLC checked `MarkerInv` in `CodexPass.cfg` (1,585,799 states).

### PassAndSessionProofs: Sessions and ConfigFile

`SessionsTypeCorrect`, `RemovesOnlyItsOwn` (`RemovesItsOwnLock`), `SeedsOnce` (`SeededOnce`) and `ReplacesTheRead`
(`ReplacesWhatItRead`), for any number of rewrites, `use`s, `--forget`s and sessions, any ladder and any number of attempts.
`RewriteOf` says that from its backup on a run is about a document that is kept, and that at its rename that document is
the file's, or somebody raced it; before its drift check, a lock whose time is not the recorded one will do as
well, because the check then refuses. `SeedInv` says that a seed to be written is the one its writer made, by
`create_new`, and that nobody else is to write it. `LockInv` is exclusion until a session has reclaimed the lock
from an agctl that was stopped in its hold (`broken`): whoever means to remove the lock has it, from its `mkdir` on. For that the closure may not be
registered before the hold begins (`Unregistered`). `raced` marks a rewrite that is past its last look at the lock when
the document is written, or past its last look at the file when whoever writes has no lock, or has one the rewrite
recorded for its own. The proof showed that one kind of writer was missing from it: another
rewrite whose own lock was reclaimed between its drift check and its rename. With two rewrites that one may write
over the first as late as a session that took no lock; the run, which has one rewrite, cannot show it. `Racing` now counts every
writer. TLC checked `SessionsInv` in `Sessions.cfg` (1,645,887 states).

### ClaudeRefreshProofs

`TypeCorrect`, `AuditIsTold` (`AuditTold`), `KeepsTheGrant` (`GrantKept`) and `KeepsTheWindow`
(`WindowOutlivesThePass`), for any number of passes, credentials and hours, with any of the companions
`Limits` names. `WayOf` says which store a pass at a given step works on, `Refreshing` what it may rely on: the credential
it refreshes is its row's, once there is an answer the old grant is spent or is the answer's too, what it holds the
namespace's lock for has no parked write, and the item it writes is the one it compared. `FreshInv` is the heart: an
answer that is not stored yet is nowhere but with the pass that asked. From it follow the log's truth (`LogInv`: what is
logged as discarded is nowhere) and that no pass drops another's answer. For `GrantKept` a step of a pass that
loses a grant is traced to the credential that carried it: it left a store or the pass's hand, so that another copy is left, the
grant is spent, or the step is one whose row or entry says so. `WindowOf` says that a row that asks is past the
window it read; forgetting a window needs one it did not read. TLC checked `IInv` in `ClaudeRefresh.cfg`
(1,121,723 states).

### AccountsProofs

`TypeCorrect`, `NoGrantIsShared` (`NoSharedGrant`), `RegistryAndNamespacesAgree` (`RegistryAgrees`) and
`UpdatesTouchTheirOwn` (`OthersRecordsKept`), for any processes, keys, orders, grants and faults. The first state may have
credentials stored already, of which there are no more than grants (`StartsAssumption`), and a finite number of keys.
`ConfigInv` is the registry's lock, with the registry read under it still the registry. `ProcessInv` gives each
command its step: which namespaces are locked, and for a relocation that the copy it means to remove is still what the
server knew (`MoveOf`). `HandedInv` says that what a login was given and has not stored is nowhere else, which is why
its write shares nothing. `SharedInv` and `RecordedInv` are the properties with everything that may be under way:
a grant in two namespaces belongs to a move, which has both locks or failed or died; what is stored without a record has a command
that answers for it. Parked writes count in `SharedInv`, and `RecordIsReadable` is the half of `RegistryAgrees` about
a record nothing can read. TLC checked `IInv` in `Accounts.cfg` (327,729 states).

### CodexLoginProofs

`TypeCorrect`, `InstallsTheVerified` (`InstalledIsVerified`), `StoredIsRecorded` (`StoredIsOwned`) and
`SweepsSpareTheLiving` (`SweepSparesTheLiving`), for any processes, orders, accounts and faults; a history begins with at most one
account that agctl owns and at least one grant to give (`StartsAssumption`, `BoundsAssumption`). `ProcessOf`
says that a login has a home only from its own creation on, and that from the verification to the install it carries a grant
of its account's: the document is not read again, so what the child's leftovers write in between is not
installed. A stored grant without a record is owed by the process that stored it or took the record (`Answers`), and no
step of another changes what it owes (`Debts`). No sweep takes the home of a login under way, since both need `scratch.lock`. TLC checked `IInv` in
`CodexLogin.cfg` (638,945 states).

### NamespaceSwapProofs

`KeepsTheWriteOrder` (`InWriteOrder`), `TakesTheNewest` (`UndoesTheNewest`), `KeepsWhatItRestores` (`RestoredIsKept`),
`KeepsWhatItDisplaces` (`OutgoingIsKept`), for any number of processes, accounts, namespaces with an item,
credentials and files at the log's name, and any of what may happen beside them. `SwapInvAlways` and
`KeptInvAlways` are the two inductive invariants; the first has the types.

`LogInv` is about the log. The namespaces' locks keep two runs apart that could write over each other's credential
(`LocalsOf`); so nothing is chained after a run's write until its last word on it (`NothingFollows`, where `Chained` is
"each write of the item was over what the one before it left"); and so the parts of the entries of chained writes are in
each file's lines in that order (`FileInv`), however an append was torn and whichever file the name was given to. An
entry begins on one line only, and only when its own run appends it (`Unbegun`). `InWriteOrder` is the case of whole
entries of neighbouring writes. For `UndoesTheNewest`: an undo selects only in a log all of whose
lines it can read, and there the live writes that left anything have one line each, in the order of the writes, since
where nobody else wrote the item any two of them are chained. So what the log shows as standing is what stands.

`SwapInv` adds the stores and `PlanOf`: an undo of a namespace's item reads the adopted copy and removes nothing before its
write, from which `RestoredIsKept` follows step by step.

`KeptInv` is what `OutgoingIsKept` needs. Every place holds one credential, and an account's file and pending write its own
(`HomesInv`); what comes out is what the run read (`HasRead`); where it is put by is a namespace the run has locked
(`HasDecided`), so no other run of agctl changes what the decision rests on; what it replaces there is older (`Weighed`);
once it is put by it is there, or spent, or moved to the item by Claude Code (`PutBy`). Then each of the steps that
change a store, the POST, the write-back, the parking, the item's write and what follows it, leaves the account another
credential that is honoured: the one displaced, or one that has nothing to do with the place written. Accounts are told
apart by `Of`, which agctl decides by the server's answer or the registry (`LiveSwap` has that part). TLC checked both
invariants in `NamespaceSwap.cfg` (908,948 states).

### What stays with TLC

Every invariant and every action property a passing run lists is a theorem. Out of the prover's reach are the
liveness properties (`CommandsEnd` of each module, `CancelEnds`), which need fairness and `ENABLED`. The terminal
state of `CodexPass` is the case of `FloorKept` after three refreshes that did not help. Not proved, and listed by
no run: `ResendOnlyWhatIsLost`, `ReplacesItsOwn`, `StoredGrantKept`, `NothingLeftBehind`, `ReplacedWhenAsked`,
`GainedIsNamed`, `StartsComplete`, `LiveIsTold`. `FileIsASecondCopy` and the properties of the other
findings are false.

## Plan

Modelled, in the order of the plan: `CodexRefresh` with `GrantSend`, `CodexPass`, `PassRuntime`; `ClaudeLock`;
`LiveSwap`; `ClaudeRefresh` with the usage cache; `Accounts`; `CodexLogin`; `ConfigFile` and `Sessions`;
`AuditLog` and `NamespaceSwap`. Proved: type correctness of each and every safety property the runs check, and that
`CodexRefresh` implements `GrantSend`.

What would come next:

1. Theorems. The properties no run lists, `ResendOnlyWhatIsLost` and `ReplacesItsOwn` first.
2. Refinement. The abstract lock, which only its owner or a breaker of a dead one removes, and `ClaudeLock` and
   `ConfigFile` as two implementations of it but for a lapse; `NamespaceSwap`'s live swaps as steps of `LiveSwap`.
3. Composition. `ClaudeRefresh` passes inside `PassRuntime`'s jobs; the Codex rows of the usage cache.

## Not modelled

Keychain readers and discovery: calls of `security(1)` and the classification of what they print. They
keep no state; that a call may hang, fail or be killed is in the modules that make it. The command line and
rendering: parsing and formatting. Codex watch, doctor and usage: read-only reports; the watch loop is
`PassRuntime`'s. Doctor's reports likewise. Within the modelled components: the descent to a directory and its
symbolic links, modes and owners of files, the layout of documents, log lines and registry, retries of
one HTTP request, and the text of every message. The component notes in `PROJECT.json` have the rest.
