# CloudSite: verification of the synchronization engine, the databases and the requests that race

CloudSite publishes the files of an AList server.  A FastAPI process keeps two
SQLite databases, `state.db` (authoritative: users, shares, identities,
settings) and `index.db` (rebuildable: folders, resources, cycles, search
table), and re-verifies the whole index against AList once a day in small
windows.  This directory holds TLA+ models of that program, the TLC
configurations that check them and the proofs TLAPS checks.

## Parts of the system

| Part | State | Operations | Hard because | Correct when |
|---|---|---|---|---|
| Rolling engine `sync/rolling.py`, `planner.py` | `sync_cycles`, `sync_cycle_items`, `sync_runs`, `folders`, `sync_lock`, circuit breaker | run a due window, create a cycle, scan a folder, close the window, clean up a failed one, hand over, recover a lost index or after a restart | several coroutines share one lock and one set of rows, each `await` is a switch, each commit a crash point, and the first cycle is created without the lock | no cycle is added to an active one, nothing orphaned, each folder verified once per cycle, cycles complete |
| Manual path sync `sync/path_sync.py` | the same rows, one reservation flag | reserve, plan, scan, close, clean up | shares rows with windows that clean up without the lock; before the hand-over, with full runs | its run and items are closed, only lasting absence is missing |
| First index `indexer.py` | `sync_runs`, index rows, circuit | full scan root by root, mass-change guard, search rebuild, hand-over to the rolling engine | long scan, partial failures, restarts between commits | a failed or guarded root removes no rows, only lasting absence is missing, the site is handed over with folders and a cycle |
| Scheduler and tasks `tasks/` | timers | call the engine every minute, clean-ups | races with requests | - |
| Startup `infrastructure/lifespan.py` | both files, their copies, the flags that say what was interrupted | validate, copy, create, upgrade, repair | a crash between any two commits, and the next start begins with what is there | a site that comes up is repaired; only its files can keep it down |
| Identity registry `identity/` | `resource_identities` in `state.db`, candidates in `index.db` | resolve, move, confirm, migrate | two databases, two commits | an identifier names one object |
| Search index `search.py` | FTS table, dirty flag | delta, rebuild, recover | rebuild runs without the lock | the table agrees with the rows or is marked dirty |
| Shares `shares/`, `routers/shares.py` | shares, verification attempts | create, verify, download, reset, cancel, restore, clean up | checks and updates in different transactions | quota and revocation hold |
| Users and sessions `users.py`, `auth.py`, `sessions.py` | users, sessions | register, login, change and reset, disable, delete, rename, clean up | each request reads its account first and writes later | a changed or closed account keeps no older session; sessions end, and only for cause |
| Download limit `download_rate_limit.py` | sliding window and block per address | check and record, clean up | the time is taken before the turn is | no more than the limit in a window, nobody refused without cause |
| Delta providers `providers/delta.py` | cursor | pull, apply, save | crash between apply and save | every change applied at least once |
| Databases `database.py`, `migrations.py` | schema, snapshots | validate, snapshot, create, upgrade | statements commit one by one | a repeated start finishes it, data is copied before it is changed |
| Operations scripts `scripts/` | archives | back up, restore | two files of one running site | a restored site starts |
| Everything else | request-local | reads, single-row writes, presentation | - | - |

`PROJECT.json` lists all of them with what is modelled.

## Modules

| Module | Models |
|---|---|
| `RollingCycle` | `sync/rolling.py` windows and cycles, their creation at the hand-over and after a lost index, `sync/path_sync.py`, circuit breaker and start-up recovery |
| `MCRollingCycle` | a content root with one folder below it, or alone |
| `RollingCycleProofs` | theorems about `RollingCycle` |
| `RollingWorkProofs` | theorems about what the windows of `RollingCycle` leave behind |
| `ShareQuota` | what a share promises about downloads, without the program: the abstract specification |
| `Shares` | `shares/service.py`, `shares/ticket.py` and the handlers of both share routers; refines `ShareQuota` |
| `SharesProofs` | theorems about `Shares`, the refinement among them |
| `ResourceIndex` | the resources of a folder in `sync/rolling.py` (`_scan_cycle_item`, `_commit_scope`), `identity/service.py`, `search.py` and its rebuild on request |
| `MCResourceIndex` | two folders, one with two paths, and the symmetry of names |
| `ResourceIndexProofs` | theorems about `ResourceIndex` |
| `FirstIndex` | `indexer.py` (`run_sync`, `_commit_root`), its callers in `tasks/` and `routers/admin/sync.py`, the hand-over of `migrate_existing_index_to_rolling`, and `run_path_sync` as far as it meets them |
| `MCFirstIndex` | two content roots, one with two paths |
| `FirstIndexProofs` | theorems about `FirstIndex` |
| `Startup` | `infrastructure/lifespan.py` and all it calls (`database.py`, `migrations.py`, `identity/migration.py`, the recoveries), first setup, `backup.sh` and `restore.sh` |
| `StartupProofs` | theorems about `Startup` |
| `Accounts` | `auth.py`, `users.py`, `sessions.py`, the session check of `infrastructure/middleware.py` |
| `AccountsProofs` | theorems about `Accounts` |
| `Downloads` | `download_rate_limit.py`, its callers and its clean-up |
| `DownloadsProofs` | theorems about `Downloads` |

`RollingCycle` and `ResourceIndex` share one piece of code, the scan of a folder:
the first models who runs it, when, and what becomes of the item; the second what
it does to the resources, with the interruptions `RollingCycle` allows between its
commits.  `Startup` has what the start does about either of them and about a run
of `FirstIndex` that was cut off; there, their work is reduced to the flags and
the sets a start reads, and each module has its own start reduced to what touches
its state (`Restart` in `RollingCycle`, `Crash` in `ResourceIndex`, `Restart` in
`FirstIndex`).  `FirstIndex` and `RollingCycle` overlap in the hand-over: the first has what it
asks of runs and rows (`ReadCycles`) and counts the cycles, the second begins where
it is called and has their rows.  A path synchronization is in both, with the rows
each of them is about.  `Shares`, `Accounts` and `Downloads` meet none of
them; a resource that disappears is one of the ways
its target becomes invalid.

### RollingCycle

`Init` is a site whose index is ready and not handed over, or one that was and
whose index is lost; no cycle exists.  The hand-over (`CallMigration`) and the
recovery (`CallRecovery`, `SeedRoots`) create their cycle in two steps without
the lock, as `_create_cycle` does: `SeekCycle` reads that none is active and
`InsertCycle` inserts one.  Two callers may do so together, and then there are two
active cycles.  Under the lock the same code runs as `FindNoCycle` and
`InsertCycle`.  A start does what is left of either in one step
(`RestartWithCycle`), since no other coroutine exists then.

A *coroutine* is the scheduler loop or the start-up task (`AutoCallers`), a
background task of `POST /admin/sync` (`ManualCallers`: the route tests, awaits
and then creates the task, so that two may exist), or the path synchronization
(`PathTask`).  `task[t].pc` is the place in `_run_due_rolling_window` or
`run_path_sync` at which it may be interrupted; a step goes from one commit or
`await` to the next.  One asyncio thread runs them, so that statements between
two awaits are atomic.

| Variable | Code |
|---|---|
| `lock` | `sync_lock` |
| `circuit` | `sync_circuit_until` in `state.db` |
| `cycle`, `item`, `runs` | `SyncCycle`, `SyncCycleItem` and the running `SyncRun` rows |
| `folder` | `Folder.status` |
| `engine` | `sync_engine_version` names the engine |
| `latest` | the highest `SyncCycle.id` |
| `up` | the process runs; a crash clears `task` and `lock` |
| `now` | the clock in units of `WINDOW_INTERVAL` |

Data that no property tells apart is left out: fingerprints, names, counters of
a run, request pacing.  What AList answers is chosen freely: any set of listed
children, a failure, or an access restriction.  `ScopeResult` keeps of
`_commit_scope` what decides which folders later cycles hold.

A listing that contains a folder confirmed missing fails (`Scan`), because the
insert of `_commit_scope` meets the old row.  The bulk statements of
`_finalize_failed_rolling_window` and `recover_rolling_state` are the same
definitions, `RequeuedItems` and `PausedCycles`.

### Shares

A *request* is an owner's or administrator's edit (`Editors`) or a visitor's
request (`Visitors`).  Each loads the row in one step and writes in a later one
(`pc`, `held`): the handlers are coroutines that await each statement and, for a
download, AList; the SQLite transaction of a step is atomic.

| Variable | Code |
|---|---|
| `rows`, `share` | the rows of `shares` and their columns |
| `valid` | the outcome of `target_valid_for_share`: an administrator or a synchronization may change it at any time |
| `codes` | codes generated; code `n` is the `n`-th, so that two codes never coincide by chance |
| `tickets` | the signed cookies browsers hold; dropped when their `max_age` is over |
| `pc`, `held` | where a request is and the row it loaded |
| `doomed` | the keys a running `cleanup_terminal_shares` has selected |
| `granted` | history variable: redirects handed out |
| `now` | the clock in ticks |

Two ways of writing a row matter and are kept apart.  An edit changes attributes
of the loaded object and the ORM writes, at commit, the columns that differ from
what was loaded (`Column`, `Flushed`), never the row as a whole.  A download is
one conditional `UPDATE` (`CanReserve`, `Reserved`) on the current row.

Left out: view counters, the rows of verification attempts (the rate limit is
one of the reasons a request may `Fail`), titles and targets, the cryptography
of tickets and codes, and whether two time stamps within a tick differ.

### ResourceIndex

| Variable | Code |
|---|---|
| `disk` | the files AList lists; they change at any time, between any two steps |
| `registry` | `resource_identities` in `state.db`: last path and fingerprint of each identifier |
| `row` | `resources` in `index.db`: status, path, content, missing streak and the cycle of the last observation |
| `fts`, `dirty` | `search_fts` and `search_index_dirty` |
| `candidates` | pending `resource_identity_candidates` of the cycle |
| `verified` | the listing behind `FolderScanState.fingerprint` |
| `cycle`, `todo` | the current cycle and its items that are not yet done |
| `scan` | the scan under way: its listing, then also the draft it will commit to `index.db` (with a history, `left`: the entries it leaves without a row) |
| `rebuild` | the rebuild under way and the rows it has read |
| `away`, `awayBefore`, `quiet`, `overlap`, `mixed`, `undecided`, `givenUp` | histories, read by properties and never by actions |

A scan is `ScanList`, `ScanResolve` (identities are resolved and committed to
`state.db`), any number of `ScanSettle` (a candidate is resolved in a session of its
own, `_resolve_pending_for_parent`) and `ScanCommit` (rows, search table,
candidates and fingerprint in one transaction of `index.db`); `ScanFail` and
`Crash` end it anywhere in between; a draft that the constraints refuse may be
refused inside the delta of the search table, which then marks it dirty.  What is resolved stays committed, what is
drafted is lost.  `Drafted` is what the code's pending ORM objects add up to, and
`Acceptable` whether the unique constraints of `resources` let it through.

A fingerprint is a *content*: two files of one content are what the code takes
for the same file.  The order in which entries are resolved is arbitrary
(`Resolves` relates each entry to the others), and the first and the last entry
written to a row are chosen freely where the code follows the order of AList.
The order in which a cycle scans its folders is arbitrary too; the code sorts by
depth and path.

Left out: folders as objects (their creation, rename, disappearance and
descendants), the history of identities, candidates with several sources (they
are recorded and never resolved), the cycles of path synchronizations, and what
makes a scan fail: AList, the limit on disappearing entries, the search table and
the database are all `ScanFail`.

### FirstIndex

A run of `run_sync` goes root by root: `Scan`, `CommitRoot` (all rows of the root in
one transaction of `index.db`) and `RecordRoot` (the counts of the run, a second
transaction), or `FailRoot`; then `MarkSearch`, `Finish` (the search table is
rebuilt and the run gets its status), `ClearSearch` and `EndRun`.  `Raise` is an
exception or a cancellation that escapes anywhere in between, the scans included,
and `Restart` a crash with the start that follows, which rebuilds a search table
that is marked or empty.  A synchronization of chosen paths (`RequestPaths`,
`BeginPaths`, then `ScanFolder`, `SkipFolder` or `FailFolder` for each folder, and
`ClosePaths` or `FailPaths`) is possible at any time before and after the
hand-over: its route asks neither the breaker nor the engine, and it scans the
children of any folder below a root that is indexed.  The scheduler and requests of the administrator pass `PreflightPassed`
and then wait for the lock; neither looks again when they have it.

| Variable | Code |
|---|---|
| `disk` | the paths AList lists |
| `row` | `folders` and `resources`: status and missing streak, by path |
| `fts`, `dirty` | `search_fts`, `search_index_dirty` |
| `last`, `stuck`, `succeeded` | the status of the newest `SyncRun`; whether an older one still reads running; the kinds of runs that ever succeeded, full or path |
| `rooted` | content roots whose own folder is an active row |
| `cycles`, `engine` | active `SyncCycle` rows; `sync_engine_version` |
| `circuit`, `lock` | `sync_circuit_until`, `sync_lock` |
| `at`, `run`, `job` | where each task is; the local variables of `run_sync` and `run_path_sync` |
| `away`, `unmarked`, `patched` | histories |

The guard against mass changes is `Guarded`, with its minimum and its ratio as
constants.  A root is listed in one instant; `disk` changes between roots and
between a listing and its commit.  A sighting by a scan that failed or was guarded
counts for nothing, neither in the code nor in `away`.  A root can count as
completed and as failed in one run, when its rows are committed and its counts are
not.  A run whose task raised leaves its row reading `running`, which stops every
later full run until a restart (`Abandoned`).  The delta of the search table that a
path scan applies holds new, changed and missing rows only: a row that is
suspected stays in the table, and a suspected folder that is seen again is not put
back (`SearchDelta`, `patched`).

Left out: renames (a rename is a path that goes and one that comes), identities
(`ResourceIndex`; that a file may wait for the scan of another folder is `deferred`),
pacing and the contents of rows.

### Startup

`pc` is the step of `lifespan` that comes next.  `Preparations` make the two files
what the program expects, `Repairs` undo what a stop left; each action is what one
commit makes durable, and `Crash` is possible between any two.  sqlite3 commits
each statement that creates or alters a table by itself, and an upgrade is one
transaction from its first `UPDATE` on: hence the file that is `partial`, and
`UpgradeState` as one step.

| Variable | Code |
|---|---|
| `state`, `index` | the two files: whether they are there and readable, and the rows and flags a start looks at |
| `snapshot`, `copies` | `.codex-backups/pre-migration` and `pre-0.3.0-stable-id` |
| `pc`, `setups` | the start under way; setup requests that have checked and not yet saved |
| `backup` | what `backup.sh` has copied so far |
| `origin`, `spent`, `site`, `unmarked` | histories and bounds |

`Init` has a new directory and every site that an older program can have left:
without schema versions or without stable identifiers, its first index finished or
cut off.  `SiteStep` is the work of a running site as far as the next start can tell
the difference.  Files are lost or damaged only while the site is down, and only
`Restore` brings back an old one.  An archive holds the two databases and possibly
other files, which the copy made before the stable-id migration must not mistake
for its own (`copies`).

Left out: the secrets and directories a start checks first, settings that are
filled with defaults, the copy of a stopped site by `cp`, and the loss of commits
by a power failure (`synchronous=NORMAL`): a crash is one of the process.

### Accounts

A request reads an account (`request`), hashes a password and commits later; what
it writes are the columns it changed, the revocation of the sessions that are
there at that time, and its own session.  Which columns a kind of request writes
is `Write...`; a row deleted in the meantime is renamed all the same, as in the
code.

| Variable | Code |
|---|---|
| `users` | `users`: name, password, active, deleted |
| `sessions` | `user_sessions`: owner, days since creation and since revocation; the password proved and whether it was `late` are histories |
| `request` | what each request under way has read |
| `spent` | bound |

Left out: the rate limit on logins, the administrator's own login (a signed
cookie), and rights of members, which requests only read.  A day does not end
while a request is under way, so that no request takes a day.

### Downloads

A request takes the time (`Ask`), waits for an `asyncio.Lock` and for
`BEGIN IMMEDIATE`, and is then decided in one transaction: `Grant`, `StartBlock`
or `Refuse`; or it fails or is cancelled before (`Drop`).  Decisions need not follow
the order of the times taken.  A wait ends within `Delay`: the clock does not pass it
while a request is there.

| Variable | Code |
|---|---|
| `rate` | `download_rate_limits`: hits, end of the block, last update |
| `request` | address and time of the requests that wait |
| `now`, `granted` | the clock; a history: when each download of an address was granted |

A hit is a time and the number of its download, so that a set holds what the
code keeps in a list: no hit is lost when two have one time.

## Checks

### Rolling cycles

All runs but `RollingHandover` take a content root and one folder below it and two
windows per cycle.  Two folders are enough for a window to hold part of the cycle,
for a folder to appear and disappear while its parent is verified, and for a
failure to precede a success; two windows for a first and a last one.

| Run | Instance | Shows |
|---|---|---|
| `RollingWindows` | scheduler and request, one cycle, three attempts, time 2, one crash, one exception | the inductive invariant, nothing orphaned, each folder verified once, a window counted only when its work is done |
| `RollingLive` | scheduler and path sync, one cycle of windows, two attempts, time 3, one crash, one exception, one path sync, fair | success is drained, the last window reaches every folder, every active cycle completes |
| `RollingHandover` | scheduler, request and path sync, the root alone, one window, one attempt, two cycles, time 1, one crash, one exception, one path sync | once the engine is in charge and at most one cycle is active, no second one comes |

Three attempts leave one over after a window's double attempt, so that the limit
is met in the middle of a window; the other runs meet it at the end.
`RollingLive` has one window caller: with a second, exceptions make
`SuccessIsDrained` false (`FalseSuccess` below).  Its path synchronization shares the
attempts of the cycle's items, and the crash leaves items running for the restart.
TLC sees a second cycle only in `RollingHandover`; that a second one is drained too is
the theorem `SuccessMeansDrained`.  `RollingHandover` leaves out the
folder below, which plays no part in the creation of cycles; its two callers can
both create a cycle at the hand-over, in a recovery, or one of each after the
other.  `MaxCycles`, `MaxAnchor`, `MaxTime`, `MaxPathSyncs`, `MaxCrashes` and
`MaxErrors` bound behaviours and nothing else; when they are used up the model
stops, so deadlock is not checked.  A cycle is only prepared while an id is left for
it and its anchor is no later than `MaxAnchor` (`Room`), which leaves its last window
on the clock, so that the bound of the clock cannot starve it.

That two cycles are never active (`OneActiveCycle`) is false: two callers that hand
over or recover together, both without the lock, both read that no cycle is active and
both insert one.  TLC finds it in seven states when `OneActiveCycle` is checked under
`RollingHandover.cfg`.  What holds is `OneCycleKept`: only the calls that hand over or recover can make a second one, and
once they are over with one active cycle, everything else keeps it so.

`Fairness` is weak for a coroutine that can go on, for the start after a crash,
for the clock and for the end of the breaker's cooldown; strong for taking the
lock, which `asyncio.Lock` grants in the order of requests, and for the
scheduler's call, which is repeated every minute and may find the lock taken.
The call presumes the setting `automatic_sync`: it is off in a new installation
(`tasks/scheduler.py:77`), and without it only an administrator's requests move the
engine, which nothing promises.  The same holds for the scheduler in `FirstIndex`.
Requests, crashes and exceptions are not promised.

### First index

| Run | Instance | Shows |
|---|---|---|
| `FirstIndex` | scheduler, request and path sync, two roots with two and one paths, two confirmations, guard at two items and half of a root, two changes of files, one fault, one path run of up to two folders beside one change or fault, fair | the inductive invariant, missing was away with full and path scans together, a success shows what was found, the search table is current or marked, the engine has a successful run, a folder and a cycle, and the hand-over happens |

Two roots give a root that fails or is guarded beside one that succeeds; two paths
in one give a move and a loss that triggers the guard, the single one a loss that
does not.  Two changes make a path go and return.  A path run adds a scan to a row's
count, changes the rows between two full runs, or is the successful run that the
hand-over asks for; `MaxBeside` lets one change or one fault happen beside it, enough
for a missing file that both kinds of scan count and for a full run that fails at a
root before it.  The theorems hold for every `MaxBeside`.  Full runs are not
bounded: nothing counts them and the state space is finite.  `FairSpec` asks of a task
that it goes on, of the lock that the scheduler is granted it, of the scheduler that it
calls again, and of the breaker's cooldown that it ends; nothing of requests, files and
faults.  The scheduler calls only with `automatic_sync` on, see above.
`FirstIndexCompletes` excepts the two things that keep a site from its index for
good: an abandoned run, and a root that triggers the guard at every scan.

### Start

| Run | Instance | Shows |
|---|---|---|
| `Startup` | one identifier, two connections, version 3, two stops, two mishaps, four pieces of work, fair | the inductive invariant, a start is refused only for its files, an index is used only with its own state, a site that comes up is repaired, upgrades and seeds are preceded by copies, setup is decided once, and the site comes up |

One identifier is registered or not, active or not: starts compare sets and never
two identifiers.  Two connections are two setup requests.  Two stops give a start
that is cut off twice; two mishaps a lost file and a restored one, or a wiped
directory and an archive.  Four pieces of work reach from a start to a run or window
that was cut off after its second commit.  Weak fairness of a step of the start is
what `restart: unless-stopped` of `docker-compose.yml` gives; stops are bounded, so a
start is not cut off for ever.  The site may be refused for good or have nothing
left to do, so deadlock is not checked.

### Accounts and downloads

| Run | Instance | Shows |
|---|---|---|
| `Accounts` | two accounts, names, passwords, sessions and requests, three reads, sessions of two days, retention of one, fair | `IInv`: names are unique, and what a request holds fits its account; a session belongs to an open account and its password unless the account changed under its request; a good session ends only by age, by logout or with its own account's password or status, and one that ended stays so; all rows go |
| `Downloads` | one address, two requests, two downloads in three ticks, a block of three, rows kept for four, a wait of one, time 10 | the limit holds in every window shortened by the wait; nobody is refused without having had it |

Two requests are the pair that races; three reads let a third one follow them.
`SessionsFollowAccount` and the second half of `SessionsEndForCause` except sessions
that are `late`: a login that read its account before a change of password, a reset
or a deactivation and commits after it keeps a session of the old password, and one
of a deactivated account becomes good when the account is enabled again.
`docs/architecture.md:72` and `docs/admin-guide.md:38` know no such exception.
Addresses share nothing but the lock, so one is enough.  Ten ticks hold a window, a
block, and a window after it.  `Accounts` promises the clean-up and the clock,
`Downloads` nothing; both are bounded and stop, so deadlock is not checked.

The limit on downloads is guaranteed in a window only as long as `Window - Delay`:
a request that waited is recorded at the time it took before it waited, so its
record leaves the window early.  With requests that do not wait it is the whole
window.

### Shares

Shares do not interact, so one is enough; two visitors race for the last of two
downloads; two codes are one reset; the clock reaches past every deadline.

| Run | Instance | Shows |
|---|---|---|
| `Shares` | one editor, two visitors, two downloads, time 2, fair | the inductive invariant, every redirect counted once, cancelled is closed, tickets follow the code, the refinement of `ShareQuota`; what stays cancelled is removed |

`FairSpec` promises the two steps of the clean-up only: `scheduler_loop` runs
it every hour.  Requests and the clock are not promised; `CancelledIsRemoved` is
about shares whose retention is over.  It does not forbid that the clean-up removes a
share that was restored after it was selected, which the code does.

The properties other than the counts assume one editor at a time, which is what
the run takes (`Editors` has one member) and the theorems name `OneEditor`: with
two, a cancel that loaded a closed row and commits after a restore writes
`cancelled_at` and leaves the share open.

### Resources

| Run | Instance | Shows |
|---|---|---|
| `ResourceIndex` | two folders, three paths, two contents, three identifiers, two confirmations, three cycles, two changes of files, one fault, one rebuild, three of these four together | the inductive invariant (one path per identity and registered rows among its parts), the search table follows the rows, the rows follow the files, an identity stays with its file, missing takes two cycles |

Three paths in two folders give a move inside a folder, a move or a copy across
folders in either scan order, and a file that returns.  Two contents tell a moved
file from another one.  Two changes make a move followed by a new file at the old
path, or a removal and a return; three cycles let a missing file be suspected,
confirmed and observed afterwards, and three identifiers leave one for a new
file.  One fault is a scan that fails or a crash after the identities are
committed.  `MaxEvents` drops the behaviours that use up every bound, which only
multiply the states: each pair of a change, a fault and a rebuild still meets.
Changes, faults, cycles and rebuilds are bounded, so the model stops: deadlock is
not checked, and nothing is promised about fairness.

The properties have exceptions, each a behaviour of the code that no document
denies, and what they except is not checked:

- `SearchFollowsIndex` excepts a table marked `dirty`, which the next start
  rebuilds; `overlap`, a scan that committed while `rebuild_public_search_index`
  held rows it had read before and wrote them afterwards: the rebuild does not
  take `sync_lock`, and then clears the mark; and a `mixed` identifier: a scan
  that ended left it registered at another path than its row, and no scan has
  written the search entry of its row since.  An exception for identifiers that
  are torn at present would not do: with three paths in a folder, an identity
  that a failed scan has recorded at the path of another row has its entry
  written with that row, and when its file is moved back the row is unchanged
  and the entry stays where it was, although nothing is torn any more.
- `IndexFollowsDisk` is about the end of a cycle that began after the last
  change and fault (`Settled`).  It excepts folders whose scans the unique
  constraints refused until they were given up (`givenUp`), paths that no scan of
  the cycle was left to decide about (`undecided`: the candidate waits for a folder
  that was already scanned, was closed, or another entry took its row), and, for
  rows without their file, `mixed` identifiers.  What the second means for a moved
  file is `MovesHidden` below.  `RefusalHasCause`, a part of `IInv`, says what a folder
  may be given up for: a file back at the path of a row confirmed missing, or a
  `mixed` identifier with its row or its path in the folder or where a candidate
  is.

### Where the code differs from its documentation and tests

| Run | Property | Behaviour |
|---|---|---|
| `FalseSuccess` | `SuccessIsDrained` | a window completes a cycle before the failed one requeues its item |
| `MovesHidden` | `EveryFileHasAnIdentity` | a file moved to a folder that is scanned after its old one gets neither row nor identity: the candidate waits for a scan that is over, lapses with the cycle, and the unchanged listing of the new folder is not looked at again |
| `BackupOrder` | `BackupStarts` | a backup of a running site copies `state.db` before an identity is registered and `index.db` after its row is active; the restored site refuses to start |

`SuccessIsDrained` passes in `RollingLive`, where no two windows of different
coroutines meet, and `NoOrphanItem` speaks of rolling cycles, because
the items of a path synchronization share the fate of its run (below).

The models have more behaviours that a document or a comment would have us doubt,
without a run of their own:

- two callers that hand over, or recover, together create two active cycles, although
  `tasks/sync.py:24` calls the hand-over idempotent; the engine works off the newer one
  and then lists every folder again for the older (`RollingCycle`, above);
- a synchronization of chosen paths is a successful run like any other to the
  hand-over: after a full run that left a root out, one that succeeds enables the
  engine (`rolling.py:149-154`), which then knows the folders indexed so far and never
  makes the first index of the other root, although `docs/architecture.md:45` and
  `tasks/scheduler.py:83-84` speak of a full one.  TLC finds it when
  `engine => "full" \in succeeded` is checked under `FirstIndex.cfg`;
- attempts that meet an access restriction use up the attempts of an item, which
  then stays pending in a successful cycle (`RollingCycle`);
- the breaker is read before the lock is awaited, so that a waiter lists folders
  after it opened (`RollingCycle`, and `FirstIndex` likewise);
- another window's clean-up makes the path synchronization take its own cycle for
  closed, and its run keeps reading `running` until the next restart
  (`RollingCycle`);
- a cancel by a second editor leaves a share open (`Shares`, above);
- a rename that read its account before it was deleted takes back the freed name
  (`Accounts`);
- the limit on downloads counts the time before the wait (`Downloads`, above);
- a damaged `index.db`, which is rebuildable, keeps the site down like a damaged
  `state.db`, and so does a new `state.db` whose creation was cut off (`Startup`).

Some behaviours of the shares are in the model without a property, because nothing
promises otherwise: a redirect that is handed out shortly after the share
expired (AList was resolving the link), a share that is restored between the
two statements of a clean-up and removed all the same, and a share without
downloads left that reads active after its code is reset, while every download is
still refused.  They are listed as hazards.

## Proofs

`RollingCycleProofs` proves for every set of folders, callers and bounds:

- `Invariance`: `IInv` is inductive.  Type correctness alone is not: a window needs
  a cycle of its own that is active, which needs that the lock's holder is the
  coroutine whose `pc` is inside (`TaskOK`), that what it works on stays its own
  while clean-ups run and other callers insert cycles without the lock (`WorkOK`),
  and that an insert is into a row that did not exist (`Fresh`).
- `TypeCorrect`: a conjunct of `IInv`.
- `OneCycleStaysOne`: the action property `OneCycleKept`.  It is an implication from
  a state to the next one and not an invariant, because the hand-over may leave two
  cycles.  No step of the engine brings a caller back to a creation
  (`WindowLands`), takes a finished cycle up again (`WindowReopensNothing`) or
  empties the index (`WindowKeepsIndex`: the folder that is listed stays active, since
  no folder is its own child), and the one that inserts under the lock still finds none
  active (`InsertKeepsOne`).
- `VerifiedItemsStay`: the action property `VerifiedOnce`; every write to an
  item is to an open one by `WorkOK`, or to a row that did not exist by `Fresh`.

There is a lemma per action.  `OneTaskSteps` is the frame: a step of one
coroutine leaves the others what they rely on.  The assumptions are those of
`RollingCycle`, which TLC evaluates in every run.

`RollingWorkProofs` extends it with two theorems about the work itself:

- `NothingLeftRunning`: the invariant `NothingOrphaned`.  It is not inductive: a
  window that finds a cycle "running" and is told that it is not due would leave it
  so.  `WorkInv` says that a window has its cycle read "running" only after it has
  planned.  A step of the lock's holder has to explain only the rows it was or is
  working on (`HolderKeeps`), a step outside the lock changes none
  (`OutsideKeeps`), and a clean-up leaves none to explain (`RecoveryExplains`).
- `OnlyDoneWindowsCount`: the action property `WindowCountedWhenDone`; only
  `CloseWindow` changes the count (`CountChanges`).

Two more assume `WindowsDoNotOverlap`: no exception leaves a window, or one
coroutine runs them all.  Without it they are false, which the run `FalseSuccess`
shows: the clean-up of a failed window requeues an item after another window
has completed the cycle.

- `SuccessMeansDrained`: the invariant `SuccessIsDrained`.  `DrainInv` adds that a
  window unwinds only where exceptions are possible, so that no clean-up runs
  while another window holds the lock (`NobodyUnwinds`).
- `LastWindowLeavesNone`: the invariant `LastWindowReachesAll`.  `ReachInv` follows
  an item that is planned: the last window takes every one it finds not yet
  tried (`LastTakesAll`), by a count of finitely many folders, and an item that
  was tried stays so (`TriedStays`).

`SharesProofs` proves for every set of shares, requests and bounds:

- `CountsInvariant`: `CountInv` is inductive for any number of editors.  A flush
  never writes `downloads` (`FlushTypes`), a reservation adds one to both
  counts, and only tokens never used before are created.
- `EveryDownloadCounted` follows from it, and `QuotaRefinement`: every step of
  `Shares` is a grant, a change of management or a stutter of `ShareQuota`.
- `EditsInvariant`, assuming `OneEditor`: `EditInv` is inductive.
  `CancelledIsClosed` alone is not, since an edit writes two columns from a copy:
  what an editor holds is the row, except that a download may have closed it
  (`EditOK`); and what a verification or a ticket holds is no newer than the row,
  and of the same code when of the same version (`NotNewer`).
- `CancelledSharesStayClosed`, `TicketsOfCurrentCode`: its consequences.

`ResourceIndexProofs` proves for every set of folders, paths, contents and
identifiers and every bound, from `ResourceAssumption`:

- `BaseInvariance`: `BaseInv` is inductive.  `OnePathPerIdentity` follows from types
  and `Resolves` alone (`RecordedOnePath`).  `IndexedIsRegistered` needs the same of
  the rows a scan has drafted, since they are committed steps after their
  identities.  The two action properties need that the histories are told the
  truth: a path the listing under way lacks was absent some time in the cycle
  (`AbsentIsAway`), a row observed as missing in a cycle had no file at its path
  in that cycle (`ObservedIsAway`), and a row about to be confirmed was observed
  in an earlier one (`ConfirmedWasAway`).
- `SearchFollows`: the invariant `SearchFollowsIndex`.  It needs to know what a draft
  will do to the search table (`DraftFollows`, with a lemma for each step that
  drafts: `ResolveDrafts`, `PlacedSearch`, `ClosedSearch`).  A row whose identity a
  scan moves away is left at a path without a file (`RecordedLeaves`), and a
  candidate is at a path with one (`CandidatesAreDone`), so a later resolution in
  the scan does not bring the two together again; that two rows never share a
  path (`RowsDistinct`) keeps an entry from being written under another's name.
- `IndexFollows`: the invariant `IndexFollowsDisk`.  At the end of a cycle it is what
  each commit made true, kept while other folders were scanned (`DiskInv`): what a
  folder's last listing holds is shown, waits for a folder to do, or is undecided,
  and a row that is not mixed is as that listing says (`VerifiedIsShown`).  This
  needs to know what a draft leaves: rows of other folders stay (`DraftedRows`),
  which the rejection of a second row of an identifier ensures; no row but of a
  mixed resource is at the path of a candidate (`CandidatesAreListed`), so that a
  candidate that is settled takes no file's row away; and the row it is given
  to was none or was observed as missing in this cycle, hence not shown
  (`FreeNotShown`).  There is a lemma for each part of the resolution of a listing
  (`ResolveEntries`, `ResolveMatches`, `ResolveCandidates`), for a candidate that is
  closed or placed (`ClosedDisk`, `PlacedDisk`) and for the commit (`CommitShown`).
- `RefusalsHaveCause`: the invariant `RefusalHasCause`, by the ways in which an insert can
  meet a row (`ResolveRefused`, `PlacedRefused`).
- `Invariance`: `IInv`, the three together.
- `OnePath`, `RegisteredFirst`: conjuncts of `BaseInv`.
- `IdentityStays`: an identity moves only from a path its resolution was allowed
  to leave (`RecordedLeaves`): one that the listing lacks, or that of a source
  observed as missing in this cycle; the resolution of a copy allows none.
- `TwoCycles`, assuming `Confirm > 1`: with one confirmation a file is missing at
  its first absence, and the property is false.

`OnePath` and `RegisteredFirst` are properties of no run of their own, since `IInv`
has them among its parts.  `DraftInv` is what a draft has to satisfy, and `DraftedShape` where its rows come
from; both steps that write drafts use them.

`FirstIndexProofs` proves for every sequence of roots, set of paths and tasks and every
bound:

- `Invariance`: `IInv` is inductive.  `SuccessShowsFiles` needs to know at the end
  of a run what each scan found (`SeenOK`), which needs the number of roots listed
  and dealt with at every point (`CountsOK`, `Listed`, `Handled`), and that the
  points are those of the lock's holder (`TypeOK`).  `SearchIsCurrent` needs that
  a full run only writes rows before the mark (`SearchOK`) and that the delta of a
  path scan names each row whose status it changes but the suspected ones
  (`FolderSearch`), and `EngineHasIndex` that a task in the hand-over saw a
  successful run and a folder (`HandOverOK`).  That the run was a full one does not
  hold, as told above.
- `SearchStaysCurrent`, `EngineStartsFromIndex`: conjuncts of `IInv`.
- `MissingNeedsAbsence`: the streak of a row never exceeds the scans that lacked
  its path (`StreakOK`), and only `CommitRoot` and `ScanFolder` write rows
  (`RowsChange`).
- `SuccessIsComplete`: a success is the last step of a run (`SuccessIsFinish`), no
  root failed or was guarded in it, so every row is that of a listed root.

`StartupProofs` proves for every set of identifiers and connections and every bound:

- `Invariance`: `IInv` is inductive.  What a start may rely on at a step (`ProgressOK`)
  is not enough, since a start begins with the files an earlier one left: `FilesOK`
  says what a file can hold that was never completed, and that an index is never
  without the state of its site; `SiteOK` that the two files of a site agree, and
  `BackupOK` that those of a backup do, unless it is torn; `CopiesOK` that what is
  upgraded or seeded has been copied.
- `RefusedOnlyForCause`, `IndexOfItsSite`: a conjunct of `IInv`, and a consequence of
  another.
- `RecoveredWhenUp`: only `Settings` brings a site up (`UpBySettings`), and then
  `ProgressOK` has every repair.
- `SeedAfterCopies`, `UpgradeAfterCopy`, `SetupIsFinal`: only `Seed` adds identifiers
  where a start does (`IdsChange`), only `UpgradeState` raises the version of a
  file with data (`VersionRises`), and no work changes a setup that is made
  (`WorkOnState`).

There is a frame lemma for each kind of step (`WorkKeeps`, `RepairKeeps`, `CopyKeeps`,
`TablesKeep`, `StopKeeps`, `MishapKeeps`).

`AccountsProofs` proves for every number of accounts, sessions, requests and days,
from `AccountsAssumption` and `NoneIsNoRow`:

- `Invariance`: `IInv` is inductive.  `SessionsFollowAccount` alone is not: a login
  opens a session with what its request holds, so `RequestsOK` says what that is,
  an account that was active when it was read, with the password that was given.
  A step leaves a session as good as it was, ends it or opens one (`Kept`, `Fresh`),
  and `OwnersAndSessions` concludes from that for all actions.
- `TypeCorrect`, `SessionsFollow`: conjuncts of `IInv`.
- `EndForCause`: the action property `SessionsEndForCause`, by one lemma per action:
  what a request writes touches only the sessions of its own account
  (`RevokingEndsWell`), and a session that is not late belongs to an account in its
  order (`SessionsFollowAccount`), so enabling an account revives none (`NoReturn`).

`DownloadsProofs` proves for every number of addresses and requests and every
limit, window, block, wait and clock that `DownloadsAssumption` admits:

- `Invariance`: `IInv` is inductive.  Each hit is a download (`HitsAreGranted`), each
  download a request could still count is a hit unless the address was blocked
  since (`RecentAreHits`), and a block began with a full row (`BlockedIsFull`).
- `LimitKept`: the invariant `RateKept`.  Were `Limit` downloads before it in the
  window of a grant, the numbers of the hits would map them one to one into a
  row with fewer (`NotAllHeld`).
- `RefusedRightly`: the action property `RefusedForCause`, by the same count in the
  other direction (`ManyGranted`).
- `TypeCorrect`: a conjunct of `IInv`.

Checked by TLC only: every liveness property (fairness and `ENABLED` are beyond the
prover).  The properties of the three runs that end in a violation are not theorems
because they are false.

`OneEditor` is an assumption of the theorems it is named in and not of `Shares`,
so that the model also has two.

## Plan

In this order:

1. `ScopeIndex`: `_commit_scope` on folders: creation, rename, disappearance over
   two cycles, reappearance and descendants, with the missing rule of
   `ResourceIndex` and the cycles of path synchronizations, which confirm a file
   missing in quick succession.
2. `ShareVerify`: the rows of verification attempts; submissions and notifications.
3. The refinement of an abstract index by `ResourceIndex`: one row per file, changed
   only by commits.

## Not modelled

- `providers/delta.py`: nothing in the service constructs it; only tests run it.
- The AList client: a client of an external service whose outcomes (a listing, a
  failure, a restriction) are the inputs of the modules above.
- The web front end, browsing, the home page and previews: presentation and reads.
- Collections, favourites, history, playback and settings: rows written by one
  statement each, where the last write wins.
- Submissions and notifications: planned.
- The administrator's login, parsing of requests, headers and error formats.
- `recalibrate_sync_cycle.py`, the verification of archives and the copy of a stopped
  site: run by hand on a site that is down.
- Power failures that lose committed transactions.

`PROJECT.json` names the reason for each part.
