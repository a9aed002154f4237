----------------------------- MODULE FirstIndex -----------------------------
(***************************************************************************)
(* The first complete index of a site: run_sync and _commit_root of         *)
(* indexer.py, the scheduler and the administrator's request that call it   *)
(* (tasks/scheduler.py, tasks/sync.py, routers/admin/sync.py), and          *)
(* migrate_existing_index_to_rolling of sync/rolling.py, which hands the    *)
(* site over to the rolling engine afterwards.  A synchronization of chosen *)
(* paths (run_path_sync of sync/path_sync.py) may be asked for meanwhile:   *)
(* it shares the lock, the rows and the table of runs.                      *)
(*                                                                         *)
(* A run scans the content roots one after the other and commits each root  *)
(* to index.db by itself, so that a failing root leaves the others; a root  *)
(* that lost too much is not written at all.  Files change, AList refuses,  *)
(* and the process may restart between any two commits.  Every commit of    *)
(* index.db or state.db is a step of its own.                               *)
(*                                                                         *)
(* A row stands for a folder or a resource and is named by its path.        *)
(***************************************************************************)
EXTENDS Naturals, FiniteSets, Sequences

CONSTANTS
    Roots,       \* the enabled content roots, a sequence in sort order
    Paths,       \* paths of folders and files
    RootOf,      \* the content root of a path
    Scheduled,   \* the scheduler's task
    Manual,      \* the task of the administrator's requests
    PathTask,    \* the task of ManualSyncOrchestrator
    Nobody,      \* no task
    Confirm,     \* sync_missing_confirm_runs
    GuardItems,  \* sync_mass_change_min_items
    GuardShare,  \* sync_mass_change_ratio is 1 / GuardShare
    MaxChanges,  \* bound: changes of the files
    MaxFaults,   \* bound: exceptions and restarts
    MaxPathRuns, \* bound: requests to synchronize paths
    MaxFolders,  \* bound: folders one such request names
    MaxBeside    \* bound: changes and faults in a behaviour with such a request

Tasks == Scheduled \cup Manual \cup {PathTask}

ASSUME FirstIndexAssumption ==
    /\ Roots \in Seq({RootOf[p] : p \in Paths}) /\ Len(Roots) > 0
    /\ \A m, n \in 1..Len(Roots) : Roots[m] = Roots[n] => m = n
    /\ \A p \in Paths : \E n \in 1..Len(Roots) : Roots[n] = RootOf[p]
    /\ Scheduled \cap Manual = {} /\ PathTask \notin Scheduled \cup Manual
    /\ Nobody \notin Tasks
    /\ {Confirm, GuardItems, GuardShare} \subseteq Nat \ {0}
    /\ {MaxChanges, MaxFaults, MaxPathRuns, MaxFolders, MaxBeside} \subseteq Nat

VARIABLES
    disk,        \* AList: the paths that are there
    row,         \* index.db: folders and resources
    fts,         \* index.db: search_fts, the searchable paths
    last,        \* index.db: status of the newest SyncRun
    stuck,       \* index.db: an older SyncRun is still marked as running
    succeeded,   \* index.db: the kinds of SyncRun that ever succeeded
    rooted,      \* index.db: content roots whose own folder is an active row
    cycles,      \* index.db: active cycles of the rolling engine
    dirty,       \* state.db: search_index_dirty
    circuit,     \* state.db: sync_circuit_until is in the future
    engine,      \* state.db: sync_engine_version names the rolling engine
    lock,        \* memory: holder of sync_lock
    at,          \* memory: where each task is
    run,         \* memory: the local variables of run_sync
    job,         \* memory: the local variables of run_path_sync
    spent,       \* how much of the bounds is used
    unmarked,    \* history: the newest run did not come to mark the search table
    patched,     \* history: rows a path run took from active to suspected or back
                 \* since the search table was rebuilt
    away         \* history: recorded scans in a row that lacked a path

indexdb == <<row, fts, last, stuck, succeeded, rooted, cycles>>
statedb == <<dirty, circuit, engine>>
files == <<disk, away>>
marks == <<unmarked, patched>>
vars == <<disk, row, fts, last, stuck, succeeded, rooted, cycles, dirty, circuit,
          engine, lock, at, run, job, spent, unmarked, patched, away>>

-----------------------------------------------------------------------------
(* State *)

Rows == [status: {"none", "active", "suspected", "missing"}, streak: 0..Confirm]
NoRow == [status |-> "none", streak |-> 0]
ActiveRow == [status |-> "active", streak |-> 0]

RunStatuses == {"none", "running", "success", "partial", "failed", "suspicious"}
Unlocked == {"idle", "waiting", "migrate", "create", "enable", "queued"}
Locked == {"scan", "commit", "record", "open", "dirty", "rebuild", "clear", "reset",
           "folders"}

Run == [next: 1..Len(Roots) + 1,   \* the root to scan
        listing: SUBSET Paths,     \* what its scan found
        seen: SUBSET Paths,        \* what all scans of this run found
        completed: 0..Len(Roots), failed: 0..Len(Roots), suspicious: BOOLEAN]
NewRun == [next |-> 1, listing |-> {}, seen |-> {},
           completed |-> 0, failed |-> 0, suspicious |-> FALSE]

Job == [left: 0..MaxFolders,       \* folders to scan
        done: SUBSET Paths,        \* rows whose folder was scanned
        deferred: SUBSET Paths,    \* files left to the scan of the folder they may be from
        completed: BOOLEAN, failed: BOOLEAN]
NewJob == [left |-> 0, done |-> {}, deferred |-> {},
           completed |-> FALSE, failed |-> FALSE]

\* A behaviour with a request for paths has MaxBeside changes and faults at most.
Bounds == [changes: 0..MaxChanges, faults: 0..MaxFaults, paths: 0..MaxPathRuns]
Beside == spent.paths > 0 => spent.changes + spent.faults < MaxBeside

\* Type correctness; whoever is inside run_sync or run_path_sync holds the lock.
TypeOK ==
    /\ disk \subseteq Paths
    /\ row \in [Paths -> Rows]
    /\ fts \subseteq Paths
    /\ last \in RunStatuses
    /\ stuck \in BOOLEAN
    /\ succeeded \subseteq {"full", "path"}
    /\ rooted \subseteq {Roots[n] : n \in 1..Len(Roots)}
    /\ cycles \in Nat
    /\ dirty \in BOOLEAN /\ circuit \in BOOLEAN /\ engine \in BOOLEAN
    /\ lock \in Tasks \cup {Nobody}
    /\ at \in [Tasks -> Locked \cup Unlocked]
    /\ run \in Run /\ job \in Job
    /\ unmarked \in BOOLEAN /\ patched \subseteq Paths
    /\ spent \in Bounds
    /\ away \in [Paths -> 0..Confirm]
    /\ \A t \in Tasks : at[t] \in Locked <=> lock = t

PathsOf(S) == {p \in Paths : RootOf[p] = S}
Indexed(S) == {p \in PathsOf(S) : row[p].status \in {"active", "suspected"}}
Searchable(rows) == {p \in Paths : rows[p].status = "active"}

\* What the hand-over asks of index.db: some run of any kind succeeded, and a
\* folder is active.
Ready == succeeded # {} /\ rooted # {}

Init ==
    /\ disk \in SUBSET Paths
    /\ row = [p \in Paths |-> NoRow]
    /\ fts = {}
    /\ last = "none"
    /\ stuck = FALSE
    /\ succeeded = {}
    /\ rooted = {}
    /\ cycles = 0
    /\ dirty = FALSE
    /\ circuit = FALSE
    /\ engine = FALSE
    /\ lock = Nobody
    /\ at = [t \in Tasks |-> "idle"]
    /\ run = NewRun
    /\ job = NewJob
    /\ unmarked = FALSE
    /\ patched = {}
    /\ spent = [changes |-> 0, faults |-> 0, paths |-> 0]
    /\ away = [p \in Paths |-> 0]

Goto(t, point) == at' = [at EXCEPT ![t] = point]

-----------------------------------------------------------------------------
(* Files change at any time *)

Changed(new) ==
    /\ spent.changes < MaxChanges /\ Beside
    /\ spent' = [spent EXCEPT !.changes = spent.changes + 1]
    /\ disk' = new
    /\ UNCHANGED <<indexdb, statedb, lock, at, run, job, away, marks>>

AddFile(p) == p \notin disk /\ Changed(disk \cup {p})
RemoveFile(p) == p \in disk /\ Changed(disk \ {p})
MoveFile(p, q) ==
    /\ p \in disk /\ q \notin disk /\ RootOf[p] = RootOf[q]
    /\ Changed((disk \ {p}) \cup {q})

-----------------------------------------------------------------------------
(* Who starts a run *)

\* sync_preflight: nobody is inside run_sync and the circuit breaker is closed.
\* Neither is looked at again once the lock is there.
PreflightPassed == lock = Nobody /\ ~circuit

\* The scheduler hands a site that has its index over, and otherwise starts a
\* run when automatic_sync_due: whether the interval or the delay after a
\* failure is over is left open, that no run is under way is not.
SchedulerMigrates(t) ==
    /\ t \in Scheduled /\ at[t] = "idle" /\ ~engine /\ Ready
    /\ Goto(t, "migrate")
    /\ UNCHANGED <<files, indexdb, statedb, lock, run, job, spent, marks>>

SchedulerStartsOnce(t) ==
    /\ t \in Scheduled /\ at[t] = "idle" /\ ~engine /\ ~Ready
    /\ last = "none" /\ PreflightPassed
    /\ Goto(t, "waiting")
    /\ UNCHANGED <<files, indexdb, statedb, lock, run, job, spent, marks>>
SchedulerStarts(t) ==
    /\ t \in Scheduled /\ at[t] = "idle" /\ ~engine /\ ~Ready
    /\ last # "running" /\ PreflightPassed
    /\ Goto(t, "waiting")
    /\ UNCHANGED <<files, indexdb, statedb, lock, run, job, spent, marks>>

\* A request starts a run while the rolling engine is not in charge yet.
AdminStarts(t) ==
    /\ t \in Manual /\ at[t] = "idle" /\ ~engine /\ PreflightPassed
    /\ Goto(t, "waiting")
    /\ UNCHANGED <<files, indexdb, statedb, lock, run, job, spent, marks>>

-----------------------------------------------------------------------------
(* run_sync *)

\* Under the lock, a run that is still marked as running refuses this one.
Begin(t) ==
    /\ at[t] = "waiting" /\ lock = Nobody
    /\ IF last = "running" \/ stuck
       THEN Goto(t, "idle") /\ UNCHANGED <<lock, last, unmarked>>
       ELSE lock' = t /\ last' = "running" /\ Goto(t, "scan") /\ unmarked' = TRUE
    /\ run' = NewRun
    /\ UNCHANGED <<files, row, fts, stuck, succeeded, rooted, cycles, statedb, job,
                   spent, patched>>

\* scan_roots lists the next root.
Scan(t) ==
    /\ at[t] = "scan" /\ run.next <= Len(Roots)
    /\ LET S == Roots[run.next]
       IN  run' = [run EXCEPT !.listing = disk \cap PathsOf(S),
                              !.seen = run.seen \cup (disk \cap PathsOf(S))]
    /\ Goto(t, "commit")
    /\ UNCHANGED <<files, indexdb, statedb, lock, job, spent, marks>>

\* mass_change_guard_triggered, before any identity is resolved: a root that
\* lost too many of its rows is not written.
Guarded(lost, total) ==
    /\ lost > 0
    /\ lost >= GuardItems \/ lost * GuardShare > total

\* advance_missing_candidate.
AdvancedEarly(r) ==
    IF r.streak + 2 >= Confirm THEN [status |-> "missing", streak |-> Confirm]
    ELSE [status |-> "suspected", streak |-> r.streak + 1]
Advanced(r) ==
    IF r.streak + 1 >= Confirm THEN [status |-> "missing", streak |-> Confirm]
    ELSE [status |-> "suspected", streak |-> r.streak + 1]

\* The rows of a root once a listing is applied: listed ones are active again,
\* the rows in moved are now those of new paths, and the other ones that were
\* shown and are not listed come closer to missing.
Applied(S, listing, moved) ==
    [p \in Paths |->
        IF p \in listing THEN ActiveRow
        ELSE IF p \in moved THEN NoRow
        ELSE IF p \in Indexed(S) THEN Advanced(row[p])
        ELSE row[p]]

\* Rows whose identity may be followed to a path that had none.
Movable(S, listing) ==
    {moved \in SUBSET {p \in PathsOf(S) \ listing : row[p].status # "none"} :
        Cardinality(moved) <= Cardinality({p \in listing : row[p].status = "none"})}

\* The history of a root whose scan is recorded.
Counted(S) ==
    [p \in Paths |->
        IF RootOf[p] # S THEN away[p]
        ELSE IF p \in run.listing THEN 0
        ELSE IF away[p] < Confirm THEN away[p] + 1 ELSE Confirm]

\* _commit_root.
CommitRoot(t) ==
    /\ at[t] = "commit"
    /\ LET S == Roots[run.next]
           lost == Indexed(S) \ run.listing
           guarded == Guarded(Cardinality(lost), Cardinality(Indexed(S)))
       IN  /\ IF guarded
              THEN UNCHANGED <<row, away, rooted>>
              ELSE /\ \E moved \in Movable(S, run.listing) :
                          row' = Applied(S, run.listing, moved)
                   /\ away' = Counted(S)
                   /\ rooted' = rooted \cup {S}
           /\ run' = [run EXCEPT !.listing = {}, !.completed = run.completed + 1,
                                 !.suspicious = run.suspicious \/ guarded]
    /\ Goto(t, "record")
    /\ UNCHANGED <<disk, fts, last, stuck, succeeded, cycles, statedb, lock, job,
                   spent, marks>>

\* The counts of the run are committed after the root.
RecordRoot(t) ==
    /\ at[t] = "record"
    /\ run' = [run EXCEPT !.next = run.next + 1]
    /\ Goto(t, "scan")
    /\ UNCHANGED <<files, indexdb, statedb, lock, job, spent, marks>>

Fault ==
    /\ spent.faults < MaxFaults /\ Beside
    /\ spent' = [spent EXCEPT !.faults = spent.faults + 1]

\* AList or the database fails a root: what is not committed of it is rolled
\* back, and the failure is recorded.  An access restriction ends the scans.
FailRoot(t) ==
    /\ Fault
    /\ at[t] \in {"scan", "commit", "record"} /\ run.next <= Len(Roots)
    /\ run' = [run EXCEPT !.next = run.next + 1, !.listing = {},
                           !.failed = run.failed + 1]
    /\ Goto(t, "scan") \/ Goto(t, "open")
    /\ UNCHANGED <<files, indexdb, statedb, lock, job, marks>>

OpenCircuit(t) ==
    /\ at[t] = "open"
    /\ circuit' = TRUE
    /\ Goto(t, "dirty")
    /\ UNCHANGED <<files, indexdb, dirty, engine, lock, run, job, spent, marks>>

\* The scans are over: all roots are done, or the circuit breaker is open.
ScansOver(t) ==
    \/ at[t] = "scan" /\ run.next > Len(Roots)
    \/ at[t] = "dirty"

MarkSearch(t) ==
    /\ ScansOver(t)
    /\ dirty' = TRUE
    /\ unmarked' = FALSE
    /\ Goto(t, "rebuild")
    /\ UNCHANGED <<files, indexdb, circuit, engine, lock, run, job, spent, patched>>

FinalStatusIgnoringFailures ==
    IF run.completed = 0 /\ run.failed > 0 THEN "failed"
    ELSE IF run.suspicious THEN "suspicious"
    ELSE "success"
FinalStatus ==
    IF run.completed = 0 /\ run.failed > 0 THEN "failed"
    ELSE IF run.failed > 0 THEN "partial"
    ELSE IF run.suspicious THEN "suspicious"
    ELSE "success"

\* The search table is rebuilt in the transaction that ends the run.
Finish(t) ==
    /\ at[t] = "rebuild"
    /\ fts' = Searchable(row) /\ patched' = {}
    /\ last' = FinalStatus
    /\ succeeded' = IF FinalStatus = "success" THEN succeeded \cup {"full"} ELSE succeeded
    /\ Goto(t, "clear")
    /\ UNCHANGED <<files, row, stuck, rooted, cycles, statedb, lock, run, job, spent,
                   unmarked>>

ClearSearch(t) ==
    /\ at[t] = "clear"
    /\ dirty' = FALSE
    /\ Goto(t, "reset")
    /\ UNCHANGED <<files, indexdb, circuit, engine, lock, run, job, spent, marks>>

\* reset_sync_circuit after a success, and the end of run_sync; a successful
\* request goes on to hand the site over.
EndRun(t) ==
    /\ at[t] = "reset"
    /\ circuit' = (circuit /\ last # "success")
    /\ lock' = Nobody
    /\ Goto(t, IF t \in Manual /\ last = "success" THEN "migrate" ELSE "idle")
    /\ run' = NewRun
    /\ UNCHANGED <<files, indexdb, dirty, engine, job, spent, marks>>

\* An exception or a cancellation that nothing below the task catches, wherever it
\* is: the task ends, the lock is released, and the row of the run stays as it is.
Raise(t) ==
    /\ Fault
    /\ at[t] # "idle"
    /\ lock' = IF lock = t THEN Nobody ELSE lock
    /\ run' = IF lock = t THEN NewRun ELSE run
    /\ job' = IF lock = t THEN NewJob ELSE job
    /\ Goto(t, "idle")
    /\ UNCHANGED <<files, indexdb, statedb, marks>>

CircuitExpires ==
    /\ circuit /\ circuit' = FALSE
    /\ UNCHANGED <<files, indexdb, dirty, engine, lock, at, run, job, spent, marks>>

-----------------------------------------------------------------------------
(* migrate_existing_index_to_rolling, without any lock: the engine version is  *)
(* read, then the newest successful run of whatever kind, the folders and the  *)
(* cycles; a cycle is created in index.db, and the version is written to       *)
(* state.db.                                                                   *)

ReadCyclesEnablingFirst(t) ==
    /\ at[t] = "migrate"
    /\ engine' = (engine \/ Ready)
    /\ Goto(t, IF engine \/ ~Ready \/ cycles > 0 THEN "idle" ELSE "create")
    /\ UNCHANGED <<files, indexdb, dirty, circuit, lock, run, job, spent, marks>>
ReadCycles(t) ==
    /\ at[t] = "migrate"
    /\ Goto(t, IF engine \/ ~Ready THEN "idle"
                ELSE IF cycles = 0 THEN "create" ELSE "enable")
    /\ UNCHANGED <<files, indexdb, statedb, lock, run, job, spent, marks>>

CreateCycle(t) ==
    /\ at[t] = "create"
    /\ cycles' = cycles + 1
    /\ Goto(t, "enable")
    /\ UNCHANGED <<files, row, fts, last, stuck, succeeded, rooted, statedb, lock, run, job,
                   spent, marks>>

EnableEngine(t) ==
    /\ at[t] = "enable"
    /\ engine' = TRUE
    /\ Goto(t, "idle")
    /\ UNCHANGED <<files, indexdb, dirty, circuit, lock, run, job, spent, marks>>

-----------------------------------------------------------------------------
(* run_path_sync: a request names folders, whose direct children are scanned   *)
(* under the lock, one folder and one commit after the other.                  *)

\* ManualSyncOrchestrator takes one request at a time; neither the circuit
\* breaker nor the engine is asked.
RequestPaths ==
    /\ at[PathTask] = "idle" /\ spent.paths < MaxPathRuns
    /\ spent.changes + spent.faults <= MaxBeside
    /\ spent' = [spent EXCEPT !.paths = spent.paths + 1]
    /\ Goto(PathTask, "queued")
    /\ UNCHANGED <<files, indexdb, statedb, lock, run, job, marks>>

\* n paths of the request are active folders.  Without one the run fails at once;
\* else its row is the newest, whatever older row still says that it is running.
BeginPathsUnlocked ==
    /\ at[PathTask] = "queued"
    /\ \E n \in 0..MaxFolders :
          /\ n > 0 => rooted # {}
          /\ IF n = 0
             THEN /\ last' = "failed" /\ Goto(PathTask, "idle")
                  /\ UNCHANGED <<lock, job>>
             ELSE /\ last' = "running" /\ Goto(PathTask, "folders") /\ lock' = PathTask
                  /\ job' = [NewJob EXCEPT !.left = n]
    /\ stuck' = (stuck \/ last = "running")
    /\ UNCHANGED <<files, row, fts, succeeded, rooted, cycles, statedb, run, spent, marks>>
BeginPaths ==
    /\ at[PathTask] = "queued" /\ lock = Nobody
    /\ \E n \in 0..MaxFolders :
          /\ n > 0 => rooted # {}
          /\ IF n = 0
             THEN /\ last' = "failed" /\ Goto(PathTask, "idle")
                  /\ UNCHANGED <<lock, job>>
             ELSE /\ last' = "running" /\ Goto(PathTask, "folders") /\ lock' = PathTask
                  /\ job' = [NewJob EXCEPT !.left = n]
    /\ stuck' = (stuck \/ last = "running")
    /\ UNCHANGED <<files, row, fts, succeeded, rooted, cycles, statedb, run, spent, marks>>

\* _scope_churn_guard: a folder that lost too many of its children fails.
ScopeGuarded(lost, total) ==
    \/ lost >= GuardItems
    \/ total >= GuardItems /\ lost * GuardShare > total

\* The rows once the children of a folder are observed: the ones in active are
\* active, the ones in hidden name no row, and the ones in lost came closer to
\* missing.
Observed(active, hidden, lost) ==
    [p \in Paths |->
        IF p \in active THEN ActiveRow
        ELSE IF p \in hidden THEN NoRow
        ELSE IF p \in lost THEN Advanced(row[p])
        ELSE row[p]]

\* The history of the children of a folder whose scan is recorded.
CountedIn(children, listed) ==
    [p \in Paths |->
        IF p \notin children THEN away[p]
        ELSE IF p \in listed THEN 0
        ELSE IF away[p] < Confirm THEN away[p] + 1 ELSE Confirm]

\* apply_search_fts_delta: rows that went are deleted, new and changed ones put in.
SearchDeltaInserting(lost, found) == fts \cup found
SearchDelta(lost, found) ==
    (fts \ {p \in lost : row'[p].status # "suspected"}) \cup found

\* _commit_scope for a folder with these children, of which some are listed, lost
\* and new.  A new file that may be from elsewhere is held back until the folder it
\* may be from is scanned (late); a lost row may be followed to a new path (moved).
\* The search table follows new, changed and missing rows only: a row that is
\* suspected stays in it, and a suspected folder seen again need not come back.
\* Renames of folders with what is below them are left out.
CommitScope(children, listed, lost, new) ==
    /\ \E held \in SUBSET new, late \in SUBSET (job.deferred \ children),
          moved \in SUBSET lost, changed \in SUBSET (listed \ new) :
          /\ Cardinality(moved) <= Cardinality((new \ held) \cup late)
          /\ row' = Observed((listed \ held) \cup late, held \cup moved, lost)
          /\ fts' = SearchDelta(lost, (new \ held) \cup late \cup changed)
          /\ job' = [job EXCEPT !.left = job.left - 1,
                                !.done = job.done \cup children,
                                !.deferred = (job.deferred \ late) \cup held,
                                !.completed = TRUE]
    /\ away' = CountedIn(children, listed)
    /\ patched' = patched \cup
          {p \in Paths : {row[p].status, row'[p].status} = {"active", "suspected"}}

\* _scan_cycle_item for the next folder, somewhere below the root S; children is
\* empty if its listing has not changed.
ScanFolder ==
    /\ at[PathTask] = "folders" /\ job.left > 0
    /\ UNCHANGED <<disk, last, stuck, succeeded, rooted, cycles, statedb, lock, at, run,
                   spent, unmarked>>
    /\ \E S \in rooted : \E children \in SUBSET (PathsOf(S) \ job.done) :
       LET listed == disk \cap children
           lost == (Indexed(S) \cap children) \ listed
           new == {p \in listed : row[p].status = "none"}
       IN  /\ ~ScopeGuarded(Cardinality(lost), Cardinality(Indexed(S) \cap children))
           /\ \A p \in listed : row[p].status # "missing"
           /\ CommitScope(children, listed, lost, new)

\* A folder that an earlier scan of the run took out of the active ones is passed
\* over.
SkipFolder ==
    /\ at[PathTask] = "folders" /\ job.left > 0 /\ job.done # {}
    /\ job' = [job EXCEPT !.left = job.left - 1]
    /\ UNCHANGED <<files, indexdb, statedb, lock, at, run, spent, marks>>

\* A folder fails: AList, the guard, a conflict with a missing row, or the search
\* table, which is marked then.
FailFolder ==
    /\ at[PathTask] = "folders" /\ job.left > 0
    /\ job' = [job EXCEPT !.left = job.left - 1, !.failed = TRUE]
    /\ dirty' \in {dirty, TRUE}
    /\ UNCHANGED <<files, indexdb, circuit, engine, lock, at, run, spent, marks>>

\* The row of the run is closed, as partial at best if a path of the request was
\* refused for not being an active folder; an exception outside the folders closes
\* it as failed.
LeavePaths(status) ==
    /\ last' = status
    /\ succeeded' = IF status = "success" THEN succeeded \cup {"path"} ELSE succeeded
    /\ lock' = Nobody /\ Goto(PathTask, "idle") /\ job' = NewJob
    /\ UNCHANGED <<files, row, fts, stuck, rooted, cycles, statedb, run, marks>>
ClosePaths ==
    /\ at[PathTask] = "folders" /\ job.left = 0
    /\ \E refused \in BOOLEAN :
          LeavePaths(IF ~job.failed /\ ~refused THEN "success"
                     ELSE IF ~job.completed /\ ~refused THEN "failed"
                     ELSE "partial")
    /\ UNCHANGED spent
FailPaths ==
    /\ Fault
    /\ at[PathTask] = "folders"
    /\ LeavePaths("failed")

-----------------------------------------------------------------------------
(* A stop or crash at any moment, and the start that follows: the search table *)
(* is rebuilt if it is marked or empty, a run under way is closed, a site with *)
(* an index is handed over.                                                    *)
Restart ==
    /\ Fault
    /\ IF dirty \/ fts = {}
       THEN fts' = Searchable(row) /\ unmarked' = FALSE /\ patched' = {}
       ELSE UNCHANGED <<fts, marks>>
    /\ dirty' = FALSE
    /\ last' = IF last = "running" THEN "failed" ELSE last
    /\ stuck' = FALSE
    /\ cycles' = IF Ready /\ ~engine /\ cycles = 0 THEN 1 ELSE cycles
    /\ engine' = (engine \/ Ready)
    /\ lock' = Nobody
    /\ at' = [t \in Tasks |-> "idle"]
    /\ run' = NewRun /\ job' = NewJob
    /\ UNCHANGED <<files, row, succeeded, rooted, circuit>>

-----------------------------------------------------------------------------
TaskStep(t) ==
    \/ SchedulerMigrates(t) \/ SchedulerStarts(t)
    \/ Begin(t) \/ Scan(t) \/ CommitRoot(t) \/ RecordRoot(t) \/ OpenCircuit(t)
    \/ MarkSearch(t) \/ Finish(t) \/ ClearSearch(t) \/ EndRun(t)
    \/ ReadCycles(t) \/ CreateCycle(t) \/ EnableEngine(t)

PathStep == BeginPaths \/ FailFolder \/ SkipFolder \/ ClosePaths \/ ScanFolder

Next ==
    \/ \E p \in Paths : AddFile(p) \/ RemoveFile(p)
    \/ \E p, q \in Paths : MoveFile(p, q)
    \/ \E t \in Tasks : TaskStep(t) \/ AdminStarts(t) \/ FailRoot(t) \/ Raise(t)
    \/ RequestPaths \/ PathStep \/ FailPaths
    \/ CircuitExpires
    \/ Restart

Spec == Init /\ [][Next]_vars

\* asyncio runs every task that is ready and serves sync_lock in order of
\* arrival, which is needed of the scheduler alone; the scheduler wakes every
\* minute, with automatic_sync switched on, and a pause of the circuit breaker
\* ends.  Nothing makes administrators ask, files change or AList fail.
FairSpec ==
    /\ Spec
    /\ \A t \in Scheduled \cup Manual : WF_vars(TaskStep(t))
    /\ \A t \in Scheduled : SF_vars(Begin(t))
    /\ WF_vars(PathStep) /\ WF_vars(CircuitExpires)
-----------------------------------------------------------------------------
(* Properties *)

\* A row becomes missing only after Confirm recorded scans of its root or folder in
\* a row, of whatever runs, that found its path gone: failing and guarded scans
\* bring nothing closer to it, and a recorded sighting starts the count again
\* (advance_missing_candidate, _observe_missing_in_cycle, _commit_root).
MissingWasAway ==
    [][\A p \in Paths : row'[p].status = "missing" /\ row[p].status # "missing"
                         => away'[p] >= Confirm]_vars

\* A full run that reports success leaves exactly the files its scans found shown:
\* no root failed, was guarded or was left out (the statuses of run_sync).
SuccessShowsFiles ==
    [][last = "running" /\ last' = "success" /\ lock # PathTask =>
          Searchable(row) = run.seen /\ run.next > Len(Roots)]_vars

\* Unless the search table is marked for the next start, or a full run is between
\* its first commit and the mark after its last root or ended there, the table
\* finds no row that is missing or gone, and exactly the active ones apart from
\* those a path run took from active to suspected or back since the last rebuild
\* (run_sync, _commit_scope, set_search_index_dirty, recover_search_index_if_dirty).
SearchIsCurrent ==
    \/ dirty \/ unmarked
    \/ \A p \in Paths :
          /\ p \in fts => row[p].status \in {"active", "suspected"}
          /\ p \notin patched => (p \in fts <=> row[p].status = "active")

\* The rolling engine takes over only with a successful run, an active folder and a
\* cycle to continue with, whatever is interrupted: the version in state.db never
\* comes before what it relies on in index.db (migrate_existing_index_to_rolling).
EngineHasIndex == engine => Ready /\ cycles > 0

\* The run row of a task that ended with an exception blocks every later full run
\* until the next restart.
Abandoned == (last = "running" \/ stuck) /\ lock = Nobody

\* A root whose loss triggers the guard at every scan.
GuardHolds ==
    \E n \in 1..Len(Roots) :
        LET S == Roots[n]
        IN  Guarded(Cardinality(Indexed(S) \ disk), Cardinality(Indexed(S)))

\* The site gets its index and is handed over to the rolling engine, unless an
\* abandoned run or a guarded root keeps it from it for good: failing roots,
\* restrictions, restarts and competing requests only delay it.
FirstIndexCompletes == <>[](engine \/ Abandoned \/ GuardHolds)

-----------------------------------------------------------------------------
(* The inductive invariant behind the theorems of FirstIndexProofs *)

\* Where the task that holds the lock is, how many roots the run has listed, and how
\* many it has dealt with.
Point == IF lock \in Tasks THEN at[lock] ELSE "idle"
Listed == IF Point \in {"commit", "record"} THEN run.next ELSE run.next - 1
Handled == IF Point = "record" THEN run.next ELSE run.next - 1
AmongFirst(p, k) == \E n \in 1..Len(Roots) : n <= k /\ Roots[n] = RootOf[p]

\* Each root counts at most once as completed and once as failed; without a
\* failure the scans end at the last root.
CountsOK ==
    /\ run.failed < run.next /\ run.completed <= Handled
    /\ Point \in {"commit", "record"} => run.next <= Len(Roots)
    /\ Point \in {"open", "dirty"} => run.failed > 0
    /\ Point = "rebuild" /\ run.failed = 0 => run.next > Len(Roots)
    /\ Point \in {"idle", "folders"} => run = NewRun

\* What a run has seen is of the roots it listed, and shown once these are applied.
SeenOK ==
    /\ \A p \in run.seen : AmongFirst(p, Listed)
    /\ Point = "commit" => run.listing = run.seen \cap PathsOf(Roots[run.next])
    /\ run.failed = 0 /\ ~run.suspicious =>
          \A p \in Paths : AmongFirst(p, Handled) =>
              (row[p].status = "active" <=> p \in run.seen)

\* A row has been absent at least as often as it was counted.
StreakOK == \A p \in Paths : row[p].streak <= away[p]

\* While a full run changes rows the table is unmarked; it is marked before it is
\* rebuilt.
SearchOK ==
    /\ SearchIsCurrent
    /\ Point \in {"scan", "commit", "record", "open", "dirty"} => unmarked
    /\ Point = "rebuild" => dirty
    /\ Point \in {"clear", "reset"} => fts = Searchable(row) /\ patched = {}

\* The hand-over creates a cycle for an index that is ready and enables after it.
HandOverOK ==
    /\ EngineHasIndex
    /\ \A t \in Tasks : /\ at[t] \in {"create", "enable"} => Ready
                        /\ at[t] = "enable" => cycles > 0

IInv == TypeOK /\ CountsOK /\ SeenOK /\ StreakOK /\ SearchOK /\ HandOverOK
=============================================================================
