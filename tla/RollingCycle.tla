---------------------------- MODULE RollingCycle ----------------------------
(***************************************************************************)
(* The rolling verification engine of CloudSite (sync/rolling.py) and the  *)
(* manual path synchronization that shares its lock and tables             *)
(* (sync/path_sync.py).                                                     *)
(*                                                                         *)
(* A rolling cycle holds one item per indexed folder.  The scheduler, the  *)
(* startup task and the administrator's requests each run "windows": take  *)
(* the process-wide sync_lock, select a share of the cycle's unfinished    *)
(* items, list each folder on AList, and commit after every step.  Every   *)
(* commit is a step of this specification, because a crash, another        *)
(* coroutine or an exception may come between any two of them.             *)
(*                                                                         *)
(* Time is counted in windows of six hours: a cycle of WindowsTotal        *)
(* windows is due again WindowsTotal units after its anchor.               *)
(***************************************************************************)
EXTENDS Integers, FiniteSets

CONSTANTS
    Folders,        \* folders that exist in AList under the content roots
    Parent,         \* Parent[f]: the parent folder, NoFolder for a content root
    NoFolder,
    AutoCallers,    \* scheduler_loop, _safe_startup_sync: honour the due time
    ManualCallers,  \* background tasks of POST /admin/sync[/window/run]
    PathTask,       \* the task ManualSyncOrchestrator.start runs
    Nobody,         \* the value of sync_lock when it is free
    WindowsTotal,   \* WINDOWS_PER_CYCLE; 4 in the code
    MaxAttempts,    \* settings.sync_max_item_attempts; 6 in the code
    MaxCycles,      \* bound: cycle rows created in a behaviour
    MaxPathSyncs,   \* bound: manual path synchronizations in a behaviour
    MaxAnchor,      \* bound: no rolling cycle is anchored later
    MaxTime,        \* bound: the clock stops here
    MaxCrashes,     \* bound: crashes in a behaviour
    MaxErrors       \* bound: exceptions that leave a window or path task

WindowCallers == AutoCallers \cup ManualCallers
Tasks == WindowCallers \cup {PathTask}
CycleIds == 1..MaxCycles

ASSUME FoldersAssumption ==
    /\ NoFolder \notin Folders
    /\ IsFiniteSet(Folders)
    /\ Parent \in [Folders -> Folders \cup {NoFolder}]
    /\ \A f \in Folders : Parent[f] # f
ASSUME TasksAssumption ==
    /\ PathTask \notin WindowCallers
    /\ Nobody \notin Tasks
    /\ AutoCallers \cap ManualCallers = {}
ASSUME BoundsAssumption ==
    /\ WindowsTotal \in Nat \ {0}
    /\ MaxAttempts \in Nat \ {0}
    /\ MaxCycles \in Nat \ {0}
    /\ MaxPathSyncs \in Nat
    /\ MaxAnchor \in Int
    /\ MaxTime \in Nat
    /\ MaxCrashes \in Nat
    /\ MaxErrors \in Nat

VARIABLES
    up,       \* the API process is running
    now,      \* the clock, in windows
    circuit,  \* state.db: sync_circuit_until lies in the future
    lock,     \* holder of sync_lock
    engine,   \* state.db: sync_engine_version is set, the engine has taken over
    latest,   \* highest cycle id in use, 0 before the first
    cycle,    \* index.db: sync_cycles
    item,     \* index.db: sync_cycle_items, per cycle and folder
    folder,   \* index.db: folders.status
    runs,     \* index.db: sync_runs rows still "running", as <<task, cycle>>
    task,     \* the local state of each coroutine
    crashes,  \* crashes so far
    errors    \* exceptions so far

faults == <<crashes, errors>>
vars == <<up, now, circuit, lock, engine, latest, cycle, item, folder, runs, task,
          crashes, errors>>

-----------------------------------------------------------------------------
(* Types *)

RollingKinds == {"migration", "recovery", "normal"}
ActiveStatuses == {"planned", "running", "partial", "overdue"}
CycleStatuses == ActiveStatuses \cup {"success", "failed", "none"}
CycleRow == [kind: RollingKinds \cup {"manual_path", "none"},
             status: CycleStatuses,
             anchor: Int, windows: 0..WindowsTotal]
NoCycle == [kind |-> "none", status |-> "none", anchor |-> 0, windows |-> 0]

PendingStatuses == {"pending", "failed"}
ItemStatuses == PendingStatuses \cup {"running", "success", "superseded", "none"}
ItemRow == [status: ItemStatuses, attempts: Nat, priority: {0, 100}]
NoItem == [status |-> "none", attempts |-> 0, priority |-> 0]
QueuedItem(prio) == [status |-> "pending", attempts |-> 0, priority |-> prio]
Planned(kind, anchor) ==
    [kind |-> kind, status |-> "planned", anchor |-> anchor, windows |-> 0]

FolderStatuses == {"absent", "active", "suspected_missing", "missing"}

\* Control points of a coroutine; those in LockedPoints hold sync_lock, those
\* in CreatorPoints lead to a new cycle without it.
LockedPoints == {"owner", "opening", "planning", "connecting", "looping", "scanning",
                 "tripping", "settling", "closing"}
CreatorPoints == {"seeding", "seeking", "creating"}
Points == LockedPoints \cup CreatorPoints \cup
          {"idle", "enabling", "called", "checked", "waiting", "unwinding"}
TaskState == [pc: Points,
              now: Nat,                     \* datetime.now() taken on entry
              row: CycleRow,                \* the cycle about to be inserted
              cur: CycleIds \cup {0},       \* the cycle of the window
              todo: SUBSET Folders,         \* item_ids not settled yet, or folders
                                            \* read for the items of a new cycle
              at: Folders \cup {NoFolder},  \* the item being scanned
              tries: 0..1,                  \* "attempt" of the retry loop
              hit: BOOLEAN]                 \* circuit_opened
IdleTask == [pc |-> "idle", now |-> 0, row |-> NoCycle, cur |-> 0, todo |-> {},
             at |-> NoFolder, tries |-> 0, hit |-> FALSE]

\* Type correctness of every variable.
TypeOK ==
    /\ up \in BOOLEAN
    /\ now \in 0..MaxTime
    /\ circuit \in BOOLEAN
    /\ lock \in Tasks \cup {Nobody}
    /\ engine \in BOOLEAN
    /\ latest \in CycleIds \cup {0}
    /\ cycle \in [CycleIds -> CycleRow]
    /\ item \in [CycleIds -> [Folders -> ItemRow]]
    /\ folder \in [Folders -> FolderStatuses]
    /\ runs \subseteq Tasks \X CycleIds
    /\ task \in [Tasks -> TaskState]
    /\ crashes \in 0..MaxCrashes
    /\ errors \in 0..MaxErrors

-----------------------------------------------------------------------------
(* Queries of the code *)

\* Mutant: an overdue cycle is no longer taken for active.
IsActiveUnlessOverdue(c) ==
    cycle[c].kind \in RollingKinds /\ cycle[c].status \in ActiveStatuses \ {"overdue"}

\* _active_cycle: a rolling cycle whose status is still active.
IsActive(c) == cycle[c].kind \in RollingKinds /\ cycle[c].status \in ActiveStatuses
ActiveCycles == {c \in CycleIds : IsActive(c)}

\* Items the planner may still select in cycle c.
Eligible(c) == {f \in Folders : /\ item[c][f].status \in PendingStatuses
                                /\ item[c][f].attempts < MaxAttempts}

\* Mutant: a fixed quota per window, rounded down.
FixedQuota(remaining, completed) == remaining \div WindowsTotal

\* calculate_window_target: the remaining items spread over the windows left.
WindowTarget(remaining, completed) ==
    LET left == IF WindowsTotal > completed THEN WindowsTotal - completed ELSE 1
    IN  (remaining + left - 1) \div left

\* ORDER BY failed first, then priority descending; ties go by row id, which
\* is left open here.
Precedes(c, f, g) ==
    LET a == item[c][f]  b == item[c][g]
    IN  \/ a.status = "failed" /\ b.status # "failed"
        \/ a.status = b.status /\ a.priority > b.priority

\* The selections a window of cycle c may make: the first n items in that order.
Selections(c, n) ==
    {S \in SUBSET Eligible(c) :
        /\ Cardinality(S) = n
        /\ \A f \in S, g \in Eligible(c) \ S : ~Precedes(c, g, f)}

WindowDueAt(c) == cycle[c].anchor + cycle[c].windows + 1
NextCycleAnchor(c) == cycle[c].anchor + WindowsTotal

\* resolve_rolling_mode: an active folder row is there, the index is not lost.
Active == {f \in Folders : folder[f] = "active"}
\* The content roots as prepare_index_recovery writes them.
SeededRoots == [f \in Folders |-> IF Parent[f] = NoFolder THEN "active" ELSE folder[f]]

\* Bound: a cycle is prepared only while an id is left for it besides those of
\* the cycles about to be inserted, and not after MaxAnchor.
Inserting == {t \in Tasks : task[t].pc \in {"creating", "opening"}}
IdLeft == latest < MaxCycles /\ Cardinality(Inserting) < MaxCycles - latest
Room(anchor) == IdLeft /\ anchor <= MaxAnchor

-----------------------------------------------------------------------------
(* Initial states: the engine has no cycle yet.                            *)

\* Either the first index is complete and the hand-over to the engine is still
\* to come, or the engine was in charge and its index is lost: no folder row is
\* left while state.db still names the content roots.
Init ==
    /\ up = TRUE /\ now = 0 /\ circuit = FALSE /\ lock = Nobody
    /\ \/ /\ engine = FALSE
          /\ folder \in {fs \in [Folders -> {"absent", "active"}] :
                           \A f \in Folders : Parent[f] = NoFolder => fs[f] = "active"}
       \/ engine = TRUE /\ folder = [f \in Folders |-> "absent"]
    /\ latest = 0
    /\ cycle = [c \in CycleIds |-> NoCycle]
    /\ item = [c \in CycleIds |-> [f \in Folders |-> NoItem]]
    /\ runs = {}
    /\ task = [t \in Tasks |-> IdleTask]
    /\ crashes = 0 /\ errors = 0

-----------------------------------------------------------------------------
(* Helpers for the actions *)

At(t, points) == up /\ task[t].pc \in points
Become(t, state) == task' = [task EXCEPT ![t] = state]
Goto(t, point) == Become(t, [task[t] EXCEPT !.pc = point])
\* Leaving "async with sync_lock" and returning from the coroutine.
Return(t) == lock' = Nobody /\ Become(t, IdleTask)
CountError == errors < MaxErrors /\ errors' = errors + 1 /\ UNCHANGED crashes
\* The item under scan with a new status and so many more attempts ...
Recorded(t, status, attempts) ==
    LET c == task[t].cur  f == task[t].at  i == item[c][f]
    IN  [item EXCEPT ![c][f] = [i EXCEPT !.status = status, !.attempts = @ + attempts]]
CurrentStatus(t) == item[task[t].cur][task[t].at].status
\* ... and the coroutine that is done with it.
DoneWithItem(t, point) ==
    Become(t, [task[t] EXCEPT !.pc = point, !.todo = @ \ {task[t].at}, !.at = NoFolder])

-----------------------------------------------------------------------------
(* A cycle before the lock: hand-over and recovery                         *)

\* migrate_existing_index_to_rolling, called by the scheduler, by the startup
\* task and after a first index an administrator asked for.  The success of a
\* run that it reads is FirstIndex's matter; here it has been found.
CallMigration(t) ==
    /\ At(t, {"idle"}) /\ ~engine /\ Active # {}
    /\ Become(t, [task[t] EXCEPT !.pc = "seeking", !.row = Planned("migration", now)])
    /\ UNCHANGED <<up, now, circuit, lock, engine, latest, cycle, item, folder, runs, faults>>

\* A window call that finds the index lost: prepare_index_recovery.
CallRecovery(t) ==
    /\ At(t, {"idle"}) /\ engine /\ Active = {}
    /\ Become(t, [task[t] EXCEPT !.pc = "seeding", !.now = now,
                                 !.row = Planned("recovery", now - 1)])
    /\ UNCHANGED <<up, now, circuit, lock, engine, latest, cycle, item, folder, runs, faults>>

\* It tests the mode once more and gives up when another call has seeded the
\* index; otherwise it commits the content roots that have no folder row.
SeedRoots(t) ==
    /\ At(t, {"seeding"})
    /\ \/ /\ Active # {}
          /\ Become(t, IdleTask) /\ UNCHANGED folder
       \/ /\ folder' = SeededRoots
          /\ Goto(t, "seeking")
    /\ UNCHANGED <<up, now, circuit, lock, engine, latest, cycle, item, runs, faults>>

\* Where a coroutine goes on once its cycle is there.
AfterCreation(t) ==
    CASE task[t].row.kind = "migration" -> "enabling"
      [] task[t].row.kind = "recovery" -> "called"
      [] OTHER -> "planning"

\* _create_cycle reads: an active cycle is taken as it is; without one the
\* folders of the new cycle are read.  No lock is held.
SeekCycle(t) ==
    /\ At(t, {"seeking"})
    /\ \/ /\ ActiveCycles # {}
          /\ Become(t, [task[t] EXCEPT !.pc = AfterCreation(t), !.row = NoCycle])
       \/ /\ ActiveCycles = {} /\ Room(task[t].row.anchor)
          /\ Become(t, [task[t] EXCEPT !.pc = "creating", !.todo = Active])
    /\ UNCHANGED <<up, now, circuit, lock, engine, latest, cycle, item, folder, runs, faults>>

\* _create_cycle writes: the row and one item per folder read, in one commit,
\* whatever another coroutine has inserted since the read.
InsertCycle(t) ==
    /\ At(t, {"creating", "opening"}) /\ latest < MaxCycles
    /\ latest' = latest + 1
    /\ cycle' = [cycle EXCEPT ![latest + 1] = task[t].row]
    /\ item' = [item EXCEPT ![latest + 1] = [f \in Folders |->
                   IF f \in task[t].todo THEN QueuedItem(0) ELSE NoItem]]
    /\ Become(t, [task[t] EXCEPT !.pc = AfterCreation(t), !.row = NoCycle, !.todo = {},
                     !.cur = IF task[t].pc = "opening" THEN latest + 1 ELSE 0])
    /\ UNCHANGED <<up, now, circuit, lock, engine, folder, runs, faults>>

\* state.db names the engine, in a commit after the one of the cycle.
EnableEngine(t) ==
    /\ At(t, {"enabling"})
    /\ engine' = TRUE
    /\ Become(t, IdleTask)
    /\ UNCHANGED <<up, now, circuit, lock, latest, cycle, item, folder, runs, faults>>

-----------------------------------------------------------------------------
(* A window: run_due_rolling_window *)

\* Entry in mode NORMAL: take the time and find sync_lock free; otherwise the
\* call returns "already_running" and changes nothing.
Call(t) ==
    /\ At(t, {"idle"}) /\ engine /\ Active # {} /\ lock = Nobody
    /\ Become(t, [task[t] EXCEPT !.pc = "checked", !.now = now])
    /\ UNCHANGED <<up, now, circuit, lock, engine, latest, cycle, item, folder, runs, faults>>

\* The same test by a call that has prepared a recovery first.
FindLock(t) ==
    /\ At(t, {"called"})
    /\ Become(t, IF lock = Nobody THEN [task[t] EXCEPT !.pc = "checked"] ELSE IdleTask)
    /\ UNCHANGED <<up, now, circuit, lock, engine, latest, cycle, item, folder, runs, faults>>

\* Read the circuit breaker, before the lock is requested.
CheckCircuit(t) ==
    /\ At(t, {"checked"})
    /\ Become(t, IF circuit THEN IdleTask ELSE [task[t] EXCEPT !.pc = "waiting"])
    /\ UNCHANGED <<up, now, circuit, lock, engine, latest, cycle, item, folder, runs, faults>>

Acquire(t) ==
    /\ At(t, {"waiting"}) /\ lock = Nobody
    /\ lock' = t
    /\ Goto(t, "owner")
    /\ UNCHANGED <<up, now, circuit, engine, latest, cycle, item, folder, runs, faults>>

\* _ensure_current_cycle: the newest active rolling cycle ...
ReuseCycle(t) ==
    /\ At(t, {"owner"}) /\ t \in WindowCallers
    /\ \E c \in ActiveCycles :
          /\ \A d \in ActiveCycles : d <= c
          /\ Become(t, [task[t] EXCEPT !.pc = "planning", !.cur = c])
    /\ UNCHANGED <<up, now, circuit, lock, engine, latest, cycle, item, folder, runs, faults>>

\* ... or a new one, once 24 hours have passed since the anchor of the newest
\* cycle row of any kind; at once when there is no row.
DueAnchor(t) == IF latest = 0 THEN task[t].now ELSE NextCycleAnchor(latest)
CycleDue(t) == task[t].now >= DueAnchor(t) /\ Room(DueAnchor(t))
FindNoCycle(t) ==
    /\ At(t, {"owner"}) /\ t \in WindowCallers
    /\ ActiveCycles = {} /\ CycleDue(t)
    /\ Become(t, [task[t] EXCEPT !.pc = "opening", !.row = Planned("normal", DueAnchor(t)),
                                 !.todo = Active])
    /\ UNCHANGED <<up, now, circuit, lock, engine, latest, cycle, item, folder, runs, faults>>

CycleNotDue(t) ==
    /\ At(t, {"owner"}) /\ t \in WindowCallers
    /\ ActiveCycles = {} /\ ~CycleDue(t)
    /\ Return(t)
    /\ UNCHANGED <<up, now, circuit, engine, latest, cycle, item, folder, runs, faults>>

WindowDue(t) == t \in ManualCallers \/ task[t].now >= WindowDueAt(task[t].cur)

WindowNotDue(t) ==
    /\ At(t, {"planning"}) /\ ~WindowDue(t)
    /\ Return(t)
    /\ UNCHANGED <<up, now, circuit, engine, latest, cycle, item, folder, runs, faults>>

\* Nothing left to select: the cycle is finished without a window.
CompleteEmpty(t) ==
    /\ At(t, {"planning"}) /\ WindowDue(t)
    /\ Eligible(task[t].cur) = {}
    /\ cycle' = [cycle EXCEPT ![task[t].cur] = [@ EXCEPT !.status = "success"]]
    /\ Return(t)
    /\ UNCHANGED <<up, now, circuit, engine, latest, item, folder, runs, faults>>

\* Select the window's items; run row and cycle become "running".
PlanWindow(t) ==
    LET c == task[t].cur IN
    /\ At(t, {"planning"}) /\ WindowDue(t)
    /\ Eligible(c) # {}
    /\ \E S \in Selections(c, WindowTarget(Cardinality(Eligible(c)), cycle[c].windows)) :
          Become(t, [task[t] EXCEPT !.pc = "connecting", !.todo = S])
    /\ cycle' = [cycle EXCEPT ![c] = [@ EXCEPT !.status = "running"]]
    /\ runs' = runs \cup {<<t, c>>}
    /\ UNCHANGED <<up, now, circuit, lock, engine, latest, item, folder, faults>>

\* load_client_and_roots and the client's login (window and path task alike).
Connect(t) ==
    /\ At(t, {"connecting"})
    /\ Goto(t, "looping")
    /\ UNCHANGED <<up, now, circuit, lock, engine, latest, cycle, item, folder, runs, faults>>

StartItem(t) ==
    /\ At(t, {"looping"}) /\ t \in WindowCallers
    /\ \E f \in task[t].todo :
          /\ item' = [item EXCEPT ![task[t].cur][f] = [@ EXCEPT !.status = "running"]]
          /\ Become(t, [task[t] EXCEPT !.pc = "scanning", !.at = f, !.tries = 0])
    /\ UNCHANGED <<up, now, circuit, lock, engine, latest, cycle, folder, runs, faults>>

\* _commit_scope on the folder rows below f: listed children become active,
\* unlisted ones are suspected and, when a second cycle misses them, missing.
\* A child already confirmed missing cannot be inserted again.
Children(f) == {k \in Folders : Parent[k] = f}
ScopeResult(f, listed, confirmed) ==
    [k \in Folders |->
        CASE k \in listed -> "active"
          [] k \in Children(f) \ listed /\ folder[k] = "active" -> "suspected_missing"
          [] k \in confirmed -> "missing"
          [] OTHER -> folder[k]]

\* The listing f returns, with the suspects this scan confirms.
Scan(f, listed, confirmed) ==
    /\ folder[f] = "active"
    /\ \A k \in listed : folder[k] # "missing"
    /\ confirmed \subseteq {k \in Children(f) \ listed : folder[k] = "suspected_missing"}
    /\ folder' = ScopeResult(f, listed, confirmed)

\* The fingerprint may only match when no listed folder is new, none is gone
\* and none is suspected; then _mark_unchanged writes no child row.
MayBeUnchanged(f, listed) ==
    \A k \in Children(f) : /\ folder[k] # "suspected_missing"
                           /\ folder[k] = "active" <=> k \in listed

NoItemYet(t) == {k \in Folders : item[task[t].cur][k].status = "none"}

\* A listing that was committed: the item is verified and newly listed folders
\* join the cycle at priority 100.
ScanVerified(t) ==
    LET c == task[t].cur  f == task[t].at IN
    /\ At(t, {"scanning"}) /\ t \in WindowCallers
    /\ \E listed \in SUBSET Children(f), confirmed \in SUBSET Children(f),
          unchanged \in BOOLEAN :
          /\ Scan(f, listed, confirmed)
          /\ unchanged => MayBeUnchanged(f, listed)
          /\ item' = [Recorded(t, "success", 1) EXCEPT ![c] =
                [k \in Folders |-> IF ~unchanged /\ k \in listed \cap NoItemYet(t)
                                   THEN QueuedItem(100) ELSE @[k]]]
    /\ DoneWithItem(t, "looping")
    /\ UNCHANGED <<up, now, circuit, lock, engine, latest, cycle, runs, faults>>

\* The folder left the index before its turn: no request is sent.
ScanSuperseded(t) ==
    /\ At(t, {"scanning"}) /\ t \in WindowCallers
    /\ folder[task[t].at] # "active"
    /\ item' = Recorded(t, "superseded", 1)
    /\ DoneWithItem(t, "looping")
    /\ UNCHANGED <<up, now, circuit, lock, engine, latest, cycle, folder, runs, faults>>

\* The attempt failed and was rolled back; the attempt itself is counted.  The
\* first failure is retried at once, the second one settles the item.
ScanFailed(t) ==
    /\ At(t, {"scanning"}) /\ t \in WindowCallers
    /\ folder[task[t].at] = "active"
    /\ item' = Recorded(t, CurrentStatus(t), 1)
    /\ Become(t, IF task[t].tries = 0 THEN [task[t] EXCEPT !.tries = 1]
                                      ELSE [task[t] EXCEPT !.pc = "settling"])
    /\ UNCHANGED <<up, now, circuit, lock, engine, latest, cycle, folder, runs, faults>>

\* AList answered with an access restriction (405, 429, WAF).
ScanRestricted(t) ==
    /\ At(t, {"scanning"}) /\ t \in WindowCallers
    /\ folder[task[t].at] = "active"
    /\ item' = Recorded(t, CurrentStatus(t), 1)
    /\ Goto(t, "tripping")
    /\ UNCHANGED <<up, now, circuit, lock, engine, latest, cycle, folder, runs, faults>>

\* open_sync_circuit commits in state.db, after the attempt in index.db.
OpenCircuit(t) ==
    /\ At(t, {"tripping"})
    /\ circuit' = TRUE
    /\ Become(t, [task[t] EXCEPT !.pc = "settling", !.hit = TRUE])
    /\ UNCHANGED <<up, now, lock, engine, latest, cycle, item, folder, runs, faults>>

\* After the attempts: "pending" again when the circuit opened, else "failed".
SettleItem(t) ==
    /\ At(t, {"settling"})
    /\ item' = Recorded(t, IF task[t].hit THEN "pending" ELSE "failed", 0)
    /\ DoneWithItem(t, IF task[t].hit THEN "closing" ELSE "looping")
    /\ UNCHANGED <<up, now, circuit, lock, engine, latest, cycle, folder, runs, faults>>

\* Mutant: a window that settled its whole selection always completes the cycle.
CompleteWithSelection(t, windows) ==
    IF task[t].hit THEN "partial" ELSE "success"

\* The status a window leaves its cycle in.
ClosingStatus(t, windows) ==
    LET c == task[t].cur IN
    CASE task[t].hit -> IF task[t].now >= NextCycleAnchor(c) THEN "overdue" ELSE "partial"
      [] ~task[t].hit /\ Eligible(c) = {} -> "success"
      [] ~task[t].hit /\ Eligible(c) # {} ->
            IF windows >= WindowsTotal THEN "overdue" ELSE "partial"

\* Mutants: an interrupted window is counted, and the count is not capped.
CountInterrupted(t) ==
    LET w == cycle[task[t].cur].windows IN IF w = WindowsTotal THEN w ELSE w + 1
CountUncapped(t) ==
    LET w == cycle[task[t].cur].windows IN IF task[t].hit THEN w ELSE w + 1

WindowsAfter(t) ==
    LET w == cycle[task[t].cur].windows
    IN  IF task[t].hit \/ w = WindowsTotal THEN w ELSE w + 1

\* Close the window: an interrupted one is not counted as completed.
CloseWindow(t) ==
    LET c == task[t].cur IN
    /\ t \in WindowCallers
    /\ At(t, {"closing"}) \/ (At(t, {"looping"}) /\ task[t].todo = {})
    /\ cycle' = [cycle EXCEPT ![c] = [@ EXCEPT !.windows = WindowsAfter(t),
                                              !.status = ClosingStatus(t, WindowsAfter(t))]]
    /\ runs' = runs \ {<<t, c>>}
    /\ Return(t)
    /\ UNCHANGED <<up, now, circuit, engine, latest, item, folder, faults>>

-----------------------------------------------------------------------------
(* Exceptions that leave a window *)

\* Any other exception (no AList connection, a failing commit) unwinds the
\* coroutine; leaving the "async with" block frees the lock first.
WindowPoints(t) == LockedPoints \cup {"seeding", "called", "checked"} \cup
                   (IF task[t].row.kind = "recovery" THEN CreatorPoints ELSE {})
Raise(t) ==
    /\ At(t, WindowPoints(t)) /\ t \in WindowCallers
    /\ CountError
    /\ lock' = IF lock = t THEN Nobody ELSE lock
    /\ Become(t, [IdleTask EXCEPT !.pc = "unwinding"])
    /\ UNCHANGED <<up, now, circuit, engine, latest, cycle, item, folder, runs>>

\* A hand-over that fails is only logged: there is no window to finalize.
RaiseMigration(t) ==
    /\ \/ At(t, CreatorPoints) /\ task[t].row.kind = "migration"
       \/ At(t, {"enabling"})
    /\ CountError
    /\ Become(t, IdleTask)
    /\ UNCHANGED <<up, now, circuit, lock, engine, latest, cycle, item, folder, runs>>

\* _finalize_failed_rolling_window: without the lock, over every cycle.
\* Mutants: only items already tried are requeued; every item is.
RequeueTried(c, f) == IF item[c][f].status = "running" /\ item[c][f].attempts > 0
                      THEN [item[c][f] EXCEPT !.status = "pending"] ELSE item[c][f]
RequeueEverything(c, f) == IF item[c][f].status # "none"
                           THEN [item[c][f] EXCEPT !.status = "pending"] ELSE item[c][f]
Requeue(c, f) == IF item[c][f].status = "running"
                 THEN [item[c][f] EXCEPT !.status = "pending"] ELSE item[c][f]
RequeuedItems == [c \in CycleIds |-> [f \in Folders |-> Requeue(c, f)]]
PausedCycles == [c \in CycleIds |-> IF cycle[c].status = "running"
                   THEN [cycle[c] EXCEPT !.status = "partial"] ELSE cycle[c]]
FinalizeFailedWindow(t) ==
    /\ At(t, {"unwinding"})
    /\ item' = RequeuedItems
    /\ cycle' = PausedCycles
    /\ runs' = {r \in runs : r[1] = PathTask}
    /\ Goto(t, "idle")
    /\ UNCHANGED <<up, now, circuit, lock, engine, latest, folder, faults>>

-----------------------------------------------------------------------------
(* A manual path synchronization: ManualSyncOrchestrator, run_path_sync *)

\* try_reserve and create_task: the task goes straight to the lock.
PathCycles == {c \in CycleIds : cycle[c].kind = "manual_path"}
ReservePathSync ==
    /\ At(PathTask, {"idle"}) /\ Cardinality(PathCycles) < MaxPathSyncs
    /\ Goto(PathTask, "waiting")
    /\ UNCHANGED <<up, now, circuit, lock, engine, latest, cycle, item, folder, runs, faults>>

\* One manual_path cycle over the requested folders that are indexed.
PlanPathSync ==
    /\ At(PathTask, {"owner"}) /\ IdLeft
    /\ \E S \in SUBSET Active \ {{}} :
          /\ item' = [item EXCEPT ![latest + 1] = [f \in Folders |->
                        IF f \in S THEN QueuedItem(0) ELSE NoItem]]
          /\ Become(PathTask, [task[PathTask] EXCEPT !.pc = "connecting",
                                                     !.cur = latest + 1, !.todo = S])
    /\ latest' = latest + 1
    /\ cycle' = [cycle EXCEPT ![latest + 1] =
                   [kind |-> "manual_path", status |-> "running",
                    anchor |-> now, windows |-> 0]]
    /\ runs' = runs \cup {<<PathTask, latest + 1>>}
    /\ UNCHANGED <<up, now, circuit, lock, engine, folder, faults>>

\* None of the requested paths is an active folder.
RejectPathSync ==
    /\ At(PathTask, {"owner"})
    /\ Return(PathTask)
    /\ UNCHANGED <<up, now, circuit, engine, latest, cycle, item, folder, runs, faults>>

PathStartItem ==
    LET t == PathTask IN
    /\ At(t, {"looping"})
    /\ \E f \in task[t].todo :
          LET i == item[task[t].cur][f] IN
          /\ item' = [item EXCEPT ![task[t].cur][f] =
                        [i EXCEPT !.status = "running", !.attempts = @ + 1]]
          /\ Become(t, [task[t] EXCEPT !.pc = "scanning", !.at = f])
    /\ UNCHANGED <<up, now, circuit, lock, engine, latest, cycle, folder, runs, faults>>

\* The outcome of one path: verified without queueing descendants, superseded,
\* or failed; a failure, restricted or not, is not retried.
PathScan ==
    LET t == PathTask  f == task[t].at IN
    /\ At(t, {"scanning"})
    /\ \E status \in {"success", "superseded", "failed"} :
          /\ item' = Recorded(t, status, 0)
          /\ CASE status = "success" ->
                    \E listed, confirmed \in SUBSET Children(f) : Scan(f, listed, confirmed)
               [] status = "superseded" -> folder[f] # "active" /\ UNCHANGED folder
               [] status = "failed" -> folder[f] = "active" /\ UNCHANGED folder
    /\ DoneWithItem(t, "looping")
    /\ UNCHANGED <<up, now, circuit, lock, engine, latest, cycle, runs, faults>>

\* "success" needs every requested path to be indexed and verified.
ClosePathSync ==
    LET c == task[PathTask].cur IN
    /\ At(PathTask, {"looping"}) /\ task[PathTask].todo = {}
    /\ \E status \in {"success", "partial"} :
          /\ status = "success" => \A f \in Folders : item[c][f].status # "failed"
          /\ cycle' = [cycle EXCEPT ![c] = [@ EXCEPT !.status = status]]
    /\ runs' = runs \ {<<PathTask, c>>}
    /\ Return(PathTask)
    /\ UNCHANGED <<up, now, circuit, engine, latest, item, folder, faults>>

\* An exception outside the scan itself: _finalize_manual_cycle closes item,
\* cycle and run, but only when the cycle row still reads "running".  One that
\* meets the closing commit leaves every row as it is.
RaisePathSync ==
    LET c == task[PathTask].cur IN
    /\ At(PathTask, {"connecting", "looping", "scanning"})
    /\ CountError
    /\ \/ /\ cycle[c].status = "running"
          /\ item' = [item EXCEPT ![c] = [f \in Folders |->
                        IF @[f].status \in {"pending", "running"}
                        THEN [@[f] EXCEPT !.status = "failed"] ELSE @[f]]]
          /\ cycle' = [cycle EXCEPT ![c] = [@ EXCEPT !.status = "failed"]]
          /\ runs' = runs \ {<<PathTask, c>>}
       \/ /\ \/ cycle[c].status # "running"
             \/ task[PathTask].pc = "looping" /\ task[PathTask].todo = {}
          /\ UNCHANGED <<item, cycle, runs>>
    /\ Return(PathTask)
    /\ UNCHANGED <<up, now, circuit, engine, latest, folder>>

-----------------------------------------------------------------------------
(* The process and its environment *)

\* A crash, or a shutdown that cancels the tasks: memory is lost.
Crash ==
    /\ up /\ crashes < MaxCrashes
    /\ crashes' = crashes + 1
    /\ up' = FALSE /\ lock' = Nobody
    /\ task' = [t \in Tasks |-> IdleTask]
    /\ UNCHANGED <<now, circuit, engine, latest, cycle, item, folder, runs, errors>>

\* Startup, before any task exists: recover_interrupted_sync_runs and
\* recover_rolling_state, then a hand-over or a recovery that is still to be made.
\* Content roots are seeded when the index is lost, and engine is set in any case.
RecoveredFolders == IF Active = {} THEN SeededRoots ELSE folder
CycleWanted == (~engine \/ Active = {}) /\ ActiveCycles = {}
Restart ==
    /\ ~up /\ up' = TRUE /\ ~CycleWanted
    /\ engine' = TRUE /\ folder' = RecoveredFolders
    /\ item' = RequeuedItems
    /\ cycle' = PausedCycles
    /\ runs' = {}
    /\ UNCHANGED <<now, circuit, lock, latest, task, faults>>

RestartedCycle == IF engine THEN Planned("recovery", now - 1) ELSE Planned("migration", now)
RestartWithCycle ==
    /\ ~up /\ up' = TRUE /\ CycleWanted /\ Room(RestartedCycle.anchor)
    /\ engine' = TRUE /\ folder' = RecoveredFolders
    /\ latest' = latest + 1
    /\ item' = [RequeuedItems EXCEPT ![latest + 1] = [f \in Folders |->
                   IF RecoveredFolders[f] = "active" THEN QueuedItem(0) ELSE NoItem]]
    /\ cycle' = [PausedCycles EXCEPT ![latest + 1] = RestartedCycle]
    /\ runs' = {}
    /\ UNCHANGED <<now, circuit, lock, task, faults>>

Tick ==
    /\ now < MaxTime /\ now' = now + 1
    /\ UNCHANGED <<up, circuit, lock, engine, latest, cycle, item, folder, runs, task, faults>>

\* The cooldown of the circuit breaker has passed.
CircuitExpires ==
    /\ circuit /\ circuit' = FALSE
    /\ UNCHANGED <<up, now, lock, engine, latest, cycle, item, folder, runs, task, faults>>

-----------------------------------------------------------------------------
WindowStep(t) ==
    \/ CallMigration(t) \/ CallRecovery(t) \/ SeedRoots(t) \/ SeekCycle(t)
    \/ InsertCycle(t) \/ EnableEngine(t)
    \/ Call(t) \/ FindLock(t) \/ CheckCircuit(t) \/ Acquire(t)
    \/ ReuseCycle(t) \/ FindNoCycle(t) \/ CycleNotDue(t)
    \/ WindowNotDue(t) \/ CompleteEmpty(t) \/ PlanWindow(t) \/ Connect(t)
    \/ StartItem(t) \/ ScanVerified(t) \/ ScanSuperseded(t)
    \/ ScanFailed(t) \/ ScanRestricted(t) \/ OpenCircuit(t) \/ SettleItem(t)
    \/ CloseWindow(t) \/ FinalizeFailedWindow(t)

PathStep ==
    \/ ReservePathSync \/ Acquire(PathTask) \/ PlanPathSync \/ RejectPathSync
    \/ Connect(PathTask) \/ PathStartItem \/ PathScan \/ ClosePathSync

Next ==
    \/ \E t \in WindowCallers : WindowStep(t) \/ Raise(t) \/ RaiseMigration(t)
    \/ PathStep \/ RaisePathSync
    \/ Crash \/ Restart \/ RestartWithCycle \/ Tick \/ CircuitExpires

Spec == Init /\ [][Next]_vars

\* Every coroutine that can step does; a waiter gets the lock (asyncio.Lock is
\* first come, first served) and the scheduler keeps calling.  That the scheduler
\* calls presumes the setting automatic_sync, which an administrator turns on.
\* Crashes, manual calls and exceptions are never promised.
Fairness ==
    /\ \A t \in WindowCallers :
          /\ SF_vars((CallMigration(t) \/ CallRecovery(t) \/ Call(t)) /\ t \in AutoCallers)
          /\ SF_vars(Acquire(t))
          /\ WF_vars(WindowStep(t) /\ ~At(t, {"idle", "waiting"}))
    /\ SF_vars(Acquire(PathTask)) /\ WF_vars(PathStep /\ ~At(PathTask, {"idle", "waiting"}))
    /\ WF_vars(Restart \/ RestartWithCycle) /\ WF_vars(Tick) /\ WF_vars(CircuitExpires)

FairSpec == Spec /\ Fairness

-----------------------------------------------------------------------------
(* Safety *)

Scanning(t, c, f) == /\ lock = t /\ task[t].cur = c /\ task[t].at = f
                     /\ task[t].pc \in {"scanning", "tripping", "settling"}
Unwinding == \E t \in WindowCallers : task[t].pc = "unwinding"

\* While the service is up, an item of a rolling cycle reads "running" only if
\* the holder of sync_lock is working on it, or an exception is still being
\* finalized: none is left behind where the planner never selects it again.
NoOrphanItem ==
    up => \A c \in CycleIds, f \in Folders :
        item[c][f].status = "running" /\ cycle[c].kind \in RollingKinds =>
            \/ \E t \in WindowCallers : Scanning(t, c, f)
            \/ Unwinding

\* While the service is up, a rolling cycle reads "running" only under a window
\* that holds the lock for it, or until a pending exception is finalized.
NoOrphanCycle ==
    up => \A c \in CycleIds :
        cycle[c].status = "running" /\ cycle[c].kind \in RollingKinds =>
            \/ \E t \in WindowCallers :
                  /\ lock = t /\ task[t].cur = c
                  /\ task[t].pc \in LockedPoints \ {"owner", "opening"}
            \/ Unwinding

\* No crash, exception or race leaves an item or a cycle of the engine reading
\* "running" with nobody working on it.
NothingOrphaned == NoOrphanItem /\ NoOrphanCycle

\* At most one rolling cycle is active.  Two calls that hand over or recover
\* together, without the lock, make two (SeekCycle, InsertCycle).
Unfinished(c) == cycle[c].kind \in RollingKinds /\ cycle[c].status \in ActiveStatuses
OneActiveCycle ==
    \A c, d \in CycleIds : Unfinished(c) /\ Unfinished(d) => c = d

\* The engine is in charge of an index: no call is on its way to a cycle without
\* the lock, and one that found no cycle under the lock is still right.
HandedOver ==
    /\ engine /\ Active # {}
    /\ \A t \in Tasks : task[t].pc \notin CreatorPoints
    /\ \A t \in Tasks, c \in CycleIds : task[t].pc = "opening" => ~Unfinished(c)

\* Once the hand-over or the recovery is over and has left at most one active
\* cycle, no window, path synchronization, exception or restart makes a second.
OneCycleKept ==
    [][HandedOver /\ OneActiveCycle => HandedOver' /\ OneActiveCycle']_vars

\* A cycle that reports success holds no item a further window would select and
\* none that a lost coroutine left running.
SuccessIsDrained ==
    \A c \in CycleIds : cycle[c].kind \in RollingKinds /\ cycle[c].status = "success" =>
        \A f \in Folders :
            /\ item[c][f].status # "running"
            /\ item[c][f].status \in PendingStatuses => item[c][f].attempts >= MaxAttempts

\* After WindowsTotal counted windows every item planned with the cycle has been
\* tried: the quotas of calculate_window_target leave no remainder.
LastWindowReachesAll ==
    \A c \in CycleIds : cycle[c].windows = WindowsTotal =>
        \A f \in Folders :
            item[c][f].status # "none" /\ item[c][f].priority = 0 => item[c][f].attempts > 0

\* Within a cycle a verified item stays verified: no retry, restart or failure
\* handling of another window makes the service list the folder again.
VerifiedOnce ==
    [][\A c \in CycleIds, f \in Folders :
          item[c][f].status = "success" => item'[c][f] = item[c][f]]_vars

\* windows_completed advances only when a window settled every item it
\* selected, and by one; an interrupted or failed window is never counted.
WindowCountedWhenDone ==
    [][\A c \in CycleIds : cycle'[c].windows # cycle[c].windows =>
          /\ cycle'[c].windows = cycle[c].windows + 1
          /\ \E t \in WindowCallers : /\ lock = t /\ task[t].cur = c
                                      /\ task[t].todo = {} /\ ~task[t].hit]_vars

-----------------------------------------------------------------------------
(* The inductive invariant behind the theorems of RollingCycleProofs *)

\* Inside the lock, with a cycle, and with an item of it.
WorkPoints == LockedPoints \ {"owner", "opening"}
ItemPoints == {"scanning", "tripping", "settling"}
OpenStatuses == PendingStatuses \cup {"running"}

\* What a coroutine works on: a cycle of its own kind, an item it selected, and
\* only items that are neither verified nor superseded.
WorkOK(t) ==
    LET c == task[t].cur IN
    /\ c \in 1..latest
    /\ IF t = PathTask THEN cycle[c].kind = "manual_path" ELSE IsActive(c)
    /\ \A f \in task[t].todo : item[c][f].status \in OpenStatuses
    /\ task[t].pc \in ItemPoints => task[t].at \in task[t].todo

\* The row a coroutine is about to insert is a planned cycle of its kind.
RowOK(t) ==
    LET r == task[t].row IN
    /\ task[t].pc \in CreatorPoints => r.kind \in {"migration", "recovery"}
    /\ task[t].pc = "opening" => r.kind = "normal"
    /\ task[t].pc \in CreatorPoints \cup {"opening"} => r = Planned(r.kind, r.anchor)

\* sync_lock is held by exactly the coroutine inside it; items are selected and
\* restrictions met only there, and a restriction leads straight to the close.
TaskOK(t) ==
    /\ task[t].pc \in LockedPoints <=> lock = t
    /\ task[t].pc \in WorkPoints => WorkOK(t)
    /\ task[t].pc \notin WorkPoints \cup {"creating", "opening"} => task[t].todo = {}
    /\ task[t].pc = "planning" => task[t].todo = {}
    /\ RowOK(t)
    /\ task[t].hit => task[t].pc \in {"settling", "closing"}
    /\ task[t].pc = "closing" => task[t].hit
    /\ t = PathTask => task[t].pc \in {"idle", "waiting", "owner", "connecting", "looping",
                                      "scanning"}

\* Memory is lost with the process.
DownIsIdle == ~up => \A t \in Tasks : task[t] = IdleTask

\* Rows beyond the newest cycle do not exist yet.
Fresh == \A c \in CycleIds : c > latest =>
            cycle[c] = NoCycle /\ item[c] = [f \in Folders |-> NoItem]

IInv == TypeOK /\ DownIsIdle /\ (\A t \in Tasks : TaskOK(t)) /\ Fresh

-----------------------------------------------------------------------------
(* Liveness *)

\* Every active rolling cycle is eventually completed, whatever folders fail.
CycleCompletes ==
    \A c \in CycleIds : Unfinished(c) ~> cycle[c].status = "success"
=============================================================================
