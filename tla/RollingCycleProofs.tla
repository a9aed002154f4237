------------------------- MODULE RollingCycleProofs -------------------------
(***************************************************************************)
(* Theorems about RollingCycle, for every set of folders and callers and   *)
(* every bound.  IInv of RollingCycle is the inductive invariant: one      *)
(* lemma per action shows that the action preserves it.                    *)
(***************************************************************************)
EXTENDS RollingCycle, TLAPS

-----------------------------------------------------------------------------
(* Type correctness of the rows and local states the actions write *)

LEMMA ItemTypes ==
    ASSUME NEW r \in ItemRow, NEW s \in ItemStatuses
    PROVE  /\ [r EXCEPT !.status = s] \in ItemRow
           /\ [r EXCEPT !.status = s, !.attempts = @ + 1] \in ItemRow
           /\ [r EXCEPT !.status = s, !.attempts = @ + 0] \in ItemRow
  <1>1. r.attempts + 1 \in Nat /\ r.attempts + 0 \in Nat
    BY DEF ItemRow
  <1>2. QED
    BY <1>1 DEF ItemRow

LEMMA CycleTypes ==
    ASSUME NEW r \in CycleRow, NEW s \in CycleStatuses, NEW w \in 0..WindowsTotal
    PROVE  /\ [r EXCEPT !.status = s] \in CycleRow
           /\ [r EXCEPT !.windows = w, !.status = s] \in CycleRow
  BY DEF CycleRow

\* NoCycle, NoItem and a queued item are rows; an idle task is a task state.
LEMMA BlankTypes ==
    /\ NoCycle \in CycleRow /\ NoItem \in ItemRow
    /\ QueuedItem(0) \in ItemRow /\ QueuedItem(100) \in ItemRow
    /\ IdleTask \in TaskState
    /\ [IdleTask EXCEPT !.pc = "unwinding"] \in TaskState
  <1>1. NoCycle \in CycleRow
    BY BoundsAssumption DEF NoCycle, CycleRow, CycleStatuses, ActiveStatuses, RollingKinds
  <1>2. NoItem \in ItemRow /\ QueuedItem(0) \in ItemRow /\ QueuedItem(100) \in ItemRow
    BY DEF NoItem, QueuedItem, ItemRow, ItemStatuses, PendingStatuses
  <1>3. "idle" \in Points /\ "unwinding" \in Points
    BY DEF Points
  <1>4. IdleTask \in TaskState
    BY <1>1, <1>3 DEF IdleTask, TaskState
  <1>5. [IdleTask EXCEPT !.pc = "unwinding"] \in TaskState
    BY <1>3, <1>4 DEF TaskState
  <1>6. QED
    BY <1>1, <1>2, <1>4, <1>5

LEMMA IdleTypes ==
    /\ IdleTask \in TaskState /\ IdleTask.pc = "idle" /\ IdleTask.todo = {} /\ ~IdleTask.hit
    /\ IdleTask.pc \notin LockedPoints /\ IdleTask.pc \notin CreatorPoints
  BY BlankTypes DEF IdleTask, LockedPoints, CreatorPoints

LEMMA PlannedTypes ==
    ASSUME NEW k \in RollingKinds, NEW a \in Int
    PROVE  /\ Planned(k, a) \in CycleRow
           /\ Planned(k, a).kind = k /\ Planned(k, a).anchor = a
           /\ Planned(k, a).status = "planned"
  <1>1. 0 \in 0..WindowsTotal
    BY BoundsAssumption
  <1>2. QED
    BY <1>1 DEF Planned, CycleRow, CycleStatuses, ActiveStatuses

LEMMA TaskTypes ==
    ASSUME NEW r \in TaskState, NEW p \in Points, NEW c \in CycleIds,
           NEW S \in SUBSET Folders, NEW f \in Folders, NEW n \in Nat, NEW k \in 0..1
    PROVE  /\ [r EXCEPT !.pc = p] \in TaskState
           /\ [r EXCEPT !.pc = p, !.now = n] \in TaskState
           /\ [r EXCEPT !.pc = p, !.cur = c] \in TaskState
           /\ [r EXCEPT !.pc = p, !.todo = S] \in TaskState
           /\ [r EXCEPT !.pc = p, !.cur = c, !.todo = S] \in TaskState
           /\ [r EXCEPT !.pc = p, !.at = f, !.tries = k] \in TaskState
           /\ [r EXCEPT !.pc = p, !.at = f] \in TaskState
           /\ [r EXCEPT !.pc = p, !.hit = TRUE] \in TaskState
           /\ [r EXCEPT !.pc = p, !.todo = @ \ {r.at}, !.at = NoFolder] \in TaskState
           /\ [r EXCEPT !.tries = k] \in TaskState
  BY DEF TaskState

-----------------------------------------------------------------------------
(* What a step leaves alone *)

\* A step that changes no row of the cycles and items.
LEMMA RowsKept ==
    ASSUME IInv, UNCHANGED <<latest, cycle, item>>
    PROVE  Fresh'
  BY DEF IInv, Fresh

\* A step of one coroutine: the others keep what they rely on, because they
\* are outside the lock or the rows do not change.
LEMMA OneTaskSteps ==
    ASSUME IInv, NEW t \in Tasks, up, up' = up,
           \A u \in Tasks \ {t} : task'[u] = task[u],
           \/ lock = t /\ lock' \in {t, Nobody}
           \/ lock = Nobody /\ lock' \in {t, Nobody} /\ UNCHANGED <<latest, cycle, item>>
           \/ lock' = lock /\ UNCHANGED <<latest, cycle, item>>
           \/ /\ lock' = lock /\ latest' = latest + 1
              /\ \A c \in CycleIds \ {latest + 1} : cycle'[c] = cycle[c] /\ item'[c] = item[c],
           TypeOK', TaskOK(t)', Fresh'
    PROVE  IInv'
  <1>1. DownIsIdle'
    BY DEF DownIsIdle
  <1>2. ASSUME NEW u \in Tasks, u # t PROVE TaskOK(u)'
    <2>1. TaskOK(u) /\ task'[u] = task[u] /\ u # Nobody
      BY <1>2, TasksAssumption DEF IInv
    <2>2. CASE lock = t /\ lock' \in {t, Nobody}
      <3>1. task'[u].pc \notin LockedPoints /\ lock' # u
        BY <2>1, <2>2, <1>2 DEF TaskOK
      <3>2. task'[u].pc \notin WorkPoints
        BY <3>1 DEF WorkPoints
      <3>3. QED
        BY <2>1, <3>1, <3>2 DEF TaskOK, RowOK
    <2>3. CASE UNCHANGED <<latest, cycle, item>> /\ (lock' = u <=> lock = u)
      <3>1. WorkOK(u)' <=> WorkOK(u)
        BY <2>1, <2>3 DEF WorkOK, IsActive
      <3>2. QED
        BY <2>1, <2>3, <3>1 DEF TaskOK, RowOK
    <2>4. CASE /\ lock' = lock /\ latest' = latest + 1
               /\ \A c \in CycleIds \ {latest + 1} : cycle'[c] = cycle[c] /\ item'[c] = item[c]
      <3>1. CASE task[u].pc \in WorkPoints
        <4>1. latest \in Int /\ WorkOK(u) /\ task[u].cur \in 1..latest /\ task[u].cur \in CycleIds
          BY <2>1, <3>1, BoundsAssumption DEF TaskOK, WorkOK, IInv, TypeOK, CycleIds
        <4>2. task[u].cur # latest + 1 /\ task[u].cur \in 1..latest'
          BY <2>4, <4>1
        <4>3. WorkOK(u)'
          BY <2>1, <2>4, <4>1, <4>2 DEF WorkOK, IsActive
        <4>4. QED
          BY <2>1, <2>4, <4>3 DEF TaskOK, RowOK
      <3>2. CASE task[u].pc \notin WorkPoints
        BY <2>1, <2>4, <3>2 DEF TaskOK, RowOK
      <3>3. QED
        BY <3>1, <3>2
    <2>5. QED
      BY <2>1, <2>2, <2>3, <2>4, <1>2
  <1>3. \A u \in Tasks : TaskOK(u)'
    BY <1>2
  <1>4. QED
    BY <1>1, <1>3 DEF IInv

\* A coroutine moves between control points and changes no row.
LEMMA OneTaskMoves ==
    ASSUME IInv, NEW t \in Tasks, NEW r \in TaskState, up, up' = up,
           Become(t, r), lock' \in Tasks \cup {Nobody},
           \/ lock = t /\ lock' \in {t, Nobody}
           \/ lock = Nobody /\ lock' \in {t, Nobody}
           \/ lock' = lock,
           now' = now, circuit' \in BOOLEAN, engine' \in BOOLEAN, errors' \in 0..MaxErrors,
           folder' \in [Folders -> FolderStatuses],
           UNCHANGED <<latest, cycle, item, runs, crashes>>,
           TaskOK(t)'
    PROVE  IInv'
  <1>1. task \in [Tasks -> TaskState]
    BY DEF IInv, TypeOK
  <1>2. task' \in [Tasks -> TaskState] /\ \A u \in Tasks \ {t} : task'[u] = task[u]
    BY <1>1 DEF Become
  <1>3. TypeOK'
    BY <1>2 DEF IInv, TypeOK
  <1>4. Fresh'
    BY RowsKept
  <1>5. QED
    BY <1>2, <1>3, <1>4, OneTaskSteps

\* Facts about the coroutine t and its local state.
LEMMA TaskFacts ==
    ASSUME IInv, NEW t \in Tasks
    PROVE  /\ task[t] \in TaskState /\ TaskOK(t)
           /\ task \in [Tasks -> TaskState]
           /\ task[t].pc \in LockedPoints => lock = t
           /\ task[t].pc \notin LockedPoints => lock # t
           /\ t # Nobody
  <1>1. task \in [Tasks -> TaskState] /\ TaskOK(t)
    BY DEF IInv, TypeOK
  <1>2. QED
    BY <1>1, TasksAssumption DEF TaskOK

\* A coroutine that returned is in order.
LEMMA ReturnedOK ==
    ASSUME IInv, NEW t \in Tasks, Return(t)
    PROVE  /\ TaskOK(t)'
           /\ task' \in [Tasks -> TaskState]
           /\ \A u \in Tasks \ {t} : task'[u] = task[u]
           /\ lock' = Nobody
  <1>1. task \in [Tasks -> TaskState] /\ t # Nobody
    BY TaskFacts
  <1>2. task'[t] = IdleTask /\ lock' = Nobody
    BY <1>1 DEF Return, Become
  <1>3. task'[t].pc = "idle" /\ task'[t].todo = {} /\ task'[t].hit = FALSE
    BY <1>2 DEF IdleTask
  <1>4. TaskOK(t)'
    BY <1>1, <1>2, <1>3 DEF TaskOK, RowOK, CreatorPoints, LockedPoints, WorkPoints
  <1>5. task' \in [Tasks -> TaskState] /\ \A u \in Tasks \ {t} : task'[u] = task[u]
    BY <1>1, BlankTypes DEF Return, Become
  <1>6. QED
    BY <1>2, <1>4, <1>5

LEMMA ReturnKeepsIInv ==
    ASSUME IInv, NEW t \in Tasks, up, lock = t, Return(t),
           UNCHANGED <<up, now, circuit, engine, latest, cycle, item, folder, runs, faults>>
    PROVE  IInv'
  <1>1. /\ TaskOK(t)' /\ task' \in [Tasks -> TaskState] /\ lock' = Nobody
        /\ \A u \in Tasks \ {t} : task'[u] = task[u]
    BY ReturnedOK
  <1>2. TypeOK'
    BY <1>1 DEF IInv, TypeOK, faults
  <1>3. Fresh'
    BY RowsKept
  <1>4. QED
    BY <1>1, <1>2, <1>3, OneTaskSteps

-----------------------------------------------------------------------------
(* The window's steps before its first item *)

LEMMA CallKeepsIInv ==
    ASSUME IInv, NEW t \in WindowCallers, Call(t) PROVE IInv'
  <1>. DEFINE r == [task[t] EXCEPT !.pc = "checked", !.now = now]
  <1>1. t \in Tasks /\ t # PathTask /\ up /\ task[t].pc = "idle" /\ lock = Nobody
    BY TasksAssumption DEF Call, At, Tasks
  <1>2. task[t] \in TaskState /\ now \in Nat /\ t # Nobody
    BY <1>1, TaskFacts, BoundsAssumption DEF IInv, TypeOK
  <1>3. r \in TaskState /\ r.pc = "checked" /\ r.todo = {} /\ ~r.hit
    <2>1. task[t].todo = {} /\ ~task[t].hit
      BY <1>1, TaskFacts DEF TaskOK, WorkPoints, LockedPoints
    <2>2. QED
      BY <2>1, <1>2 DEF TaskState, Points
  <1>4. Become(t, r) /\ UNCHANGED <<up, now, circuit, lock, engine, latest, cycle, item, folder, runs, crashes, errors>>
    BY DEF Call, faults
  <1>5. task'[t] = r
    BY <1>1, <1>4, TaskFacts DEF Become
  <1>. HIDE DEF r
  <1>6. TaskOK(t)'
    BY <1>1, <1>2, <1>3, <1>4, <1>5 DEF TaskOK, RowOK, CreatorPoints, LockedPoints, WorkPoints
  <1>7. QED
    BY <1>1, <1>3, <1>4, <1>6, OneTaskMoves DEF IInv, TypeOK

\* A coroutine moves outside the lock; what it has read for a new cycle is in order.
LEMMA OutsideMoves ==
    ASSUME IInv, NEW t \in WindowCallers, NEW r \in TaskState, up, up' = up,
           task[t].pc \notin LockedPoints, Become(t, r),
           r.pc \notin LockedPoints, ~r.hit, r.pc # "creating" => r.todo = {},
           r.pc \in CreatorPoints =>
              r.row.kind \in {"migration", "recovery"} /\ r.row = Planned(r.row.kind, r.row.anchor),
           engine' \in BOOLEAN, errors' \in 0..MaxErrors,
           folder' \in [Folders -> FolderStatuses],
           UNCHANGED <<now, circuit, lock, latest, cycle, item, runs, crashes>>
    PROVE  IInv'
  <1>1. t \in Tasks /\ t # PathTask
    BY TasksAssumption DEF Tasks
  <1>2. task'[t] = r /\ lock' # t
    BY <1>1, TaskFacts DEF Become
  <1>3. r.pc \notin WorkPoints /\ r.pc # "planning" /\ r.pc # "closing" /\ r.pc # "opening"
    BY DEF WorkPoints, LockedPoints
  <1>4. RowOK(t)'
    BY <1>2, <1>3 DEF RowOK
  <1>5. TaskOK(t)'
    BY <1>1, <1>2, <1>3, <1>4 DEF TaskOK
  <1>6. QED
    BY <1>1, <1>5, OneTaskMoves DEF IInv, TypeOK

\* Outside the lock a coroutine holds nothing but what it read for a new cycle.
LEMMA OutsideFacts ==
    ASSUME IInv, NEW t \in WindowCallers, task[t].pc \notin LockedPoints
    PROVE  /\ t \in Tasks /\ task[t] \in TaskState /\ ~task[t].hit /\ RowOK(t)
           /\ task[t].pc # "creating" => task[t].todo = {}
  <1>1. t \in Tasks
    BY DEF Tasks
  <1>2. QED
    BY <1>1, TaskFacts DEF TaskOK, WorkPoints, LockedPoints

LEMMA CallCreatorKeepsIInv ==
    ASSUME IInv, NEW t \in WindowCallers, CallMigration(t) \/ CallRecovery(t) PROVE IInv'
  <1>1. up /\ task[t].pc = "idle" /\ now \in Nat
    BY BoundsAssumption DEF CallMigration, CallRecovery, At, IInv, TypeOK
  <1>2. task[t] \in TaskState /\ ~task[t].hit /\ task[t].todo = {}
    BY <1>1, OutsideFacts DEF LockedPoints
  <1>3. CASE CallMigration(t)
    <2>. DEFINE x == Planned("migration", now)
                r == [task[t] EXCEPT !.pc = "seeking", !.row = x]
    <2>1. x \in CycleRow /\ x.kind = "migration" /\ x.anchor = now
      BY <1>1, PlannedTypes DEF RollingKinds
    <2>2. x = Planned(x.kind, x.anchor)
      BY <2>1
    <2>3. /\ Become(t, r)
          /\ UNCHANGED <<up, now, circuit, lock, engine, latest, cycle, item, folder, runs,
                         crashes, errors>>
      BY <1>3 DEF CallMigration, faults
    <2>. HIDE DEF x
    <2>4. r \in TaskState /\ r.pc = "seeking" /\ r.row = x /\ r.todo = {} /\ ~r.hit
      BY <1>2, <2>1 DEF TaskState, Points, CreatorPoints
    <2>. HIDE DEF r
    <2>5. QED
      BY <1>1, <2>1, <2>2, <2>3, <2>4, OutsideMoves DEF LockedPoints, IInv, TypeOK
  <1>4. CASE CallRecovery(t)
    <2>. DEFINE x == Planned("recovery", now - 1)
                r == [task[t] EXCEPT !.pc = "seeding", !.now = now, !.row = x]
    <2>1. x \in CycleRow /\ x.kind = "recovery" /\ x.anchor = now - 1
      BY <1>1, PlannedTypes DEF RollingKinds
    <2>2. x = Planned(x.kind, x.anchor)
      BY <2>1
    <2>3. /\ Become(t, r)
          /\ UNCHANGED <<up, now, circuit, lock, engine, latest, cycle, item, folder, runs,
                         crashes, errors>>
      BY <1>4 DEF CallRecovery, faults
    <2>. HIDE DEF x
    <2>4. r \in TaskState /\ r.pc = "seeding" /\ r.row = x /\ r.todo = {} /\ ~r.hit
      BY <1>1, <1>2, <2>1 DEF TaskState, Points, CreatorPoints
    <2>. HIDE DEF r
    <2>5. QED
      BY <1>1, <2>1, <2>2, <2>3, <2>4, OutsideMoves DEF LockedPoints, IInv, TypeOK
  <1>5. QED
    BY <1>3, <1>4

LEMMA SeedRootsKeepsIInv ==
    ASSUME IInv, NEW t \in WindowCallers, SeedRoots(t) PROVE IInv'
  <1>1. up /\ task[t].pc = "seeding"
    BY DEF SeedRoots, At
  <1>2. /\ task[t] \in TaskState /\ ~task[t].hit /\ task[t].todo = {}
        /\ task[t].row.kind \in {"migration", "recovery"}
        /\ task[t].row = Planned(task[t].row.kind, task[t].row.anchor)
    BY <1>1, OutsideFacts DEF LockedPoints, RowOK, CreatorPoints
  <1>3. /\ folder' \in [Folders -> FolderStatuses]
        /\ Become(t, IdleTask) \/ Become(t, [task[t] EXCEPT !.pc = "seeking"])
        /\ UNCHANGED <<up, now, circuit, lock, engine, latest, cycle, item, runs,
                       crashes, errors>>
    <2>1. SeededRoots \in [Folders -> FolderStatuses]
      BY DEF SeededRoots, IInv, TypeOK, FolderStatuses
    <2>2. QED
      BY <2>1 DEF SeedRoots, Goto, faults, IInv, TypeOK
  <1>4. CASE Become(t, IdleTask)
    BY <1>1, <1>3, <1>4, IdleTypes, OutsideMoves DEF LockedPoints, IInv, TypeOK
  <1>5. CASE Become(t, [task[t] EXCEPT !.pc = "seeking"])
    <2>. DEFINE r == [task[t] EXCEPT !.pc = "seeking"]
    <2>1. /\ r \in TaskState /\ r.pc = "seeking" /\ r.row = task[t].row
          /\ r.todo = {} /\ ~r.hit
      BY <1>2 DEF TaskState, Points, CreatorPoints
    <2>2. Become(t, r)
      BY <1>5
    <2>. HIDE DEF r
    <2>3. QED
      BY <1>1, <1>2, <1>3, <2>1, <2>2, OutsideMoves DEF LockedPoints, IInv, TypeOK
  <1>6. QED
    BY <1>3, <1>4, <1>5

LEMMA SeekCycleKeepsIInv ==
    ASSUME IInv, NEW t \in WindowCallers, SeekCycle(t) PROVE IInv'
  <1>. DEFINE p == AfterCreation(t)
              r == [task[t] EXCEPT !.pc = p, !.row = NoCycle]
              q == [task[t] EXCEPT !.pc = "creating", !.todo = Active]
  <1>1. up /\ task[t].pc = "seeking"
    BY DEF SeekCycle, At
  <1>2. /\ task[t] \in TaskState /\ ~task[t].hit /\ task[t].todo = {}
        /\ task[t].row.kind \in {"migration", "recovery"}
        /\ task[t].row = Planned(task[t].row.kind, task[t].row.anchor)
    BY <1>1, OutsideFacts DEF LockedPoints, RowOK, CreatorPoints
  <1>3. p \in {"enabling", "called"} /\ p \in Points
    BY <1>2 DEF AfterCreation, Points
  <1>4. /\ Become(t, r) \/ Become(t, q)
        /\ UNCHANGED <<up, now, circuit, lock, engine, latest, cycle, item, folder, runs,
                       crashes, errors>>
    BY DEF SeekCycle, faults
  <1>. HIDE DEF p
  <1>5. r \in TaskState /\ r.pc = p /\ r.todo = {} /\ ~r.hit
    BY <1>2, <1>3, BlankTypes DEF TaskState
  <1>6. q \in TaskState /\ q.pc = "creating" /\ q.row = task[t].row /\ ~q.hit
    BY <1>2 DEF TaskState, Points, CreatorPoints, Active
  <1>. HIDE DEF r, q
  <1>7. CASE Become(t, r)
    BY <1>1, <1>3, <1>4, <1>5, <1>7, OutsideMoves DEF LockedPoints, CreatorPoints, IInv, TypeOK
  <1>8. CASE Become(t, q)
    BY <1>1, <1>2, <1>4, <1>6, <1>8, OutsideMoves DEF LockedPoints, IInv, TypeOK
  <1>9. QED
    BY <1>4, <1>7, <1>8

LEMMA EnableEngineKeepsIInv ==
    ASSUME IInv, NEW t \in WindowCallers, EnableEngine(t) PROVE IInv'
  <1>1. /\ up /\ task[t].pc = "enabling" /\ Become(t, IdleTask) /\ engine' = TRUE
        /\ UNCHANGED <<up, now, circuit, lock, latest, cycle, item, folder, runs, crashes, errors>>
    BY DEF EnableEngine, At, faults
  <1>2. QED
    BY <1>1, IdleTypes, OutsideMoves DEF LockedPoints, IInv, TypeOK

LEMMA FindLockKeepsIInv ==
    ASSUME IInv, NEW t \in WindowCallers, FindLock(t) PROVE IInv'
  <1>. DEFINE r == [task[t] EXCEPT !.pc = "checked"]
  <1>1. /\ up /\ task[t].pc = "called" /\ (Become(t, r) \/ Become(t, IdleTask))
        /\ UNCHANGED <<up, now, circuit, lock, engine, latest, cycle, item, folder, runs,
                       crashes, errors>>
    BY DEF FindLock, At, faults
  <1>2. task[t] \in TaskState /\ ~task[t].hit /\ task[t].todo = {}
    BY <1>1, OutsideFacts DEF LockedPoints
  <1>3. r \in TaskState /\ r.pc = "checked" /\ r.todo = {} /\ ~r.hit
    BY <1>2 DEF TaskState, Points
  <1>. HIDE DEF r
  <1>4. CASE Become(t, r)
    BY <1>1, <1>3, <1>4, OutsideMoves DEF LockedPoints, CreatorPoints, IInv, TypeOK
  <1>5. CASE Become(t, IdleTask)
    BY <1>1, <1>5, IdleTypes, OutsideMoves DEF LockedPoints, IInv, TypeOK
  <1>6. QED
    BY <1>1, <1>4, <1>5

LEMMA RaiseMigrationKeepsIInv ==
    ASSUME IInv, NEW t \in WindowCallers, RaiseMigration(t) PROVE IInv'
  <1>1. /\ up /\ task[t].pc \in CreatorPoints \cup {"enabling"} /\ Become(t, IdleTask)
        /\ UNCHANGED <<up, now, circuit, lock, engine, latest, cycle, item, folder, runs, crashes>>
    BY DEF RaiseMigration, CountError, At
  <1>2. errors' \in 0..MaxErrors
    BY BoundsAssumption DEF RaiseMigration, CountError, IInv, TypeOK
  <1>3. task[t].pc \notin LockedPoints
    BY <1>1 DEF CreatorPoints, LockedPoints
  <1>4. QED
    BY <1>1, <1>2, <1>3, IdleTypes, OutsideMoves DEF IInv, TypeOK

LEMMA CheckCircuitKeepsIInv ==
    ASSUME IInv, NEW t \in WindowCallers, CheckCircuit(t) PROVE IInv'
  <1>. DEFINE r == IF circuit THEN IdleTask ELSE [task[t] EXCEPT !.pc = "waiting"]
  <1>1. t \in Tasks /\ t # PathTask /\ up /\ task[t].pc = "checked"
    BY TasksAssumption DEF CheckCircuit, At, Tasks
  <1>2. task[t] \in TaskState /\ t # Nobody /\ lock # t
    BY <1>1, TaskFacts DEF LockedPoints
  <1>3. r \in TaskState /\ r.pc \in {"idle", "waiting"} /\ r.todo = {} /\ r.hit = FALSE
    <2>0. task[t].todo = {} /\ ~task[t].hit
      BY <1>1, TaskFacts DEF TaskOK, WorkPoints, LockedPoints
    <2>1. [task[t] EXCEPT !.pc = "waiting"] \in TaskState
      BY <1>2 DEF TaskState, Points
    <2>2. CASE circuit
      <3>1. r = IdleTask
        BY <2>2
      <3>2. QED
        BY <3>1, BlankTypes DEF IdleTask
    <2>3. CASE ~circuit
      <3>1. r = [task[t] EXCEPT !.pc = "waiting"]
        BY <2>3
      <3>2. QED
        BY <3>1, <2>0, <2>1, <1>2 DEF TaskState
    <2>4. QED
      BY <2>2, <2>3
  <1>4. Become(t, r) /\ UNCHANGED <<up, now, circuit, lock, engine, latest, cycle, item, folder, runs, crashes, errors>>
    BY DEF CheckCircuit, faults
  <1>5. task'[t] = r
    BY <1>1, <1>4, TaskFacts DEF Become
  <1>. HIDE DEF r
  <1>6. TaskOK(t)'
    BY <1>1, <1>2, <1>3, <1>4, <1>5 DEF TaskOK, RowOK, CreatorPoints, LockedPoints, WorkPoints
  <1>7. QED
    BY <1>1, <1>3, <1>4, <1>6, OneTaskMoves DEF IInv, TypeOK

LEMMA AcquireKeepsIInv ==
    ASSUME IInv, NEW t \in Tasks, Acquire(t) PROVE IInv'
  <1>. DEFINE r == [task[t] EXCEPT !.pc = "owner"]
  <1>1. up /\ task[t].pc = "waiting" /\ lock = Nobody /\ lock' = t
    BY DEF Acquire, At
  <1>2. task[t] \in TaskState
    BY TaskFacts
  <1>3. r \in TaskState /\ r.pc = "owner" /\ r.todo = {} /\ ~r.hit
    <2>1. task[t].todo = {} /\ ~task[t].hit
      BY <1>1, TaskFacts DEF TaskOK, WorkPoints, LockedPoints
    <2>2. QED
      BY <2>1, <1>2 DEF TaskState, Points, LockedPoints
  <1>4. Become(t, r) /\ UNCHANGED <<up, now, circuit, engine, latest, cycle, item, folder, runs, crashes, errors>>
    BY DEF Acquire, Goto, faults
  <1>5. task'[t] = r
    BY <1>4, TaskFacts DEF Become
  <1>. HIDE DEF r
  <1>6. TaskOK(t)'
    BY <1>1, <1>3, <1>5 DEF TaskOK, RowOK, CreatorPoints, LockedPoints, WorkPoints
  <1>7. QED
    BY <1>1, <1>3, <1>4, <1>6, OneTaskMoves DEF IInv, TypeOK

LEMMA ReuseCycleKeepsIInv ==
    ASSUME IInv, NEW t \in WindowCallers, ReuseCycle(t) PROVE IInv'
  <1>1. t \in Tasks /\ t # PathTask /\ up /\ task[t].pc = "owner"
    BY TasksAssumption DEF ReuseCycle, At, Tasks
  <1>2. task[t] \in TaskState /\ lock = t
    BY <1>1, TaskFacts DEF LockedPoints
  <1>3. PICK c \in ActiveCycles : Become(t, [task[t] EXCEPT !.pc = "planning", !.cur = c])
    BY DEF ReuseCycle
  <1>4. c \in CycleIds /\ IsActive(c) /\ c \in 1..latest
    <2>1. c \in CycleIds /\ IsActive(c)
      BY DEF ActiveCycles
    <2>2. cycle[c] # NoCycle
      BY <2>1 DEF IsActive, NoCycle, RollingKinds
    <2>3. ~(c > latest)
      BY <2>1, <2>2 DEF IInv, Fresh
    <2>4. QED
      BY <2>1, <2>3, BoundsAssumption DEF IInv, TypeOK, CycleIds
  <1>. DEFINE r == [task[t] EXCEPT !.pc = "planning", !.cur = c]
  <1>5. r \in TaskState
    BY <1>2, <1>4 DEF TaskState, Points, LockedPoints
  <1>6. /\ r.pc = "planning" /\ r.cur = c
    BY <1>2 DEF TaskState
  <1>7. task'[t] = r
    BY <1>1, <1>3, TaskFacts DEF Become
  <1>8. /\ Become(t, r)
        /\ UNCHANGED <<up, now, circuit, lock, engine, latest, cycle, item, folder, runs, crashes, errors>>
    BY <1>3 DEF ReuseCycle, faults
  <1>9. r.todo = {} /\ ~r.hit
    <2>1. task[t].todo = {} /\ ~task[t].hit
      BY <1>1, TaskFacts DEF TaskOK, WorkPoints, LockedPoints
    <2>2. QED
      BY <2>1, <1>2 DEF TaskState
  <1>. HIDE DEF r
  <1>10. TaskOK(t)'
    BY <1>1, <1>2, <1>4, <1>6, <1>7, <1>8, <1>9
       DEF TaskOK, RowOK, CreatorPoints, WorkOK, ItemPoints, LockedPoints, WorkPoints, IsActive
  <1>11. QED
    BY <1>1, <1>5, <1>8, <1>10, OneTaskMoves DEF IInv, TypeOK

LEMMA FindNoCycleKeepsIInv ==
    ASSUME IInv, NEW t \in WindowCallers, FindNoCycle(t) PROVE IInv'
  <1>. DEFINE a == DueAnchor(t)
              x == Planned("normal", a)
              r == [task[t] EXCEPT !.pc = "opening", !.row = x, !.todo = Active]
  <1>1. /\ t \in Tasks /\ t # PathTask /\ up /\ task[t].pc = "owner" /\ Become(t, r)
        /\ UNCHANGED <<up, now, circuit, lock, engine, latest, cycle, item, folder, runs,
                       crashes, errors>>
    BY TasksAssumption DEF FindNoCycle, At, Tasks, faults
  <1>2. task[t] \in TaskState /\ lock = t /\ ~task[t].hit
    BY <1>1, TaskFacts DEF LockedPoints, TaskOK
  <1>3. a \in Int
    <2>1. CASE latest = 0
      BY <1>2, <2>1 DEF DueAnchor, TaskState
    <2>2. CASE latest # 0
      <3>1. latest \in CycleIds /\ cycle[latest] \in CycleRow
        BY <2>2 DEF IInv, TypeOK
      <3>2. QED
        BY <2>2, <3>1, BoundsAssumption DEF DueAnchor, NextCycleAnchor, CycleRow
    <2>3. QED
      BY <2>1, <2>2
  <1>. HIDE DEF a
  <1>4. x \in CycleRow /\ x.kind = "normal" /\ x = Planned(x.kind, x.anchor)
    <2>1. x \in CycleRow /\ x.kind = "normal" /\ x.anchor = a
      BY <1>3, PlannedTypes DEF RollingKinds
    <2>2. QED
      BY <2>1
  <1>. HIDE DEF x
  <1>5. r \in TaskState /\ r.pc = "opening" /\ r.row = x /\ ~r.hit
    BY <1>2, <1>4 DEF TaskState, Points, LockedPoints, Active
  <1>6. task'[t] = r
    BY <1>1, TaskFacts DEF Become
  <1>. HIDE DEF r
  <1>7. TaskOK(t)'
    BY <1>1, <1>2, <1>4, <1>5, <1>6
       DEF TaskOK, RowOK, CreatorPoints, LockedPoints, WorkPoints
  <1>8. QED
    BY <1>1, <1>2, <1>5, <1>7, OneTaskMoves DEF IInv, TypeOK

LEMMA NotDueKeepsIInv ==
    ASSUME IInv, NEW t \in WindowCallers, CycleNotDue(t) \/ WindowNotDue(t) PROVE IInv'
  <1>1. t \in Tasks /\ up /\ task[t].pc \in LockedPoints
    BY DEF CycleNotDue, WindowNotDue, At, Tasks, LockedPoints
  <1>2. lock = t
    BY <1>1, TaskFacts
  <1>3. QED
    BY <1>1, <1>2, ReturnKeepsIInv DEF CycleNotDue, WindowNotDue

LEMMA ConnectKeepsIInv ==
    ASSUME IInv, NEW t \in Tasks, Connect(t) PROVE IInv'
  <1>. DEFINE r == [task[t] EXCEPT !.pc = "looping"]
  <1>1. up /\ task[t].pc = "connecting"
    BY DEF Connect, At
  <1>2. task[t] \in TaskState /\ lock = t /\ ~task[t].hit /\ WorkOK(t)
    BY <1>1, TaskFacts DEF LockedPoints, WorkPoints, TaskOK
  <1>3. r \in TaskState /\ r.pc = "looping" /\ ~r.hit
    BY <1>2 DEF TaskState, Points, LockedPoints
  <1>4. r.todo = task[t].todo /\ r.cur = task[t].cur
    BY <1>2 DEF TaskState
  <1>5. /\ Become(t, r)
        /\ UNCHANGED <<up, now, circuit, lock, engine, latest, cycle, item, folder, runs, crashes, errors>>
    BY DEF Connect, Goto, faults
  <1>6. task'[t] = r
    BY <1>5, TaskFacts DEF Become
  <1>. HIDE DEF r
  <1>7. WorkOK(t)'
    BY <1>2, <1>3, <1>4, <1>5, <1>6 DEF WorkOK, IsActive, ItemPoints
  <1>8. TaskOK(t)'
    BY <1>2, <1>3, <1>5, <1>6, <1>7 DEF TaskOK, RowOK, CreatorPoints, LockedPoints, WorkPoints
  <1>9. QED
    BY <1>1, <1>3, <1>5, <1>8, OneTaskMoves DEF IInv, TypeOK

LEMMA OpenCircuitKeepsIInv ==
    ASSUME IInv, NEW t \in WindowCallers, OpenCircuit(t) PROVE IInv'
  <1>. DEFINE r == [task[t] EXCEPT !.pc = "settling", !.hit = TRUE]
  <1>1. t \in Tasks /\ t # PathTask /\ up /\ task[t].pc = "tripping"
    BY TasksAssumption DEF OpenCircuit, At, Tasks
  <1>2. task[t] \in TaskState /\ lock = t /\ WorkOK(t)
    BY <1>1, TaskFacts DEF LockedPoints, WorkPoints, TaskOK
  <1>3. r \in TaskState /\ r.pc = "settling"
    BY <1>2 DEF TaskState, Points, LockedPoints
  <1>4. r.todo = task[t].todo /\ r.cur = task[t].cur /\ r.at = task[t].at
    BY <1>2 DEF TaskState
  <1>5. /\ Become(t, r) /\ circuit' = TRUE
        /\ UNCHANGED <<up, now, lock, engine, latest, cycle, item, folder, runs, crashes, errors>>
    BY DEF OpenCircuit, faults
  <1>6. task'[t] = r
    BY <1>1, <1>5, TaskFacts DEF Become
  <1>. HIDE DEF r
  <1>7. WorkOK(t)'
    BY <1>1, <1>2, <1>3, <1>4, <1>5, <1>6 DEF WorkOK, IsActive, ItemPoints
  <1>8. TaskOK(t)'
    BY <1>1, <1>2, <1>3, <1>5, <1>6, <1>7 DEF TaskOK, RowOK, CreatorPoints, LockedPoints, WorkPoints
  <1>9. QED
    BY <1>1, <1>3, <1>5, <1>8, OneTaskMoves DEF IInv, TypeOK

LEMMA ReservePathSyncKeepsIInv ==
    ASSUME IInv, ReservePathSync PROVE IInv'
  <1>. DEFINE r == [task[PathTask] EXCEPT !.pc = "waiting"]
  <1>1. PathTask \in Tasks /\ up /\ task[PathTask].pc = "idle"
    BY DEF ReservePathSync, At, Tasks
  <1>2. /\ task[PathTask] \in TaskState /\ lock # PathTask
        /\ task[PathTask].todo = {} /\ ~task[PathTask].hit
    BY <1>1, TaskFacts DEF TaskOK, WorkPoints, LockedPoints
  <1>3. r \in TaskState /\ r.pc = "waiting" /\ r.todo = {} /\ ~r.hit
    BY <1>2 DEF TaskState, Points
  <1>4. /\ Become(PathTask, r)
        /\ UNCHANGED <<up, now, circuit, lock, engine, latest, cycle, item, folder, runs, crashes, errors>>
    BY DEF ReservePathSync, Goto, faults
  <1>5. task'[PathTask] = r
    BY <1>1, <1>4, TaskFacts DEF Become
  <1>. HIDE DEF r
  <1>6. TaskOK(PathTask)'
    BY <1>1, <1>2, <1>3, <1>4, <1>5 DEF TaskOK, RowOK, CreatorPoints, LockedPoints, WorkPoints
  <1>7. QED
    BY <1>1, <1>3, <1>4, <1>6, OneTaskMoves DEF IInv, TypeOK

LEMMA RejectPathSyncKeepsIInv ==
    ASSUME IInv, RejectPathSync PROVE IInv'
  <1>1. PathTask \in Tasks /\ up /\ task[PathTask].pc = "owner"
    BY DEF RejectPathSync, At, Tasks
  <1>2. lock = PathTask
    BY <1>1, TaskFacts DEF LockedPoints
  <1>3. QED
    BY <1>1, <1>2, ReturnKeepsIInv DEF RejectPathSync

-----------------------------------------------------------------------------
(* Changes to the rows of one cycle *)

\* The holder of the lock changes rows of one existing cycle.
LEMMA OneCycleChanges ==
    ASSUME IInv, NEW c \in CycleIds, c \in 1..latest, latest' = latest,
           \A d \in CycleIds \ {c} : cycle'[d] = cycle[d] /\ item'[d] = item[d]
    PROVE  Fresh'
  <1>1. Fresh'
    <2>1. latest \in Int /\ c <= latest
      BY BoundsAssumption DEF IInv, TypeOK, CycleIds
    <2>2. ASSUME NEW d \in CycleIds, d > latest'
          PROVE  cycle'[d] = NoCycle /\ item'[d] = [f \in Folders |-> NoItem]
      <3>1. d # c /\ d > latest
        BY <2>1, <2>2 DEF CycleIds
      <3>2. QED
        BY <3>1 DEF IInv, Fresh
    <2>3. QED
      BY <2>2 DEF Fresh
  <1>2. QED
    BY <1>1

\* A new row is added.
LEMMA OneCycleAdded ==
    ASSUME IInv, latest' = latest + 1,
           \A d \in CycleIds \ {latest + 1} : cycle'[d] = cycle[d] /\ item'[d] = item[d]
    PROVE  Fresh'
  <1>1. latest \in Int
    BY BoundsAssumption DEF IInv, TypeOK, CycleIds
  <1>2. ASSUME NEW d \in CycleIds, d > latest'
        PROVE  cycle'[d] = NoCycle /\ item'[d] = [f \in Folders |-> NoItem]
    <2>1. d # latest + 1 /\ d > latest
      BY <1>1, <1>2 DEF CycleIds
    <2>2. QED
      BY <2>1 DEF IInv, Fresh
  <1>3. QED
    BY <1>2 DEF Fresh

\* Facts about the cycle and the item a coroutine inside the lock works on.
LEMMA WorkFacts ==
    ASSUME IInv, NEW t \in Tasks, task[t].pc \in WorkPoints
    PROVE  /\ lock = t /\ WorkOK(t)
           /\ task[t].cur \in CycleIds /\ task[t].cur \in 1..latest
           /\ task[t].todo \in SUBSET Folders
           /\ cycle[task[t].cur] \in CycleRow
           /\ item[task[t].cur] \in [Folders -> ItemRow]
           /\ task[t].pc \in ItemPoints =>
                 /\ task[t].at \in Folders /\ task[t].at \in task[t].todo
                 /\ item[task[t].cur][task[t].at] \in ItemRow
  <1>1. lock = t /\ WorkOK(t) /\ task[t] \in TaskState
    BY TaskFacts DEF TaskOK, WorkPoints
  <1>2. task[t].cur \in 1..latest /\ latest \in 0..MaxCycles
    BY <1>1 DEF WorkOK, IInv, TypeOK, CycleIds
  <1>3. task[t].cur \in CycleIds
    BY <1>2, BoundsAssumption DEF CycleIds
  <1>4. task[t].todo \in SUBSET Folders
    BY <1>1 DEF TaskState
  <1>5. cycle[task[t].cur] \in CycleRow /\ item[task[t].cur] \in [Folders -> ItemRow]
    BY <1>3 DEF IInv, TypeOK
  <1>6. task[t].pc \in ItemPoints => task[t].at \in Folders /\ task[t].at \in task[t].todo
    BY <1>1, <1>4 DEF WorkOK
  <1>7. QED
    BY <1>1, <1>2, <1>3, <1>4, <1>5, <1>6

\* What Recorded changes.
LEMMA RecordedRows ==
    ASSUME IInv, NEW t \in Tasks, task[t].pc \in ItemPoints,
           NEW s \in ItemStatuses, NEW n \in {0, 1}
    PROVE  /\ Recorded(t, s, n) \in [CycleIds -> [Folders -> ItemRow]]
           /\ \A d \in CycleIds \ {task[t].cur} : Recorded(t, s, n)[d] = item[d]
           /\ \A g \in Folders \ {task[t].at} :
                 Recorded(t, s, n)[task[t].cur][g] = item[task[t].cur][g]
           /\ Recorded(t, s, n)[task[t].cur][task[t].at].status = s
           /\ Recorded(t, s, n)[task[t].cur][task[t].at].attempts =
                 item[task[t].cur][task[t].at].attempts + n
  <1>. DEFINE c == task[t].cur
              f == task[t].at
              x == [item[c][f] EXCEPT !.status = s, !.attempts = @ + n]
  <1>1. c \in CycleIds /\ f \in Folders /\ item[c][f] \in ItemRow
    BY WorkFacts DEF ItemPoints, WorkPoints, LockedPoints
  <1>2. x \in ItemRow
    BY <1>1, ItemTypes
  <1>3. item \in [CycleIds -> [Folders -> ItemRow]]
    BY DEF IInv, TypeOK
  <1>4. Recorded(t, s, n) = [item EXCEPT ![c] = [item[c] EXCEPT ![f] = x]]
    BY <1>1, <1>3 DEF Recorded
  <1>. HIDE DEF x
  <1>5. [item[c] EXCEPT ![f] = x] \in [Folders -> ItemRow]
    BY <1>1, <1>2, <1>3
  <1>6. QED
    <2>1. Recorded(t, s, n) \in [CycleIds -> [Folders -> ItemRow]]
      BY <1>1, <1>3, <1>4, <1>5
    <2>2. \A d \in CycleIds \ {c} : Recorded(t, s, n)[d] = item[d]
      BY <1>1, <1>3, <1>4
    <2>3. Recorded(t, s, n)[c] = [item[c] EXCEPT ![f] = x]
      BY <1>1, <1>3, <1>4
    <2>4. \A g \in Folders \ {f} : Recorded(t, s, n)[c][g] = item[c][g]
      BY <1>1, <1>3, <2>3
    <2>5. Recorded(t, s, n)[c][f] = x
      BY <1>1, <1>3, <2>3
    <2>6. x.status = s /\ x.attempts = item[c][f].attempts + n
      BY <1>1 DEF x, ItemRow
    <2>7. QED
      BY <2>1, <2>2, <2>4, <2>5, <2>6

\* A step that records an attempt: rows stay typed, other rows stay as they are
\* and the items the coroutine has yet to scan stay open.
LEMMA RecordedStep ==
    ASSUME IInv, NEW t \in Tasks, task[t].pc \in ItemPoints,
           NEW s \in ItemStatuses, NEW n \in {0, 1}, item' = Recorded(t, s, n)
    PROVE  /\ item' \in [CycleIds -> [Folders -> ItemRow]]
           /\ \A d \in CycleIds \ {task[t].cur} : item'[d] = item[d]
           /\ \A f \in task[t].todo \ {task[t].at} :
                 item'[task[t].cur][f].status \in OpenStatuses
           /\ \A g \in Folders \ {task[t].at} :
                 item'[task[t].cur][g] = item[task[t].cur][g]
           /\ item'[task[t].cur][task[t].at].status = s
           /\ item'[task[t].cur][task[t].at].attempts =
                 item[task[t].cur][task[t].at].attempts + n
  <1>. DEFINE R == Recorded(t, s, n)
              c == task[t].cur
              f == task[t].at
  <1>1. /\ R \in [CycleIds -> [Folders -> ItemRow]]
        /\ \A d \in CycleIds \ {c} : R[d] = item[d]
        /\ \A g \in Folders \ {f} : R[c][g] = item[c][g]
        /\ R[c][f].status = s
        /\ R[c][f].attempts = item[c][f].attempts + n
    BY RecordedRows
  <1>2. item' = R
    OBVIOUS
  <1>. HIDE DEF R
  <1>3. WorkOK(t) /\ task[t].todo \in SUBSET Folders /\ item[c][f] \in ItemRow
    BY WorkFacts DEF ItemPoints, WorkPoints, LockedPoints
  <1>4. \A g \in task[t].todo \ {f} : item'[c][g].status \in OpenStatuses
    BY <1>1, <1>2, <1>3 DEF WorkOK
  <1>5. item'[c][f].status = s /\ item'[c][f].attempts = item[c][f].attempts + n
    BY <1>1, <1>2
  <1>6. QED
    BY <1>1, <1>2, <1>4, <1>5

-----------------------------------------------------------------------------
(* Working on an item *)

\* The coroutine that is done with its item is in order, when the items it has
\* yet to scan keep an open status.
LEMMA DoneWithItemOK ==
    ASSUME IInv, NEW t \in Tasks, task[t].pc \in ItemPoints,
           NEW p \in {"looping", "closing"}, p = "closing" <=> task[t].hit,
           p = "closing" => t # PathTask,
           DoneWithItem(t, p), UNCHANGED <<lock, latest, cycle>>,
           \A f \in task[t].todo \ {task[t].at} :
              item'[task[t].cur][f].status \in OpenStatuses
    PROVE  /\ TaskOK(t)'
           /\ task' \in [Tasks -> TaskState]
           /\ \A u \in Tasks \ {t} : task'[u] = task[u]
  <1>. DEFINE r == [task[t] EXCEPT !.pc = p, !.todo = @ \ {task[t].at}, !.at = NoFolder]
  <1>1. task[t] \in TaskState /\ TaskOK(t) /\ task \in [Tasks -> TaskState]
    BY TaskFacts
  <1>2. lock = t /\ WorkOK(t)
    BY WorkFacts DEF ItemPoints, WorkPoints, LockedPoints
  <1>3. r \in TaskState /\ r.pc = p
    BY <1>1 DEF TaskState, Points, LockedPoints
  <1>4. r.todo = task[t].todo \ {task[t].at} /\ r.cur = task[t].cur /\ r.hit = task[t].hit
    BY <1>1 DEF TaskState
  <1>5. task' = [task EXCEPT ![t] = r]
    BY DEF DoneWithItem, Become
  <1>. HIDE DEF r
  <1>6. task'[t] = r /\ task' \in [Tasks -> TaskState]
    BY <1>1, <1>3, <1>5
  <1>7. WorkOK(t)'
    BY <1>2, <1>3, <1>4, <1>6 DEF WorkOK, IsActive, ItemPoints
  <1>8. TaskOK(t)'
    BY <1>2, <1>3, <1>4, <1>6, <1>7 DEF TaskOK, RowOK, CreatorPoints, LockedPoints, WorkPoints
  <1>9. QED
    BY <1>1, <1>5, <1>6, <1>8

\* An item's outcome, of a window or a path synchronization.
LEMMA OutcomeKeepsIInv ==
    ASSUME IInv, NEW t \in Tasks, up, task[t].pc \in ItemPoints,
           NEW p \in {"looping", "closing"}, p = "closing" <=> task[t].hit,
           p = "closing" => t # PathTask,
           DoneWithItem(t, p),
           item' \in [CycleIds -> [Folders -> ItemRow]],
           \A d \in CycleIds \ {task[t].cur} : item'[d] = item[d],
           \A f \in task[t].todo \ {task[t].at} :
              item'[task[t].cur][f].status \in OpenStatuses,
           folder' \in [Folders -> FolderStatuses],
           UNCHANGED <<up, now, circuit, lock, engine, latest, cycle, runs, crashes, errors>>
    PROVE  IInv'
  <1>1. /\ lock = t /\ task[t].cur \in CycleIds /\ task[t].cur \in 1..latest
    BY WorkFacts DEF ItemPoints, WorkPoints, LockedPoints
  <1>2. /\ TaskOK(t)' /\ task' \in [Tasks -> TaskState]
        /\ \A u \in Tasks \ {t} : task'[u] = task[u]
    BY DoneWithItemOK
  <1>3. TypeOK'
    BY <1>2 DEF IInv, TypeOK
  <1>4. Fresh'
    BY <1>1, OneCycleChanges DEF Unfinished
  <1>5. QED
    BY <1>1, <1>2, <1>3, <1>4, OneTaskSteps

\* A listing only writes folder statuses.
LEMMA ScanTypes ==
    ASSUME IInv, NEW f \in Folders, NEW listed \in SUBSET Folders,
           NEW confirmed \in SUBSET Folders, Scan(f, listed, confirmed)
    PROVE  folder' \in [Folders -> FolderStatuses]
  <1>1. folder' = ScopeResult(f, listed, confirmed)
    BY DEF Scan
  <1>2. \A k \in Folders : folder[k] \in FolderStatuses
    BY DEF IInv, TypeOK
  <1>3. \A k \in Folders : ScopeResult(f, listed, confirmed)[k] \in FolderStatuses
    BY <1>2 DEF ScopeResult, FolderStatuses
  <1>4. QED
    BY <1>1, <1>3 DEF ScopeResult

LEMMA ScanSupersededKeepsIInv ==
    ASSUME IInv, NEW t \in WindowCallers, ScanSuperseded(t) PROVE IInv'
  <1>1. t \in Tasks /\ up /\ task[t].pc = "scanning" /\ task[t].pc \in ItemPoints
    BY DEF ScanSuperseded, At, Tasks, ItemPoints
  <1>2. ~task[t].hit
    BY <1>1, TaskFacts DEF TaskOK
  <1>3. item' = Recorded(t, "superseded", 1) /\ "superseded" \in ItemStatuses
    BY DEF ScanSuperseded, ItemStatuses
  <1>4. /\ item' \in [CycleIds -> [Folders -> ItemRow]]
        /\ \A d \in CycleIds \ {task[t].cur} : item'[d] = item[d]
        /\ \A f \in task[t].todo \ {task[t].at} :
              item'[task[t].cur][f].status \in OpenStatuses
    BY <1>1, <1>3, RecordedStep
  <1>5. QED
    BY <1>1, <1>2, <1>4, OutcomeKeepsIInv DEF ScanSuperseded, faults, IInv, TypeOK

LEMMA SettleItemKeepsIInv ==
    ASSUME IInv, NEW t \in WindowCallers, SettleItem(t) PROVE IInv'
  <1>. DEFINE p == IF task[t].hit THEN "closing" ELSE "looping"
              s == IF task[t].hit THEN "pending" ELSE "failed"
  <1>1. /\ t \in Tasks /\ t # PathTask /\ up
        /\ task[t].pc = "settling" /\ task[t].pc \in ItemPoints
    BY TasksAssumption DEF SettleItem, At, Tasks, ItemPoints
  <1>2. item' = Recorded(t, s, 0) /\ s \in ItemStatuses
    BY DEF SettleItem, ItemStatuses, PendingStatuses
  <1>3. DoneWithItem(t, p) /\ p \in {"looping", "closing"} /\ (p = "closing" <=> task[t].hit)
    BY DEF SettleItem
  <1>. HIDE DEF p, s
  <1>4. /\ item' \in [CycleIds -> [Folders -> ItemRow]]
        /\ \A d \in CycleIds \ {task[t].cur} : item'[d] = item[d]
        /\ \A f \in task[t].todo \ {task[t].at} :
              item'[task[t].cur][f].status \in OpenStatuses
    BY <1>1, <1>2, RecordedStep
  <1>5. QED
    BY <1>1, <1>3, <1>4, OutcomeKeepsIInv DEF SettleItem, faults, IInv, TypeOK

LEMMA ScanVerifiedKeepsIInv ==
    ASSUME IInv, NEW t \in WindowCallers, ScanVerified(t) PROVE IInv'
  <1>. DEFINE c == task[t].cur
              R == Recorded(t, "success", 1)
  <1>1. t \in Tasks /\ up /\ task[t].pc = "scanning" /\ task[t].pc \in ItemPoints
    BY DEF ScanVerified, At, Tasks, ItemPoints
  <1>2. /\ TaskOK(t) /\ WorkOK(t) /\ task[t].todo \in SUBSET Folders /\ ~task[t].hit
        /\ c \in CycleIds /\ task[t].at \in Folders
    BY <1>1, TaskFacts, WorkFacts DEF ItemPoints, WorkPoints, LockedPoints, TaskOK
  <1>3. PICK listed \in SUBSET Children(task[t].at), confirmed \in SUBSET Children(task[t].at),
             unchanged \in BOOLEAN :
          /\ Scan(task[t].at, listed, confirmed)
          /\ item' = [R EXCEPT ![c] =
                [k \in Folders |-> IF ~unchanged /\ k \in listed \cap NoItemYet(t)
                                   THEN QueuedItem(100) ELSE @[k]]]
    BY DEF ScanVerified
  <1>. DEFINE row == [k \in Folders |-> IF ~unchanged /\ k \in listed \cap NoItemYet(t)
                                        THEN QueuedItem(100) ELSE R[c][k]]
  <1>4. item' = [R EXCEPT ![c] = row]
    BY <1>3
  <1>5. "success" \in ItemStatuses
    BY DEF ItemStatuses
  <1>6. /\ R \in [CycleIds -> [Folders -> ItemRow]]
        /\ \A d \in CycleIds \ {c} : R[d] = item[d]
        /\ \A f \in Folders \ {task[t].at} : R[c][f] = item[c][f]
    BY <1>1, <1>5, RecordedRows
  <1>. HIDE DEF R
  <1>7. row \in [Folders -> ItemRow]
    BY <1>2, <1>6, BlankTypes
  <1>8. \A f \in task[t].todo \ {task[t].at} : row[f].status \in OpenStatuses
    <2>1. ASSUME NEW f \in task[t].todo \ {task[t].at} PROVE row[f].status \in OpenStatuses
      <3>1. f \in Folders /\ item[c][f].status \in OpenStatuses
        BY <1>2 DEF WorkOK
      <3>2. f \notin NoItemYet(t)
        BY <3>1 DEF NoItemYet, OpenStatuses, PendingStatuses
      <3>3. QED
        BY <1>6, <3>1, <3>2
    <2>2. QED
      BY <2>1
  <1>. HIDE DEF row
  <1>9. /\ item' \in [CycleIds -> [Folders -> ItemRow]]
        /\ \A d \in CycleIds \ {c} : item'[d] = item[d]
        /\ item'[c] = row
    BY <1>2, <1>4, <1>6, <1>7
  <1>10. folder' \in [Folders -> FolderStatuses]
    BY <1>2, <1>3, ScanTypes DEF Children
  <1>11. QED
    BY <1>1, <1>2, <1>8, <1>9, <1>10, OutcomeKeepsIInv DEF ScanVerified, faults

LEMMA PathScanKeepsIInv ==
    ASSUME IInv, PathScan PROVE IInv'
  <1>. DEFINE f == task[PathTask].at
  <1>1. /\ PathTask \in Tasks /\ up
        /\ task[PathTask].pc = "scanning" /\ task[PathTask].pc \in ItemPoints
    BY DEF PathScan, At, Tasks, ItemPoints
  <1>2. ~task[PathTask].hit /\ f \in Folders
    BY <1>1, TaskFacts, WorkFacts DEF TaskOK, ItemPoints, WorkPoints, LockedPoints
  <1>3. PICK s \in {"success", "superseded", "failed"} : item' = Recorded(PathTask, s, 0)
    BY DEF PathScan
  <1>4. s \in ItemStatuses
    BY DEF ItemStatuses, PendingStatuses
  <1>5. /\ item' \in [CycleIds -> [Folders -> ItemRow]]
        /\ \A d \in CycleIds \ {task[PathTask].cur} : item'[d] = item[d]
        /\ \A g \in task[PathTask].todo \ {f} :
              item'[task[PathTask].cur][g].status \in OpenStatuses
    BY <1>1, <1>3, <1>4, RecordedStep
  <1>6. folder' \in [Folders -> FolderStatuses]
    <2>1. \/ \E listed, confirmed \in SUBSET Children(f) : Scan(f, listed, confirmed)
          \/ UNCHANGED folder
      BY DEF PathScan
    <2>2. CASE \E listed, confirmed \in SUBSET Children(f) : Scan(f, listed, confirmed)
      <3>1. PICK listed \in SUBSET Folders, confirmed \in SUBSET Folders :
               Scan(f, listed, confirmed)
        BY <2>2 DEF Children
      <3>2. QED
        BY <1>2, <3>1, ScanTypes
    <2>3. CASE UNCHANGED folder
      BY <2>3 DEF IInv, TypeOK
    <2>4. QED
      BY <2>1, <2>2, <2>3
  <1>7. QED
    BY <1>1, <1>2, <1>5, <1>6, OutcomeKeepsIInv DEF PathScan, faults

\* A failed or restricted attempt keeps the item under scan.
LEMMA AttemptKeepsIInv ==
    ASSUME IInv, NEW t \in WindowCallers, up, task[t].pc = "scanning",
           NEW r \in TaskState, Become(t, r),
           r.pc \in {"scanning", "tripping", "settling"}, r.cur = task[t].cur,
           r.todo = task[t].todo, r.at = task[t].at, ~r.hit,
           item' = Recorded(t, CurrentStatus(t), 1),
           UNCHANGED <<up, now, circuit, lock, engine, latest, cycle, folder, runs, crashes, errors>>
    PROVE  IInv'
  <1>1. t \in Tasks /\ t # PathTask /\ task[t].pc \in ItemPoints
    BY TasksAssumption DEF Tasks, ItemPoints
  <1>2. /\ lock = t /\ WorkOK(t) /\ task[t].cur \in CycleIds /\ task[t].cur \in 1..latest
        /\ task[t].at \in task[t].todo /\ task[t].at \in Folders
        /\ item[task[t].cur][task[t].at] \in ItemRow
    BY <1>1, WorkFacts DEF ItemPoints, WorkPoints, LockedPoints
  <1>3. CurrentStatus(t) \in ItemStatuses /\ CurrentStatus(t) \in OpenStatuses
    BY <1>2 DEF CurrentStatus, ItemRow, WorkOK
  <1>4. /\ item' \in [CycleIds -> [Folders -> ItemRow]]
        /\ \A d \in CycleIds \ {task[t].cur} : item'[d] = item[d]
        /\ \A f \in task[t].todo \ {task[t].at} :
              item'[task[t].cur][f].status \in OpenStatuses
        /\ item'[task[t].cur][task[t].at].status = CurrentStatus(t)
    BY <1>1, <1>3, RecordedStep
  <1>5. /\ task'[t] = r /\ task' \in [Tasks -> TaskState]
        /\ \A u \in Tasks \ {t} : task'[u] = task[u]
    BY <1>1, TaskFacts DEF Become
  <1>6. TypeOK'
    BY <1>4, <1>5 DEF IInv, TypeOK
  <1>7. Fresh'
    BY <1>2, <1>4, OneCycleChanges DEF Unfinished
  <1>8. \A f \in r.todo : item'[r.cur][f].status \in OpenStatuses
    BY <1>3, <1>4
  <1>9. WorkOK(t)'
    BY <1>1, <1>2, <1>5, <1>8 DEF WorkOK, IsActive
  <1>10. TaskOK(t)'
    BY <1>1, <1>2, <1>5, <1>9 DEF TaskOK, RowOK, CreatorPoints, LockedPoints, WorkPoints
  <1>11. QED
    BY <1>1, <1>2, <1>5, <1>6, <1>7, <1>10, OneTaskSteps

LEMMA ScanFailedKeepsIInv ==
    ASSUME IInv, NEW t \in WindowCallers, ScanFailed(t) PROVE IInv'
  <1>. DEFINE r == IF task[t].tries = 0 THEN [task[t] EXCEPT !.tries = 1]
                                        ELSE [task[t] EXCEPT !.pc = "settling"]
  <1>1. t \in Tasks /\ up /\ task[t].pc = "scanning"
    BY DEF ScanFailed, At, Tasks
  <1>2. task[t] \in TaskState /\ ~task[t].hit
    BY <1>1, TaskFacts DEF TaskOK
  <1>3. r \in TaskState /\ r.pc \in {"scanning", "settling"}
    BY <1>1, <1>2 DEF TaskState, Points, LockedPoints
  <1>4. r.cur = task[t].cur /\ r.todo = task[t].todo /\ r.at = task[t].at /\ ~r.hit
    BY <1>2 DEF TaskState
  <1>5. Become(t, r)
    BY DEF ScanFailed
  <1>. HIDE DEF r
  <1>6. QED
    BY <1>1, <1>3, <1>4, <1>5, AttemptKeepsIInv DEF ScanFailed, faults

LEMMA ScanRestrictedKeepsIInv ==
    ASSUME IInv, NEW t \in WindowCallers, ScanRestricted(t) PROVE IInv'
  <1>. DEFINE r == [task[t] EXCEPT !.pc = "tripping"]
  <1>1. t \in Tasks /\ up /\ task[t].pc = "scanning"
    BY DEF ScanRestricted, At, Tasks
  <1>2. task[t] \in TaskState /\ ~task[t].hit
    BY <1>1, TaskFacts DEF TaskOK
  <1>3. r \in TaskState /\ r.pc = "tripping"
    BY <1>1, <1>2 DEF TaskState, Points, LockedPoints
  <1>4. r.cur = task[t].cur /\ r.todo = task[t].todo /\ r.at = task[t].at /\ ~r.hit
    BY <1>2 DEF TaskState
  <1>5. Become(t, r)
    BY DEF ScanRestricted, Goto
  <1>. HIDE DEF r
  <1>6. QED
    BY <1>1, <1>3, <1>4, <1>5, AttemptKeepsIInv DEF ScanRestricted, faults

\* An item of the window's selection is put under scan.
LEMMA StartKeepsIInv ==
    ASSUME IInv, NEW t \in Tasks, up, task[t].pc = "looping",
           NEW f \in task[t].todo, NEW r \in TaskState, Become(t, r),
           r.pc = "scanning", r.cur = task[t].cur, r.todo = task[t].todo, r.at = f,
           r.hit = task[t].hit,
           NEW x \in ItemRow, x.status = "running",
           item' = [item EXCEPT ![task[t].cur][f] = x],
           UNCHANGED <<up, now, circuit, lock, engine, latest, cycle, folder, runs, crashes, errors>>
    PROVE  IInv'
  <1>. DEFINE c == task[t].cur
  <1>1. /\ lock = t /\ WorkOK(t) /\ c \in CycleIds /\ c \in 1..latest
        /\ task[t].todo \in SUBSET Folders /\ ~task[t].hit
    BY WorkFacts, TaskFacts DEF WorkPoints, LockedPoints, TaskOK
  <1>2. item \in [CycleIds -> [Folders -> ItemRow]]
    BY DEF IInv, TypeOK
  <1>3. item' = [item EXCEPT ![c] = [item[c] EXCEPT ![f] = x]]
    BY <1>1, <1>2
  <1>4. [item[c] EXCEPT ![f] = x] \in [Folders -> ItemRow]
    BY <1>1, <1>2
  <1>5. /\ item' \in [CycleIds -> [Folders -> ItemRow]]
        /\ \A d \in CycleIds \ {c} : item'[d] = item[d]
        /\ item'[c] = [item[c] EXCEPT ![f] = x]
    BY <1>1, <1>2, <1>3, <1>4
  <1>6. /\ task'[t] = r /\ task' \in [Tasks -> TaskState]
        /\ \A u \in Tasks \ {t} : task'[u] = task[u]
    BY TaskFacts DEF Become
  <1>7. TypeOK'
    BY <1>5, <1>6 DEF IInv, TypeOK
  <1>8. Fresh'
    BY <1>1, <1>5, OneCycleChanges DEF Unfinished
  <1>9. \A g \in task[t].todo : item'[c][g].status \in OpenStatuses
    <2>1. \A g \in task[t].todo : item[c][g].status \in OpenStatuses
      BY <1>1 DEF WorkOK
    <2>2. \A g \in Folders : item'[c][g] = IF g = f THEN x ELSE item[c][g]
      BY <1>1, <1>2, <1>5
    <2>3. QED
      BY <1>1, <2>1, <2>2 DEF OpenStatuses
  <1>10. WorkOK(t)'
    BY <1>1, <1>6, <1>9 DEF WorkOK, IsActive, ItemPoints
  <1>11. TaskOK(t)'
    BY <1>1, <1>6, <1>10 DEF TaskOK, RowOK, CreatorPoints, LockedPoints, WorkPoints
  <1>12. QED
    BY <1>1, <1>6, <1>7, <1>8, <1>11, OneTaskSteps

LEMMA StartItemKeepsIInv ==
    ASSUME IInv, NEW t \in WindowCallers, StartItem(t) PROVE IInv'
  <1>1. t \in Tasks /\ up /\ task[t].pc = "looping"
    BY DEF StartItem, At, Tasks
  <1>2. PICK f \in task[t].todo :
          /\ item' = [item EXCEPT ![task[t].cur][f] = [@ EXCEPT !.status = "running"]]
          /\ Become(t, [task[t] EXCEPT !.pc = "scanning", !.at = f, !.tries = 0])
    BY DEF StartItem
  <1>3. /\ task[t] \in TaskState /\ f \in Folders
        /\ item[task[t].cur][f] \in ItemRow
    BY <1>1, TaskFacts, WorkFacts DEF WorkPoints, LockedPoints
  <1>. DEFINE r == [task[t] EXCEPT !.pc = "scanning", !.at = f, !.tries = 0]
              x == [item[task[t].cur][f] EXCEPT !.status = "running"]
  <1>4. x \in ItemRow /\ x.status = "running"
    BY <1>3 DEF ItemRow, ItemStatuses
  <1>5. r \in TaskState
    <2>1. "scanning" \in Points /\ 0 \in 0..1
      BY DEF Points, LockedPoints
    <2>2. QED
      BY <1>3, <2>1 DEF TaskState
  <1>6. /\ r.pc = "scanning" /\ r.cur = task[t].cur /\ r.todo = task[t].todo
        /\ r.at = f /\ r.hit = task[t].hit
    BY <1>3 DEF TaskState
  <1>7. Become(t, r) /\ item' = [item EXCEPT ![task[t].cur][f] = x]
    BY <1>2
  <1>. HIDE DEF r, x
  <1>8. QED
    BY <1>1, <1>4, <1>5, <1>6, <1>7, StartKeepsIInv DEF StartItem, faults

LEMMA PathStartItemKeepsIInv ==
    ASSUME IInv, PathStartItem PROVE IInv'
  <1>. DEFINE t == PathTask
  <1>1. t \in Tasks /\ up /\ task[t].pc = "looping"
    BY DEF PathStartItem, At, Tasks
  <1>2. PICK f \in task[t].todo :
          LET i == item[task[t].cur][f] IN
          /\ item' = [item EXCEPT ![task[t].cur][f] =
                        [i EXCEPT !.status = "running", !.attempts = @ + 1]]
          /\ Become(t, [task[t] EXCEPT !.pc = "scanning", !.at = f])
    BY DEF PathStartItem
  <1>3. /\ task[t] \in TaskState /\ f \in Folders
        /\ item[task[t].cur][f] \in ItemRow
    BY <1>1, TaskFacts, WorkFacts DEF WorkPoints, LockedPoints
  <1>. DEFINE r == [task[t] EXCEPT !.pc = "scanning", !.at = f]
              i == item[task[t].cur][f]
              x == [i EXCEPT !.status = "running", !.attempts = @ + 1]
  <1>4. x \in ItemRow /\ x.status = "running"
    <2>1. x \in ItemRow
      BY <1>3, ItemTypes DEF ItemStatuses
    <2>2. x.status = "running"
      BY <1>3 DEF ItemRow
    <2>3. QED
      BY <2>1, <2>2
  <1>5. r \in TaskState
    BY <1>3 DEF TaskState, Points, LockedPoints
  <1>6. /\ r.pc = "scanning" /\ r.cur = task[t].cur /\ r.todo = task[t].todo
        /\ r.at = f /\ r.hit = task[t].hit
    BY <1>3 DEF TaskState
  <1>7. Become(t, r) /\ item' = [item EXCEPT ![task[t].cur][f] = x]
    BY <1>2
  <1>. HIDE DEF r, x
  <1>8. QED
    BY <1>1, <1>4, <1>5, <1>6, <1>7, StartKeepsIInv DEF PathStartItem, faults

-----------------------------------------------------------------------------
(* Opening and closing a cycle *)

\* A coroutine leaves the lock after a last change to the rows of its cycle.
LEMMA CloseKeepsIInv ==
    ASSUME IInv, NEW t \in Tasks, up, task[t].pc \in WorkPoints, Return(t),
           cycle' \in [CycleIds -> CycleRow],
           item' \in [CycleIds -> [Folders -> ItemRow]],
           \A d \in CycleIds \ {task[t].cur} : cycle'[d] = cycle[d] /\ item'[d] = item[d],
           runs' \subseteq runs, errors' \in 0..MaxErrors,
           UNCHANGED <<up, now, circuit, engine, latest, folder, crashes>>
    PROVE  IInv'
  <1>. DEFINE c == task[t].cur
  <1>1. /\ lock = t /\ WorkOK(t) /\ c \in CycleIds /\ c \in 1..latest
    BY WorkFacts
  <1>2. /\ TaskOK(t)' /\ task' \in [Tasks -> TaskState] /\ lock' = Nobody
        /\ \A u \in Tasks \ {t} : task'[u] = task[u]
    BY ReturnedOK
  <1>3. TypeOK'
    BY <1>2 DEF IInv, TypeOK
  <1>4. Fresh'
    BY <1>1, OneCycleChanges
  <1>5. QED
    BY <1>1, <1>2, <1>3, <1>4, OneTaskSteps

LEMMA CompleteEmptyKeepsIInv ==
    ASSUME IInv, NEW t \in WindowCallers, CompleteEmpty(t) PROVE IInv'
  <1>. DEFINE c == task[t].cur
              x == [cycle[c] EXCEPT !.status = "success"]
  <1>1. t \in Tasks /\ up /\ task[t].pc = "planning" /\ task[t].pc \in WorkPoints
    BY DEF CompleteEmpty, At, Tasks, WorkPoints, LockedPoints
  <1>2. c \in CycleIds /\ cycle[c] \in CycleRow
    BY <1>1, WorkFacts
  <1>3. x \in CycleRow /\ x.kind = cycle[c].kind
    BY <1>2 DEF CycleRow, CycleStatuses
  <1>4. cycle' = [cycle EXCEPT ![c] = x]
    BY DEF CompleteEmpty
  <1>. HIDE DEF x
  <1>5. /\ cycle' \in [CycleIds -> CycleRow]
        /\ \A d \in CycleIds \ {c} : cycle'[d] = cycle[d]
        /\ cycle'[c].kind = cycle[c].kind
    BY <1>2, <1>3, <1>4 DEF IInv, TypeOK
  <1>6. QED
    BY <1>1, <1>5, CloseKeepsIInv DEF CompleteEmpty, faults, IInv, TypeOK

\* A window's bookkeeping keeps the row typed.
LEMMA ClosingTypes ==
    ASSUME IInv, NEW t \in Tasks, task[t].pc \in WorkPoints
    PROVE  /\ WindowsAfter(t) \in 0..WindowsTotal
           /\ ClosingStatus(t, WindowsAfter(t)) \in CycleStatuses
  <1>1. cycle[task[t].cur] \in CycleRow /\ task[t] \in TaskState
    BY WorkFacts, TaskFacts
  <1>2. cycle[task[t].cur].windows \in 0..WindowsTotal
    BY <1>1 DEF CycleRow
  <1>3. WindowsAfter(t) \in 0..WindowsTotal
    BY <1>2, BoundsAssumption DEF WindowsAfter
  <1>4. task[t].hit \in BOOLEAN
    BY <1>1 DEF TaskState
  <1>5. ClosingStatus(t, WindowsAfter(t)) \in CycleStatuses
    BY <1>4 DEF ClosingStatus, CycleStatuses, ActiveStatuses
  <1>6. QED
    BY <1>3, <1>5

LEMMA CloseWindowKeepsIInv ==
    ASSUME IInv, NEW t \in WindowCallers, CloseWindow(t) PROVE IInv'
  <1>. DEFINE c == task[t].cur
              w == WindowsAfter(t)
              s == ClosingStatus(t, WindowsAfter(t))
              x == [cycle[c] EXCEPT !.windows = w, !.status = s]
  <1>1. t \in Tasks /\ up /\ task[t].pc \in WorkPoints
    BY DEF CloseWindow, At, Tasks, WorkPoints, LockedPoints
  <1>2. c \in CycleIds /\ cycle[c] \in CycleRow /\ w \in 0..WindowsTotal /\ s \in CycleStatuses
    BY <1>1, WorkFacts, ClosingTypes
  <1>3. cycle' = [cycle EXCEPT ![c] = x] /\ runs' \subseteq runs
    BY DEF CloseWindow
  <1>. HIDE DEF w, s
  <1>4. x \in CycleRow /\ x.kind = cycle[c].kind
    BY <1>2 DEF CycleRow
  <1>. HIDE DEF x
  <1>5. /\ cycle' \in [CycleIds -> CycleRow]
        /\ \A d \in CycleIds \ {c} : cycle'[d] = cycle[d]
        /\ cycle'[c].kind = cycle[c].kind
    BY <1>2, <1>3, <1>4 DEF IInv, TypeOK
  <1>6. QED
    BY <1>1, <1>3, <1>5, CloseKeepsIInv DEF CloseWindow, faults, IInv, TypeOK

LEMMA ClosePathSyncKeepsIInv ==
    ASSUME IInv, ClosePathSync PROVE IInv'
  <1>. DEFINE c == task[PathTask].cur
  <1>1. PathTask \in Tasks /\ up /\ task[PathTask].pc \in WorkPoints
    BY DEF ClosePathSync, At, Tasks, WorkPoints, LockedPoints
  <1>2. c \in CycleIds /\ cycle[c] \in CycleRow
    BY <1>1, WorkFacts
  <1>3. PICK s \in {"success", "partial"} :
          cycle' = [cycle EXCEPT ![c] = [@ EXCEPT !.status = s]]
    BY DEF ClosePathSync
  <1>. DEFINE x == [cycle[c] EXCEPT !.status = s]
  <1>4. x \in CycleRow /\ x.kind = cycle[c].kind
    BY <1>2 DEF CycleRow, CycleStatuses, ActiveStatuses
  <1>5. cycle' = [cycle EXCEPT ![c] = x]
    BY <1>3
  <1>. HIDE DEF x
  <1>6. /\ cycle' \in [CycleIds -> CycleRow]
        /\ \A d \in CycleIds \ {c} : cycle'[d] = cycle[d]
        /\ cycle'[c].kind = cycle[c].kind
    BY <1>2, <1>4, <1>5 DEF IInv, TypeOK
  <1>7. runs' \subseteq runs
    BY DEF ClosePathSync
  <1>8. QED
    BY <1>1, <1>6, <1>7, CloseKeepsIInv DEF ClosePathSync, faults, IInv, TypeOK

LEMMA PlanWindowKeepsIInv ==
    ASSUME IInv, NEW t \in WindowCallers, PlanWindow(t) PROVE IInv'
  <1>. DEFINE c == task[t].cur
              x == [cycle[c] EXCEPT !.status = "running"]
  <1>1. /\ t \in Tasks /\ t # PathTask /\ up
        /\ task[t].pc = "planning" /\ task[t].pc \in WorkPoints
    BY TasksAssumption DEF PlanWindow, At, Tasks, WorkPoints, LockedPoints
  <1>2. /\ lock = t /\ WorkOK(t) /\ IsActive(c) /\ c \in CycleIds /\ c \in 1..latest
        /\ cycle[c] \in CycleRow /\ item[c] \in [Folders -> ItemRow]
        /\ task[t] \in TaskState /\ ~task[t].hit
    BY <1>1, WorkFacts, TaskFacts DEF WorkOK, TaskOK
  <1>3. PICK S \in SUBSET Eligible(c) :
          Become(t, [task[t] EXCEPT !.pc = "connecting", !.todo = S])
    BY DEF PlanWindow, Selections
  <1>4. S \in SUBSET Folders /\ \A f \in S : item[c][f].status \in OpenStatuses
    BY DEF Eligible, OpenStatuses
  <1>. DEFINE r == [task[t] EXCEPT !.pc = "connecting", !.todo = S]
  <1>5. r \in TaskState
    BY <1>2, <1>4 DEF TaskState, Points, LockedPoints
  <1>6. r.pc = "connecting" /\ r.cur = c /\ r.todo = S /\ r.hit = task[t].hit
    BY <1>2 DEF TaskState
  <1>. HIDE DEF r
  <1>7. task'[t] = r /\ task' \in [Tasks -> TaskState] /\ \A u \in Tasks \ {t} : task'[u] = task[u]
    BY <1>1, <1>3, <1>5, TaskFacts DEF Become, r
  <1>8. x \in CycleRow /\ x.kind = cycle[c].kind /\ x.status = "running"
    BY <1>2 DEF CycleRow, CycleStatuses, ActiveStatuses
  <1>9. cycle' = [cycle EXCEPT ![c] = x]
    BY DEF PlanWindow
  <1>. HIDE DEF x
  <1>10. /\ cycle' \in [CycleIds -> CycleRow] /\ cycle'[c] = x
         /\ \A d \in CycleIds \ {c} : cycle'[d] = cycle[d]
    BY <1>2, <1>8, <1>9 DEF IInv, TypeOK
  <1>11. UNCHANGED <<up, now, circuit, lock, engine, latest, item, folder, crashes, errors>>
    BY DEF PlanWindow, faults
  <1>12. runs' \subseteq Tasks \X CycleIds
    BY <1>1, <1>2 DEF PlanWindow, IInv, TypeOK
  <1>13. TypeOK'
    BY <1>7, <1>10, <1>11, <1>12 DEF IInv, TypeOK
  <1>15. Fresh'
    BY <1>2, <1>10, <1>11, OneCycleChanges
  <1>16. WorkOK(t)'
    BY <1>1, <1>2, <1>4, <1>6, <1>7, <1>8, <1>10, <1>11
       DEF WorkOK, IsActive, ItemPoints, ActiveStatuses
  <1>17. TaskOK(t)'
    BY <1>1, <1>2, <1>6, <1>7, <1>11, <1>16 DEF TaskOK, RowOK, CreatorPoints, LockedPoints, WorkPoints
  <1>18. QED
    BY <1>1, <1>2, <1>7, <1>11, <1>13, <1>15, <1>17, OneTaskSteps

\* A coroutine inserts a cycle and goes on, inside the lock to work on it.
LEMMA OpenKeepsIInv ==
    ASSUME IInv, NEW t \in Tasks, up, latest < MaxCycles,
           latest' = latest + 1,
           NEW x \in CycleRow, cycle' = [cycle EXCEPT ![latest + 1] = x],
           NEW row \in [Folders -> ItemRow], item' = [item EXCEPT ![latest + 1] = row],
           NEW r \in TaskState, Become(t, r), ~r.hit,
           \/ /\ t \in WindowCallers /\ task[t].pc = "creating" /\ r.todo = {}
              /\ r.pc \in {"enabling", "called"}
           \/ /\ t \in WindowCallers /\ task[t].pc = "opening" /\ r.todo = {}
              /\ r.pc = "planning" /\ r.cur = latest + 1
              /\ x.kind \in RollingKinds /\ x.status \in ActiveStatuses
           \/ /\ t = PathTask /\ task[t].pc = "owner"
              /\ r.pc = "connecting" /\ r.cur = latest + 1 /\ x.kind = "manual_path"
              /\ \A f \in r.todo : row[f].status \in OpenStatuses,
           runs' \subseteq runs \cup {<<t, latest + 1>>},
           UNCHANGED <<up, now, circuit, lock, engine, folder, crashes, errors>>
    PROVE  IInv'
  <1>1. lock = t <=> task[t].pc \in {"opening", "owner"}
    BY TaskFacts DEF LockedPoints
  <1>2. /\ latest \in Int /\ latest + 1 \in CycleIds /\ latest + 1 \in 1..latest'
        /\ latest' \in CycleIds \cup {0}
    BY BoundsAssumption DEF IInv, TypeOK, CycleIds
  <1>3. /\ cycle' \in [CycleIds -> CycleRow] /\ cycle'[latest + 1] = x
        /\ item' \in [CycleIds -> [Folders -> ItemRow]] /\ item'[latest + 1] = row
        /\ \A d \in CycleIds \ {latest + 1} : cycle'[d] = cycle[d] /\ item'[d] = item[d]
    BY <1>2 DEF IInv, TypeOK
  <1>4. task'[t] = r /\ task' \in [Tasks -> TaskState] /\ \A u \in Tasks \ {t} : task'[u] = task[u]
    BY TaskFacts DEF Become
  <1>5. runs' \subseteq Tasks \X CycleIds
    BY <1>2 DEF IInv, TypeOK
  <1>6. TypeOK'
    BY <1>2, <1>3, <1>4, <1>5 DEF IInv, TypeOK
  <1>7. Fresh'
    BY <1>3, OneCycleAdded
  <1>8. r.pc \in WorkPoints => WorkOK(t)'
    BY <1>2, <1>3, <1>4, TasksAssumption
       DEF WorkOK, IsActive, ItemPoints, WorkPoints, LockedPoints
  <1>9. TaskOK(t)'
    <2>1. CASE task[t].pc = "creating"
      BY <1>1, <1>4, <2>1, TasksAssumption
         DEF TaskOK, RowOK, CreatorPoints, LockedPoints, WorkPoints
    <2>2. CASE task[t].pc = "opening"
      BY <1>1, <1>4, <1>8, <2>2, TasksAssumption
         DEF TaskOK, RowOK, CreatorPoints, LockedPoints, WorkPoints
    <2>3. CASE task[t].pc = "owner"
      BY <1>1, <1>4, <1>8, <2>3, TasksAssumption
         DEF TaskOK, RowOK, CreatorPoints, LockedPoints, WorkPoints
    <2>4. QED
      BY <2>1, <2>2, <2>3
  <1>10. QED
    BY <1>3, <1>4, <1>6, <1>7, <1>9, OneTaskSteps

LEMMA InsertCycleKeepsIInv ==
    ASSUME IInv, NEW t \in WindowCallers, InsertCycle(t) PROVE IInv'
  <1>. DEFINE x == task[t].row
              row == [f \in Folders |->
                        IF f \in task[t].todo THEN QueuedItem(0) ELSE NoItem]
              p == AfterCreation(t)
              n == IF task[t].pc = "opening" THEN latest + 1 ELSE 0
              r == [task[t] EXCEPT !.pc = p, !.row = NoCycle, !.todo = {}, !.cur = n]
  <1>1. /\ t \in Tasks /\ up /\ task[t].pc \in {"creating", "opening"}
        /\ latest < MaxCycles /\ latest' = latest + 1
    BY DEF InsertCycle, At, Tasks
  <1>2. n \in CycleIds \cup {0}
    BY <1>1, BoundsAssumption DEF IInv, TypeOK, CycleIds
  <1>3. task[t] \in TaskState /\ ~task[t].hit /\ RowOK(t)
    BY <1>1, TaskFacts DEF TaskOK
  <1>4. x \in CycleRow
    BY <1>3 DEF TaskState
  <1>5. /\ task[t].pc = "creating" => x.kind \in {"migration", "recovery"}
        /\ task[t].pc = "opening" => x.kind = "normal"
        /\ x = Planned(x.kind, x.anchor)
    BY <1>1, <1>3 DEF RowOK, CreatorPoints
  <1>6. x.kind \in RollingKinds /\ x.status \in ActiveStatuses
    BY <1>1, <1>5 DEF Planned, RollingKinds, ActiveStatuses
  <1>7. /\ task[t].pc = "creating" => p \in {"enabling", "called"}
        /\ task[t].pc = "opening" => p = "planning"
        /\ p \in Points
    BY <1>1, <1>5 DEF AfterCreation, Points, LockedPoints
  <1>8. row \in [Folders -> ItemRow]
    BY BlankTypes
  <1>9. /\ cycle' = [cycle EXCEPT ![latest + 1] = x]
        /\ item' = [item EXCEPT ![latest + 1] = row]
        /\ Become(t, r)
        /\ UNCHANGED <<up, now, circuit, lock, engine, folder, runs, crashes, errors>>
    BY DEF InsertCycle, faults
  <1>10. task[t].pc = "opening" => n = latest + 1
    OBVIOUS
  <1>. HIDE DEF x, row, p, n
  <1>11. /\ r \in TaskState /\ r.pc = p /\ r.row = NoCycle /\ r.todo = {} /\ r.cur = n
         /\ ~r.hit
    BY <1>2, <1>3, <1>7, BlankTypes DEF TaskState
  <1>. HIDE DEF r
  <1>12. QED
    BY <1>1, <1>4, <1>6, <1>7, <1>8, <1>9, <1>10, <1>11, OpenKeepsIInv

LEMMA PlanPathSyncKeepsIInv ==
    ASSUME IInv, PlanPathSync PROVE IInv'
  <1>. DEFINE t == PathTask
              x == [kind |-> "manual_path", status |-> "running",
                    anchor |-> now, windows |-> 0]
  <1>1. t \in Tasks /\ up /\ task[t].pc = "owner" /\ latest < MaxCycles
    BY DEF PlanPathSync, IdLeft, At, Tasks
  <1>2. latest + 1 \in CycleIds /\ now \in Nat
    BY <1>1, BoundsAssumption DEF IInv, TypeOK, CycleIds
  <1>3. PICK S \in SUBSET Folders :
          /\ item' = [item EXCEPT ![latest + 1] = [f \in Folders |->
                        IF f \in S THEN QueuedItem(0) ELSE NoItem]]
          /\ Become(t, [task[t] EXCEPT !.pc = "connecting", !.cur = latest + 1, !.todo = S])
    BY DEF PlanPathSync, Active
  <1>. DEFINE row == [f \in Folders |-> IF f \in S THEN QueuedItem(0) ELSE NoItem]
              r == [task[t] EXCEPT !.pc = "connecting", !.cur = latest + 1, !.todo = S]
  <1>4. task[t] \in TaskState /\ ~task[t].hit
    BY <1>1, TaskFacts DEF TaskOK
  <1>5. r \in TaskState
    BY <1>2, <1>4 DEF TaskState, Points, LockedPoints
  <1>6. r.pc = "connecting" /\ r.cur = latest + 1 /\ r.todo = S /\ ~r.hit
    BY <1>4 DEF TaskState
  <1>7. x \in CycleRow /\ x.kind = "manual_path"
    <2>1. 0 \in 0..WindowsTotal
      BY BoundsAssumption
    <2>2. QED
      BY <1>2, <2>1 DEF CycleRow, CycleStatuses, ActiveStatuses, RollingKinds
  <1>8. row \in [Folders -> ItemRow]
    BY BlankTypes
  <1>9. \A f \in S : row[f].status \in OpenStatuses
    BY DEF QueuedItem, OpenStatuses, PendingStatuses
  <1>10. /\ latest' = latest + 1
         /\ cycle' = [cycle EXCEPT ![latest + 1] = x]
         /\ item' = [item EXCEPT ![latest + 1] = row]
         /\ Become(t, r)
         /\ runs' \subseteq runs \cup {<<t, latest + 1>>}
         /\ UNCHANGED <<up, now, circuit, lock, engine, folder, crashes, errors>>
    BY <1>3 DEF PlanPathSync, faults
  <1>. HIDE DEF x, row, r
  <1>11. QED
    BY <1>1, <1>5, <1>6, <1>7, <1>8, <1>9, <1>10, OpenKeepsIInv

-----------------------------------------------------------------------------
(* Exceptions, crashes and the clock *)

LEMMA RaisePathSyncKeepsIInv ==
    ASSUME IInv, RaisePathSync PROVE IInv'
  <1>. DEFINE c == task[PathTask].cur
              i == item[c]
              row == [f \in Folders |-> IF i[f].status \in {"pending", "running"}
                                        THEN [i[f] EXCEPT !.status = "failed"] ELSE i[f]]
              x == [cycle[c] EXCEPT !.status = "failed"]
  <1>1. PathTask \in Tasks /\ up /\ task[PathTask].pc \in WorkPoints
    BY DEF RaisePathSync, At, Tasks, WorkPoints, LockedPoints
  <1>2. c \in CycleIds /\ cycle[c] \in CycleRow /\ i \in [Folders -> ItemRow]
    BY <1>1, WorkFacts
  <1>3. x \in CycleRow /\ x.kind = cycle[c].kind
    BY <1>2 DEF CycleRow, CycleStatuses
  <1>4. row \in [Folders -> ItemRow]
    BY <1>2, ItemTypes DEF ItemStatuses, PendingStatuses
  <1>5. \/ /\ item' = [item EXCEPT ![c] = row]
           /\ cycle' = [cycle EXCEPT ![c] = x]
           /\ runs' \subseteq runs
        \/ UNCHANGED <<item, cycle, runs>>
    BY DEF RaisePathSync
  <1>. HIDE DEF x, row, i
  <1>6. /\ cycle' \in [CycleIds -> CycleRow] /\ item' \in [CycleIds -> [Folders -> ItemRow]]
        /\ \A d \in CycleIds \ {c} : cycle'[d] = cycle[d] /\ item'[d] = item[d]
        /\ cycle'[c].kind = cycle[c].kind
    BY <1>2, <1>3, <1>4, <1>5 DEF IInv, TypeOK
  <1>7. errors' \in 0..MaxErrors /\ crashes' = crashes
    BY BoundsAssumption DEF RaisePathSync, CountError, IInv, TypeOK
  <1>8. QED
    BY <1>1, <1>5, <1>6, <1>7, CloseKeepsIInv DEF RaisePathSync

LEMMA RaiseKeepsIInv ==
    ASSUME IInv, NEW t \in WindowCallers, Raise(t) PROVE IInv'
  <1>. DEFINE r == [IdleTask EXCEPT !.pc = "unwinding"]
  <1>1. t \in Tasks /\ t # PathTask /\ up
    BY TasksAssumption DEF Raise, At, Tasks
  <1>2. r \in TaskState /\ r.pc = "unwinding" /\ r.todo = {} /\ ~r.hit
    BY BlankTypes DEF IdleTask
  <1>3. /\ Become(t, r) /\ lock' = IF lock = t THEN Nobody ELSE lock
        /\ UNCHANGED <<up, now, circuit, engine, latest, cycle, item, folder, runs, crashes>>
    BY DEF Raise, CountError
  <1>4. errors' \in 0..MaxErrors
    BY BoundsAssumption DEF Raise, CountError, IInv, TypeOK
  <1>5. task'[t] = r
    BY <1>1, <1>3, TaskFacts DEF Become
  <1>. HIDE DEF r
  <1>6. lock' # t /\ lock' \in Tasks \cup {Nobody}
    BY <1>1, <1>3, TaskFacts DEF IInv, TypeOK
  <1>7. TaskOK(t)'
    BY <1>1, <1>2, <1>5, <1>6 DEF TaskOK, RowOK, CreatorPoints, LockedPoints, WorkPoints
  <1>8. QED
    BY <1>1, <1>2, <1>3, <1>4, <1>6, <1>7, OneTaskMoves DEF IInv, TypeOK

\* What the failure handler and the startup recovery write.
LEMMA RecoveryRows ==
    ASSUME IInv
    PROVE  /\ RequeuedItems \in [CycleIds -> [Folders -> ItemRow]]
           /\ PausedCycles \in [CycleIds -> CycleRow]
           /\ \A c \in CycleIds : /\ PausedCycles[c].kind = cycle[c].kind
                                  /\ PausedCycles[c].status \in ActiveStatuses <=>
                                        cycle[c].status \in ActiveStatuses
           /\ \A c \in CycleIds, f \in Folders :
                 /\ item[c][f].status \in OpenStatuses =>
                       RequeuedItems[c][f].status \in OpenStatuses
                 /\ item[c][f].status # "running" => RequeuedItems[c][f] = item[c][f]
           /\ \A c \in CycleIds : c > latest =>
                 /\ PausedCycles[c] = NoCycle
                 /\ RequeuedItems[c] = [f \in Folders |-> NoItem]
  <1>1. ASSUME NEW c \in CycleIds, NEW f \in Folders
        PROVE  /\ Requeue(c, f) \in ItemRow
               /\ item[c][f].status \in OpenStatuses => Requeue(c, f).status \in OpenStatuses
               /\ item[c][f].status # "running" => Requeue(c, f) = item[c][f]
    <2>1. item[c][f] \in ItemRow
      BY DEF IInv, TypeOK
    <2>2. QED
      BY <2>1 DEF Requeue, ItemRow, ItemStatuses, PendingStatuses, OpenStatuses
  <1>2. ASSUME NEW c \in CycleIds
        PROVE  /\ PausedCycles[c] \in CycleRow
               /\ PausedCycles[c].kind = cycle[c].kind
               /\ PausedCycles[c].status \in ActiveStatuses <=>
                     cycle[c].status \in ActiveStatuses
    <2>1. cycle[c] \in CycleRow
      BY DEF IInv, TypeOK
    <2>2. CASE cycle[c].status = "running"
      <3>1. PausedCycles[c] = [cycle[c] EXCEPT !.status = "partial"]
        BY <2>2 DEF PausedCycles
      <3>2. QED
        BY <2>1, <2>2, <3>1 DEF CycleRow, CycleStatuses, ActiveStatuses
    <2>3. CASE cycle[c].status # "running"
      <3>1. PausedCycles[c] = cycle[c]
        BY <2>3 DEF PausedCycles
      <3>2. QED
        BY <2>1, <3>1
    <2>4. QED
      BY <2>2, <2>3
  <1>3. PausedCycles \in [CycleIds -> CycleRow]
    BY <1>2 DEF PausedCycles
  <1>4. RequeuedItems \in [CycleIds -> [Folders -> ItemRow]]
    BY <1>1 DEF RequeuedItems
  <1>5. ASSUME NEW c \in CycleIds, c > latest
        PROVE  PausedCycles[c] = NoCycle /\ RequeuedItems[c] = [f \in Folders |-> NoItem]
    <2>1. cycle[c] = NoCycle /\ item[c] = [f \in Folders |-> NoItem]
      BY <1>5 DEF IInv, Fresh
    <2>2. PausedCycles[c] = NoCycle
      BY <2>1 DEF PausedCycles, NoCycle
    <2>3. \A f \in Folders : Requeue(c, f) = NoItem
      BY <2>1 DEF Requeue, NoItem
    <2>4. QED
      BY <2>2, <2>3 DEF RequeuedItems
  <1>6. \A c \in CycleIds, f \in Folders : RequeuedItems[c][f] = Requeue(c, f)
    BY DEF RequeuedItems
  <1>7. QED
    BY <1>1, <1>2, <1>3, <1>4, <1>5, <1>6

\* Both keep everything a coroutine relies on, whoever holds the lock.
LEMMA RecoveryKeeps ==
    ASSUME IInv, item' = RequeuedItems, cycle' = PausedCycles, latest' = latest
    PROVE  /\ Fresh'
           /\ \A u \in Tasks : task'[u] = task[u] /\ lock' = lock => TaskOK(u)'
  <1>. DEFINE RI == RequeuedItems
              PC == PausedCycles
  <1>1. /\ \A c \in CycleIds : /\ PC[c].kind = cycle[c].kind
                               /\ PC[c].status \in ActiveStatuses <=>
                                     cycle[c].status \in ActiveStatuses
        /\ \A c \in CycleIds, f \in Folders :
              item[c][f].status \in OpenStatuses => RI[c][f].status \in OpenStatuses
        /\ \A c \in CycleIds : c > latest =>
              PC[c] = NoCycle /\ RI[c] = [f \in Folders |-> NoItem]
    BY RecoveryRows
  <1>2. item' = RI /\ cycle' = PC
    OBVIOUS
  <1>. HIDE DEF RI, PC
  <1>3. Fresh'
    BY <1>1, <1>2 DEF Fresh
  <1>5. ASSUME NEW u \in Tasks, task'[u] = task[u], lock' = lock PROVE TaskOK(u)'
    <2>1. TaskOK(u)
      BY TaskFacts
    <2>2. CASE task[u].pc \in WorkPoints
      <3>1. /\ WorkOK(u) /\ task[u].cur \in CycleIds /\ task[u].todo \in SUBSET Folders
        BY <2>2, WorkFacts
      <3>2. WorkOK(u)'
        BY <1>1, <1>2, <1>5, <3>1 DEF WorkOK, IsActive
      <3>3. QED
        BY <1>5, <2>1, <3>2 DEF TaskOK, RowOK
    <2>3. CASE task[u].pc \notin WorkPoints
      BY <1>5, <2>1, <2>3 DEF TaskOK, RowOK
    <2>4. QED
      BY <2>2, <2>3
  <1>6. QED
    BY <1>3, <1>5

LEMMA FinalizeKeepsIInv ==
    ASSUME IInv, NEW t \in WindowCallers, FinalizeFailedWindow(t) PROVE IInv'
  <1>. DEFINE r == [task[t] EXCEPT !.pc = "idle"]
  <1>1. t \in Tasks /\ t # PathTask /\ up /\ task[t].pc = "unwinding"
    BY TasksAssumption DEF FinalizeFailedWindow, At, Tasks
  <1>2. task[t] \in TaskState /\ task[t].todo = {} /\ ~task[t].hit /\ lock # t
    BY <1>1, TaskFacts DEF TaskOK, WorkPoints, LockedPoints
  <1>3. r \in TaskState /\ r.pc = "idle" /\ r.todo = {} /\ ~r.hit
    BY <1>2 DEF TaskState, Points
  <1>4. /\ Become(t, r) /\ item' = RequeuedItems /\ cycle' = PausedCycles /\ runs' \subseteq runs
        /\ UNCHANGED <<up, now, circuit, lock, engine, latest, folder, crashes, errors>>
    BY DEF FinalizeFailedWindow, Goto, faults
  <1>5. /\ task'[t] = r /\ task' \in [Tasks -> TaskState]
        /\ \A u \in Tasks \ {t} : task'[u] = task[u]
    BY <1>1, <1>3, <1>4, TaskFacts DEF Become
  <1>. HIDE DEF r
  <1>6. item' \in [CycleIds -> [Folders -> ItemRow]] /\ cycle' \in [CycleIds -> CycleRow]
    BY <1>4, RecoveryRows
  <1>7. TypeOK'
    BY <1>4, <1>5, <1>6 DEF IInv, TypeOK
  <1>8. /\ Fresh'
        /\ \A u \in Tasks \ {t} : TaskOK(u)'
    BY <1>4, <1>5, RecoveryKeeps
  <1>9. TaskOK(t)'
    BY <1>1, <1>2, <1>3, <1>4, <1>5 DEF TaskOK, RowOK, CreatorPoints, WorkPoints, LockedPoints
  <1>10. \A u \in Tasks : TaskOK(u)'
    BY <1>8, <1>9
  <1>11. DownIsIdle'
    BY <1>1, <1>4 DEF DownIsIdle
  <1>12. QED
    BY <1>7, <1>8, <1>10, <1>11 DEF IInv

\* An idle coroutine relies on nothing.
LEMMA IdleOK ==
    ASSUME NEW t \in Tasks, task'[t] = IdleTask, lock' # t
    PROVE  TaskOK(t)'
  BY DEF TaskOK, RowOK, CreatorPoints, IdleTask, LockedPoints, WorkPoints

LEMMA CrashKeepsIInv ==
    ASSUME IInv, Crash PROVE IInv'
  <1>1. \A t \in Tasks : task'[t] = IdleTask /\ lock' # t
    BY TasksAssumption DEF Crash
  <1>2. \A t \in Tasks : TaskOK(t)'
    BY <1>1, IdleOK
  <1>3. task' \in [Tasks -> TaskState]
    BY BlankTypes DEF Crash
  <1>4. crashes' \in 0..MaxCrashes
    BY BoundsAssumption DEF Crash, IInv, TypeOK
  <1>5. TypeOK'
    BY <1>3, <1>4 DEF Crash, IInv, TypeOK
  <1>6. Fresh'
    BY RowsKept DEF Crash
  <1>7. DownIsIdle'
    BY <1>1 DEF DownIsIdle
  <1>8. QED
    BY <1>2, <1>5, <1>6, <1>7 DEF IInv

LEMMA RecoveredFoldersType ==
    ASSUME IInv PROVE RecoveredFolders \in [Folders -> FolderStatuses]
  BY DEF IInv, TypeOK, RecoveredFolders, SeededRoots, FolderStatuses

LEMMA RestartKeepsIInv ==
    ASSUME IInv, Restart PROVE IInv'
  <1>1. /\ item' \in [CycleIds -> [Folders -> ItemRow]] /\ cycle' \in [CycleIds -> CycleRow]
        /\ folder' \in [Folders -> FolderStatuses]
    BY RecoveryRows, RecoveredFoldersType DEF Restart
  <1>2. TypeOK'
    BY <1>1 DEF Restart, faults, IInv, TypeOK
  <1>3. Fresh' /\ \A t \in Tasks : TaskOK(t)'
    BY RecoveryKeeps DEF Restart
  <1>4. DownIsIdle'
    BY DEF Restart, DownIsIdle
  <1>5. QED
    BY <1>2, <1>3, <1>4 DEF IInv

\* The start that hands over or recovers inserts a cycle; no coroutine runs yet.
LEMMA RestartWithCycleKeepsIInv ==
    ASSUME IInv, RestartWithCycle PROVE IInv'
  <1>. DEFINE x == RestartedCycle
              row == [f \in Folders |->
                        IF RecoveredFolders[f] = "active" THEN QueuedItem(0) ELSE NoItem]
              RI == RequeuedItems
              PC == PausedCycles
  <1>1. /\ latest \in Nat /\ latest < MaxCycles /\ now \in Nat
        /\ latest + 1 \in CycleIds
    BY BoundsAssumption DEF RestartWithCycle, Room, IdLeft, IInv, TypeOK, CycleIds
  <1>2. x \in CycleRow
    BY <1>1, PlannedTypes DEF RestartedCycle, RollingKinds
  <1>3. row \in [Folders -> ItemRow]
    BY BlankTypes
  <1>4. /\ RI \in [CycleIds -> [Folders -> ItemRow]] /\ PC \in [CycleIds -> CycleRow]
        /\ \A c \in CycleIds : c > latest => PC[c] = NoCycle /\ RI[c] = [f \in Folders |-> NoItem]
    BY RecoveryRows
  <1>5. /\ item' = [RI EXCEPT ![latest + 1] = row] /\ cycle' = [PC EXCEPT ![latest + 1] = x]
        /\ latest' = latest + 1 /\ up' = TRUE /\ ~up /\ engine' = TRUE
        /\ folder' \in [Folders -> FolderStatuses] /\ runs' = {}
        /\ UNCHANGED <<now, circuit, lock, task, crashes, errors>>
    BY RecoveredFoldersType DEF RestartWithCycle, faults
  <1>. HIDE DEF x, row, RI, PC
  <1>6. item' \in [CycleIds -> [Folders -> ItemRow]] /\ cycle' \in [CycleIds -> CycleRow]
    BY <1>1, <1>2, <1>3, <1>4, <1>5
  <1>7. TypeOK'
    BY <1>1, <1>5, <1>6 DEF IInv, TypeOK
  <1>8. Fresh'
    <2>1. ASSUME NEW d \in CycleIds, d > latest'
          PROVE  cycle'[d] = NoCycle /\ item'[d] = [f \in Folders |-> NoItem]
      <3>1. d # latest + 1 /\ d > latest
        BY <1>1, <1>5, <2>1 DEF CycleIds
      <3>2. QED
        BY <1>4, <1>5, <3>1
    <2>2. QED
      BY <2>1 DEF Fresh
  <1>9. ASSUME NEW t \in Tasks PROVE TaskOK(t)'
    <2>1. task'[t] = IdleTask /\ lock' # t
      <3>1. task[t] = IdleTask
        BY <1>5 DEF IInv, DownIsIdle
      <3>2. lock # t
        BY <3>1, TaskFacts DEF IdleTask, LockedPoints
      <3>3. QED
        BY <1>5, <3>1, <3>2
    <2>2. QED
      BY <2>1, IdleOK
  <1>10. DownIsIdle'
    BY <1>5 DEF DownIsIdle
  <1>11. QED
    BY <1>7, <1>8, <1>9, <1>10 DEF IInv

\* A step that changes only the clock or the circuit breaker.
LEMMA ClockKeepsIInv ==
    ASSUME IInv, now' \in 0..MaxTime, circuit' \in BOOLEAN,
           UNCHANGED <<up, lock, engine, latest, cycle, item, folder, runs, task, crashes, errors>>
    PROVE  IInv'
  <1>1. TypeOK'
    BY DEF IInv, TypeOK
  <1>2. Fresh'
    BY RowsKept
  <1>3. DownIsIdle' /\ \A t \in Tasks : TaskOK(t)'
    BY DEF IInv, DownIsIdle, TaskOK, RowOK, WorkOK, IsActive
  <1>4. QED
    BY <1>1, <1>2, <1>3 DEF IInv

-----------------------------------------------------------------------------
(* Theorems *)

LEMMA InitIInv == Init => IInv
  <1>. SUFFICES ASSUME Init PROVE IInv
    OBVIOUS
  <1>1. TypeOK
    <2>1. task \in [Tasks -> TaskState]
      BY BlankTypes DEF Init
    <2>2. folder \in [Folders -> FolderStatuses] /\ engine \in BOOLEAN
      BY DEF Init, FolderStatuses
    <2>3. item \in [CycleIds -> [Folders -> ItemRow]]
      BY BlankTypes DEF Init
    <2>4. cycle \in [CycleIds -> CycleRow]
      BY BlankTypes DEF Init
    <2>5. now \in 0..MaxTime /\ crashes \in 0..MaxCrashes /\ errors \in 0..MaxErrors
      BY BoundsAssumption DEF Init
    <2>6. QED
      BY <2>1, <2>2, <2>3, <2>4, <2>5 DEF Init, TypeOK
  <1>2. \A t \in Tasks : TaskOK(t)
    <2>1. ASSUME NEW t \in Tasks PROVE TaskOK(t)
      <3>1. task[t] = IdleTask /\ lock # t
        BY TasksAssumption DEF Init
      <3>2. QED
        BY <3>1 DEF TaskOK, RowOK, CreatorPoints, IdleTask, LockedPoints, WorkPoints
    <2>2. QED
      BY <2>1
  <1>3. Fresh
    BY DEF Init, Fresh
  <1>4. DownIsIdle
    BY DEF Init, DownIsIdle
  <1>5. QED
    BY <1>1, <1>2, <1>3, <1>4 DEF IInv

LEMMA WindowStepKeepsIInv ==
    ASSUME IInv, NEW t \in WindowCallers, WindowStep(t) PROVE IInv'
  <1>1. t \in Tasks
    BY DEF Tasks
  <1>0. CASE CallMigration(t) \/ CallRecovery(t) \/ SeedRoots(t) \/ SeekCycle(t) \/ InsertCycle(t)
    BY <1>0, CallCreatorKeepsIInv, SeedRootsKeepsIInv, SeekCycleKeepsIInv, InsertCycleKeepsIInv
  <1>2. CASE Call(t) \/ CheckCircuit(t) \/ Acquire(t) \/ ReuseCycle(t) \/ FindNoCycle(t)
    BY <1>1, <1>2, CallKeepsIInv, CheckCircuitKeepsIInv, AcquireKeepsIInv,
       ReuseCycleKeepsIInv, FindNoCycleKeepsIInv
  <1>3. CASE CycleNotDue(t) \/ WindowNotDue(t) \/ CompleteEmpty(t) \/ PlanWindow(t) \/ Connect(t)
    BY <1>1, <1>3, NotDueKeepsIInv, CompleteEmptyKeepsIInv, PlanWindowKeepsIInv,
       ConnectKeepsIInv
  <1>4. CASE StartItem(t) \/ ScanVerified(t) \/ ScanSuperseded(t) \/ ScanFailed(t)
    BY <1>4, StartItemKeepsIInv, ScanVerifiedKeepsIInv, ScanSupersededKeepsIInv,
       ScanFailedKeepsIInv
  <1>5. CASE ScanRestricted(t) \/ OpenCircuit(t) \/ SettleItem(t) \/ CloseWindow(t)
    BY <1>5, ScanRestrictedKeepsIInv, OpenCircuitKeepsIInv, SettleItemKeepsIInv,
       CloseWindowKeepsIInv
  <1>6. CASE FinalizeFailedWindow(t) \/ EnableEngine(t) \/ FindLock(t)
    BY <1>6, FinalizeKeepsIInv, EnableEngineKeepsIInv, FindLockKeepsIInv
  <1>7. QED
    BY <1>0, <1>2, <1>3, <1>4, <1>5, <1>6 DEF WindowStep

LEMMA PathStepKeepsIInv ==
    ASSUME IInv, PathStep PROVE IInv'
  <1>1. PathTask \in Tasks
    BY DEF Tasks
  <1>2. CASE ReservePathSync \/ Acquire(PathTask) \/ PlanPathSync \/ RejectPathSync
    BY <1>1, <1>2, ReservePathSyncKeepsIInv, AcquireKeepsIInv, PlanPathSyncKeepsIInv,
       RejectPathSyncKeepsIInv
  <1>3. CASE Connect(PathTask) \/ PathStartItem \/ PathScan \/ ClosePathSync
    BY <1>1, <1>3, ConnectKeepsIInv, PathStartItemKeepsIInv, PathScanKeepsIInv,
       ClosePathSyncKeepsIInv
  <1>4. QED
    BY <1>2, <1>3 DEF PathStep

LEMMA NextKeepsIInv == IInv /\ [Next]_vars => IInv'
  <1>. SUFFICES ASSUME IInv, [Next]_vars PROVE IInv'
    OBVIOUS
  <1>1. CASE \E t \in WindowCallers : WindowStep(t) \/ Raise(t) \/ RaiseMigration(t)
    BY <1>1, WindowStepKeepsIInv, RaiseKeepsIInv, RaiseMigrationKeepsIInv
  <1>2. CASE PathStep \/ RaisePathSync
    BY <1>2, PathStepKeepsIInv, RaisePathSyncKeepsIInv
  <1>3. CASE Crash \/ Restart \/ RestartWithCycle
    BY <1>3, CrashKeepsIInv, RestartKeepsIInv, RestartWithCycleKeepsIInv
  <1>4. CASE Tick
    <2>1. now' \in 0..MaxTime
      BY <1>4, BoundsAssumption DEF Tick, IInv, TypeOK
    <2>2. QED
      BY <1>4, <2>1, ClockKeepsIInv DEF Tick, faults, IInv, TypeOK
  <1>5. CASE CircuitExpires
    BY <1>5, ClockKeepsIInv DEF CircuitExpires, faults, IInv, TypeOK
  <1>6. CASE UNCHANGED vars
    BY <1>6, ClockKeepsIInv DEF vars, IInv, TypeOK
  <1>7. QED
    BY <1>1, <1>2, <1>3, <1>4, <1>5, <1>6 DEF Next

\* IInv holds in every reachable state.
THEOREM Invariance == Spec => []IInv
  BY InitIInv, NextKeepsIInv, PTL DEF Spec

\* Every variable keeps its type, whatever the callers, folders and bounds.
THEOREM TypeCorrect == Spec => []TypeOK
  <1>1. IInv => TypeOK
    BY DEF IInv
  <1>2. QED
    BY <1>1, Invariance, PTL

-----------------------------------------------------------------------------
(* A verified item stays verified *)

\* The item under scan is open, so recording an attempt spares verified items.
LEMMA RecordedSpares ==
    ASSUME IInv, NEW c \in CycleIds, NEW f \in Folders, item[c][f].status = "success",
           NEW t \in Tasks, task[t].pc \in ItemPoints,
           NEW s \in ItemStatuses, NEW n \in {0, 1}
    PROVE  Recorded(t, s, n)[c][f] = item[c][f]
  <1>1. WorkOK(t) /\ task[t].at \in task[t].todo
    BY WorkFacts DEF ItemPoints, WorkPoints, LockedPoints
  <1>2. item[task[t].cur][task[t].at].status \in OpenStatuses
    BY <1>1 DEF WorkOK
  <1>3. ~(task[t].cur = c /\ task[t].at = f)
    BY <1>2 DEF OpenStatuses, PendingStatuses
  <1>4. /\ \A d \in CycleIds \ {task[t].cur} : Recorded(t, s, n)[d] = item[d]
        /\ \A g \in Folders \ {task[t].at} :
              Recorded(t, s, n)[task[t].cur][g] = item[task[t].cur][g]
    BY RecordedRows
  <1>5. QED
    BY <1>3, <1>4

LEMMA WindowStepSpares ==
    ASSUME IInv, NEW c \in CycleIds, NEW f \in Folders, item[c][f].status = "success",
           NEW t \in WindowCallers, WindowStep(t)
    PROVE  item'[c][f] = item[c][f]
  <1>1. t \in Tasks
    BY DEF Tasks
  <1>2. item \in [CycleIds -> [Folders -> ItemRow]]
    BY DEF IInv, TypeOK
  <1>3. CASE StartItem(t)
    <2>1. PICK g \in task[t].todo :
             item' = [item EXCEPT ![task[t].cur][g] = [@ EXCEPT !.status = "running"]]
      BY <1>3 DEF StartItem
    <2>2. WorkOK(t) /\ task[t].cur \in CycleIds /\ g \in Folders
      BY <1>1, <1>3, WorkFacts DEF StartItem, At, WorkPoints, LockedPoints
    <2>3. ~(task[t].cur = c /\ g = f)
      BY <2>2 DEF WorkOK, OpenStatuses, PendingStatuses
    <2>4. QED
      BY <1>2, <2>1, <2>2, <2>3
  <1>4. CASE InsertCycle(t)
    <2>1. latest + 1 > latest
      BY BoundsAssumption DEF IInv, TypeOK, CycleIds
    <2>2. c # latest + 1
      BY <2>1 DEF IInv, Fresh, NoItem
    <2>3. QED
      BY <1>2, <1>4, <2>2 DEF InsertCycle
  <1>5. CASE ScanVerified(t)
    <2>. DEFINE R == Recorded(t, "success", 1)
                d == task[t].cur
    <2>1. task[t].pc \in ItemPoints /\ "success" \in ItemStatuses
      BY <1>5 DEF ScanVerified, At, ItemPoints, ItemStatuses
    <2>2. R[c][f] = item[c][f] /\ R \in [CycleIds -> [Folders -> ItemRow]]
      BY <1>1, <2>1, RecordedSpares, RecordedRows
    <2>3. PICK listed \in SUBSET Children(task[t].at), unchanged \in BOOLEAN :
             item' = [R EXCEPT ![d] =
                [k \in Folders |-> IF ~unchanged /\ k \in listed \cap NoItemYet(t)
                                   THEN QueuedItem(100) ELSE @[k]]]
      BY <1>5 DEF ScanVerified
    <2>4. c = d => f \notin NoItemYet(t)
      BY DEF NoItemYet
    <2>. HIDE DEF R
    <2>5. QED
      BY <2>2, <2>3, <2>4
  <1>6. CASE ScanSuperseded(t)
    <2>1. task[t].pc \in ItemPoints /\ "superseded" \in ItemStatuses
      BY <1>6 DEF ScanSuperseded, At, ItemPoints, ItemStatuses
    <2>2. Recorded(t, "superseded", 1)[c][f] = item[c][f]
      BY <1>1, <2>1, RecordedSpares
    <2>3. QED
      BY <1>6, <2>2 DEF ScanSuperseded
  <1>7. CASE ScanFailed(t) \/ ScanRestricted(t)
    <2>. DEFINE s == CurrentStatus(t)
    <2>1. task[t].pc \in ItemPoints /\ item' = Recorded(t, s, 1)
      BY <1>7 DEF ScanFailed, ScanRestricted, At, ItemPoints
    <2>2. s \in ItemStatuses
      BY <1>1, <2>1, WorkFacts DEF CurrentStatus, ItemRow, ItemPoints, WorkPoints, LockedPoints
    <2>3. Recorded(t, s, 1)[c][f] = item[c][f]
      BY <1>1, <2>1, <2>2, RecordedSpares
    <2>4. QED
      BY <2>1, <2>3
  <1>8. CASE SettleItem(t)
    <2>. DEFINE s == IF task[t].hit THEN "pending" ELSE "failed"
    <2>1. task[t].pc \in ItemPoints /\ item' = Recorded(t, s, 0) /\ s \in ItemStatuses
      BY <1>8 DEF SettleItem, At, ItemPoints, ItemStatuses, PendingStatuses
    <2>2. Recorded(t, s, 0)[c][f] = item[c][f]
      BY <1>1, <2>1, RecordedSpares
    <2>3. QED
      BY <2>1, <2>2
  <1>9. CASE FinalizeFailedWindow(t)
    BY <1>9, RecoveryRows DEF FinalizeFailedWindow
  <1>10. CASE UNCHANGED item
    BY <1>10
  <1>11. QED
    BY <1>3, <1>4, <1>5, <1>6, <1>7, <1>8, <1>9, <1>10
       DEF WindowStep, CallMigration, CallRecovery, SeedRoots, SeekCycle, EnableEngine, Call,
           FindLock, FindNoCycle, CheckCircuit, Acquire, ReuseCycle, CycleNotDue, WindowNotDue,
           CompleteEmpty, PlanWindow, Connect, OpenCircuit, CloseWindow

LEMMA PathStepSpares ==
    ASSUME IInv, NEW c \in CycleIds, NEW f \in Folders, item[c][f].status = "success",
           PathStep \/ RaisePathSync
    PROVE  item'[c][f] = item[c][f]
  <1>. DEFINE t == PathTask
  <1>1. t \in Tasks
    BY DEF Tasks
  <1>2. item \in [CycleIds -> [Folders -> ItemRow]]
    BY DEF IInv, TypeOK
  <1>3. CASE PlanPathSync
    <2>1. latest + 1 > latest
      BY BoundsAssumption DEF IInv, TypeOK, CycleIds
    <2>2. c # latest + 1
      BY <2>1 DEF IInv, Fresh, NoItem
    <2>3. QED
      BY <1>2, <1>3, <2>2 DEF PlanPathSync
  <1>4. CASE PathStartItem
    <2>1. PICK g \in task[t].todo :
             LET i == item[task[t].cur][g] IN
             item' = [item EXCEPT ![task[t].cur][g] =
                        [i EXCEPT !.status = "running", !.attempts = @ + 1]]
      BY <1>4 DEF PathStartItem
    <2>2. WorkOK(t) /\ task[t].cur \in CycleIds /\ g \in Folders
      BY <1>1, <1>4, WorkFacts DEF PathStartItem, At, WorkPoints, LockedPoints
    <2>3. ~(task[t].cur = c /\ g = f)
      BY <2>2 DEF WorkOK, OpenStatuses, PendingStatuses
    <2>4. QED
      BY <1>2, <2>1, <2>2, <2>3
  <1>5. CASE PathScan
    <2>1. PICK s \in {"success", "superseded", "failed"} : item' = Recorded(t, s, 0)
      BY <1>5 DEF PathScan
    <2>2. task[t].pc \in ItemPoints /\ s \in ItemStatuses
      BY <1>5 DEF PathScan, At, ItemPoints, ItemStatuses, PendingStatuses
    <2>3. Recorded(t, s, 0)[c][f] = item[c][f]
      BY <1>1, <2>2, RecordedSpares
    <2>4. QED
      BY <2>1, <2>3
  <1>6. CASE RaisePathSync
    <2>. DEFINE d == task[t].cur
    <2>1. \/ UNCHANGED item
          \/ item' = [item EXCEPT ![d] = [g \in Folders |->
                          IF @[g].status \in {"pending", "running"}
                          THEN [@[g] EXCEPT !.status = "failed"] ELSE @[g]]]
      BY <1>6 DEF RaisePathSync
    <2>2. QED
      BY <1>2, <2>1
  <1>7. CASE UNCHANGED item
    BY <1>7
  <1>8. QED
    BY <1>3, <1>4, <1>5, <1>6, <1>7
       DEF PathStep, ReservePathSync, Acquire, RejectPathSync, Connect, ClosePathSync

\* A folder is listed once per cycle: no retry, restart, failure handling or
\* path synchronization changes the item of a folder that was verified.
THEOREM VerifiedItemsStay == Spec => VerifiedOnce
  <1>1. ASSUME IInv, [Next]_vars, NEW c \in CycleIds, NEW f \in Folders,
               item[c][f].status = "success"
        PROVE  item'[c][f] = item[c][f]
    <2>1. CASE \E t \in WindowCallers : WindowStep(t)
      BY <1>1, <2>1, WindowStepSpares
    <2>2. CASE PathStep \/ RaisePathSync
      BY <1>1, <2>2, PathStepSpares
    <2>3. CASE Restart
      BY <1>1, <2>3, RecoveryRows DEF Restart
    <2>4. CASE RestartWithCycle
      <3>. DEFINE RI == RequeuedItems
                  row == [g \in Folders |->
                           IF RecoveredFolders[g] = "active" THEN QueuedItem(0) ELSE NoItem]
      <3>1. item' = [RI EXCEPT ![latest + 1] = row]
        BY <2>4 DEF RestartWithCycle
      <3>2. RI \in [CycleIds -> [Folders -> ItemRow]] /\ RI[c][f] = item[c][f]
        BY <1>1, RecoveryRows
      <3>3. latest + 1 > latest
        BY BoundsAssumption, <1>1 DEF IInv, TypeOK, CycleIds
      <3>4. c # latest + 1
        BY <1>1, <3>3 DEF IInv, Fresh, NoItem
      <3>. HIDE DEF RI, row
      <3>5. QED
        BY <3>1, <3>2, <3>4
    <2>5. CASE UNCHANGED item
      BY <2>5
    <2>6. QED
      BY <1>1, <2>1, <2>2, <2>3, <2>4, <2>5
         DEF Next, Raise, RaiseMigration, Crash, Tick, CircuitExpires, vars
  <1>2. IInv /\ [Next]_vars =>
           [\A c \in CycleIds, f \in Folders :
               item[c][f].status = "success" => item'[c][f] = item[c][f]]_vars
    BY <1>1
  <1>3. QED
    BY <1>2, Invariance, PTL DEF Spec, VerifiedOnce

-----------------------------------------------------------------------------
(* One cycle at a time, once the engine is in charge *)

\* What a step keeps when it neither looks for a cycle nor inserts one.
NothingReopened == \A d \in CycleIds : Unfinished(d)' => Unfinished(d)
SeekingPoints == CreatorPoints \cup {"opening"}
NobodySeeks == \A u \in Tasks : task'[u].pc \in SeekingPoints => task[u].pc = task'[u].pc
IndexKept == engine' /\ Active' # {}

\* A step of one coroutine that ends at another point.
LEMMA LandsElsewhere ==
    ASSUME IInv, NEW t \in Tasks, NEW r \in TaskState, Become(t, r), r.pc \notin SeekingPoints
    PROVE  NobodySeeks
  BY TaskFacts DEF Become, NobodySeeks

\* The points a window's coroutine goes on to, when it is not looking for a cycle.
LEMMA WindowLands ==
    ASSUME IInv, NEW t \in WindowCallers, engine, Active # {},
           task[t].pc \notin CreatorPoints, ~FindNoCycle(t),
           WindowStep(t) \/ Raise(t) \/ RaiseMigration(t)
    PROVE  NobodySeeks
  <1>1. t \in Tasks
    BY DEF Tasks
  <1>2. task[t] \in TaskState /\ IdleTask.pc = "idle" /\ task \in [Tasks -> TaskState]
    BY <1>1, TaskFacts, IdleTypes
  <1>. DEFINE New == task'[t].pc
  <1>3. ASSUME NEW r, Become(t, r), r.pc \notin SeekingPoints PROVE NobodySeeks
    BY <1>2, <1>3 DEF Become, NobodySeeks
  <1>4. \A p : [task[t] EXCEPT !.pc = p].pc = p
    BY <1>2 DEF TaskState
  <1>5. CASE InsertCycle(t)
    <2>1. task[t].pc = "opening" /\ task[t].row.kind = "normal"
      BY <1>1, <1>5, TaskFacts DEF InsertCycle, At, CreatorPoints, TaskOK, RowOK
    <2>2. AfterCreation(t) = "planning"
      BY <2>1 DEF AfterCreation
    <2>. DEFINE r == [task[t] EXCEPT !.pc = AfterCreation(t), !.row = NoCycle, !.todo = {},
                        !.cur = IF task[t].pc = "opening" THEN latest + 1 ELSE 0]
    <2>3. Become(t, r)
      BY <1>5 DEF InsertCycle
    <2>4. r.pc = "planning"
      BY <1>2, <2>2 DEF TaskState
    <2>. HIDE DEF r
    <2>5. QED
      BY <1>3, <2>3, <2>4 DEF SeekingPoints, CreatorPoints
  <1>6. CASE Return(t) \/ Become(t, IdleTask)
    BY <1>2, <1>3, <1>6 DEF Return, SeekingPoints, CreatorPoints
  <1>7. CASE Call(t) \/ FindLock(t) \/ CheckCircuit(t) \/ Acquire(t) \/ ReuseCycle(t) \/ PlanWindow(t)
    BY <1>2, <1>3, <1>7
       DEF Call, FindLock, CheckCircuit, Acquire, ReuseCycle, PlanWindow, Goto, SeekingPoints,
           CreatorPoints, TaskState
  <1>8. CASE Connect(t) \/ StartItem(t) \/ ScanFailed(t) \/ ScanRestricted(t) \/ OpenCircuit(t)
    BY <1>2, <1>3, <1>8
       DEF Connect, StartItem, ScanFailed, ScanRestricted, OpenCircuit, Goto, At, SeekingPoints,
           CreatorPoints, TaskState
  <1>9. CASE ScanVerified(t) \/ ScanSuperseded(t) \/ SettleItem(t)
    <2>1. PICK p \in {"looping", "closing"} : DoneWithItem(t, p)
      BY <1>9 DEF ScanVerified, ScanSuperseded, SettleItem
    <2>2. QED
      BY <1>2, <1>3, <2>1 DEF DoneWithItem, SeekingPoints, CreatorPoints, TaskState
  <1>10. CASE FinalizeFailedWindow(t) \/ Raise(t)
    BY <1>2, <1>3, <1>10
       DEF FinalizeFailedWindow, Raise, Goto, SeekingPoints, CreatorPoints, TaskState, IdleTask
  <1>11. QED
    BY <1>5, <1>6, <1>7, <1>8, <1>9, <1>10
       DEF WindowStep, CallMigration, CallRecovery, SeedRoots, SeekCycle, EnableEngine, CycleNotDue,
           WindowNotDue, CompleteEmpty, CloseWindow, RaiseMigration, At, CreatorPoints

\* A window changes at most the cycle it works on, which was active.
LEMMA WindowReopensNothing ==
    ASSUME IInv, NEW t \in WindowCallers, ~InsertCycle(t),
           WindowStep(t) \/ Raise(t) \/ RaiseMigration(t)
    PROVE  NothingReopened
  <1>1. t \in Tasks /\ t # PathTask /\ cycle \in [CycleIds -> CycleRow]
    BY TasksAssumption DEF Tasks, IInv, TypeOK
  <1>2. CASE CompleteEmpty(t) \/ PlanWindow(t) \/ CloseWindow(t)
    <2>1. task[t].pc \in WorkPoints
      BY <1>2 DEF CompleteEmpty, PlanWindow, CloseWindow, At, WorkPoints, LockedPoints
    <2>2. Unfinished(task[t].cur)
      BY <1>1, <2>1, WorkFacts DEF WorkOK, IsActive, Unfinished
    <2>3. \A d \in CycleIds \ {task[t].cur} : cycle'[d] = cycle[d]
      BY <1>1, <1>2 DEF CompleteEmpty, PlanWindow, CloseWindow
    <2>4. QED
      BY <2>2, <2>3 DEF NothingReopened, Unfinished
  <1>3. CASE FinalizeFailedWindow(t)
    <2>1. cycle' = PausedCycles
      BY <1>3 DEF FinalizeFailedWindow
    <2>2. QED
      BY <2>1, RecoveryRows DEF NothingReopened, Unfinished
  <1>4. CASE UNCHANGED cycle
    BY <1>4 DEF NothingReopened, Unfinished
  <1>5. QED
    BY <1>2, <1>3, <1>4
       DEF WindowStep, CallMigration, CallRecovery, SeedRoots, SeekCycle, EnableEngine, Call,
           FindLock, CheckCircuit, Acquire, ReuseCycle, FindNoCycle, CycleNotDue, WindowNotDue,
           Connect, StartItem, ScanVerified, ScanSuperseded, ScanFailed, ScanRestricted,
           OpenCircuit, SettleItem, Raise, RaiseMigration

\* The folder that is listed stays active.
LEMMA ScanKeepsIndex ==
    ASSUME IInv, NEW f \in Folders, NEW listed \in SUBSET Children(f),
           NEW confirmed \in SUBSET Children(f), Scan(f, listed, confirmed)
    PROVE  Active' # {}
  <1>1. f \notin Children(f)
    BY FoldersAssumption DEF Children
  <1>2. folder' = ScopeResult(f, listed, confirmed) /\ folder[f] = "active"
    BY DEF Scan
  <1>3. ScopeResult(f, listed, confirmed)[f] = "active"
    BY <1>1, <1>2 DEF ScopeResult
  <1>4. QED
    BY <1>2, <1>3 DEF Active

LEMMA WindowKeepsIndex ==
    ASSUME IInv, NEW t \in WindowCallers, engine, Active # {}, task[t].pc # "seeding",
           WindowStep(t) \/ Raise(t) \/ RaiseMigration(t)
    PROVE  IndexKept
  <1>1. CASE ScanVerified(t)
    <2>1. t \in Tasks /\ task[t].pc \in ItemPoints /\ engine' = engine
      BY <1>1 DEF ScanVerified, At, ItemPoints, Tasks
    <2>2. task[t].at \in Folders
      BY <2>1, WorkFacts DEF ItemPoints, WorkPoints, LockedPoints
    <2>3. QED
      BY <1>1, <2>1, <2>2, ScanKeepsIndex DEF ScanVerified, IndexKept
  <1>2. CASE EnableEngine(t)
    BY <1>2 DEF EnableEngine, IndexKept, Active
  <1>3. CASE UNCHANGED <<engine, folder>>
    BY <1>3 DEF IndexKept, Active
  <1>4. QED
    BY <1>1, <1>2, <1>3
       DEF WindowStep, CallMigration, CallRecovery, SeedRoots, At, SeekCycle, InsertCycle, Call,
           FindLock, CheckCircuit, Acquire, ReuseCycle, FindNoCycle, CycleNotDue, WindowNotDue,
           CompleteEmpty, PlanWindow, CloseWindow, FinalizeFailedWindow,
           Connect, StartItem, ScanSuperseded, ScanFailed, ScanRestricted,
           OpenCircuit, SettleItem, Raise, RaiseMigration

\* A path synchronization never touches a cycle of the engine.
LEMMA PathKeepsOne ==
    ASSUME IInv, engine, Active # {}, PathStep \/ RaisePathSync
    PROVE  NothingReopened /\ NobodySeeks /\ IndexKept
  <1>. DEFINE t == PathTask
              c == task[t].cur
  <1>1. /\ t \in Tasks /\ task[t] \in TaskState /\ task \in [Tasks -> TaskState]
        /\ cycle \in [CycleIds -> CycleRow] /\ IdleTask.pc = "idle"
        /\ "manual_path" \notin RollingKinds
    BY TaskFacts, IdleTypes DEF Tasks, IInv, TypeOK, RollingKinds
  <1>2. ASSUME NEW r, Become(t, r), r.pc \notin SeekingPoints PROVE NobodySeeks
    BY <1>1, <1>2 DEF Become, NobodySeeks
  <1>3. CASE UNCHANGED <<cycle, folder, engine>>
    <2>1. NothingReopened /\ IndexKept
      BY <1>3 DEF NothingReopened, Unfinished, IndexKept, Active
    <2>2. NobodySeeks
      BY <1>1, <1>2
         DEF PathStep, RaisePathSync, ReservePathSync, Acquire, PlanPathSync, RejectPathSync, Connect,
             PathStartItem, PathScan, ClosePathSync, Return, Goto, DoneWithItem, SeekingPoints,
             CreatorPoints, TaskState
    <2>3. QED
      BY <2>1, <2>2
  <1>4. CASE PlanPathSync
    <2>1. PICK S \in SUBSET Folders :
             Become(t, [task[t] EXCEPT !.pc = "connecting", !.cur = latest + 1, !.todo = S])
      BY <1>4 DEF PlanPathSync, Active
    <2>2. NobodySeeks
      BY <1>1, <1>2, <2>1 DEF SeekingPoints, CreatorPoints, TaskState
    <2>3. \A d \in CycleIds \ {latest + 1} : cycle'[d] = cycle[d]
      BY <1>1, <1>4 DEF PlanPathSync
    <2>4. latest + 1 \in CycleIds
      BY <1>4, BoundsAssumption DEF PlanPathSync, IdLeft, IInv, TypeOK, CycleIds
    <2>5. cycle'[latest + 1].kind = "manual_path"
      BY <1>1, <1>4, <2>4 DEF PlanPathSync
    <2>6. NothingReopened
      BY <1>1, <2>3, <2>5 DEF NothingReopened, Unfinished
    <2>7. QED
      BY <1>4, <2>2, <2>6 DEF PlanPathSync, IndexKept, Active
  <1>5. CASE PathScan
    <2>1. task[t].pc \in ItemPoints /\ DoneWithItem(t, "looping") /\ UNCHANGED <<cycle, engine>>
      BY <1>5 DEF PathScan, At, ItemPoints
    <2>2. task[t].at \in Folders
      BY <1>1, <2>1, WorkFacts DEF ItemPoints, WorkPoints, LockedPoints
    <2>3. NobodySeeks
      BY <1>1, <1>2, <2>1 DEF DoneWithItem, SeekingPoints, CreatorPoints, TaskState
    <2>4. Active' # {}
      <3>1. \/ \E listed, confirmed \in SUBSET Children(task[t].at) :
                   Scan(task[t].at, listed, confirmed)
            \/ UNCHANGED folder
        BY <1>5 DEF PathScan
      <3>2. QED
        BY <2>2, <3>1, ScanKeepsIndex DEF Active
    <2>5. QED
      BY <2>1, <2>3, <2>4 DEF NothingReopened, Unfinished, IndexKept
  <1>6. CASE ClosePathSync \/ RaisePathSync
    <2>1. task[t].pc \in WorkPoints /\ Return(t) /\ UNCHANGED <<folder, engine>>
      BY <1>6 DEF ClosePathSync, RaisePathSync, At, WorkPoints, LockedPoints
    <2>2. cycle[c].kind = "manual_path" /\ c \in CycleIds
      BY <1>1, <2>1, WorkFacts DEF WorkOK
    <2>3. NobodySeeks
      BY <1>1, <1>2, <2>1 DEF Return, SeekingPoints, CreatorPoints
    <2>4. \/ \E s \in CycleStatuses : cycle' = [cycle EXCEPT ![c] = [cycle[c] EXCEPT !.status = s]]
          \/ UNCHANGED cycle
      BY <1>6 DEF ClosePathSync, RaisePathSync, CycleStatuses, ActiveStatuses
    <2>5. /\ \A d \in CycleIds \ {c} : cycle'[d] = cycle[d]
          /\ cycle'[c].kind = "manual_path"
      <3>1. cycle[c] \in CycleRow
        BY <1>1, <2>2
      <3>2. CASE UNCHANGED cycle
        BY <2>2, <3>2
      <3>3. ASSUME NEW s \in CycleStatuses,
                   cycle' = [cycle EXCEPT ![c] = [cycle[c] EXCEPT !.status = s]]
            PROVE  /\ \A d \in CycleIds \ {c} : cycle'[d] = cycle[d]
                   /\ cycle'[c].kind = "manual_path"
        <4>. DEFINE x == [cycle[c] EXCEPT !.status = s]
        <4>1. x.kind = "manual_path"
          BY <2>2, <3>1 DEF CycleRow
        <4>2. cycle' = [cycle EXCEPT ![c] = x]
          BY <3>3
        <4>. HIDE DEF x
        <4>3. QED
          BY <1>1, <2>2, <4>1, <4>2
      <3>4. QED
        BY <2>4, <3>2, <3>3
    <2>6. NothingReopened
      BY <1>1, <2>5 DEF NothingReopened, Unfinished
    <2>7. QED
      BY <2>1, <2>3, <2>6 DEF IndexKept, Active
  <1>7. QED
    BY <1>3, <1>4, <1>5, <1>6
       DEF PathStep, ReservePathSync, Acquire, RejectPathSync, Connect, PathStartItem

\* Such a step keeps the engine in charge of at most one active cycle.
LEMMA QuietStepKeepsOne ==
    ASSUME HandedOver, OneActiveCycle, NothingReopened, NobodySeeks, IndexKept
    PROVE  HandedOver' /\ OneActiveCycle'
  <1>1. OneActiveCycle'
    BY DEF OneActiveCycle, NothingReopened
  <1>2. \A u \in Tasks : task'[u].pc \notin CreatorPoints
    BY DEF HandedOver, NobodySeeks, SeekingPoints
  <1>3. \A u \in Tasks, d \in CycleIds : task'[u].pc = "opening" => ~Unfinished(d)'
    BY DEF HandedOver, NobodySeeks, SeekingPoints, NothingReopened
  <1>4. QED
    BY <1>1, <1>2, <1>3 DEF HandedOver, IndexKept

\* The lock's holder that found no active cycle.
LEMMA FindKeepsOne ==
    ASSUME IInv, NEW t \in WindowCallers, HandedOver, OneActiveCycle, FindNoCycle(t)
    PROVE  HandedOver' /\ OneActiveCycle'
  <1>1. t \in Tasks /\ task[t] \in TaskState /\ task \in [Tasks -> TaskState]
    BY TaskFacts DEF Tasks
  <1>2. UNCHANGED <<engine, folder, cycle>> /\ \A d \in CycleIds : ~Unfinished(d)
    BY DEF FindNoCycle, ActiveCycles, IsActive, Unfinished
  <1>3. PICK r : Become(t, r) /\ r.pc = "opening"
    <2>. DEFINE r == [task[t] EXCEPT !.pc = "opening", !.row = Planned("normal", DueAnchor(t)),
                                     !.todo = Active]
    <2>1. Become(t, r)
      BY DEF FindNoCycle
    <2>2. r.pc = "opening"
      BY <1>1 DEF TaskState
    <2>3. QED
      BY <2>1, <2>2
  <1>4. \A u \in Tasks : task'[u].pc \notin CreatorPoints
    BY <1>1, <1>3 DEF Become, HandedOver, CreatorPoints
  <1>5. \A d \in CycleIds : ~Unfinished(d)'
    BY <1>2 DEF Unfinished
  <1>6. QED
    BY <1>2, <1>4, <1>5 DEF HandedOver, OneActiveCycle, Active

\* It inserts the cycle it found missing, and nobody else is about to.
LEMMA InsertKeepsOne ==
    ASSUME IInv, NEW t \in WindowCallers, HandedOver, OneActiveCycle, InsertCycle(t)
    PROVE  HandedOver' /\ OneActiveCycle'
  <1>1. t \in Tasks /\ cycle \in [CycleIds -> CycleRow]
    BY DEF Tasks, IInv, TypeOK
  <1>2. /\ task[t].pc = "opening" /\ UNCHANGED <<engine, folder>>
        /\ cycle' = [cycle EXCEPT ![latest + 1] = task[t].row]
    BY <1>1 DEF InsertCycle, At, HandedOver, CreatorPoints
  <1>3. \A d \in CycleIds : ~Unfinished(d)
    BY <1>1, <1>2 DEF HandedOver
  <1>4. \A d \in CycleIds : Unfinished(d)' => d = latest + 1
    BY <1>1, <1>2, <1>3 DEF Unfinished
  <1>5. OneActiveCycle'
    BY <1>4 DEF OneActiveCycle
  <1>6. NobodySeeks
    BY <1>1, <1>2, WindowLands DEF HandedOver, WindowStep, CreatorPoints, FindNoCycle, At
  <1>7. lock = t /\ task'[t].pc # "opening"
    <2>1. AfterCreation(t) = "planning" /\ task[t] \in TaskState /\ task \in [Tasks -> TaskState]
      BY <1>1, <1>2, TaskFacts DEF AfterCreation, TaskOK, RowOK
    <2>. DEFINE r == [task[t] EXCEPT !.pc = AfterCreation(t), !.row = NoCycle, !.todo = {},
                        !.cur = IF task[t].pc = "opening" THEN latest + 1 ELSE 0]
    <2>2. r.pc = "planning"
      BY <2>1 DEF TaskState
    <2>3. Become(t, r)
      BY DEF InsertCycle
    <2>. HIDE DEF r
    <2>4. task'[t] = r
      BY <1>1, <2>1, <2>3 DEF Become
    <2>5. QED
      BY <1>1, <1>2, <2>2, <2>4, TaskFacts DEF LockedPoints
  <1>8. ASSUME NEW u \in Tasks PROVE task'[u].pc # "opening"
    <2>1. SUFFICES ASSUME u # t, task'[u].pc = "opening" PROVE FALSE
      BY <1>7
    <2>2. task[u].pc = "opening"
      BY <1>6, <2>1 DEF NobodySeeks, SeekingPoints
    <2>3. lock = u
      BY <2>2, TaskFacts DEF LockedPoints
    <2>4. QED
      BY <1>7, <2>1, <2>3
  <1>9. \A u \in Tasks : task'[u].pc \notin CreatorPoints
    BY <1>6 DEF HandedOver, NobodySeeks, SeekingPoints
  <1>10. QED
    BY <1>2, <1>5, <1>8, <1>9 DEF HandedOver, Active

\* The engine in charge of an index with at most one active rolling cycle never
\* gets a second one: _ensure_current_cycle reads and inserts under sync_lock, and
\* no call, restart or path synchronization makes a cycle outside it any more.
THEOREM OneCycleStaysOne == Spec => OneCycleKept
  <1>1. ASSUME IInv, [Next]_vars, HandedOver, OneActiveCycle
        PROVE  HandedOver' /\ OneActiveCycle'
    <2>1. engine /\ Active # {} /\ \A t \in Tasks : task[t].pc \notin CreatorPoints
      BY <1>1 DEF HandedOver
    <2>2. ASSUME NEW t \in WindowCallers, WindowStep(t) \/ Raise(t) \/ RaiseMigration(t)
          PROVE  HandedOver' /\ OneActiveCycle'
      <3>1. CASE FindNoCycle(t)
        BY <1>1, <3>1, FindKeepsOne
      <3>2. CASE InsertCycle(t)
        BY <1>1, <3>2, InsertKeepsOne
      <3>3. CASE ~FindNoCycle(t) /\ ~InsertCycle(t)
        <4>1. task[t].pc \notin CreatorPoints /\ task[t].pc # "seeding"
          BY <2>1 DEF Tasks, CreatorPoints
        <4>2. NothingReopened /\ NobodySeeks /\ IndexKept
          BY <1>1, <2>1, <2>2, <3>3, <4>1, WindowLands, WindowReopensNothing, WindowKeepsIndex
        <4>3. QED
          BY <1>1, <4>2, QuietStepKeepsOne
      <3>4. QED
        BY <3>1, <3>2, <3>3
    <2>3. CASE PathStep \/ RaisePathSync
      BY <1>1, <2>1, <2>3, PathKeepsOne, QuietStepKeepsOne
    <2>4. CASE Crash
      <3>1. NobodySeeks
        BY <2>4, IdleTypes DEF Crash, NobodySeeks, SeekingPoints, IdleTask, CreatorPoints
      <3>2. NothingReopened /\ IndexKept
        BY <2>1, <2>4 DEF Crash, NothingReopened, Unfinished, IndexKept, Active
      <3>3. QED
        BY <1>1, <3>1, <3>2, QuietStepKeepsOne
    <2>5. CASE Restart
      <3>1. cycle' = PausedCycles /\ UNCHANGED <<task, folder>> /\ engine' = TRUE
        BY <2>1, <2>5 DEF Restart, RecoveredFolders
      <3>2. NothingReopened
        BY <1>1, <3>1, RecoveryRows DEF NothingReopened, Unfinished
      <3>3. NobodySeeks /\ IndexKept
        BY <2>1, <3>1 DEF NobodySeeks, IndexKept, Active
      <3>4. QED
        BY <1>1, <3>2, <3>3, QuietStepKeepsOne
    <2>6. CASE UNCHANGED <<engine, folder, cycle, task>>
      <3>1. NothingReopened /\ NobodySeeks /\ IndexKept
        BY <2>1, <2>6 DEF NothingReopened, Unfinished, NobodySeeks, IndexKept, Active
      <3>2. QED
        BY <1>1, <3>1, QuietStepKeepsOne
    <2>7. ~RestartWithCycle
      BY <2>1 DEF RestartWithCycle, CycleWanted
    <2>8. QED
      BY <1>1, <2>2, <2>3, <2>4, <2>5, <2>6, <2>7 DEF Next, Tick, CircuitExpires, vars
  <1>2. IInv /\ [Next]_vars =>
           [HandedOver /\ OneActiveCycle => HandedOver' /\ OneActiveCycle']_vars
    BY <1>1
  <1>3. QED
    BY <1>2, Invariance, PTL DEF Spec, OneCycleKept

=============================================================================
