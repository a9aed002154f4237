------------------------- MODULE RollingWorkProofs --------------------------
(***************************************************************************)
(* Theorems about the work of RollingCycle, for every set of folders and    *)
(* callers and every bound: that no row reads "running" with nobody working *)
(* on it, that a window is counted only when it is done, and that a cycle   *)
(* which succeeds, or has counted all its windows, has left nothing out.    *)
(*                                                                         *)
(* A row that reads "running" is explained by the holder of sync_lock or by *)
(* an exception that is still being finalized.  A step of the holder has to *)
(* explain only the rows it was or is working on (HolderKeeps).  What a     *)
(* step may do to the items of a cycle is stated once (ItemsStep).          *)
(***************************************************************************)
EXTENDS RollingCycleProofs, FiniteSetTheorems

\* A window has its cycle read "running" only after it has planned: NoOrphanCycle
\* is not inductive, since a window may be told that it is not due after it has
\* found a cycle, and goes away.
Works(t, c) == lock = t /\ task[t].cur = c /\ task[t].pc \in WorkPoints \ {"planning"}
NoIdleCycle ==
    up => \A c \in CycleIds :
        cycle[c].status = "running" /\ cycle[c].kind \in RollingKinds =>
            (\E t \in WindowCallers : Works(t, c)) \/ Unwinding
WorkInv == NoOrphanItem /\ NoIdleCycle

\* What a step of t has to say about the rows that read "running" after it.
ItemsExplained(t) ==
    \A c \in CycleIds, f \in Folders :
        item'[c][f].status = "running" /\ cycle'[c].kind \in RollingKinds =>
            \/ t \in WindowCallers /\ Scanning(t, c, f)'
            \/ /\ item[c][f].status = "running" /\ cycle[c].kind \in RollingKinds
               /\ ~Scanning(t, c, f)
CyclesExplained(t) ==
    \A c \in CycleIds :
        cycle'[c].status = "running" /\ cycle'[c].kind \in RollingKinds =>
            \/ t \in WindowCallers /\ Works(t, c)'
            \/ /\ cycle[c].status = "running" /\ cycle[c].kind \in RollingKinds
               /\ ~Works(t, c)

OthersStay(t) == \A u \in Tasks \ {t} : task'[u] = task[u]

-----------------------------------------------------------------------------
(* Who explains what *)

LEMMA HolderKeeps ==
    ASSUME IInv, WorkInv, up, NEW t \in Tasks, lock = t, OthersStay(t),
           ItemsExplained(t), CyclesExplained(t)
    PROVE  WorkInv'
<1>1. task[t].pc # "unwinding"
  BY TaskFacts DEF TaskOK, LockedPoints
<1>2. Unwinding => Unwinding'
  BY <1>1 DEF Unwinding, OthersStay, Tasks
<1>3. ASSUME NEW c \in CycleIds, NEW f \in Folders,
             item'[c][f].status = "running", cycle'[c].kind \in RollingKinds
      PROVE  (\E u \in WindowCallers : Scanning(u, c, f)') \/ Unwinding'
  <2>1. CASE item[c][f].status = "running" /\ cycle[c].kind \in RollingKinds /\ ~Scanning(t, c, f)
    <3>1. (\E u \in WindowCallers : Scanning(u, c, f)) \/ Unwinding
      BY <2>1 DEF WorkInv, NoOrphanItem
    <3>2. \A u \in WindowCallers : Scanning(u, c, f) => u = t
      BY DEF Scanning
    <3> QED
      BY <1>2, <2>1, <3>1, <3>2
  <2> QED
    BY <1>3, <2>1 DEF ItemsExplained
<1>4. ASSUME NEW c \in CycleIds,
             cycle'[c].status = "running", cycle'[c].kind \in RollingKinds
      PROVE  (\E u \in WindowCallers : Works(u, c)') \/ Unwinding'
  <2>1. CASE cycle[c].status = "running" /\ cycle[c].kind \in RollingKinds /\ ~Works(t, c)
    <3>1. (\E u \in WindowCallers : Works(u, c)) \/ Unwinding
      BY <2>1 DEF WorkInv, NoIdleCycle
    <3>2. \A u \in WindowCallers : Works(u, c) => u = t
      BY DEF Works
    <3> QED
      BY <1>2, <2>1, <3>1, <3>2
  <2> QED
    BY <1>4, <2>1 DEF CyclesExplained
<1> QED
  BY <1>3, <1>4 DEF WorkInv, NoOrphanItem, NoIdleCycle

\* A step that leaves every row alone, but for rows nobody is at work on.
RowsRest ==
    \A c \in CycleIds :
        \/ cycle'[c] = cycle[c] /\ item'[c] = item[c]
        \/ cycle'[c].status # "running" /\ \A f \in Folders : item'[c][f].status # "running"

\* Such a step outside the lock.
LEMMA OutsideKeeps ==
    ASSUME IInv, WorkInv, up, NEW t \in Tasks, OthersStay(t),
           task[t].pc \notin LockedPoints \cup {"unwinding"},
           lock' = lock \/ lock = Nobody, RowsRest
    PROVE  WorkInv'
<1>1. lock # t
  BY TaskFacts DEF LockedPoints
<1>2. Unwinding => Unwinding'
  BY DEF Unwinding, OthersStay, Tasks
<1>3. ASSUME NEW u \in WindowCallers, lock = u
      PROVE  task'[u] = task[u] /\ lock' = lock
  BY <1>1, <1>3, TasksAssumption DEF OthersStay, Tasks
<1>4. \A u \in WindowCallers, c \in CycleIds, f \in Folders :
         Scanning(u, c, f) => Scanning(u, c, f)'
  BY <1>3 DEF Scanning
<1>5. \A u \in WindowCallers, c \in CycleIds : Works(u, c) => Works(u, c)'
  BY <1>3 DEF Works
<1>6. ASSUME NEW c \in CycleIds, NEW f \in Folders,
             item'[c][f].status = "running", cycle'[c].kind \in RollingKinds
      PROVE  (\E u \in WindowCallers : Scanning(u, c, f)') \/ Unwinding'
  <2>1. cycle'[c] = cycle[c] /\ item'[c] = item[c]
    BY <1>6 DEF RowsRest
  <2> QED
    BY <1>2, <1>4, <1>6, <2>1 DEF WorkInv, NoOrphanItem
<1>7. ASSUME NEW c \in CycleIds,
             cycle'[c].status = "running", cycle'[c].kind \in RollingKinds
      PROVE  (\E u \in WindowCallers : Works(u, c)') \/ Unwinding'
  <2>1. cycle'[c] = cycle[c]
    BY <1>7 DEF RowsRest
  <2> QED
    BY <1>2, <1>5, <1>7, <2>1 DEF WorkInv, NoIdleCycle
<1> QED
  BY <1>6, <1>7 DEF WorkInv, NoOrphanItem, NoIdleCycle

\* An exception that has to be finalized explains every row.
LEMMA UnwindingKeeps ==
    ASSUME Unwinding' PROVE WorkInv'
BY DEF WorkInv, NoOrphanItem, NoIdleCycle

\* A clean-up leaves no row that would have to be explained.
LEMMA RecoveryExplains ==
    ASSUME IInv, item' = RequeuedItems, cycle' = PausedCycles
    PROVE  WorkInv'
<1>1. ASSUME NEW c \in CycleIds, NEW f \in Folders
      PROVE  item'[c][f].status # "running"
  <2>1. item[c][f] \in ItemRow /\ item'[c][f] = Requeue(c, f)
    BY DEF IInv, TypeOK, RequeuedItems
  <2> QED
    BY <2>1 DEF Requeue, ItemRow
<1>2. ASSUME NEW c \in CycleIds
      PROVE  cycle'[c].status # "running"
  <2>1. cycle[c] \in CycleRow
    BY DEF IInv, TypeOK
  <2> QED
    BY <2>1 DEF PausedCycles, CycleRow
<1> QED
  BY <1>1, <1>2 DEF WorkInv, NoOrphanItem, NoIdleCycle

-----------------------------------------------------------------------------
(* Rows that the holder leaves alone *)

LEMMA Others ==
    ASSUME IInv, NEW t \in Tasks, NEW r, Become(t, r)
    PROVE  OthersStay(t) /\ task'[t] = r
BY TaskFacts DEF Become, OthersStay

\* A holder that is not at an item explains items by leaving them alone.
LEMMA ItemsAlone ==
    ASSUME NEW t \in Tasks, task[t].pc \notin ItemPoints, UNCHANGED item,
           \A c \in CycleIds : cycle'[c].kind \in RollingKinds => cycle[c].kind \in RollingKinds
    PROVE  ItemsExplained(t)
BY DEF ItemsExplained, Scanning, ItemPoints

\* A holder that goes on working explains cycles by leaving them alone.
LEMMA CyclesAlone ==
    ASSUME NEW t \in WindowCallers, UNCHANGED cycle,
           \A c \in CycleIds : Works(t, c) => Works(t, c)'
    PROVE  CyclesExplained(t)
BY DEF CyclesExplained

\* The cycle of a path synchronization is none of the engine's.
LEMMA PathCycleFacts ==
    ASSUME IInv, task[PathTask].pc \in WorkPoints
    PROVE  /\ PathTask \in Tasks /\ lock = PathTask
           /\ task[PathTask].cur \in CycleIds
           /\ cycle[task[PathTask].cur].kind = "manual_path"
           /\ cycle[task[PathTask].cur].kind \notin RollingKinds
<1>1. PathTask \in Tasks
  BY DEF Tasks
<1> QED
  BY <1>1, WorkFacts DEF WorkOK, RollingKinds

\* A step that writes the status of one cycle.
LEMMA StatusOnly ==
    ASSUME cycle \in [CycleIds -> CycleRow], NEW d, NEW st,
           cycle' = [cycle EXCEPT ![d] = [@ EXCEPT !.status = st]]
    PROVE  \A c \in CycleIds : /\ cycle'[c].kind = cycle[c].kind
                               /\ cycle'[c].windows = cycle[c].windows
BY DEF CycleRow

\* The end of a path synchronization.
LEMMA PathStatus ==
    ASSUME cycle \in [CycleIds -> CycleRow], ClosePathSync \/ RaisePathSync
    PROVE  \A c \in CycleIds : /\ cycle'[c].kind = cycle[c].kind
                               /\ cycle'[c].windows = cycle[c].windows
<1>1. CASE ClosePathSync
  <2>1. PICK st \in {"success", "partial"} :
           cycle' = [cycle EXCEPT ![task[PathTask].cur] = [@ EXCEPT !.status = st]]
    BY <1>1 DEF ClosePathSync
  <2> QED
    BY <2>1, StatusOnly
<1>2. CASE RaisePathSync
  <2>1. UNCHANGED cycle
        \/ cycle' = [cycle EXCEPT ![task[PathTask].cur] = [@ EXCEPT !.status = "failed"]]
    BY <1>2 DEF RaisePathSync
  <2> QED
    BY <2>1, StatusOnly
<1> QED
  BY <1>1, <1>2

\* A path synchronization writes no row of the engine.
LEMMA PathKeeps ==
    ASSUME IInv, WorkInv, up, lock = PathTask, OthersStay(PathTask),
           \A c \in CycleIds : cycle'[c].kind \in RollingKinds =>
              cycle'[c] = cycle[c] /\ item'[c] = item[c]
    PROVE  WorkInv'
<1>1. PathTask \in Tasks
  BY DEF Tasks
<1>2. \A c \in CycleIds, f \in Folders :
         cycle[c].kind \in RollingKinds => ~Scanning(PathTask, c, f) /\ ~Works(PathTask, c)
  BY PathCycleFacts DEF Scanning, Works, WorkPoints, LockedPoints
<1>3. ASSUME NEW c \in CycleIds, NEW f \in Folders, cycle'[c].kind \in RollingKinds
      PROVE  cycle'[c] = cycle[c] /\ item'[c] = item[c] /\ cycle[c].kind \in RollingKinds
             /\ ~Scanning(PathTask, c, f)
  BY <1>2, <1>3
<1>4. ASSUME NEW c \in CycleIds, cycle'[c].kind \in RollingKinds
      PROVE  cycle'[c] = cycle[c] /\ cycle[c].kind \in RollingKinds /\ ~Works(PathTask, c)
  BY <1>4, PathCycleFacts DEF Works
<1>5. ItemsExplained(PathTask)
  BY <1>3 DEF ItemsExplained
<1>6. CyclesExplained(PathTask)
  BY <1>4 DEF CyclesExplained
<1> QED
  BY <1>1, <1>5, <1>6, HolderKeeps

\* A window that is done with its item.
LEMMA OutcomeWork ==
    ASSUME IInv, WorkInv, NEW t \in WindowCallers, up, task[t].pc \in ItemPoints,
           NEW p \in {"looping", "closing"}, DoneWithItem(t, p), UNCHANGED <<lock, cycle>>,
           \A c \in CycleIds, f \in Folders : item'[c][f].status = "running" =>
              item[c][f].status = "running" /\ ~(c = task[t].cur /\ f = task[t].at)
    PROVE  WorkInv'
<1> DEFINE r == [task[t] EXCEPT !.pc = p, !.todo = @ \ {task[t].at}, !.at = NoFolder]
<1>1. t \in Tasks /\ task[t] \in TaskState /\ lock = t
  BY WorkFacts, TaskFacts DEF Tasks, ItemPoints, WorkPoints, LockedPoints
<1>2. r.pc = p /\ r.cur = task[t].cur
  BY <1>1 DEF TaskState
<1>3. Become(t, r)
  BY DEF DoneWithItem
<1> HIDE DEF r
<1>4. OthersStay(t) /\ task'[t] = r
  BY <1>1, <1>3, Others
<1>5. ItemsExplained(t)
  BY DEF ItemsExplained, Scanning
<1>6. CyclesExplained(t)
  BY <1>2, <1>4, CyclesAlone DEF Works, WorkPoints, LockedPoints
<1> QED
  BY <1>1, <1>4, <1>5, <1>6, HolderKeeps

\* What recording an outcome does to the statuses of items.
LEMMA RecordedStatus ==
    ASSUME IInv, NEW t \in Tasks, task[t].pc \in ItemPoints,
           NEW s \in ItemStatuses, NEW n \in {0, 1}
    PROVE  \A c \in CycleIds, f \in Folders :
              Recorded(t, s, n)[c][f].status =
                 IF c = task[t].cur /\ f = task[t].at THEN s ELSE item[c][f].status
<1> DEFINE d == task[t].cur
           g == task[t].at
<1>1. d \in CycleIds /\ g \in Folders /\ item[d][g] \in ItemRow
  BY WorkFacts DEF ItemPoints, WorkPoints, LockedPoints
<1>2. item \in [CycleIds -> [Folders -> ItemRow]]
  BY DEF IInv, TypeOK
<1>3. /\ \A c \in CycleIds \ {d} : Recorded(t, s, n)[c] = item[c]
      /\ \A f \in Folders \ {g} : Recorded(t, s, n)[d][f] = item[d][f]
  BY RecordedRows
<1>4. Recorded(t, s, n)[d][g].status = s
  BY <1>1, <1>2 DEF Recorded, ItemRow
<1> QED
  BY <1>3, <1>4

-----------------------------------------------------------------------------
(* The steps of a window *)

LEMMA OutsideWork ==
    ASSUME IInv, WorkInv, NEW t \in Tasks,
           Call(t) \/ CheckCircuit(t) \/ Acquire(t) \/ (t = PathTask /\ ReservePathSync)
    PROVE  WorkInv'
<1>1. OthersStay(t)
  BY TaskFacts DEF Call, CheckCircuit, Acquire, ReservePathSync, Goto, Become, OthersStay
<1>2. RowsRest
  BY DEF RowsRest, Call, CheckCircuit, Acquire, ReservePathSync
<1> QED
  BY <1>1, <1>2, OutsideKeeps DEF Call, CheckCircuit, Acquire, ReservePathSync, At, LockedPoints

\* On the way to a cycle without the lock.
CreatorStep(t) ==
    \/ CallMigration(t) \/ CallRecovery(t) \/ SeedRoots(t) \/ SeekCycle(t)
    \/ EnableEngine(t) \/ FindLock(t) \/ RaiseMigration(t)

LEMMA CreatorMoves ==
    ASSUME IInv, NEW t \in Tasks, CreatorStep(t)
    PROVE  /\ up /\ OthersStay(t) /\ UNCHANGED <<up, lock, latest, cycle, item>>
           /\ task[t].pc \in CreatorPoints \cup {"idle", "enabling", "called"}
<1>1. OthersStay(t)
  BY TaskFacts DEF CreatorStep, CallMigration, CallRecovery, SeedRoots, SeekCycle, EnableEngine,
                   FindLock, RaiseMigration, Goto, Become, OthersStay
<1> QED
  BY <1>1 DEF CreatorStep, CallMigration, CallRecovery, SeedRoots, SeekCycle, EnableEngine,
              FindLock, RaiseMigration, At, CreatorPoints

LEMMA CreatorWork ==
    ASSUME IInv, WorkInv, NEW t \in Tasks, CreatorStep(t)
    PROVE  WorkInv'
<1>1. RowsRest
  BY CreatorMoves DEF RowsRest
<1> QED
  BY <1>1, CreatorMoves, OutsideKeeps DEF CreatorPoints, LockedPoints

LEMMA OwnerWork ==
    ASSUME IInv, WorkInv, NEW t \in WindowCallers,
           ReuseCycle(t) \/ FindNoCycle(t) \/ CycleNotDue(t) \/ WindowNotDue(t)
    PROVE  WorkInv'
<1>1. t \in Tasks /\ up /\ task[t].pc \in {"owner", "planning"} /\ UNCHANGED <<cycle, item>>
  BY DEF ReuseCycle, FindNoCycle, CycleNotDue, WindowNotDue, At, Tasks
<1>2. lock = t
  BY <1>1, TaskFacts DEF LockedPoints
<1>3. OthersStay(t)
  BY <1>1, TaskFacts DEF ReuseCycle, FindNoCycle, CycleNotDue, WindowNotDue, Return, Become,
                         OthersStay
<1>4. ItemsExplained(t)
  BY <1>1, ItemsAlone DEF ItemPoints
<1>5. CyclesExplained(t)
  BY <1>1, CyclesAlone DEF Works, WorkPoints
<1> QED
  BY <1>1, <1>2, <1>3, <1>4, <1>5, HolderKeeps

\* The row a coroutine inserts is that of a planned cycle.
LEMMA InsertedRow ==
    ASSUME IInv, NEW t \in Tasks, InsertCycle(t)
    PROVE  task[t].row.status = "planned" /\ task[t].row.windows = 0
<1>1. task[t].pc \in CreatorPoints \cup {"opening"}
  BY DEF InsertCycle, At, CreatorPoints
<1>2. RowOK(t)
  BY TaskFacts DEF TaskOK
<1>3. task[t].row = Planned(task[t].row.kind, task[t].row.anchor)
  BY <1>1, <1>2 DEF RowOK
<1> QED
  BY <1>3 DEF Planned

\* The rows of a new cycle, which may be inserted while another coroutine works.
LEMMA InsertRests ==
    ASSUME IInv, NEW t \in Tasks, InsertCycle(t)
    PROVE  RowsRest
<1>1. item \in [CycleIds -> [Folders -> ItemRow]] /\ cycle \in [CycleIds -> CycleRow]
  BY DEF IInv, TypeOK
<1>2. task[t].row.status = "planned"
  BY InsertedRow
<1>3. ASSUME NEW c \in CycleIds
      PROVE  IF c = latest + 1 THEN cycle'[c] = task[t].row ELSE cycle'[c] = cycle[c]
  BY <1>1 DEF InsertCycle
<1>4. ASSUME NEW c \in CycleIds, c # latest + 1
      PROVE  item'[c] = item[c]
  BY <1>1, <1>4 DEF InsertCycle
<1>5. ASSUME NEW c \in CycleIds, NEW f \in Folders, c = latest + 1
      PROVE  item'[c][f].status # "running"
  BY <1>1, <1>5 DEF InsertCycle, QueuedItem, NoItem
<1> QED
  BY <1>2, <1>3, <1>4, <1>5 DEF RowsRest

LEMMA InsertWork ==
    ASSUME IInv, WorkInv, NEW t \in WindowCallers, InsertCycle(t)
    PROVE  WorkInv'
<1>1. t \in Tasks /\ up /\ task[t].pc \in {"creating", "opening"} /\ UNCHANGED lock
  BY DEF InsertCycle, At, Tasks
<1>2. RowsRest
  BY <1>1, InsertRests
<1>3. OthersStay(t)
  BY <1>1, TaskFacts DEF InsertCycle, Become, OthersStay
<1>4. CASE task[t].pc = "creating"
  BY <1>1, <1>2, <1>3, <1>4, OutsideKeeps DEF LockedPoints
<1>5. CASE task[t].pc = "opening"
  <2>1. lock = t
    BY <1>1, <1>5, TaskFacts DEF LockedPoints
  <2>2. \A c \in CycleIds, f \in Folders : ~Scanning(t, c, f) /\ ~Works(t, c)
    BY <1>5 DEF Scanning, Works, WorkPoints
  <2>3. ItemsExplained(t)
    BY <1>2, <2>2 DEF ItemsExplained, RowsRest
  <2>4. \A c \in CycleIds : ~Works(t, c)
    BY <1>5 DEF Works, WorkPoints
  <2>5. CyclesExplained(t)
    BY <1>2, <2>4 DEF CyclesExplained, RowsRest
  <2> QED
    BY <1>1, <1>3, <2>1, <2>3, <2>5, HolderKeeps
<1> QED
  BY <1>1, <1>4, <1>5

\* A window that ends leaves its cycle in a status other than "running".
LEMMA EndWork ==
    ASSUME IInv, WorkInv, NEW t \in WindowCallers, up,
           task[t].pc \in WorkPoints \ ItemPoints, Return(t), UNCHANGED item,
           \A c \in CycleIds \ {task[t].cur} : cycle'[c] = cycle[c],
           cycle'[task[t].cur].kind = cycle[task[t].cur].kind,
           cycle'[task[t].cur].status # "running"
    PROVE  WorkInv'
<1>1. t \in Tasks /\ lock = t /\ task[t].cur \in CycleIds
  BY WorkFacts DEF Tasks
<1>2. OthersStay(t)
  BY <1>1, TaskFacts DEF Return, Become, OthersStay
<1>3. ItemsExplained(t)
  BY <1>1 DEF ItemsExplained, Scanning, ItemPoints
<1>4. CyclesExplained(t)
  BY <1>1 DEF CyclesExplained, Works
<1> QED
  BY <1>1, <1>2, <1>3, <1>4, HolderKeeps

LEMMA CompleteWork ==
    ASSUME IInv, WorkInv, NEW t \in WindowCallers, CompleteEmpty(t)
    PROVE  WorkInv'
<1>1. up /\ task[t].pc \in WorkPoints \ ItemPoints /\ t \in Tasks
  BY DEF CompleteEmpty, At, WorkPoints, LockedPoints, ItemPoints, Tasks
<1>2. task[t].cur \in CycleIds /\ cycle[task[t].cur] \in CycleRow /\ cycle \in [CycleIds -> CycleRow]
  BY <1>1, WorkFacts DEF IInv, TypeOK
<1>3. cycle' = [cycle EXCEPT ![task[t].cur] = [@ EXCEPT !.status = "success"]]
      /\ Return(t) /\ UNCHANGED item
  BY DEF CompleteEmpty
<1>4. /\ \A c \in CycleIds \ {task[t].cur} : cycle'[c] = cycle[c]
      /\ cycle'[task[t].cur].kind = cycle[task[t].cur].kind
      /\ cycle'[task[t].cur].status = "success"
  BY <1>2, <1>3 DEF CycleRow
<1> QED
  BY <1>1, <1>3, <1>4, EndWork

LEMMA CloseWork ==
    ASSUME IInv, WorkInv, NEW t \in WindowCallers, CloseWindow(t)
    PROVE  WorkInv'
<1> DEFINE c == task[t].cur
           s == ClosingStatus(t, WindowsAfter(t))
           w == WindowsAfter(t)
<1>1. up /\ task[t].pc \in WorkPoints \ ItemPoints /\ t \in Tasks
  BY DEF CloseWindow, At, WorkPoints, LockedPoints, ItemPoints, Tasks
<1>2. c \in CycleIds /\ cycle[c] \in CycleRow /\ cycle \in [CycleIds -> CycleRow]
  BY <1>1, WorkFacts DEF IInv, TypeOK
<1>3. cycle' = [cycle EXCEPT ![c] = [@ EXCEPT !.windows = w, !.status = s]]
      /\ Return(t) /\ UNCHANGED item
  BY DEF CloseWindow
<1>4. s \in {"overdue", "partial", "success"}
  <2>1. task[t].hit \in BOOLEAN
    BY <1>1, TaskFacts DEF TaskState
  <2> QED
    BY <2>1 DEF ClosingStatus
<1> HIDE DEF s, w
<1>5. /\ \A d \in CycleIds \ {c} : cycle'[d] = cycle[d]
      /\ cycle'[c].kind = cycle[c].kind
      /\ cycle'[c].status = s
  BY <1>2, <1>3 DEF CycleRow
<1> QED
  BY <1>1, <1>3, <1>4, <1>5, EndWork

LEMMA PlanWork ==
    ASSUME IInv, WorkInv, NEW t \in WindowCallers, PlanWindow(t)
    PROVE  WorkInv'
<1>1. up /\ task[t].pc = "planning" /\ t \in Tasks /\ lock' = lock /\ UNCHANGED item
  BY DEF PlanWindow, At, Tasks
<1>0. PICK c \in CycleIds : c = task[t].cur
  BY <1>1, WorkFacts DEF WorkPoints, LockedPoints
<1>2. /\ lock = t /\ cycle[c] \in CycleRow /\ task[t] \in TaskState
      /\ cycle \in [CycleIds -> CycleRow]
  BY <1>1, TaskFacts DEF IInv, TypeOK, LockedPoints
<1>3. PICK S \in SUBSET Folders :
         Become(t, [task[t] EXCEPT !.pc = "connecting", !.todo = S])
  BY DEF PlanWindow, Selections, Eligible
<1>4. OthersStay(t) /\ task'[t].pc = "connecting" /\ task'[t].cur = c
  <2> DEFINE r == [task[t] EXCEPT !.pc = "connecting", !.todo = S]
  <2>1. r.pc = "connecting" /\ r.cur = c /\ Become(t, r)
    BY <1>0, <1>2, <1>3 DEF TaskState
  <2> HIDE DEF r
  <2> QED
    BY <1>1, <2>1, Others
<1>5. cycle' = [cycle EXCEPT ![c] = [@ EXCEPT !.status = "running"]]
  BY <1>0 DEF PlanWindow
<1>6. /\ \A d \in CycleIds \ {c} : cycle'[d] = cycle[d]
      /\ cycle'[c].kind = cycle[c].kind
  BY <1>2, <1>5 DEF CycleRow
<1>7. ItemsExplained(t)
  BY <1>1, <1>6 DEF ItemsExplained, Scanning
<1>8. Works(t, c)'
  BY <1>1, <1>2, <1>4 DEF Works, WorkPoints, LockedPoints
<1>9. CyclesExplained(t)
  BY <1>1, <1>6, <1>8 DEF CyclesExplained, Works, WorkPoints
<1> QED
  BY <1>1, <1>2, <1>4, <1>7, <1>9, HolderKeeps

LEMMA ConnectWork ==
    ASSUME IInv, WorkInv, NEW t \in WindowCallers, Connect(t)
    PROVE  WorkInv'
<1>1. /\ up /\ task[t].pc = "connecting" /\ t \in Tasks
      /\ UNCHANGED <<lock, cycle, item>>
  BY DEF Connect, At, Tasks
<1>2. lock = t /\ task[t] \in TaskState
  BY <1>1, WorkFacts, TaskFacts DEF WorkPoints, LockedPoints
<1>3. Become(t, [task[t] EXCEPT !.pc = "looping"])
  BY DEF Connect, Goto
<1>4. OthersStay(t) /\ task'[t].pc = "looping" /\ task'[t].cur = task[t].cur
  BY <1>1, <1>2, <1>3, Others DEF TaskState
<1>5. ItemsExplained(t)
  BY <1>1, ItemsAlone DEF ItemPoints
<1>6. CyclesExplained(t)
  BY <1>1, <1>4, CyclesAlone DEF Works, WorkPoints, LockedPoints
<1> QED
  BY <1>1, <1>2, <1>4, <1>5, <1>6, HolderKeeps

LEMMA StartWork ==
    ASSUME IInv, WorkInv, NEW t \in WindowCallers, StartItem(t)
    PROVE  WorkInv'
<1>1. /\ up /\ task[t].pc = "looping" /\ t \in Tasks
      /\ UNCHANGED <<lock, cycle>>
  BY DEF StartItem, At, Tasks
<1>0. PICK c \in CycleIds : c = task[t].cur
  BY <1>1, WorkFacts DEF WorkPoints, LockedPoints
<1>2. lock = t /\ task[t] \in TaskState /\ task[t].todo \in SUBSET Folders
  BY <1>1, WorkFacts, TaskFacts DEF WorkPoints, LockedPoints
<1>3. PICK g \in task[t].todo :
         /\ item' = [item EXCEPT ![c][g] = [@ EXCEPT !.status = "running"]]
         /\ Become(t, [task[t] EXCEPT !.pc = "scanning", !.at = g, !.tries = 0])
  BY <1>0 DEF StartItem
<1>4. /\ OthersStay(t) /\ task'[t].pc = "scanning" /\ task'[t].cur = c /\ task'[t].at = g
  <2> DEFINE r == [task[t] EXCEPT !.pc = "scanning", !.at = g, !.tries = 0]
  <2>1. r.pc = "scanning" /\ r.cur = c /\ r.at = g /\ Become(t, r)
    BY <1>0, <1>2, <1>3 DEF TaskState
  <2> HIDE DEF r
  <2> QED
    BY <1>1, <2>1, Others
<1>5. item \in [CycleIds -> [Folders -> ItemRow]]
  BY DEF IInv, TypeOK
<1>6. ASSUME NEW d \in CycleIds, NEW f \in Folders
      PROVE  (d = c /\ f = g) \/ item'[d][f] = item[d][f]
  BY <1>2, <1>3, <1>5
<1>7. Scanning(t, c, g)'
  BY <1>1, <1>2, <1>4 DEF Scanning
<1>8. ItemsExplained(t)
  BY <1>1, <1>6, <1>7 DEF ItemsExplained, Scanning
<1>9. CyclesExplained(t)
  BY <1>0, <1>1, <1>4, CyclesAlone DEF Works, WorkPoints, LockedPoints
<1> QED
  BY <1>1, <1>2, <1>4, <1>8, <1>9, HolderKeeps

LEMMA VerifiedWork ==
    ASSUME IInv, WorkInv, NEW t \in WindowCallers, ScanVerified(t)
    PROVE  WorkInv'
<1> DEFINE R == Recorded(t, "success", 1)
           c == task[t].cur
<1>1. /\ up /\ task[t].pc \in ItemPoints /\ t \in Tasks /\ "success" \in ItemStatuses
      /\ UNCHANGED <<lock, cycle>> /\ DoneWithItem(t, "looping")
  BY DEF ScanVerified, At, Tasks, ItemPoints, ItemStatuses
<1>2. /\ R \in [CycleIds -> [Folders -> ItemRow]]
      /\ \A d \in CycleIds, f \in Folders :
            R[d][f].status = IF d = c /\ f = task[t].at THEN "success" ELSE item[d][f].status
  BY <1>1, RecordedRows, RecordedStatus
<1>3. PICK listed \in SUBSET Children(task[t].at), unchanged \in BOOLEAN :
         item' = [R EXCEPT ![c] =
            [k \in Folders |-> IF ~unchanged /\ k \in listed \cap NoItemYet(t)
                               THEN QueuedItem(100) ELSE @[k]]]
  BY DEF ScanVerified
<1> HIDE DEF R
<1>4. ASSUME NEW d \in CycleIds, NEW f \in Folders
      PROVE  item'[d][f] = QueuedItem(100) \/ item'[d][f] = R[d][f]
  BY <1>2, <1>3
<1>5. QueuedItem(100).status = "pending"
  BY DEF QueuedItem
<1>6. \A d \in CycleIds, f \in Folders : item'[d][f].status = "running" =>
         item[d][f].status = "running" /\ ~(d = c /\ f = task[t].at)
  BY <1>2, <1>4, <1>5
<1> QED
  BY <1>1, <1>6, OutcomeWork

LEMMA SupersededWork ==
    ASSUME IInv, WorkInv, NEW t \in WindowCallers, ScanSuperseded(t)
    PROVE  WorkInv'
<1>1. /\ up /\ task[t].pc \in ItemPoints /\ t \in Tasks /\ "superseded" \in ItemStatuses
      /\ UNCHANGED <<lock, cycle>> /\ DoneWithItem(t, "looping")
      /\ item' = Recorded(t, "superseded", 1)
  BY DEF ScanSuperseded, At, Tasks, ItemPoints, ItemStatuses
<1> QED
  BY <1>1, RecordedStatus, OutcomeWork

LEMMA SettleWork ==
    ASSUME IInv, WorkInv, NEW t \in WindowCallers, SettleItem(t)
    PROVE  WorkInv'
<1> DEFINE p == IF task[t].hit THEN "closing" ELSE "looping"
           s == IF task[t].hit THEN "pending" ELSE "failed"
<1>1. /\ up /\ task[t].pc \in ItemPoints /\ t \in Tasks /\ s \in ItemStatuses
      /\ UNCHANGED <<lock, cycle>> /\ DoneWithItem(t, p) /\ item' = Recorded(t, s, 0)
      /\ p \in {"looping", "closing"} /\ s # "running"
  BY DEF SettleItem, At, Tasks, ItemPoints, ItemStatuses, PendingStatuses
<1> HIDE DEF p, s
<1> QED
  BY <1>1, RecordedStatus, OutcomeWork

\* A window that stays with its item.
LEMMA StayingWork ==
    ASSUME IInv, WorkInv, NEW t \in WindowCallers, up, task[t].pc \in ItemPoints,
           UNCHANGED <<lock, cycle>>, OthersStay(t), task'[t].pc \in ItemPoints,
           task'[t].cur = task[t].cur, task'[t].at = task[t].at,
           \A c \in CycleIds, f \in Folders : item'[c][f].status = item[c][f].status
    PROVE  WorkInv'
<1>1. t \in Tasks /\ lock = t
  BY WorkFacts DEF Tasks, ItemPoints, WorkPoints, LockedPoints
<1>2. ItemsExplained(t)
  BY DEF ItemsExplained, Scanning, ItemPoints
<1>3. CyclesExplained(t)
  BY CyclesAlone DEF Works, WorkPoints, LockedPoints, ItemPoints
<1> QED
  BY <1>1, <1>2, <1>3, HolderKeeps

LEMMA AttemptWork ==
    ASSUME IInv, WorkInv, NEW t \in WindowCallers, ScanFailed(t) \/ ScanRestricted(t)
    PROVE  WorkInv'
<1> DEFINE s == CurrentStatus(t)
<1>1. /\ up /\ task[t].pc \in ItemPoints /\ task[t].pc = "scanning" /\ t \in Tasks
      /\ UNCHANGED <<lock, cycle>> /\ item' = Recorded(t, s, 1)
  BY DEF ScanFailed, ScanRestricted, At, Tasks, ItemPoints
<1>2. s \in ItemStatuses /\ s = item[task[t].cur][task[t].at].status
  BY <1>1, WorkFacts DEF CurrentStatus, ItemRow, ItemPoints, WorkPoints, LockedPoints
<1> HIDE DEF s
<1>3. \A c \in CycleIds, f \in Folders : item'[c][f].status = item[c][f].status
  <2>1. \A c \in CycleIds, f \in Folders :
           Recorded(t, s, 1)[c][f].status =
              IF c = task[t].cur /\ f = task[t].at THEN s ELSE item[c][f].status
    BY <1>1, <1>2, RecordedStatus
  <2> QED
    BY <1>1, <1>2, <2>1
<1>4. /\ OthersStay(t) /\ task'[t].pc \in ItemPoints
      /\ task'[t].cur = task[t].cur /\ task'[t].at = task[t].at
  <2>1. task[t] \in TaskState
    BY <1>1, TaskFacts
  <2>2. CASE ScanFailed(t) /\ task[t].tries = 0
    <3>1. Become(t, [task[t] EXCEPT !.tries = 1])
      BY <2>2 DEF ScanFailed
    <3> QED
      BY <1>1, <2>1, <3>1, Others DEF TaskState
  <2>3. CASE ScanFailed(t) /\ task[t].tries # 0
    <3>1. Become(t, [task[t] EXCEPT !.pc = "settling"])
      BY <2>3 DEF ScanFailed
    <3> QED
      BY <1>1, <2>1, <3>1, Others DEF TaskState, ItemPoints
  <2>4. CASE ScanRestricted(t)
    <3>1. Become(t, [task[t] EXCEPT !.pc = "tripping"])
      BY <2>4 DEF ScanRestricted, Goto
    <3> QED
      BY <1>1, <2>1, <3>1, Others DEF TaskState, ItemPoints
  <2> QED
    BY <2>2, <2>3, <2>4
<1> QED
  BY <1>1, <1>3, <1>4, StayingWork

LEMMA CircuitWork ==
    ASSUME IInv, WorkInv, NEW t \in WindowCallers, OpenCircuit(t)
    PROVE  WorkInv'
<1>1. /\ up /\ task[t].pc \in ItemPoints /\ t \in Tasks
      /\ UNCHANGED <<lock, cycle, item>>
      /\ Become(t, [task[t] EXCEPT !.pc = "settling", !.hit = TRUE])
  BY DEF OpenCircuit, At, Tasks, ItemPoints
<1>2. /\ OthersStay(t) /\ task'[t].pc \in ItemPoints
      /\ task'[t].cur = task[t].cur /\ task'[t].at = task[t].at
  <2> DEFINE r == [task[t] EXCEPT !.pc = "settling", !.hit = TRUE]
  <2>1. r.pc = "settling" /\ r.cur = task[t].cur /\ r.at = task[t].at
    BY <1>1, TaskFacts DEF TaskState
  <2>2. Become(t, r)
    BY <1>1
  <2> HIDE DEF r
  <2> QED
    BY <1>1, <2>1, <2>2, Others DEF ItemPoints
<1> QED
  BY <1>1, <1>2, StayingWork

\* Every step of a window.
LEMMA WindowWork ==
    ASSUME IInv, WorkInv, NEW t \in WindowCallers,
           WindowStep(t) \/ Raise(t) \/ RaiseMigration(t)
    PROVE  WorkInv'
<1>0. CASE CreatorStep(t)
  BY <1>0, CreatorWork DEF Tasks
<1>1. t \in Tasks
  BY DEF Tasks
<1>2. CASE Call(t) \/ CheckCircuit(t) \/ Acquire(t)
  BY <1>1, <1>2, OutsideWork
<1>3. CASE FinalizeFailedWindow(t)
  BY <1>3, RecoveryExplains DEF FinalizeFailedWindow
<1>4. CASE Raise(t)
  <2>1. task'[t].pc = "unwinding"
    BY <1>1, <1>4, TaskFacts DEF Raise, Become, IdleTask
  <2> QED
    BY <2>1, UnwindingKeeps DEF Unwinding
<1> QED
  BY <1>0, <1>2, <1>3, <1>4, OwnerWork, InsertWork, CompleteWork, PlanWork, ConnectWork,
     StartWork, VerifiedWork, SupersededWork, AttemptWork, CircuitWork, SettleWork, CloseWork
     DEF WindowStep, CreatorStep

-----------------------------------------------------------------------------
(* The steps of a path synchronization *)

LEMMA PlanPathWork ==
    ASSUME IInv, WorkInv, PlanPathSync
    PROVE  WorkInv'
<1>1. /\ PathTask \in Tasks /\ up /\ task[PathTask].pc = "owner"
      /\ cycle' = [cycle EXCEPT ![latest + 1] =
                      [kind |-> "manual_path", status |-> "running", anchor |-> now, windows |-> 0]]
      /\ \E S \in SUBSET Active :
            /\ item' = [item EXCEPT ![latest + 1] = [f \in Folders |->
                          IF f \in S THEN QueuedItem(0) ELSE NoItem]]
            /\ Become(PathTask, [task[PathTask] EXCEPT !.pc = "connecting",
                                                     !.cur = latest + 1, !.todo = S])
  BY DEF PlanPathSync, At, Tasks
<1>2. lock = PathTask /\ OthersStay(PathTask)
  BY <1>1, TaskFacts DEF LockedPoints, Become, OthersStay
<1>3. ASSUME NEW c \in CycleIds, cycle'[c].kind \in RollingKinds
      PROVE  cycle'[c] = cycle[c] /\ item'[c] = item[c]
  <2>1. cycle \in [CycleIds -> CycleRow] /\ item \in [CycleIds -> [Folders -> ItemRow]]
    BY DEF IInv, TypeOK
  <2>2. c # latest + 1
    BY <1>1, <1>3, <2>1 DEF RollingKinds
  <2> QED
    BY <1>1, <2>1, <2>2
<1> QED
  BY <1>1, <1>2, <1>3, PathKeeps

\* Its other steps write the rows of its own cycle.
LEMMA PathStepWork ==
    ASSUME IInv, WorkInv, PathStep \/ RaisePathSync
    PROVE  WorkInv'
<1> DEFINE d == task[PathTask].cur
<1>0. PathTask \in Tasks
  BY DEF Tasks
<1>1. CASE ReservePathSync \/ Acquire(PathTask)
  BY <1>0, <1>1, OutsideWork
<1>2. CASE RejectPathSync
  <2>1. up /\ lock = PathTask /\ OthersStay(PathTask) /\ UNCHANGED <<cycle, item>>
    BY <1>0, <1>2, TaskFacts DEF RejectPathSync, At, LockedPoints, Return, Become, OthersStay
  <2> QED
    BY <2>1, PathKeeps
<1>3. CASE Connect(PathTask) \/ PathStartItem \/ PathScan \/ ClosePathSync \/ RaisePathSync
  <2>1. up /\ task[PathTask].pc \in WorkPoints
    BY <1>3 DEF Connect, PathStartItem, PathScan, ClosePathSync, RaisePathSync, At, WorkPoints,
                LockedPoints
  <2>2. lock = PathTask /\ d \in CycleIds /\ cycle[d].kind \notin RollingKinds
    BY <2>1, PathCycleFacts
  <2>3. OthersStay(PathTask)
    BY <1>0, <1>3, TaskFacts
       DEF Connect, PathStartItem, PathScan, ClosePathSync, RaisePathSync, Goto, Return,
           DoneWithItem, Become, OthersStay
  <2>4. cycle \in [CycleIds -> CycleRow] /\ item \in [CycleIds -> [Folders -> ItemRow]]
    BY DEF IInv, TypeOK
  <2>5. \A c \in CycleIds \ {d} : cycle'[c] = cycle[c]
    BY <1>3, <2>4 DEF Connect, PathStartItem, PathScan, ClosePathSync, RaisePathSync
  <2>6. cycle'[d].kind = cycle[d].kind
    BY <1>3, <2>2, <2>4, PathStatus DEF Connect, PathStartItem, PathScan
  <2>7. \A c \in CycleIds \ {d} : item'[c] = item[c]
    BY <1>3, <2>4 DEF Connect, PathStartItem, PathScan, ClosePathSync, RaisePathSync, Recorded
  <2> QED
    BY <2>1, <2>2, <2>3, <2>5, <2>6, <2>7, PathKeeps
<1> QED
  BY <1>1, <1>2, <1>3, PlanPathWork DEF PathStep

-----------------------------------------------------------------------------
(* Theorems *)

LEMMA ClockWork ==
    ASSUME WorkInv, UNCHANGED <<up, lock, task, cycle, item>>
    PROVE  WorkInv'
BY DEF WorkInv, NoOrphanItem, NoIdleCycle, Scanning, Works, Unwinding

\* A restart that prepares a cycle: recovered rows and a planned one.
LEMMA RestartRows ==
    ASSUME IInv, RestartWithCycle
    PROVE  \A c \in CycleIds :
              IF c = latest + 1
              THEN /\ cycle'[c] = RestartedCycle
                   /\ \A f \in Folders : item'[c][f] \in {QueuedItem(0), NoItem}
              ELSE cycle'[c] = PausedCycles[c] /\ item'[c] = RequeuedItems[c]
BY DEF RestartWithCycle, RequeuedItems, PausedCycles

LEMMA RestartWork ==
    ASSUME IInv, RestartWithCycle
    PROVE  WorkInv'
<1>1. ASSUME NEW c \in CycleIds, NEW f \in Folders
      PROVE  item'[c][f].status # "running"
  <2>1. CASE c = latest + 1
    BY <2>1, RestartRows DEF QueuedItem, NoItem
  <2>2. CASE c # latest + 1
    <3>1. item[c][f] \in ItemRow /\ item'[c][f] = Requeue(c, f)
      BY <2>2, RestartRows DEF IInv, TypeOK, RequeuedItems
    <3> QED
      BY <3>1 DEF Requeue, ItemRow
  <2> QED
    BY <2>1, <2>2
<1>2. ASSUME NEW c \in CycleIds
      PROVE  cycle'[c].status # "running"
  <2>1. CASE c = latest + 1
    BY <2>1, RestartRows DEF RestartedCycle, Planned
  <2>2. CASE c # latest + 1
    <3>1. cycle[c] \in CycleRow /\ cycle'[c] = PausedCycles[c]
      BY <2>2, RestartRows DEF IInv, TypeOK
    <3> QED
      BY <3>1 DEF PausedCycles, CycleRow
  <2> QED
    BY <2>1, <2>2
<1> QED
  BY <1>1, <1>2 DEF WorkInv, NoOrphanItem, NoIdleCycle

LEMMA NextWork == IInv /\ WorkInv /\ [Next]_vars => WorkInv'
<1> SUFFICES ASSUME IInv, WorkInv, [Next]_vars PROVE WorkInv'
  OBVIOUS
<1>1. CASE \E t \in WindowCallers : WindowStep(t) \/ Raise(t) \/ RaiseMigration(t)
  BY <1>1, WindowWork
<1>2. CASE PathStep \/ RaisePathSync
  BY <1>2, PathStepWork
<1>3. CASE Crash
  BY <1>3 DEF Crash, WorkInv, NoOrphanItem, NoIdleCycle
<1>4. CASE Restart
  BY <1>4, RecoveryExplains DEF Restart
<1>5. CASE RestartWithCycle
  BY <1>5, RestartWork
<1>6. CASE Tick \/ CircuitExpires \/ UNCHANGED vars
  BY <1>6, ClockWork DEF Tick, CircuitExpires, vars
<1> QED
  BY <1>1, <1>2, <1>3, <1>4, <1>5, <1>6 DEF Next

LEMMA InitWork == Init => WorkInv
<1> SUFFICES ASSUME Init PROVE WorkInv
  OBVIOUS
<1>1. \A c \in CycleIds, f \in Folders : item[c][f].status # "running"
  BY DEF Init, QueuedItem, NoItem
<1>2. \A c \in CycleIds : cycle[c].status # "running"
  BY DEF Init, NoCycle
<1> QED
  BY <1>1, <1>2 DEF WorkInv, NoOrphanItem, NoIdleCycle

\* Crashes, exceptions, clean-ups that run without the lock and callers that race
\* leave no item and no cycle of the engine reading "running" with nobody working
\* on it, for every set of folders and callers.
THEOREM NothingLeftRunning == Spec => []NothingOrphaned
<1>1. Spec => []WorkInv
  BY InitWork, NextWork, Invariance, PTL DEF Spec
<1>2. WorkInv => NothingOrphaned
  BY DEF WorkInv, NothingOrphaned, NoOrphanCycle, NoIdleCycle, Works, WorkPoints
<1> QED
  BY <1>1, <1>2, PTL

\* Only the end of a window changes what its cycle has counted.
LEMMA CountChanges ==
    ASSUME IInv, Next, NEW c \in CycleIds, cycle'[c].windows # cycle[c].windows
    PROVE  \E t \in WindowCallers : CloseWindow(t) /\ task[t].cur = c
<1>0. cycle \in [CycleIds -> CycleRow]
  BY DEF IInv, TypeOK
<1>1. ASSUME NEW t \in WindowCallers, InsertCycle(t)
      PROVE  FALSE
  <2>1. latest + 1 > latest
    BY BoundsAssumption DEF IInv, TypeOK, CycleIds
  <2>2. c = latest + 1 => cycle[c].windows = 0
    BY <2>1 DEF IInv, Fresh, NoCycle
  <2>3. task[t].row.windows = 0
    BY <1>1, InsertedRow DEF Tasks
  <2> QED
    BY <1>0, <1>1, <2>2, <2>3 DEF InsertCycle
<1>2. ASSUME PlanPathSync
      PROVE  FALSE
  <2>1. latest + 1 > latest
    BY BoundsAssumption DEF IInv, TypeOK, CycleIds
  <2>2. c = latest + 1 => cycle[c].windows = 0
    BY <2>1 DEF IInv, Fresh, NoCycle
  <2> QED
    BY <1>0, <1>2, <2>2 DEF PlanPathSync
<1>3. ASSUME NEW t \in WindowCallers, CompleteEmpty(t) \/ PlanWindow(t)
      PROVE  FALSE
  <2>1. PICK st \in {"success", "running"} :
           cycle' = [cycle EXCEPT ![task[t].cur] = [@ EXCEPT !.status = st]]
    BY <1>3 DEF CompleteEmpty, PlanWindow
  <2> QED
    BY <1>0, <2>1, StatusOnly
<1>4. ASSUME ClosePathSync \/ RaisePathSync
      PROVE  FALSE
  BY <1>0, <1>4, PathStatus
<1>5. ASSUME cycle' = PausedCycles
      PROVE  FALSE
  BY <1>0, <1>5 DEF PausedCycles, CycleRow
<1>6. ASSUME NEW t \in WindowCallers, CloseWindow(t)
      PROVE  task[t].cur = c
  BY <1>0, <1>6 DEF CloseWindow
<1>7. cycle' # cycle
  OBVIOUS
<1>8. CASE \E t \in WindowCallers : WindowStep(t) \/ Raise(t) \/ RaiseMigration(t)
  <2>1. PICK t \in WindowCallers : WindowStep(t) \/ Raise(t) \/ RaiseMigration(t)
    BY <1>8
  <2>2. CloseWindow(t)
    BY <1>1, <1>3, <1>5, <1>7, <2>1
       DEF WindowStep, CallMigration, CallRecovery, SeedRoots, SeekCycle, EnableEngine, FindLock,
           FindNoCycle, RaiseMigration, Call, CheckCircuit, Acquire, ReuseCycle, CycleNotDue, WindowNotDue, Connect,
           StartItem, ScanVerified, ScanSuperseded, ScanFailed, ScanRestricted, OpenCircuit,
           SettleItem, FinalizeFailedWindow, Raise
  <2> QED
    BY <1>6, <2>2
<1>9. CASE PathStep \/ RaisePathSync
  BY <1>2, <1>4, <1>7, <1>9
     DEF PathStep, ReservePathSync, Acquire, RejectPathSync, Connect, PathStartItem, PathScan
<1>10. CASE Crash \/ Restart \/ Tick \/ CircuitExpires
  BY <1>5, <1>7, <1>10 DEF Crash, Restart, Tick, CircuitExpires
<1>11. CASE RestartWithCycle
  <2>1. latest + 1 > latest
    BY BoundsAssumption DEF IInv, TypeOK, CycleIds
  <2>2. c = latest + 1 => cycle[c].windows = 0
    BY <2>1 DEF IInv, Fresh, NoCycle
  <2>3. cycle'[c] = IF c = latest + 1 THEN RestartedCycle ELSE PausedCycles[c]
    BY <1>11, RestartRows
  <2> QED
    BY <1>0, <2>2, <2>3 DEF RestartedCycle, Planned, PausedCycles, CycleRow
<1> QED
  BY <1>8, <1>9, <1>10, <1>11 DEF Next

\* The share of a cycle that counts as done is never overstated: only a window
\* that settled every item it selected is counted, once.
THEOREM OnlyDoneWindowsCount == Spec => WindowCountedWhenDone
<1> DEFINE Step == \A c \in CycleIds : cycle'[c].windows # cycle[c].windows =>
                      /\ cycle'[c].windows = cycle[c].windows + 1
                      /\ \E t \in WindowCallers : /\ lock = t /\ task[t].cur = c
                                                  /\ task[t].todo = {} /\ ~task[t].hit
<1>1. IInv /\ [Next]_vars => [Step]_vars
  <2> SUFFICES ASSUME IInv, Next, NEW c \in CycleIds, cycle'[c].windows # cycle[c].windows
               PROVE  /\ cycle'[c].windows = cycle[c].windows + 1
                      /\ \E t \in WindowCallers : /\ lock = t /\ task[t].cur = c
                                                  /\ task[t].todo = {} /\ ~task[t].hit
    OBVIOUS
  <2>1. PICK t \in WindowCallers : CloseWindow(t) /\ task[t].cur = c
    BY CountChanges
  <2>2. cycle \in [CycleIds -> CycleRow] /\ t \in Tasks
    BY DEF IInv, TypeOK, Tasks
  <2>3. cycle'[c].windows = WindowsAfter(t)
    BY <2>1, <2>2 DEF CloseWindow, CycleRow
  <2>4. ~task[t].hit /\ WindowsAfter(t) = cycle[c].windows + 1
    BY <2>1, <2>3 DEF WindowsAfter
  <2>5. task[t].pc = "looping" /\ task[t].todo = {} /\ lock = t
    BY <2>1, <2>2, <2>4, TaskFacts DEF CloseWindow, At, TaskOK, LockedPoints
  <2> QED
    BY <2>1, <2>3, <2>4, <2>5
<1> HIDE DEF Step
<1>2. Spec => [][Step]_vars
  BY <1>1, Invariance, PTL DEF Spec
<1> QED
  BY <1>2 DEF WindowCountedWhenDone, Step

-----------------------------------------------------------------------------
(* What a step does to the items of a cycle *)

\* An item is only ever tried more often, and joins a cycle late at priority 100.
Grows(c, f) ==
    \/ item'[c][f] = item[c][f]
    \/ item[c][f].status = "none" /\ item'[c][f] = QueuedItem(100)
    \/ /\ item[c][f].status # "none"
       /\ item'[c][f].priority = item[c][f].priority
       /\ item'[c][f].attempts >= item[c][f].attempts
       /\ cycle[c].kind \in RollingKinds /\ item'[c][f].status \in {"success", "superseded"} =>
             item'[c][f].attempts > 0

\* Who writes the items of c: the coroutine that works on it, or a clean-up.
Touched(c) == (\A f \in Folders : Grows(c, f))
              /\ (\/ item'[c] = item[c] \/ item'[c] = RequeuedItems[c]
                  \/ \E t \in Tasks : task[t].pc \in WorkPoints /\ task[t].cur = c)

\* An attempt that is recorded, or an outcome.
LEMMA RecordedGrows ==
    ASSUME IInv, NEW t \in Tasks, task[t].pc \in ItemPoints,
           NEW s \in ItemStatuses, NEW n \in {0, 1},
           cycle[task[t].cur].kind \in RollingKinds /\ s \in {"success", "superseded"} => n = 1,
           NEW c \in CycleIds, NEW f \in Folders
    PROVE  \/ Recorded(t, s, n)[c][f] = item[c][f]
           \/ /\ c = task[t].cur /\ f = task[t].at
              /\ item[c][f].status # "none"
              /\ Recorded(t, s, n)[c][f].status = s
              /\ Recorded(t, s, n)[c][f].priority = item[c][f].priority
              /\ Recorded(t, s, n)[c][f].attempts = item[c][f].attempts + n
              /\ Recorded(t, s, n)[c][f].attempts >= item[c][f].attempts
              /\ cycle[c].kind \in RollingKinds /\ s \in {"success", "superseded"} =>
                    Recorded(t, s, n)[c][f].attempts > 0
<1> DEFINE d == task[t].cur
           g == task[t].at
           R == Recorded(t, s, n)
<1>1. /\ d \in CycleIds /\ g \in Folders /\ item[d][g] \in ItemRow
      /\ WorkOK(t) /\ g \in task[t].todo
  BY WorkFacts DEF ItemPoints, WorkPoints, LockedPoints
<1>2. item \in [CycleIds -> [Folders -> ItemRow]]
  BY DEF IInv, TypeOK
<1>3. /\ \A e \in CycleIds \ {d} : R[e] = item[e]
      /\ \A h \in Folders \ {g} : R[d][h] = item[d][h]
      /\ R[d][g].status = s /\ R[d][g].attempts = item[d][g].attempts + n
  BY RecordedRows
<1>4. R[d][g].priority = item[d][g].priority
  BY <1>1, <1>2 DEF Recorded, ItemRow
<1>5. item[d][g].status # "none"
  BY <1>1 DEF WorkOK, OpenStatuses, PendingStatuses
<1>6. item[d][g].attempts \in Nat
  BY <1>1 DEF ItemRow
<1>7. R[d][g].attempts >= item[d][g].attempts /\ (n = 1 => R[d][g].attempts > 0)
  BY <1>3, <1>6
<1>8. CASE c = d /\ f = g
  BY <1>3, <1>4, <1>5, <1>7, <1>8
<1>9. CASE ~(c = d /\ f = g)
  BY <1>3, <1>9
<1> QED
  BY <1>8, <1>9

LEMMA RecordingTouches ==
    ASSUME IInv, NEW t \in Tasks, task[t].pc \in ItemPoints,
           NEW s \in ItemStatuses, NEW n \in {0, 1}, item' = Recorded(t, s, n),
           cycle[task[t].cur].kind \in RollingKinds /\ s \in {"success", "superseded"} => n = 1,
           NEW c \in CycleIds
    PROVE  Touched(c)
<1> DEFINE R == Recorded(t, s, n)
<1>1. \A f \in Folders :
         \/ R[c][f] = item[c][f]
         \/ /\ item[c][f].status # "none"
            /\ R[c][f].status = s
            /\ R[c][f].priority = item[c][f].priority
            /\ R[c][f].attempts >= item[c][f].attempts
            /\ cycle[c].kind \in RollingKinds /\ s \in {"success", "superseded"} =>
                  R[c][f].attempts > 0
  BY RecordedGrows
<1>2. c # task[t].cur => R[c] = item[c]
  BY RecordedRows
<1>3. item' = R
  OBVIOUS
<1> HIDE DEF R
<1>4. \A f \in Folders : Grows(c, f)
  BY <1>1, <1>3 DEF Grows
<1>5. item'[c] = item[c] \/ \E u \in Tasks : task[u].pc \in WorkPoints /\ task[u].cur = c
  BY <1>2, <1>3 DEF ItemPoints, WorkPoints, LockedPoints
<1> QED
  BY <1>4, <1>5 DEF Touched

\* A new row's items are not those of a cycle that exists.
LEMMA ExistingRow ==
    ASSUME IInv, NEW c \in CycleIds, c <= latest PROVE c # latest + 1
BY BoundsAssumption DEF IInv, TypeOK, CycleIds

LEMMA UntouchedRow ==
    ASSUME NEW c \in CycleIds, item'[c] = item[c] PROVE Touched(c)
BY DEF Touched, Grows

LEMMA RequeueTouches ==
    ASSUME IInv, NEW c \in CycleIds, item'[c] = RequeuedItems[c] PROVE Touched(c)
<1>1. ASSUME NEW f \in Folders PROVE Grows(c, f)
  <2>1. item[c][f] \in ItemRow /\ item'[c][f] = Requeue(c, f)
    BY DEF IInv, TypeOK, RequeuedItems
  <2> QED
    BY <2>1 DEF Requeue, ItemRow, Grows
<1> QED
  BY <1>1 DEF Touched

\* An item that is taken up.
LEMMA StartTouches ==
    ASSUME IInv, NEW t \in Tasks, task[t].pc = "looping", NEW g \in task[t].todo,
           NEW n \in {0, 1},
           LET i == item[task[t].cur][g] IN
           \/ n = 0 /\ item' = [item EXCEPT ![task[t].cur][g] = [i EXCEPT !.status = "running"]]
           \/ n = 1 /\ item' = [item EXCEPT ![task[t].cur][g] =
                                  [i EXCEPT !.status = "running", !.attempts = @ + 1]],
           NEW c \in CycleIds
    PROVE  Touched(c)
<1> DEFINE d == task[t].cur
<1>1. WorkOK(t) /\ d \in CycleIds /\ g \in Folders /\ item[d] \in [Folders -> ItemRow]
      /\ task[t].pc \in WorkPoints
  BY WorkFacts DEF WorkPoints, LockedPoints
<1>2. item \in [CycleIds -> [Folders -> ItemRow]] /\ item[d][g] \in ItemRow
  BY <1>1 DEF IInv, TypeOK
<1>3. item[d][g].status # "none"
  BY <1>1 DEF WorkOK, OpenStatuses, PendingStatuses
<1>4. c # d => item'[c] = item[c]
  BY <1>2
<1>5. \A f \in Folders \ {g} : item'[d][f] = item[d][f]
  BY <1>1, <1>2
<1>6. /\ item'[d][g].status = "running" /\ item'[d][g].priority = item[d][g].priority
      /\ item'[d][g].attempts >= item[d][g].attempts
  <2>1. PICK i \in ItemRow : i = item[d][g]
    BY <1>2
  <2>2. \/ item'[d][g] = [i EXCEPT !.status = "running"]
        \/ item'[d][g] = [i EXCEPT !.status = "running", !.attempts = @ + 1]
    BY <1>1, <1>2, <2>1
  <2>3. i.attempts \in Nat
    BY DEF ItemRow
  <2>4. CASE item'[d][g] = [i EXCEPT !.status = "running"]
    BY <2>1, <2>3, <2>4 DEF ItemRow
  <2>5. CASE item'[d][g] = [i EXCEPT !.status = "running", !.attempts = @ + 1]
    <3>1. /\ item'[d][g].status = "running" /\ item'[d][g].priority = i.priority
          /\ item'[d][g].attempts = i.attempts + 1
      BY <2>5 DEF ItemRow
    <3> QED
      BY <2>1, <2>3, <3>1
  <2> QED
    BY <2>2, <2>4, <2>5
<1>7. Grows(d, g)
  BY <1>3, <1>6 DEF Grows
<1>8. \A f \in Folders : Grows(c, f)
  BY <1>4, <1>5, <1>7 DEF Grows
<1> QED
  BY <1>1, <1>4, <1>8 DEF Touched

LEMMA VerifiedTouches ==
    ASSUME IInv, NEW t \in WindowCallers, ScanVerified(t), NEW c \in CycleIds
    PROVE  Touched(c)
<1> DEFINE R == Recorded(t, "success", 1)
           d == task[t].cur
<1>1. /\ task[t].pc \in ItemPoints /\ t \in Tasks /\ "success" \in ItemStatuses
      /\ task[t].pc \in WorkPoints
  BY DEF ScanVerified, At, Tasks, ItemPoints, ItemStatuses, WorkPoints, LockedPoints
<1>2. /\ R \in [CycleIds -> [Folders -> ItemRow]]
      /\ \A e \in CycleIds \ {d} : R[e] = item[e]
  BY <1>1, RecordedRows
<1>3. \A f \in Folders :
         \/ R[c][f] = item[c][f]
         \/ /\ item[c][f].status # "none"
            /\ R[c][f].priority = item[c][f].priority
            /\ R[c][f].attempts >= item[c][f].attempts
            /\ cycle[c].kind \in RollingKinds => R[c][f].attempts > 0
  BY <1>1, RecordedGrows
<1>4. PICK listed \in SUBSET Children(task[t].at), unchanged \in BOOLEAN :
         item' = [R EXCEPT ![d] =
            [k \in Folders |-> IF ~unchanged /\ k \in listed \cap NoItemYet(t)
                               THEN QueuedItem(100) ELSE @[k]]]
  BY DEF ScanVerified
<1> HIDE DEF R
<1>5. c # d => item'[c] = item[c]
  BY <1>2, <1>4
<1>6. ASSUME NEW f \in Folders PROVE Grows(c, f)
  <2>1. \/ c = d /\ f \in NoItemYet(t) /\ item'[c][f] = QueuedItem(100)
        \/ item'[c][f] = R[c][f]
    BY <1>2, <1>4
  <2>2. CASE c = d /\ f \in NoItemYet(t) /\ item'[c][f] = QueuedItem(100)
    BY <2>2 DEF NoItemYet, Grows
  <2>3. CASE item'[c][f] = R[c][f]
    BY <1>3, <2>3 DEF Grows
  <2> QED
    BY <2>1, <2>2, <2>3
<1> QED
  BY <1>1, <1>5, <1>6 DEF Touched

LEMMA WindowTouches ==
    ASSUME IInv, NEW t \in WindowCallers, WindowStep(t) \/ Raise(t) \/ RaiseMigration(t),
           NEW c \in CycleIds, c <= latest
    PROVE  Touched(c)
<1>1. t \in Tasks /\ item \in [CycleIds -> [Folders -> ItemRow]]
  BY DEF IInv, TypeOK, Tasks
<1>2. CASE InsertCycle(t)
  <2>1. item'[c] = item[c]
    BY <1>1, <1>2, ExistingRow DEF InsertCycle
  <2> QED
    BY <2>1, UntouchedRow
<1>3. CASE StartItem(t)
  <2>1. task[t].pc = "looping"
    BY <1>3 DEF StartItem, At
  <2>2. PICK g \in task[t].todo :
           item' = [item EXCEPT ![task[t].cur][g] = [@ EXCEPT !.status = "running"]]
    BY <1>3 DEF StartItem
  <2>3. task[t].cur \in CycleIds /\ g \in Folders
    BY <1>1, <2>1, WorkFacts DEF WorkPoints, LockedPoints
  <2>4. item' = [item EXCEPT ![task[t].cur][g] =
                   [item[task[t].cur][g] EXCEPT !.status = "running"]]
    BY <1>1, <2>2, <2>3
  <2>5. 0 \in {0, 1}
    OBVIOUS
  <2> QED
    BY <1>1, <2>1, <2>4, <2>5, StartTouches
<1>4. CASE ScanVerified(t)
  BY <1>4, VerifiedTouches
<1>5. CASE ScanSuperseded(t)
  <2>1. /\ task[t].pc \in ItemPoints /\ "superseded" \in ItemStatuses
        /\ item' = Recorded(t, "superseded", 1) /\ 1 \in {0, 1}
    BY <1>5 DEF ScanSuperseded, At, ItemPoints, ItemStatuses
  <2> QED
    BY <1>1, <2>1, RecordingTouches
<1>6. CASE ScanFailed(t) \/ ScanRestricted(t)
  <2> DEFINE s == CurrentStatus(t)
  <2>1. task[t].pc \in ItemPoints /\ item' = Recorded(t, s, 1) /\ 1 \in {0, 1}
    BY <1>6 DEF ScanFailed, ScanRestricted, At, ItemPoints
  <2>2. s \in ItemStatuses
    BY <1>1, <2>1, WorkFacts DEF CurrentStatus, ItemRow, ItemPoints, WorkPoints, LockedPoints
  <2> HIDE DEF s
  <2> QED
    BY <1>1, <2>1, <2>2, RecordingTouches
<1>7. CASE SettleItem(t)
  <2> DEFINE s == IF task[t].hit THEN "pending" ELSE "failed"
  <2>1. /\ task[t].pc \in ItemPoints /\ item' = Recorded(t, s, 0) /\ 0 \in {0, 1}
        /\ s \in ItemStatuses /\ s \notin {"success", "superseded"}
    BY <1>7 DEF SettleItem, At, ItemPoints, ItemStatuses, PendingStatuses
  <2> HIDE DEF s
  <2> QED
    BY <1>1, <2>1, RecordingTouches
<1>8. CASE FinalizeFailedWindow(t)
  BY <1>8, RequeueTouches DEF FinalizeFailedWindow
<1>9. CASE UNCHANGED item
  BY <1>9, UntouchedRow
<1>10. CASE CreatorStep(t)
  BY <1>1, <1>9, <1>10, CreatorMoves
<1> QED
  BY <1>2, <1>3, <1>4, <1>5, <1>6, <1>7, <1>8, <1>9, <1>10
     DEF WindowStep, CreatorStep, Call, CheckCircuit, Acquire, ReuseCycle, FindNoCycle, CycleNotDue,
         WindowNotDue, CompleteEmpty, PlanWindow, Connect, OpenCircuit, CloseWindow, Raise

LEMMA PathTouches ==
    ASSUME IInv, PathStep \/ RaisePathSync, NEW c \in CycleIds, c <= latest
    PROVE  Touched(c)
<1> DEFINE t == PathTask
           d == task[t].cur
<1>1. t \in Tasks /\ item \in [CycleIds -> [Folders -> ItemRow]]
  BY DEF IInv, TypeOK, Tasks
<1>2. CASE PlanPathSync
  <2>1. item'[c] = item[c]
    BY <1>1, <1>2, ExistingRow DEF PlanPathSync
  <2> QED
    BY <2>1, UntouchedRow
<1>3. CASE PathStartItem
  <2>1. task[t].pc = "looping"
    BY <1>3 DEF PathStartItem, At
  <2>2. PICK g \in task[t].todo :
           LET i == item[task[t].cur][g] IN
           item' = [item EXCEPT ![task[t].cur][g] =
                      [i EXCEPT !.status = "running", !.attempts = @ + 1]]
    BY <1>3 DEF PathStartItem
  <2>3. 1 \in {0, 1}
    OBVIOUS
  <2> QED
    BY <1>1, <2>1, <2>2, <2>3, StartTouches
<1>4. CASE PathScan
  <2>1. PICK s \in {"success", "superseded", "failed"} : item' = Recorded(t, s, 0)
    BY <1>4 DEF PathScan
  <2>2. /\ task[t].pc \in ItemPoints /\ s \in ItemStatuses /\ 0 \in {0, 1}
        /\ task[t].pc \in WorkPoints
    BY <1>4 DEF PathScan, At, ItemPoints, ItemStatuses, PendingStatuses, WorkPoints, LockedPoints
  <2>3. cycle[d].kind \notin RollingKinds
    BY <2>2, PathCycleFacts
  <2> QED
    BY <1>1, <2>1, <2>2, <2>3, RecordingTouches
<1>5. CASE RaisePathSync
  <2>1. \/ UNCHANGED item
        \/ item' = [item EXCEPT ![d] = [g \in Folders |->
                        IF @[g].status \in {"pending", "running"}
                        THEN [@[g] EXCEPT !.status = "failed"] ELSE @[g]]]
    BY <1>5 DEF RaisePathSync
  <2>2. task[t].pc \in WorkPoints
    BY <1>5 DEF RaisePathSync, At, WorkPoints, LockedPoints
  <2>3. d \in CycleIds /\ cycle[d].kind \notin RollingKinds
    BY <2>2, PathCycleFacts
  <2>4. c # d => item'[c] = item[c]
    BY <1>1, <2>1
  <2>5. ASSUME NEW f \in Folders PROVE Grows(c, f)
    <3>1. item[c][f] \in ItemRow
      BY <1>1
    <3>2. \/ item'[c][f] = item[c][f]
          \/ /\ c = d /\ item[c][f].status \in {"pending", "running"}
             /\ item'[c][f] = [item[c][f] EXCEPT !.status = "failed"]
      BY <1>1, <2>1, <2>3
    <3> QED
      BY <2>3, <3>1, <3>2 DEF Grows, ItemRow
  <2> QED
    BY <1>1, <2>2, <2>4, <2>5 DEF Touched
<1>6. CASE UNCHANGED item
  BY <1>6, UntouchedRow
<1> QED
  BY <1>2, <1>3, <1>4, <1>5, <1>6
     DEF PathStep, ReservePathSync, Acquire, RejectPathSync, Connect, ClosePathSync

LEMMA ItemsStep ==
    ASSUME IInv, [Next]_vars, NEW c \in CycleIds, c <= latest
    PROVE  Touched(c)
<1>1. CASE \E t \in WindowCallers : WindowStep(t) \/ Raise(t) \/ RaiseMigration(t)
  BY <1>1, WindowTouches
<1>2. CASE PathStep \/ RaisePathSync
  BY <1>2, PathTouches
<1>3. CASE Restart
  BY <1>3, RequeueTouches DEF Restart
<1>4. CASE RestartWithCycle
  <2>1. item'[c] = RequeuedItems[c]
    BY <1>4, ExistingRow, RestartRows
  <2> QED
    BY <2>1, RequeueTouches
<1>5. CASE UNCHANGED item
  BY <1>5, UntouchedRow
<1> QED
  BY <1>1, <1>2, <1>3, <1>4, <1>5 DEF Next, Crash, Tick, CircuitExpires, vars

-----------------------------------------------------------------------------
(* What a step does to the row of a cycle *)

\* The row of a new cycle.
LEMMA NewRow ==
    ASSUME IInv, [Next]_vars, NEW c \in CycleIds, c > latest
    PROVE  /\ cycle'[c].windows = 0 /\ cycle'[c].status # "success"
           /\ \A f \in Folders : item'[c][f] \in {QueuedItem(0), NoItem}
<1>1. IInv' /\ c > latest /\ latest \in Int
  BY NextKeepsIInv, BoundsAssumption DEF IInv, TypeOK, CycleIds
<1>2. cycle \in [CycleIds -> CycleRow] /\ item \in [CycleIds -> [Folders -> ItemRow]]
  BY DEF IInv, TypeOK
<1>3. ASSUME c > latest'
      PROVE  cycle'[c] = NoCycle /\ item'[c] = [f \in Folders |-> NoItem]
  BY <1>1, <1>3 DEF IInv, Fresh
<1>4. CASE c > latest'
  BY <1>3, <1>4 DEF NoCycle
<1>5. ASSUME NEW t \in WindowCallers, InsertCycle(t), c = latest + 1
      PROVE  /\ cycle'[c].windows = 0 /\ cycle'[c].status = "planned"
             /\ \A f \in Folders : item'[c][f] \in {QueuedItem(0), NoItem}
  <2>1. task[t].row.status = "planned" /\ task[t].row.windows = 0
    BY <1>5, InsertedRow DEF Tasks
  <2> QED
    BY <1>2, <1>5, <2>1 DEF InsertCycle
<1>6. ASSUME PlanPathSync, c = latest + 1
      PROVE  /\ cycle'[c].windows = 0 /\ cycle'[c].status = "running"
             /\ \A f \in Folders : item'[c][f] \in {QueuedItem(0), NoItem}
  BY <1>2, <1>6 DEF PlanPathSync
<1>7. ASSUME RestartWithCycle, c = latest + 1
      PROVE  /\ cycle'[c].windows = 0 /\ cycle'[c].status = "planned"
             /\ \A f \in Folders : item'[c][f] \in {QueuedItem(0), NoItem}
  BY <1>7, RestartRows DEF RestartedCycle, Planned
<1>8. CASE ~(c > latest')
  <2>1. latest' # latest
    BY <1>1, <1>8
  <2>2. (\E t \in WindowCallers : InsertCycle(t)) \/ PlanPathSync \/ RestartWithCycle
    BY <2>1
       DEF Next, WindowStep, CallMigration, CallRecovery, SeedRoots, SeekCycle, EnableEngine,
           FindLock, FindNoCycle, RaiseMigration, Call, CheckCircuit, Acquire, ReuseCycle,
           CycleNotDue, WindowNotDue,
           CompleteEmpty, PlanWindow, Connect, StartItem, ScanVerified, ScanSuperseded, ScanFailed,
           ScanRestricted, OpenCircuit, SettleItem, CloseWindow, FinalizeFailedWindow, Raise,
           PathStep, ReservePathSync, RejectPathSync, PathStartItem, PathScan, ClosePathSync,
           RaisePathSync, Crash, Restart, Tick, CircuitExpires, vars
  <2>3. latest' = latest + 1
    BY <2>2 DEF InsertCycle, PlanPathSync, RestartWithCycle
  <2>4. c = latest + 1
    BY <1>1, <1>8, <2>3 DEF CycleIds
  <2> QED
    BY <1>5, <1>6, <1>7, <2>2, <2>4
<1> QED
  BY <1>4, <1>8

\* A cycle keeps its kind, and only a window that finds nothing left to select
\* makes one of the engine succeed.
LEMMA OldRow ==
    ASSUME IInv, [Next]_vars, NEW c \in CycleIds, c <= latest
    PROVE  /\ cycle'[c].kind = cycle[c].kind
           /\ \/ cycle'[c].status # "success" \/ cycle[c].status = "success"
              \/ cycle[c].kind \notin RollingKinds
              \/ \E t \in WindowCallers : /\ CompleteEmpty(t) \/ CloseWindow(t)
                                          /\ task[t].cur = c
<1>0. cycle \in [CycleIds -> CycleRow] /\ c # latest + 1
  BY ExistingRow DEF IInv, TypeOK
<1>1. ASSUME NEW t \in WindowCallers, InsertCycle(t) PROVE cycle'[c] = cycle[c]
  BY <1>0, <1>1 DEF InsertCycle
<1>2. ASSUME PlanPathSync PROVE cycle'[c] = cycle[c]
  BY <1>0, <1>2 DEF PlanPathSync
<1>3. ASSUME NEW t \in WindowCallers, CompleteEmpty(t)
      PROVE  cycle'[c].kind = cycle[c].kind /\ (c # task[t].cur => cycle'[c] = cycle[c])
  <2>1. cycle' = [cycle EXCEPT ![task[t].cur] = [@ EXCEPT !.status = "success"]]
    BY <1>3 DEF CompleteEmpty
  <2> QED
    BY <1>0, <2>1, StatusOnly
<1>4. ASSUME NEW t \in WindowCallers, PlanWindow(t)
      PROVE  /\ cycle'[c].kind = cycle[c].kind
             /\ cycle'[c].status = "running" \/ cycle'[c] = cycle[c]
  <2>1. cycle' = [cycle EXCEPT ![task[t].cur] = [@ EXCEPT !.status = "running"]]
    BY <1>4 DEF PlanWindow
  <2>2. cycle[c] \in CycleRow
    BY <1>0
  <2> QED
    BY <1>0, <2>1, <2>2, StatusOnly DEF CycleRow
<1>5. ASSUME NEW t \in WindowCallers, CloseWindow(t)
      PROVE  cycle'[c].kind = cycle[c].kind /\ (c # task[t].cur => cycle'[c] = cycle[c])
  <2>1. PICK w, s : cycle' = [cycle EXCEPT ![task[t].cur] =
                                [@ EXCEPT !.windows = w, !.status = s]]
    BY <1>5 DEF CloseWindow
  <2>2. cycle[c] \in CycleRow
    BY <1>0
  <2> QED
    BY <1>0, <2>1, <2>2 DEF CycleRow
<1>6. ASSUME ClosePathSync \/ RaisePathSync
      PROVE  /\ cycle'[c].kind = cycle[c].kind
             /\ cycle[c].kind \in RollingKinds => cycle'[c] = cycle[c]
  <2>1. task[PathTask].pc \in WorkPoints
    BY <1>6 DEF ClosePathSync, RaisePathSync, At, WorkPoints, LockedPoints
  <2>2. cycle[task[PathTask].cur].kind \notin RollingKinds
    BY <2>1, PathCycleFacts
  <2>3. c # task[PathTask].cur => cycle'[c] = cycle[c]
    BY <1>0, <1>6 DEF ClosePathSync, RaisePathSync
  <2> QED
    BY <1>0, <1>6, <2>2, <2>3, PathStatus
<1>7. ASSUME cycle'[c] = PausedCycles[c]
      PROVE  /\ cycle'[c].kind = cycle[c].kind
             /\ cycle'[c].status = "partial" \/ cycle'[c] = cycle[c]
  <2>1. cycle[c] \in CycleRow
    BY <1>0
  <2> QED
    BY <1>7, <2>1 DEF PausedCycles, CycleRow
<1>8. ASSUME cycle'[c] # cycle[c]
      PROVE  \/ \E t \in WindowCallers : InsertCycle(t) \/ CompleteEmpty(t) \/ PlanWindow(t)
                                         \/ CloseWindow(t)
             \/ PlanPathSync \/ ClosePathSync \/ RaisePathSync
             \/ cycle'[c] = PausedCycles[c]
  BY <1>0, <1>8, RestartRows
     DEF Next, WindowStep, CallMigration, CallRecovery, SeedRoots, SeekCycle, EnableEngine,
         FindLock, FindNoCycle, RaiseMigration, Call, CheckCircuit, Acquire, ReuseCycle, CycleNotDue, WindowNotDue,
         Connect, StartItem, ScanVerified, ScanSuperseded, ScanFailed,
         ScanRestricted, OpenCircuit, SettleItem, FinalizeFailedWindow, Raise,
         PathStep, ReservePathSync, RejectPathSync, PathStartItem, PathScan,
         Crash, Restart, Tick, CircuitExpires, vars
<1> QED
  BY <1>1, <1>2, <1>3, <1>4, <1>5, <1>6, <1>7, <1>8

-----------------------------------------------------------------------------
(* A cycle that succeeded *)

\* No window works while the exception of another is finalized: there is only
\* one caller, or nothing raises.  Otherwise a window may complete the cycle
\* before the failed one's item is pending again.
WindowsDoNotOverlap == MaxErrors = 0 \/ \A t, u \in WindowCallers : t = u

DrainInv == (Unwinding => MaxErrors # 0) /\ SuccessIsDrained

LEMMA NobodyUnwinds ==
    ASSUME IInv, DrainInv, WindowsDoNotOverlap, NEW t \in WindowCallers,
           task[t].pc \in LockedPoints
    PROVE  ~Unwinding
<1>1. task[t].pc # "unwinding"
  BY DEF LockedPoints
<1> QED
  BY <1>1 DEF WindowsDoNotOverlap, DrainInv, Unwinding

\* A coroutine that goes on does so without an exception.
LEMMA GoesOn ==
    ASSUME IInv, NEW t \in Tasks, NEW r, Become(t, r), r.pc # "unwinding", Unwinding'
    PROVE  Unwinding
BY Others DEF OthersStay, Unwinding, Tasks

\* Where the steps towards a new cycle lead.
LEMMA CreatorGoes ==
    ASSUME IInv, NEW t \in Tasks, CreatorStep(t) \/ InsertCycle(t) \/ FindNoCycle(t)
    PROVE  task'[t].pc \in CreatorPoints \cup {"idle", "enabling", "called", "checked",
                                              "opening", "planning"}
<1>1. task[t] \in TaskState /\ IdleTask.pc = "idle"
  BY TaskFacts DEF IdleTask
<1>2. PICK r : Become(t, r)
  BY DEF CreatorStep, CallMigration, CallRecovery, SeedRoots, SeekCycle, EnableEngine, FindLock,
         RaiseMigration, InsertCycle, FindNoCycle, Goto
<1>3. task'[t] = r /\ task' = [task EXCEPT ![t] = r] /\ task \in [Tasks -> TaskState]
  BY <1>2, Others DEF Become, IInv, TypeOK
<1>4. CASE CallMigration(t) \/ CallRecovery(t)
  <2>1. CASE CallMigration(t)
    <3>1. Become(t, [task[t] EXCEPT !.pc = "seeking", !.row = Planned("migration", now)])
      BY <2>1 DEF CallMigration
    <3>2. task'[t] = [task[t] EXCEPT !.pc = "seeking", !.row = Planned("migration", now)]
      BY <3>1, Others
    <3> QED
      BY <1>1, <3>2 DEF TaskState, CreatorPoints
  <2>2. CASE CallRecovery(t)
    <3>1. Become(t, [task[t] EXCEPT !.pc = "seeding", !.now = now,
                                    !.row = Planned("recovery", now - 1)])
      BY <2>2 DEF CallRecovery
    <3>2. task'[t] = [task[t] EXCEPT !.pc = "seeding", !.now = now,
                                     !.row = Planned("recovery", now - 1)]
      BY <3>1, Others
    <3> QED
      BY <1>1, <3>2 DEF TaskState, CreatorPoints
  <2> QED
    BY <1>4, <2>1, <2>2
<1>5. CASE EnableEngine(t) \/ RaiseMigration(t)
  <2>1. Become(t, IdleTask)
    BY <1>5 DEF EnableEngine, RaiseMigration
  <2>2. task'[t] = IdleTask
    BY <2>1, Others
  <2> QED
    BY <1>1, <2>2
<1>6. CASE SeedRoots(t)
  BY <1>1, <1>3, <1>6 DEF SeedRoots, Become, Goto, TaskState, CreatorPoints
<1>7. CASE FindLock(t)
  BY <1>1, <1>3, <1>7 DEF FindLock, Become, TaskState
<1>8. AfterCreation(t) \in {"enabling", "called", "planning"}
  BY DEF AfterCreation
<1>9. CASE SeekCycle(t)
  BY <1>1, <1>3, <1>8, <1>9 DEF SeekCycle, Become, TaskState, CreatorPoints
<1>10. CASE InsertCycle(t)
  BY <1>1, <1>3, <1>8, <1>10 DEF InsertCycle, Become, TaskState
<1>11. CASE FindNoCycle(t)
  BY <1>1, <1>3, <1>11 DEF FindNoCycle, Become, TaskState
<1> QED
  BY <1>4, <1>5, <1>6, <1>7, <1>9, <1>10, <1>11 DEF CreatorStep

LEMMA WindowGoesOn ==
    ASSUME IInv, NEW t \in WindowCallers, WindowStep(t), Unwinding'
    PROVE  Unwinding
<1>1. t \in Tasks /\ task[t] \in TaskState
  BY TaskFacts DEF Tasks
<1>2. \A p \in Points \ {"unwinding"} : [task[t] EXCEPT !.pc = p].pc # "unwinding"
  BY <1>1 DEF TaskState
<1>3. IdleTask.pc # "unwinding"
  BY DEF IdleTask
<1>14. CASE CreatorStep(t) \/ InsertCycle(t) \/ FindNoCycle(t)
  <2>1. task'[t].pc # "unwinding"
    BY <1>1, <1>14, CreatorGoes DEF CreatorPoints
  <2>2. OthersStay(t)
    BY <1>1, <1>14, CreatorMoves, TaskFacts DEF InsertCycle, FindNoCycle, Become, OthersStay
  <2> QED
    BY <1>1, <2>1, <2>2 DEF OthersStay, Unwinding, Tasks
<1>4. CASE Call(t)
  <2> DEFINE r == [task[t] EXCEPT !.pc = "checked", !.now = now]
  <2>1. r.pc # "unwinding" /\ Become(t, r)
    BY <1>1, <1>4 DEF Call, TaskState
  <2> QED
    BY <1>1, <2>1, GoesOn
<1>5. CASE CheckCircuit(t)
  <2> DEFINE r == IF circuit THEN IdleTask ELSE [task[t] EXCEPT !.pc = "waiting"]
  <2>1. r.pc # "unwinding" /\ Become(t, r)
    BY <1>2, <1>3, <1>5 DEF CheckCircuit, Points
  <2> QED
    BY <1>1, <2>1, GoesOn
<1>6. CASE Acquire(t) \/ Connect(t) \/ ScanRestricted(t) \/ FinalizeFailedWindow(t)
  <2>1. PICK p \in {"owner", "looping", "tripping", "idle"} :
           Become(t, [task[t] EXCEPT !.pc = p])
    BY <1>6 DEF Acquire, Connect, ScanRestricted, FinalizeFailedWindow, Goto
  <2>2. [task[t] EXCEPT !.pc = p].pc # "unwinding"
    BY <1>2 DEF Points, LockedPoints
  <2> QED
    BY <1>1, <2>1, <2>2, GoesOn
<1>7. CASE CycleNotDue(t) \/ WindowNotDue(t) \/ CompleteEmpty(t) \/ CloseWindow(t)
  <2>1. Become(t, IdleTask)
    BY <1>7 DEF CycleNotDue, WindowNotDue, CompleteEmpty, CloseWindow, Return
  <2> QED
    BY <1>1, <1>3, <2>1, GoesOn
<1>8. CASE ReuseCycle(t)
  <2>1. PICK c : Become(t, [task[t] EXCEPT !.pc = "planning", !.cur = c])
    BY <1>8 DEF ReuseCycle
  <2>2. [task[t] EXCEPT !.pc = "planning", !.cur = c].pc # "unwinding"
    BY <1>1 DEF TaskState
  <2> QED
    BY <1>1, <2>1, <2>2, GoesOn
<1>9. CASE PlanWindow(t)
  <2>1. PICK S : Become(t, [task[t] EXCEPT !.pc = "connecting", !.todo = S])
    BY <1>9 DEF PlanWindow
  <2>2. [task[t] EXCEPT !.pc = "connecting", !.todo = S].pc # "unwinding"
    BY <1>1 DEF TaskState
  <2> QED
    BY <1>1, <2>1, <2>2, GoesOn
<1>10. CASE StartItem(t)
  <2>1. PICK f : Become(t, [task[t] EXCEPT !.pc = "scanning", !.at = f, !.tries = 0])
    BY <1>10 DEF StartItem
  <2>2. [task[t] EXCEPT !.pc = "scanning", !.at = f, !.tries = 0].pc # "unwinding"
    BY <1>1 DEF TaskState
  <2> QED
    BY <1>1, <2>1, <2>2, GoesOn
<1>11. CASE ScanVerified(t) \/ ScanSuperseded(t) \/ SettleItem(t)
  <2>1. PICK p \in {"looping", "closing"} : DoneWithItem(t, p)
    BY <1>11 DEF ScanVerified, ScanSuperseded, SettleItem
  <2> DEFINE r == [task[t] EXCEPT !.pc = p, !.todo = @ \ {task[t].at}, !.at = NoFolder]
  <2>2. r.pc # "unwinding" /\ Become(t, r)
    BY <1>1, <2>1 DEF TaskState, DoneWithItem
  <2> QED
    BY <1>1, <2>2, GoesOn
<1>12. CASE ScanFailed(t)
  <2> DEFINE r == IF task[t].tries = 0 THEN [task[t] EXCEPT !.tries = 1]
                                       ELSE [task[t] EXCEPT !.pc = "settling"]
  <2>1. Become(t, r) /\ task[t].pc = "scanning"
    BY <1>12 DEF ScanFailed, At
  <2>2. r.pc # "unwinding"
    BY <1>1, <2>1 DEF TaskState
  <2> QED
    BY <1>1, <2>1, <2>2, GoesOn
<1>13. CASE OpenCircuit(t)
  <2>1. Become(t, [task[t] EXCEPT !.pc = "settling", !.hit = TRUE])
    BY <1>13 DEF OpenCircuit
  <2>2. [task[t] EXCEPT !.pc = "settling", !.hit = TRUE].pc # "unwinding"
    BY <1>1 DEF TaskState
  <2> QED
    BY <1>1, <2>1, <2>2, GoesOn
<1> QED
  BY <1>4, <1>5, <1>6, <1>7, <1>8, <1>9, <1>10, <1>11, <1>12, <1>13, <1>14
     DEF WindowStep, CreatorStep

\* An exception that is to be finalized was raised.
LEMMA UnwindingStep ==
    ASSUME IInv, [Next]_vars, Unwinding'
    PROVE  Unwinding \/ MaxErrors # 0
<1>1. ASSUME NEW t \in WindowCallers, Raise(t) PROVE MaxErrors # 0
  BY <1>1, BoundsAssumption DEF Raise, CountError, IInv, TypeOK
<1>2. ASSUME NEW t \in WindowCallers, WindowStep(t) PROVE Unwinding
  BY <1>2, WindowGoesOn
<1>6. ASSUME NEW t \in WindowCallers, RaiseMigration(t) PROVE MaxErrors # 0
  BY <1>6, BoundsAssumption DEF RaiseMigration, CountError, IInv, TypeOK
<1>3. CASE PathStep \/ RaisePathSync
  <2>1. PathTask \in Tasks /\ PathTask \notin WindowCallers /\ task \in [Tasks -> TaskState]
    BY TasksAssumption DEF IInv, TypeOK, Tasks
  <2>2. OthersStay(PathTask)
    BY <1>3, <2>1
       DEF PathStep, ReservePathSync, Acquire, PlanPathSync, RejectPathSync, Connect, PathStartItem,
           PathScan, ClosePathSync, RaisePathSync, Goto, Return, DoneWithItem, Become, OthersStay
  <2> QED
    BY <2>1, <2>2 DEF OthersStay, Unwinding, Tasks
<1>4. CASE Crash
  BY <1>4 DEF Crash, Unwinding, IdleTask, Tasks
<1>5. CASE UNCHANGED task
  BY <1>5 DEF Unwinding
<1> QED
  BY <1>1, <1>2, <1>3, <1>4, <1>5, <1>6
     DEF Next, Restart, RestartWithCycle, Tick, CircuitExpires, vars

\* The items of a cycle that succeeded are left alone.
LEMMA SuccessKept ==
    ASSUME IInv, DrainInv, [Next]_vars, NEW c \in CycleIds, c <= latest,
           cycle[c].kind \in RollingKinds, cycle[c].status = "success"
    PROVE  item'[c] = item[c]
<1>1. item \in [CycleIds -> [Folders -> ItemRow]]
  BY DEF IInv, TypeOK
<1>2. ASSUME NEW t \in Tasks, task[t].pc \in WorkPoints, task[t].cur = c
      PROVE  FALSE
  BY <1>2, WorkFacts DEF WorkOK, IsActive, ActiveStatuses, RollingKinds
<1>3. ASSUME item'[c] = RequeuedItems[c] PROVE item'[c] = item[c]
  <2>1. \A f \in Folders : item[c][f].status # "running"
    BY DEF DrainInv, SuccessIsDrained
  <2>2. \A f \in Folders : RequeuedItems[c][f] = item[c][f]
    BY <2>1, RecoveryRows
  <2>3. RequeuedItems[c] \in [Folders -> ItemRow]
    BY RecoveryRows
  <2> QED
    BY <1>1, <1>3, <2>2, <2>3
<1> QED
  BY <1>2, <1>3, ItemsStep DEF Touched

\* A window that completes its cycle leaves nothing to do.
LEMMA CompletionDrains ==
    ASSUME IInv, WorkInv, DrainInv, WindowsDoNotOverlap, NEW t \in WindowCallers,
           CompleteEmpty(t) \/ CloseWindow(t), NEW c \in CycleIds, c = task[t].cur,
           cycle'[c].kind \in RollingKinds, cycle'[c].status = "success", NEW f \in Folders
    PROVE  /\ item'[c][f].status # "running"
           /\ item'[c][f].status \in PendingStatuses => item'[c][f].attempts >= MaxAttempts
<1>1. /\ t \in Tasks /\ up /\ task[t].pc \in WorkPoints \ ItemPoints /\ UNCHANGED item
  BY DEF CompleteEmpty, CloseWindow, At, WorkPoints, LockedPoints, ItemPoints, Tasks
<1>2. lock = t /\ IsActive(c) /\ item[c][f] \in ItemRow /\ task[t].hit \in BOOLEAN
  BY <1>1, WorkFacts, TaskFacts, TasksAssumption DEF WorkOK, TaskState
<1>3. Eligible(c) = {}
  <2>1. CASE CompleteEmpty(t)
    BY <2>1 DEF CompleteEmpty
  <2>2. CASE CloseWindow(t)
    <3>1. cycle'[c].status = ClosingStatus(t, WindowsAfter(t))
      BY <2>2 DEF CloseWindow, IInv, TypeOK, CycleRow
    <3> QED
      BY <1>2, <3>1 DEF ClosingStatus
  <2> QED
    BY <2>1, <2>2
<1>4. ~Unwinding
  BY <1>1, NobodyUnwinds DEF WorkPoints
<1>5. item[c][f].status # "running"
  <2>1. \A u \in WindowCallers : ~Scanning(u, c, f)
    BY <1>1, <1>2 DEF Scanning, ItemPoints
  <2> QED
    BY <1>1, <1>2, <1>4, <2>1 DEF WorkInv, NoOrphanItem, IsActive
<1>6. f \notin Eligible(c)
  BY <1>3
<1> QED
  BY <1>1, <1>2, <1>5, <1>6, BoundsAssumption DEF Eligible, ItemRow

LEMMA DrainStep ==
    ASSUME WindowsDoNotOverlap, IInv, WorkInv, DrainInv, [Next]_vars
    PROVE  DrainInv'
<1>1. ASSUME NEW c \in CycleIds, cycle'[c].kind \in RollingKinds, cycle'[c].status = "success",
             NEW f \in Folders
      PROVE  /\ item'[c][f].status # "running"
             /\ item'[c][f].status \in PendingStatuses => item'[c][f].attempts >= MaxAttempts
  <2>1. latest \in Int /\ c \in Int
    BY BoundsAssumption DEF IInv, TypeOK, CycleIds
  <2>2. c <= latest
    BY <1>1, <2>1, NewRow
  <2>3. cycle[c].kind \in RollingKinds
    BY <1>1, <2>2, OldRow
  <2>4. CASE cycle[c].status = "success"
    BY <2>2, <2>3, <2>4, SuccessKept DEF DrainInv, SuccessIsDrained
  <2>5. CASE \E t \in WindowCallers : (CompleteEmpty(t) \/ CloseWindow(t)) /\ task[t].cur = c
    BY <1>1, <2>5, CompletionDrains
  <2> QED
    BY <1>1, <2>2, <2>3, <2>4, <2>5, OldRow
<1> QED
  BY <1>1, UnwindingStep DEF DrainInv, SuccessIsDrained

LEMMA InitDrain == Init => DrainInv
<1> SUFFICES ASSUME Init PROVE DrainInv
  OBVIOUS
<1>1. ~Unwinding
  BY DEF Init, Unwinding, IdleTask, Tasks
<1>2. \A c \in CycleIds : cycle[c].status # "success"
  BY DEF Init, NoCycle
<1> QED
  BY <1>1, <1>2 DEF DrainInv, SuccessIsDrained

\* The success a cycle reports is real when windows do not overlap: no folder is
\* left that a further window would list, and none that a lost coroutine was
\* listing, after any crashes, exceptions and path synchronizations.
THEOREM SuccessMeansDrained ==
    ASSUME WindowsDoNotOverlap PROVE Spec => []SuccessIsDrained
<1>1. IInv /\ WorkInv /\ DrainInv /\ [Next]_vars => DrainInv'
  BY DrainStep
<1>2. Spec => []WorkInv
  BY InitWork, NextWork, Invariance, PTL DEF Spec
<1>3. Spec => []DrainInv
  BY <1>1, <1>2, InitDrain, Invariance, PTL DEF Spec
<1>4. DrainInv => SuccessIsDrained
  BY DEF DrainInv
<1> QED
  BY <1>3, <1>4, PTL

-----------------------------------------------------------------------------
(* The last window of a cycle *)

\* Verified and superseded items of a rolling cycle have been tried; so has the
\* item of a window that has its failure to settle.
EndedIsTried ==
    \A c \in CycleIds, f \in Folders :
        cycle[c].kind \in RollingKinds /\ item[c][f].status \in {"success", "superseded"} =>
            item[c][f].attempts > 0
SettledIsTried ==
    \A t \in WindowCallers : task[t].pc \in {"tripping", "settling"} =>
        item[task[t].cur][task[t].at].attempts > 0

\* The window that counts as the last one has still to try what was planned with
\* the cycle and not tried yet.
PlannedFirst(i) == i.status # "none" /\ i.priority = 0
Windowing(t) == task[t].pc \in WorkPoints \ {"planning"}
LastTakesAll ==
    \A t \in WindowCallers : Windowing(t) /\ cycle[task[t].cur].windows + 1 = WindowsTotal =>
        \A f \in Folders : PlannedFirst(item[task[t].cur][f]) =>
            item[task[t].cur][f].attempts > 0 \/ f \in task[t].todo

ReachInv == LastWindowReachesAll /\ EndedIsTried /\ SettledIsTried /\ LastTakesAll

\* A tried item stays tried, and nothing is planned later.
LEMMA TriedStays ==
    ASSUME IInv, IInv', NEW c \in CycleIds, NEW f \in Folders, Grows(c, f)
    PROVE  /\ item[c][f].attempts > 0 /\ item[c][f].status # "none" => item'[c][f].attempts > 0
           /\ PlannedFirst(item'[c][f]) => PlannedFirst(item[c][f])
<1>1. item[c][f].attempts \in Nat /\ item'[c][f].attempts \in Nat
  BY DEF IInv, TypeOK, ItemRow
<1>2. item'[c][f] = QueuedItem(100) => ~PlannedFirst(item'[c][f])
  BY DEF QueuedItem, PlannedFirst
<1> QED
  BY <1>1, <1>2 DEF Grows, PlannedFirst

\* The last window's quota is everything that is left ...
LEMMA LastQuota ==
    ASSUME NEW r \in Nat, NEW w \in Nat, w + 1 = WindowsTotal
    PROVE  WindowTarget(r, w) = r
<1>1. WindowsTotal > w /\ WindowsTotal - w = 1
  OBVIOUS
<1>2. WindowTarget(r, w) = (r + 1 - 1) \div 1
  BY <1>1 DEF WindowTarget
<1> QED
  BY <1>2

\* ... so that it selects every eligible item.
LEMMA FullSelection ==
    ASSUME NEW c \in CycleIds, NEW w \in Nat, w + 1 = WindowsTotal,
           NEW S \in Selections(c, WindowTarget(Cardinality(Eligible(c)), w))
    PROVE  S = Eligible(c)
<1>1. IsFiniteSet(Eligible(c)) /\ Cardinality(Eligible(c)) \in Nat
  BY FoldersAssumption, FS_Subset, FS_CardinalityType DEF Eligible
<1>2. S \in SUBSET Eligible(c) /\ Cardinality(S) = Cardinality(Eligible(c))
  BY <1>1, LastQuota DEF Selections
<1> QED
  BY <1>1, <1>2, FS_Subset

\* A window on its way: what it takes off its selection has been tried.
Advances(t) ==
    /\ Windowing(t) /\ task'[t].cur = task[t].cur
    /\ \/ task'[t].todo = task[t].todo
       \/ /\ task'[t].todo = task[t].todo \ {task[t].at}
          /\ item'[task[t].cur][task[t].at].attempts > 0
    /\ task'[t].pc \in {"tripping", "settling"} =>
          item'[task'[t].cur][task'[t].at].attempts > 0

\* It is done with its item ...
LEMMA OutcomeAdvances ==
    ASSUME IInv, NEW t \in WindowCallers, task[t].pc \in ItemPoints,
           NEW p \in {"looping", "closing"}, DoneWithItem(t, p),
           item'[task[t].cur][task[t].at].attempts > 0
    PROVE  Advances(t)
<1> DEFINE r == [task[t] EXCEPT !.pc = p, !.todo = @ \ {task[t].at}, !.at = NoFolder]
<1>1. t \in Tasks /\ task[t] \in TaskState
  BY TaskFacts DEF Tasks
<1>2. /\ r.pc = p /\ r.todo = task[t].todo \ {task[t].at} /\ r.cur = task[t].cur
      /\ Become(t, r)
  BY <1>1 DEF TaskState, DoneWithItem
<1> HIDE DEF r
<1>3. task'[t] = r
  BY <1>1, <1>2, Others
<1> QED
  BY <1>2, <1>3 DEF Advances, Windowing, ItemPoints, WorkPoints, LockedPoints

\* ... or stays with its selection.
LEMMA StayingAdvances ==
    ASSUME IInv, NEW t \in WindowCallers, Windowing(t), NEW r, Become(t, r),
           r.cur = task[t].cur, r.todo = task[t].todo,
           r.pc \in {"tripping", "settling"} => item'[r.cur][r.at].attempts > 0
    PROVE  Advances(t)
<1>1. t \in Tasks
  BY DEF Tasks
<1>2. task'[t] = r
  BY <1>1, Others
<1> QED
  BY <1>2 DEF Advances

LEMMA ScanAdvances ==
    ASSUME IInv, SettledIsTried, NEW t \in WindowCallers,
           ScanVerified(t) \/ ScanSuperseded(t) \/ SettleItem(t)
    PROVE  Advances(t)
<1> DEFINE c == task[t].cur
           g == task[t].at
<1>1. t \in Tasks /\ task[t].pc \in ItemPoints
  BY DEF ScanVerified, ScanSuperseded, SettleItem, At, ItemPoints, Tasks
<1>2. /\ c \in CycleIds /\ g \in Folders /\ item[c][g] \in ItemRow
      /\ WorkOK(t) /\ g \in task[t].todo
  BY <1>1, WorkFacts DEF ItemPoints, WorkPoints, LockedPoints
<1>3. item[c][g].attempts \in Nat /\ item[c][g].status # "none"
  BY <1>2 DEF ItemRow, WorkOK, OpenStatuses, PendingStatuses
<1>4. CASE ScanVerified(t)
  <2> DEFINE R == Recorded(t, "success", 1)
  <2>1. "success" \in ItemStatuses /\ 1 \in {0, 1}
    BY DEF ItemStatuses
  <2>2. R[c][g].attempts = item[c][g].attempts + 1 /\ R \in [CycleIds -> [Folders -> ItemRow]]
    BY <1>1, <2>1, RecordedRows
  <2>3. PICK listed \in SUBSET Children(g), unchanged \in BOOLEAN :
           item' = [R EXCEPT ![c] =
              [k \in Folders |-> IF ~unchanged /\ k \in listed \cap NoItemYet(t)
                                 THEN QueuedItem(100) ELSE @[k]]]
    BY <1>4 DEF ScanVerified
  <2>4. g \notin NoItemYet(t)
    BY <1>3 DEF NoItemYet
  <2> HIDE DEF R
  <2>5. item'[c][g] = R[c][g]
    BY <1>2, <2>2, <2>3, <2>4
  <2>6. item'[c][g].attempts > 0
    BY <1>3, <2>2, <2>5
  <2>7. DoneWithItem(t, "looping")
    BY <1>4 DEF ScanVerified
  <2> QED
    BY <1>1, <2>6, <2>7, OutcomeAdvances
<1>5. CASE ScanSuperseded(t)
  <2>1. "superseded" \in ItemStatuses /\ 1 \in {0, 1}
    BY DEF ItemStatuses
  <2>2. item' = Recorded(t, "superseded", 1) /\ DoneWithItem(t, "looping")
    BY <1>5 DEF ScanSuperseded
  <2>3. item'[c][g].attempts > 0
    BY <1>1, <1>3, <2>1, <2>2, RecordedRows
  <2> QED
    BY <1>1, <2>2, <2>3, OutcomeAdvances
<1>6. CASE SettleItem(t)
  <2> DEFINE p == IF task[t].hit THEN "closing" ELSE "looping"
             s == IF task[t].hit THEN "pending" ELSE "failed"
  <2>1. /\ s \in ItemStatuses /\ 0 \in {0, 1} /\ item' = Recorded(t, s, 0)
        /\ DoneWithItem(t, p) /\ p \in {"looping", "closing"}
        /\ task[t].pc = "settling"
    BY <1>6 DEF SettleItem, ItemStatuses, PendingStatuses, At
  <2> HIDE DEF p, s
  <2>2. item'[c][g].attempts = item[c][g].attempts + 0
    BY <1>1, <2>1, RecordedRows
  <2>3. item[c][g].attempts > 0
    BY <2>1 DEF SettledIsTried
  <2>4. item'[c][g].attempts > 0
    BY <1>3, <2>2, <2>3
  <2> QED
    BY <1>1, <2>1, <2>4, OutcomeAdvances
<1> QED
  BY <1>4, <1>5, <1>6

LEMMA AttemptAdvances ==
    ASSUME IInv, NEW t \in WindowCallers, ScanFailed(t) \/ ScanRestricted(t)
    PROVE  Advances(t)
<1> DEFINE c == task[t].cur
           g == task[t].at
           s == CurrentStatus(t)
<1>1. /\ t \in Tasks /\ task[t].pc \in ItemPoints /\ Windowing(t)
      /\ item' = Recorded(t, s, 1) /\ 1 \in {0, 1}
  BY DEF ScanFailed, ScanRestricted, At, ItemPoints, Tasks, Windowing, WorkPoints, LockedPoints
<1>2. item[c][g] \in ItemRow /\ task[t] \in TaskState
  BY <1>1, WorkFacts, TaskFacts DEF ItemPoints, WorkPoints, LockedPoints
<1>3. s \in ItemStatuses
  BY <1>2 DEF CurrentStatus, ItemRow
<1> HIDE DEF s
<1>4. item'[c][g].attempts = item[c][g].attempts + 1
  BY <1>1, <1>3, RecordedRows
<1>5. item'[c][g].attempts > 0
  BY <1>2, <1>4 DEF ItemRow
<1>6. PICK r : /\ Become(t, r)
               /\ r \in {[task[t] EXCEPT !.tries = 1], [task[t] EXCEPT !.pc = "settling"],
                         [task[t] EXCEPT !.pc = "tripping"]}
  BY DEF ScanFailed, ScanRestricted, Goto
<1>7. r.cur = c /\ r.todo = task[t].todo /\ r.at = g
  BY <1>2, <1>6 DEF TaskState
<1> QED
  BY <1>1, <1>5, <1>6, <1>7, StayingAdvances

\* Where a window is after a step of its own.
LEMMA WindowMoves ==
    ASSUME IInv, SettledIsTried, NEW t \in WindowCallers,
           WindowStep(t) \/ Raise(t) \/ RaiseMigration(t)
    PROVE  ~Windowing(t)' \/ PlanWindow(t) \/ Advances(t)
<1>1. t \in Tasks /\ task[t] \in TaskState
  BY TaskFacts DEF Tasks
<1>2. ASSUME NEW r, Become(t, r), r.pc \notin WorkPoints \ {"planning"}
      PROVE  ~Windowing(t)'
  BY <1>1, <1>2, Others DEF Windowing
<1>12. CASE CreatorStep(t) \/ InsertCycle(t) \/ FindNoCycle(t)
  BY <1>1, <1>12, CreatorGoes DEF Windowing, CreatorPoints, WorkPoints, LockedPoints
<1>3. CASE Call(t)
  <2>1. Become(t, [task[t] EXCEPT !.pc = "checked", !.now = now])
    BY <1>3 DEF Call
  <2>2. [task[t] EXCEPT !.pc = "checked", !.now = now].pc = "checked"
    BY <1>1 DEF TaskState
  <2> QED
    BY <1>2, <2>1, <2>2 DEF WorkPoints, LockedPoints
<1>4. CASE CheckCircuit(t)
  <2> DEFINE r == IF circuit THEN IdleTask ELSE [task[t] EXCEPT !.pc = "waiting"]
  <2>1. r.pc \in {"idle", "waiting"} /\ Become(t, r)
    BY <1>1, <1>4 DEF CheckCircuit, TaskState, IdleTask
  <2> HIDE DEF r
  <2> QED
    BY <1>2, <2>1 DEF WorkPoints, LockedPoints
<1>5. CASE Acquire(t) \/ FinalizeFailedWindow(t)
  <2>1. PICK p \in {"owner", "idle"} : Become(t, [task[t] EXCEPT !.pc = p])
    BY <1>5 DEF Acquire, FinalizeFailedWindow, Goto
  <2>2. [task[t] EXCEPT !.pc = p].pc = p
    BY <1>1 DEF TaskState
  <2> QED
    BY <1>2, <2>1, <2>2 DEF WorkPoints, LockedPoints
<1>6. CASE Raise(t)
  <2>1. Become(t, [IdleTask EXCEPT !.pc = "unwinding"])
    BY <1>6 DEF Raise
  <2>2. [IdleTask EXCEPT !.pc = "unwinding"].pc = "unwinding"
    BY DEF IdleTask
  <2> QED
    BY <1>2, <2>1, <2>2 DEF WorkPoints, LockedPoints
<1>7. CASE CycleNotDue(t) \/ WindowNotDue(t) \/ CompleteEmpty(t) \/ CloseWindow(t)
  <2>1. Become(t, IdleTask)
    BY <1>7 DEF CycleNotDue, WindowNotDue, CompleteEmpty, CloseWindow, Return
  <2> QED
    BY <1>2, <2>1 DEF IdleTask, WorkPoints, LockedPoints
<1>8. CASE ReuseCycle(t)
  <2>1. PICK c : Become(t, [task[t] EXCEPT !.pc = "planning", !.cur = c])
    BY <1>8 DEF ReuseCycle
  <2>2. [task[t] EXCEPT !.pc = "planning", !.cur = c].pc = "planning"
    BY <1>1 DEF TaskState
  <2> QED
    BY <1>2, <2>1, <2>2
<1>9. CASE Connect(t)
  <2>1. /\ Windowing(t) /\ Become(t, [task[t] EXCEPT !.pc = "looping"])
    BY <1>9 DEF Connect, Goto, At, Windowing, WorkPoints, LockedPoints
  <2> DEFINE r == [task[t] EXCEPT !.pc = "looping"]
  <2>2. r.pc = "looping" /\ r.cur = task[t].cur /\ r.todo = task[t].todo
    BY <1>1 DEF TaskState
  <2> HIDE DEF r
  <2> QED
    BY <2>1, <2>2, StayingAdvances DEF r
<1>10. CASE StartItem(t)
  <2>1. PICK f : Become(t, [task[t] EXCEPT !.pc = "scanning", !.at = f, !.tries = 0])
    BY <1>10 DEF StartItem
  <2> DEFINE r == [task[t] EXCEPT !.pc = "scanning", !.at = f, !.tries = 0]
  <2>2. r.pc = "scanning" /\ r.cur = task[t].cur /\ r.todo = task[t].todo
    BY <1>1 DEF TaskState
  <2>3. Windowing(t)
    BY <1>10 DEF StartItem, At, Windowing, WorkPoints, LockedPoints
  <2>4. Become(t, r)
    BY <2>1
  <2> HIDE DEF r
  <2> QED
    BY <2>2, <2>3, <2>4, StayingAdvances
<1>11. CASE OpenCircuit(t)
  <2> DEFINE r == [task[t] EXCEPT !.pc = "settling", !.hit = TRUE]
  <2>1. task[t].pc = "tripping" /\ Windowing(t) /\ Become(t, r) /\ UNCHANGED item
    BY <1>11 DEF OpenCircuit, At, Windowing, WorkPoints, LockedPoints
  <2>2. r.cur = task[t].cur /\ r.todo = task[t].todo /\ r.at = task[t].at
    BY <1>1 DEF TaskState
  <2> HIDE DEF r
  <2>3. item'[r.cur][r.at].attempts > 0
    BY <2>1, <2>2 DEF SettledIsTried
  <2> QED
    BY <2>1, <2>2, <2>3, StayingAdvances
<1> QED
  BY <1>3, <1>7, <1>8, <1>9, <1>10, <1>11, <1>12, <1>4, <1>5, <1>6, ScanAdvances, AttemptAdvances
     DEF WindowStep, CreatorStep

LEMMA WindowOthers ==
    ASSUME IInv, NEW t \in WindowCallers, WindowStep(t) \/ Raise(t) \/ RaiseMigration(t)
    PROVE  OthersStay(t)
<1>1. t \in Tasks /\ task \in [Tasks -> TaskState]
  BY DEF IInv, TypeOK, Tasks
<1>2. \A r : Become(t, r) => OthersStay(t)
  BY <1>1, Others
<1>3. \E r : Become(t, r)
  BY DEF WindowStep, CallMigration, CallRecovery, SeedRoots, SeekCycle, InsertCycle, EnableEngine,
         FindLock, FindNoCycle, RaiseMigration, Call, CheckCircuit, Acquire, ReuseCycle, CycleNotDue,
         WindowNotDue, CompleteEmpty, PlanWindow, Connect, StartItem, ScanVerified, ScanSuperseded,
         ScanFailed, ScanRestricted, OpenCircuit, SettleItem, CloseWindow, FinalizeFailedWindow,
         Raise, Goto, Return, DoneWithItem
<1> QED
  BY <1>2, <1>3

\* Where a window is after any step.
LEMMA AnyMoves ==
    ASSUME IInv, SettledIsTried, [Next]_vars, NEW u \in WindowCallers, Windowing(u)'
    PROVE  PlanWindow(u) \/ Advances(u) \/ (Windowing(u) /\ task'[u] = task[u])
<1>1. u \in Tasks /\ PathTask \in Tasks /\ u # PathTask /\ task \in [Tasks -> TaskState]
  BY TasksAssumption DEF IInv, TypeOK, Tasks
<1>2. task'[u] = task[u] => Windowing(u)
  BY DEF Windowing
<1>3. ASSUME NEW t \in WindowCallers, WindowStep(t) \/ Raise(t) \/ RaiseMigration(t)
      PROVE  PlanWindow(u) \/ Advances(u) \/ task'[u] = task[u]
  <2>1. CASE t = u
    BY <1>3, <2>1, WindowMoves
  <2>2. CASE t # u
    BY <1>1, <1>3, <2>2, WindowOthers DEF OthersStay
  <2> QED
    BY <2>1, <2>2
<1>4. CASE PathStep \/ RaisePathSync
  <2>1. OthersStay(PathTask)
    BY <1>1, <1>4
       DEF PathStep, ReservePathSync, Acquire, PlanPathSync, RejectPathSync, Connect, PathStartItem,
           PathScan, ClosePathSync, RaisePathSync, Goto, Return, DoneWithItem, Become, OthersStay
  <2> QED
    BY <1>1, <1>2, <2>1 DEF OthersStay
<1>5. CASE Crash
  BY <1>1, <1>5 DEF Crash, Windowing, IdleTask, WorkPoints, LockedPoints
<1>6. CASE UNCHANGED task
  BY <1>2, <1>6
<1> QED
  BY <1>2, <1>3, <1>4, <1>5, <1>6
     DEF Next, Restart, RestartWithCycle, Tick, CircuitExpires, vars

\* Facts about a window at work.
LEMMA WindowingFacts ==
    ASSUME IInv, NEW u \in WindowCallers, Windowing(u)
    PROVE  /\ u \in Tasks /\ lock = u /\ WorkOK(u)
           /\ task[u].cur \in CycleIds /\ task[u].cur <= latest
           /\ cycle[task[u].cur].kind \in RollingKinds
           /\ task[u].todo \in SUBSET Folders
           /\ task[u].pc \in ItemPoints => /\ task[u].at \in Folders
                                           /\ item[task[u].cur][task[u].at].status # "none"
<1>1. u \in Tasks /\ u # PathTask /\ task[u].pc \in WorkPoints
  BY TasksAssumption DEF Tasks, Windowing
<1>2. /\ lock = u /\ WorkOK(u) /\ task[u].cur \in CycleIds /\ task[u].cur \in 1..latest
      /\ task[u].todo \in SUBSET Folders
  BY <1>1, WorkFacts
<1>3. task[u].cur <= latest /\ latest \in Int
  BY <1>2, BoundsAssumption DEF IInv, TypeOK, CycleIds
<1> QED
  BY <1>1, <1>2, <1>3 DEF WorkOK, IsActive, OpenStatuses, PendingStatuses

LEMMA EndedStep ==
    ASSUME IInv, EndedIsTried, [Next]_vars PROVE EndedIsTried'
<1> SUFFICES ASSUME NEW c \in CycleIds, NEW f \in Folders, cycle'[c].kind \in RollingKinds,
                    item'[c][f].status \in {"success", "superseded"}
             PROVE  item'[c][f].attempts > 0
  BY DEF EndedIsTried
<1>1. latest \in Int /\ c \in Int
  BY BoundsAssumption DEF IInv, TypeOK, CycleIds
<1>2. c <= latest
  BY <1>1, NewRow DEF QueuedItem, NoItem
<1>3. cycle[c].kind \in RollingKinds /\ Grows(c, f)
  BY <1>2, OldRow, ItemsStep DEF Touched
<1>4. item'[c][f] # QueuedItem(100)
  BY DEF QueuedItem
<1> QED
  BY <1>3, <1>4 DEF Grows, EndedIsTried

LEMMA SettledStep ==
    ASSUME IInv, SettledIsTried, [Next]_vars PROVE SettledIsTried'
<1> SUFFICES ASSUME NEW t \in WindowCallers, task'[t].pc \in {"tripping", "settling"}
             PROVE  item'[task'[t].cur][task'[t].at].attempts > 0
  BY DEF SettledIsTried
<1>1. Windowing(t)'
  BY DEF Windowing, WorkPoints, LockedPoints
<1>2. CASE PlanWindow(t)
  <2>1. PICK S : Become(t, [task[t] EXCEPT !.pc = "connecting", !.todo = S])
    BY <1>2 DEF PlanWindow
  <2>2. t \in Tasks /\ task[t] \in TaskState
    BY TaskFacts DEF Tasks
  <2>3. task'[t] = [task[t] EXCEPT !.pc = "connecting", !.todo = S]
    BY <2>1, <2>2, Others
  <2> QED
    BY <2>2, <2>3 DEF TaskState
<1>3. CASE Advances(t)
  BY <1>3 DEF Advances
<1>4. CASE Windowing(t) /\ task'[t] = task[t]
  <2>1. /\ task[t].cur \in CycleIds /\ task[t].at \in Folders /\ task[t].cur <= latest
        /\ item[task[t].cur][task[t].at].status # "none"
    BY <1>4, WindowingFacts DEF ItemPoints
  <2>2. item[task[t].cur][task[t].at].attempts > 0
    BY <1>4 DEF SettledIsTried
  <2>3. Grows(task[t].cur, task[t].at)
    BY <2>1, ItemsStep DEF Touched
  <2> QED
    BY <1>4, <2>1, <2>2, <2>3, NextKeepsIInv, TriedStays
<1> QED
  BY <1>1, <1>2, <1>3, <1>4, AnyMoves

\* The window that makes the count full has selected everything that was left.
LEMMA PlanTakesAll ==
    ASSUME WindowsDoNotOverlap, IInv, WorkInv, DrainInv, EndedIsTried,
           NEW t \in WindowCallers, PlanWindow(t),
           NEW c \in CycleIds, c = task[t].cur, cycle[c].windows + 1 = WindowsTotal
    PROVE  /\ task'[t].cur = c
           /\ \A f \in Folders : PlannedFirst(item[c][f]) =>
                 item[c][f].attempts > 0 \/ f \in task'[t].todo
<1>1. /\ t \in Tasks /\ up /\ task[t].pc = "planning" /\ task[t].pc \in WorkPoints
      /\ task[t].pc \notin ItemPoints
  BY DEF PlanWindow, At, Tasks, WorkPoints, LockedPoints, ItemPoints
<1>2. lock = t /\ IsActive(c) /\ task[t] \in TaskState /\ cycle[c].windows \in Nat
  BY <1>1, WorkFacts, TaskFacts, TasksAssumption, BoundsAssumption DEF WorkOK, IInv, TypeOK, CycleRow
<1>3. PICK S \in Selections(c, WindowTarget(Cardinality(Eligible(c)), cycle[c].windows)) :
         Become(t, [task[t] EXCEPT !.pc = "connecting", !.todo = S])
  BY DEF PlanWindow
<1>4. S = Eligible(c)
  BY <1>2, FullSelection
<1>5. task'[t].cur = c /\ task'[t].todo = Eligible(c)
  <2>1. task'[t] = [task[t] EXCEPT !.pc = "connecting", !.todo = S]
    BY <1>1, <1>3, Others
  <2> QED
    BY <1>2, <1>4, <2>1 DEF TaskState
<1>6. ~Unwinding
  BY <1>1, NobodyUnwinds DEF WorkPoints
<1>7. ASSUME NEW f \in Folders, PlannedFirst(item[c][f]), ~(item[c][f].attempts > 0)
      PROVE  f \in Eligible(c)
  <2>1. item[c][f] \in ItemRow
    BY DEF IInv, TypeOK
  <2>2. item[c][f].attempts = 0
    BY <1>7, <2>1 DEF ItemRow
  <2>3. item[c][f].status # "running"
    <3>1. \A u \in WindowCallers : ~Scanning(u, c, f)
      BY <1>1, <1>2 DEF Scanning, ItemPoints
    <3> QED
      BY <1>1, <1>2, <1>6, <3>1 DEF WorkInv, NoOrphanItem, IsActive
  <2>4. item[c][f].status \notin {"success", "superseded", "none"}
    BY <1>2, <1>7 DEF EndedIsTried, IsActive, PlannedFirst
  <2>5. item[c][f].status \in PendingStatuses
    BY <2>1, <2>3, <2>4 DEF ItemRow, ItemStatuses
  <2> QED
    BY <2>2, <2>5, BoundsAssumption DEF Eligible
<1> QED
  BY <1>5, <1>7

LEMMA TakesAllStep ==
    ASSUME WindowsDoNotOverlap, IInv, WorkInv, DrainInv, ReachInv, [Next]_vars
    PROVE  LastTakesAll'
<1> SUFFICES ASSUME NEW u \in WindowCallers, Windowing(u)',
                    cycle'[task'[u].cur].windows + 1 = WindowsTotal,
                    NEW f \in Folders, PlannedFirst(item'[task'[u].cur][f])
             PROVE  item'[task'[u].cur][f].attempts > 0 \/ f \in task'[u].todo
  BY DEF LastTakesAll, Windowing
<1>1. IInv' /\ SettledIsTried /\ LastTakesAll /\ EndedIsTried
  BY NextKeepsIInv DEF ReachInv
<1>2. CASE PlanWindow(u)
  <2>1. u \in Tasks /\ task[u].pc \in WorkPoints /\ UNCHANGED item
    BY <1>2 DEF PlanWindow, At, Tasks, WorkPoints, LockedPoints
  <2>2. PICK c \in CycleIds : c = task[u].cur
    BY <2>1, WorkFacts
  <2>3. PICK S : Become(u, [task[u] EXCEPT !.pc = "connecting", !.todo = S])
    BY <1>2 DEF PlanWindow
  <2>4. task'[u].cur = c
    <3>1. task[u] \in TaskState /\ task'[u] = [task[u] EXCEPT !.pc = "connecting", !.todo = S]
      BY <2>1, <2>3, TaskFacts, Others
    <3> QED
      BY <2>2, <3>1 DEF TaskState
  <2>5. cycle'[c].windows = cycle[c].windows
    <3>1. cycle' = [cycle EXCEPT ![c] = [@ EXCEPT !.status = "running"]]
          /\ cycle \in [CycleIds -> CycleRow]
      BY <1>2, <2>2 DEF PlanWindow, IInv, TypeOK
    <3> QED
      BY <3>1, StatusOnly
  <2> QED
    BY <1>1, <1>2, <2>1, <2>2, <2>4, <2>5, PlanTakesAll
<1>3. CASE Windowing(u) /\ task'[u].cur = task[u].cur
           /\ \/ task'[u].todo = task[u].todo
              \/ /\ task'[u].todo = task[u].todo \ {task[u].at}
                 /\ item'[task[u].cur][task[u].at].attempts > 0
  <2>1. PICK c \in CycleIds : c = task[u].cur
    BY <1>3, WindowingFacts
  <2>2. lock = u /\ c <= latest /\ u \in Tasks
    BY <1>3, <2>1, WindowingFacts
  <2>3. cycle'[c].windows = cycle[c].windows
    <3>1. ASSUME cycle'[c].windows # cycle[c].windows PROVE FALSE
      <4>1. cycle' # cycle /\ Next
        BY <3>1 DEF vars
      <4>2. PICK v \in WindowCallers : CloseWindow(v) /\ task[v].cur = c
        BY <3>1, <4>1, CountChanges
      <4>3. v \in Tasks /\ task[v].pc \in LockedPoints
        BY <4>2 DEF CloseWindow, At, LockedPoints, Tasks
      <4>4. v = u
        BY <2>2, <4>3, TaskFacts
      <4>5. task'[u] = IdleTask
        BY <2>2, <4>2, <4>4, TaskFacts DEF CloseWindow, Return, Become
      <4> QED
        BY <4>5 DEF Windowing, IdleTask, WorkPoints, LockedPoints
    <3> QED
      BY <3>1
  <2>4. /\ item[c][f].attempts > 0 /\ item[c][f].status # "none" => item'[c][f].attempts > 0
        /\ PlannedFirst(item'[c][f]) => PlannedFirst(item[c][f])
    BY <1>1, <2>2, ItemsStep, TriedStays DEF Touched
  <2>5. item[c][f].attempts > 0 \/ f \in task[u].todo
    BY <1>1, <1>3, <2>1, <2>3, <2>4 DEF LastTakesAll
  <2> QED
    BY <1>3, <2>1, <2>4, <2>5 DEF PlannedFirst
<1>4. PlanWindow(u) \/ Advances(u) \/ (Windowing(u) /\ task'[u] = task[u])
  BY <1>1, AnyMoves
<1> QED
  BY <1>2, <1>3, <1>4 DEF Advances

LEMMA ReachesStep ==
    ASSUME IInv, ReachInv, [Next]_vars PROVE LastWindowReachesAll'
<1> SUFFICES ASSUME NEW c \in CycleIds, cycle'[c].windows = WindowsTotal,
                    NEW f \in Folders, PlannedFirst(item'[c][f])
             PROVE  item'[c][f].attempts > 0
  BY DEF LastWindowReachesAll, PlannedFirst
<1>1. latest \in Int /\ c \in Int /\ IInv'
  BY NextKeepsIInv, BoundsAssumption DEF IInv, TypeOK, CycleIds
<1>2. c <= latest
  BY <1>1, NewRow, BoundsAssumption
<1>3. /\ item[c][f].attempts > 0 /\ item[c][f].status # "none" => item'[c][f].attempts > 0
      /\ PlannedFirst(item'[c][f]) => PlannedFirst(item[c][f])
  BY <1>1, <1>2, ItemsStep, TriedStays DEF Touched
<1>4. CASE cycle[c].windows = WindowsTotal
  BY <1>3, <1>4 DEF ReachInv, LastWindowReachesAll, PlannedFirst
<1>5. CASE cycle[c].windows # WindowsTotal
  <2>1. cycle'[c].windows # cycle[c].windows
    BY <1>5
  <2>2. cycle' # cycle /\ Next
    BY <2>1 DEF vars
  <2>3. PICK t \in WindowCallers : CloseWindow(t) /\ task[t].cur = c
    BY <2>1, <2>2, CountChanges
  <2>4. cycle \in [CycleIds -> CycleRow] /\ t \in Tasks
    BY DEF IInv, TypeOK, Tasks
  <2>5. cycle'[c].windows = WindowsAfter(t)
    BY <2>3, <2>4 DEF CloseWindow, CycleRow
  <2>6. ~task[t].hit /\ cycle[c].windows + 1 = WindowsTotal
    BY <2>1, <2>3, <2>5 DEF WindowsAfter
  <2>7. task[t].pc = "looping" /\ task[t].todo = {} /\ UNCHANGED item
    BY <2>3, <2>4, <2>6, TaskFacts DEF CloseWindow, At, TaskOK
  <2>8. Windowing(t)
    BY <2>7 DEF Windowing, WorkPoints, LockedPoints
  <2> QED
    BY <2>3, <2>6, <2>7, <2>8 DEF ReachInv, LastTakesAll
<1> QED
  BY <1>4, <1>5

LEMMA InitReach == Init => ReachInv
<1> SUFFICES ASSUME Init PROVE ReachInv
  OBVIOUS
<1>1. \A c \in CycleIds : cycle[c].windows = 0
  BY DEF Init, NoCycle
<1>2. \A c \in CycleIds, f \in Folders : item[c][f].status \in {"pending", "none"}
  BY DEF Init, QueuedItem, NoItem
<1>3. \A t \in WindowCallers : task[t].pc = "idle"
  BY DEF Init, IdleTask, Tasks
<1> QED
  BY <1>1, <1>2, <1>3, BoundsAssumption
     DEF ReachInv, LastWindowReachesAll, EndedIsTried, SettledIsTried, LastTakesAll, Windowing,
         WorkPoints, LockedPoints

\* The quotas of a cycle's windows leave no remainder when windows do not
\* overlap: with the last one counted, every folder planned with the cycle has
\* been listed at least once, however often it was interrupted on the way.
THEOREM LastWindowLeavesNone ==
    ASSUME WindowsDoNotOverlap PROVE Spec => []LastWindowReachesAll
<1>1. IInv /\ WorkInv /\ DrainInv /\ ReachInv /\ [Next]_vars => ReachInv'
  BY TakesAllStep, ReachesStep, EndedStep, SettledStep DEF ReachInv
<1>2. IInv /\ WorkInv /\ DrainInv /\ [Next]_vars => DrainInv'
  BY DrainStep
<1>3. Spec => []WorkInv
  BY InitWork, NextWork, Invariance, PTL DEF Spec
<1>4. Spec => []DrainInv
  BY <1>2, <1>3, InitDrain, Invariance, PTL DEF Spec
<1>5. Spec => []ReachInv
  BY <1>1, <1>3, <1>4, InitReach, Invariance, PTL DEF Spec
<1>6. ReachInv => LastWindowReachesAll
  BY DEF ReachInv
<1> QED
  BY <1>5, <1>6, PTL

=============================================================================
