-------------------------- MODULE FirstIndexProofs --------------------------
(***************************************************************************)
(* Theorems about FirstIndex, for every set of roots, paths and tasks and   *)
(* every bound.  IInv of FirstIndex is the inductive invariant: one lemma   *)
(* per step of the program shows that the step preserves it.                *)
(***************************************************************************)
EXTENDS FirstIndex, TLAPS

-----------------------------------------------------------------------------
(* Facts about roots, points and runs *)

\* The roots of paths, and the place of a root in the order, are as declared.
LEMMA RootFacts ==
    /\ Len(Roots) \in Nat \ {0}
    /\ \A m, n \in 1..Len(Roots) : Roots[m] = Roots[n] => m = n
    /\ \A p \in Paths : AmongFirst(p, Len(Roots))
    /\ \A p \in Paths : ~AmongFirst(p, 0)
    /\ Confirm \in Nat \ {0}
    /\ Nobody \notin Tasks
  <1>1. Len(Roots) \in Nat /\ Len(Roots) > 0
    BY FirstIndexAssumption
  <1>2. \A p \in Paths : AmongFirst(p, Len(Roots))
    BY <1>1, FirstIndexAssumption DEF AmongFirst
  <1>3. QED
    BY <1>1, <1>2, FirstIndexAssumption DEF AmongFirst

\* A path among the first k roots is among the first k + 1, and the next root
\* adds its own paths.
LEMMA NextRoot ==
    ASSUME NEW k \in Nat, NEW p, k + 1 <= Len(Roots)
    PROVE  AmongFirst(p, k + 1) <=> AmongFirst(p, k) \/ Roots[k + 1] = RootOf[p]
  <1>1. k + 1 \in 1..Len(Roots)
    BY RootFacts
  <1>2. \A n \in 1..Len(Roots) : n <= k + 1 <=> n <= k \/ n = k + 1
    BY RootFacts
  <1>3. QED
    BY <1>1, <1>2 DEF AmongFirst

\* A path among the first k roots is not below the next one.
LEMMA EarlierRoot ==
    ASSUME NEW k \in Nat, NEW p, k + 1 <= Len(Roots), AmongFirst(p, k)
    PROVE  Roots[k + 1] # RootOf[p]
  <1>1. PICK n \in 1..Len(Roots) : n <= k /\ Roots[n] = RootOf[p]
    BY DEF AmongFirst
  <1>2. k + 1 \in 1..Len(Roots) /\ n # k + 1
    BY <1>1, RootFacts
  <1>3. QED
    BY <1>1, <1>2, RootFacts

LEMMA MoreRoots ==
    ASSUME NEW k \in Nat, NEW m \in Nat, k <= m, NEW p, AmongFirst(p, k)
    PROVE  AmongFirst(p, m)
  <1>1. \A n \in 1..Len(Roots) : n <= k => n <= m
    BY RootFacts
  <1>2. QED
    BY <1>1 DEF AmongFirst

\* Whoever is inside run_sync holds the lock and is the one Point speaks of.
LEMMA Inside ==
    ASSUME TypeOK, NEW t \in Tasks, at[t] \in Locked
    PROVE  lock = t /\ Point = at[t]
  <1>1. lock = t
    BY DEF TypeOK
  <1>2. QED
    BY <1>1 DEF Point

\* Points outside run_sync are none of those inside.
LEMMA Apart == Locked \cap Unlocked = {}
  BY DEF Locked, Unlocked

\* A task moves and nobody enters or leaves run_sync.
LEMMA MoveTypes ==
    ASSUME TypeOK, NEW t \in Tasks, NEW point, Goto(t, point), lock' = lock,
           \/ at[t] \in Locked /\ point \in Locked
           \/ at[t] \in Unlocked /\ point \in Unlocked
    PROVE  /\ at' \in [Tasks -> Locked \cup Unlocked]
           /\ \A u \in Tasks : at'[u] \in Locked <=> lock' = u
           /\ \A u \in Tasks : at'[u] = IF u = t THEN point ELSE at[u]
           /\ at[t] \in Unlocked => Point' = Point /\ (Point \notin Locked \/ lock # t)
           /\ at[t] \in Locked => Point' = point /\ Point = at[t]
  <1>1. at' = [at EXCEPT ![t] = point] /\ at \in [Tasks -> Locked \cup Unlocked]
    BY DEF Goto, TypeOK
  <1>2. \A u \in Tasks : at'[u] = IF u = t THEN point ELSE at[u]
    BY <1>1
  <1>3. \A u \in Tasks : at'[u] \in Locked <=> lock' = u
    BY <1>2, Apart DEF TypeOK
  <1>4. at[t] \in Unlocked => lock # t
    BY Apart DEF TypeOK
  <1>5. at[t] \in Unlocked => Point' = Point
    BY <1>2, <1>4 DEF Point
  <1>6. at[t] \in Locked => Point' = point /\ Point = at[t]
    <2>1. SUFFICES ASSUME at[t] \in Locked PROVE Point' = point /\ Point = at[t]
      OBVIOUS
    <2>2. lock = t
      BY <2>1 DEF TypeOK
    <2>3. QED
      BY <1>2, <2>2 DEF Point
  <1>7. at' \in [Tasks -> Locked \cup Unlocked]
    BY <1>1
  <1>8. QED
    BY <1>2, <1>3, <1>4, <1>5, <1>6, <1>7

\* The parts of the invariant about a run, its rows and its history.
RunOK == CountsOK /\ SeenOK /\ StreakOK

LEMMA RunKept ==
    ASSUME RunOK, UNCHANGED <<run, row, away>>, Point' = Point
    PROVE  RunOK'
  BY DEF RunOK, CountsOK, SeenOK, StreakOK, Listed, Handled, AmongFirst, PathsOf, NewRun

\* The local variables of run_sync disappear.
LEMMA RunGone ==
    ASSUME run' = NewRun, Point' \in {"idle", "scan", "folders"}
    PROVE  CountsOK' /\ SeenOK' /\ run' \in Run
  <1>1. run' \in Run
    BY RootFacts DEF NewRun, Run
  <1>2. run'.failed = 0 /\ run'.completed = 0 /\ run'.next = 1 /\ run'.seen = {}
    BY DEF NewRun
  <1>3. Listed' = 0 /\ Handled' = 0
    BY <1>2 DEF Listed, Handled
  <1>4. CountsOK'
    BY <1>2, <1>3 DEF CountsOK, NewRun
  <1>5. \A p \in Paths : ~AmongFirst(p, Handled')
    BY <1>3, RootFacts
  <1>6. SeenOK'
    BY <1>2, <1>5 DEF SeenOK, AmongFirst
  <1>7. QED
    BY <1>1, <1>4, <1>6

\* The local variables of run_path_sync at its start and while folders are scanned.
LEMMA NewJobTypes == NewJob \in Job
  BY FirstIndexAssumption DEF NewJob, Job

LEMMA JobTypes ==
    ASSUME TypeOK
    PROVE  /\ job.left \in 0..MaxFolders /\ MaxFolders \in Nat
           /\ job.done \subseteq Paths /\ job.deferred \subseteq Paths
           /\ job.completed \in BOOLEAN /\ job.failed \in BOOLEAN
  BY FirstIndexAssumption DEF TypeOK, Job

\* The bounds are kept.
LEMMA SpentTypes ==
    ASSUME TypeOK
    PROVE  /\ spent.changes < MaxChanges =>
                 [spent EXCEPT !.changes = spent.changes + 1] \in Bounds
           /\ spent.faults < MaxFaults =>
                 [spent EXCEPT !.faults = spent.faults + 1] \in Bounds
           /\ spent.paths < MaxPathRuns =>
                 [spent EXCEPT !.paths = spent.paths + 1] \in Bounds
  <1>1. MaxChanges \in Nat /\ MaxFaults \in Nat /\ MaxPathRuns \in Nat
    BY FirstIndexAssumption
  <1>2. spent \in Bounds
    BY DEF TypeOK
  <1>3. /\ spent.changes \in 0..MaxChanges /\ spent.faults \in 0..MaxFaults
        /\ spent.paths \in 0..MaxPathRuns
    BY <1>2 DEF Bounds
  <1>4. spent.changes < MaxChanges => spent.changes + 1 \in 0..MaxChanges
    BY <1>1, <1>3
  <1>5. spent.faults < MaxFaults => spent.faults + 1 \in 0..MaxFaults
    BY <1>1, <1>3
  <1>6. spent.paths < MaxPathRuns => spent.paths + 1 \in 0..MaxPathRuns
    BY <1>1, <1>3
  <1>7. QED
    BY <1>2, <1>4, <1>5, <1>6 DEF Bounds

\* What index.db says of runs and roots only grows, so that an index once ready
\* for the hand-over stays so.
IndexGrows ==
    /\ succeeded' \subseteq {"full", "path"} /\ succeeded \subseteq succeeded'
    /\ rooted' \subseteq {Roots[n] : n \in 1..Len(Roots)} /\ rooted \subseteq rooted'
    /\ stuck' \in BOOLEAN

LEMMA IndexKept ==
    ASSUME TypeOK, UNCHANGED <<succeeded, rooted, stuck>>
    PROVE  IndexGrows
  BY DEF TypeOK, IndexGrows

LEMMA ReadyKept ==
    ASSUME IndexGrows, Ready
    PROVE  Ready'
  BY DEF IndexGrows, Ready

-----------------------------------------------------------------------------
(* Steps outside run_sync *)

\* Files change.
LEMMA ChangedKeeps ==
    ASSUME IInv, NEW new \in SUBSET Paths, Changed(new)
    PROVE  IInv'
  <1>1. Point' = Point
    BY DEF Changed, Point
  <1>2. TypeOK'
    <2>1. spent' \in Bounds
      BY SpentTypes DEF IInv, Changed
    <2>2. QED
      BY <2>1 DEF IInv, TypeOK, Changed, files, indexdb, statedb, marks
  <1>3. UNCHANGED <<run, row, away>>
    BY DEF Changed, indexdb
  <1>4. RunOK'
    BY <1>1, <1>3, RunKept DEF IInv, RunOK
  <1>5. SearchOK' /\ HandOverOK'
    BY <1>1 DEF IInv, SearchOK, SearchIsCurrent, Searchable, HandOverOK, EngineHasIndex, Ready, Changed,
              indexdb, statedb, marks
  <1>6. QED
    BY <1>2, <1>4, <1>5 DEF IInv, RunOK

LEMMA CircuitExpiresKeeps ==
    ASSUME IInv, CircuitExpires
    PROVE  IInv'
  <1>1. Point' = Point
    BY DEF CircuitExpires, Point
  <1>2. TypeOK'
    BY DEF IInv, TypeOK, CircuitExpires, files, indexdb, marks
  <1>3. UNCHANGED <<run, row, away>>
    BY DEF CircuitExpires, indexdb, files
  <1>4. RunOK'
    BY <1>1, <1>3, RunKept DEF IInv, RunOK
  <1>5. SearchOK' /\ HandOverOK'
    BY <1>1 DEF IInv, SearchOK, SearchIsCurrent, Searchable, HandOverOK, EngineHasIndex, Ready,
              CircuitExpires, files, indexdb, marks
  <1>6. QED
    BY <1>2, <1>4, <1>5 DEF IInv, RunOK

\* A task outside run_sync moves, and writes at most the engine or a cycle.
LEMMA OutsideKeeps ==
    ASSUME IInv, NEW t \in Tasks, NEW point \in Unlocked, at[t] \in Unlocked,
           Goto(t, point),
           UNCHANGED <<files, row, fts, succeeded, rooted, dirty, circuit, lock, run, job, marks>>,
           last' \in RunStatuses, stuck' \in BOOLEAN,
           spent' = spent \/ spent' \in Bounds,
           cycles' \in Nat, cycles' >= cycles, engine' \in BOOLEAN,
           engine' => Ready /\ cycles' > 0,
           point \in {"create", "enable"} => Ready,
           point = "enable" => cycles' > 0
    PROVE  IInv'
  <1>1. /\ at' \in [Tasks -> Locked \cup Unlocked]
        /\ \A u \in Tasks : at'[u] \in Locked <=> lock' = u
        /\ \A u \in Tasks : at'[u] = IF u = t THEN point ELSE at[u]
        /\ Point' = Point
    BY MoveTypes DEF IInv
  <1>2. TypeOK'
    BY <1>1 DEF IInv, TypeOK, files, marks
  <1>3. RunOK'
    BY <1>1, RunKept DEF IInv, RunOK, files
  <1>4. SearchOK'
    BY <1>1 DEF IInv, SearchOK, SearchIsCurrent, Searchable, marks
  <1>5. HandOverOK'
    <2>1. cycles \in Nat /\ Ready' = Ready
      BY DEF IInv, TypeOK, Ready
    <2>2. ASSUME NEW u \in Tasks
          PROVE  /\ at'[u] \in {"create", "enable"} => Ready'
                 /\ at'[u] = "enable" => cycles' > 0
      <3>1. CASE u = t
        BY <1>1, <2>1, <3>1
      <3>2. CASE u # t
        BY <1>1, <2>1, <3>2 DEF IInv, HandOverOK
      <3>3. QED
        BY <3>1, <3>2
    <2>3. EngineHasIndex'
      BY <2>1 DEF EngineHasIndex
    <2>4. QED
      BY <2>2, <2>3 DEF HandOverOK
  <1>6. QED
    BY <1>2, <1>3, <1>4, <1>5 DEF IInv, RunOK

\* What the frame asks of a step that writes neither cycles nor engine.
OutsideFacts ==
    /\ cycles \in Nat /\ cycles >= cycles
    /\ engine \in BOOLEAN /\ (engine => Ready /\ cycles > 0)
    /\ last \in RunStatuses /\ stuck \in BOOLEAN

LEMMA OutsideFactsHold == ASSUME IInv PROVE OutsideFacts
  BY DEF IInv, TypeOK, HandOverOK, EngineHasIndex, OutsideFacts

LEMMA SchedulerMigratesKeeps ==
    ASSUME IInv, NEW t \in Tasks, SchedulerMigrates(t)
    PROVE  IInv'
  <1>1. "idle" \in Unlocked /\ "migrate" \in Unlocked
    BY DEF Unlocked
  <1>2. OutsideFacts
    BY OutsideFactsHold
  <1>3. QED
    BY <1>1, <1>2, OutsideKeeps DEF OutsideFacts, SchedulerMigrates, indexdb, statedb

\* A task that waits for the lock has looked at nothing it relies on later.
LEMMA WaitsKeeps ==
    ASSUME IInv, NEW t \in Tasks, SchedulerStarts(t) \/ AdminStarts(t)
    PROVE  IInv'
  <1>1. "idle" \in Unlocked /\ "waiting" \in Unlocked
    BY DEF Unlocked
  <1>2. OutsideFacts
    BY OutsideFactsHold
  <1>3. /\ at[t] = "idle" /\ Goto(t, "waiting")
        /\ UNCHANGED <<files, indexdb, statedb, lock, run, job, spent, marks>>
    BY DEF SchedulerStarts, AdminStarts
  <1>4. QED
    BY <1>1, <1>2, <1>3, OutsideKeeps DEF OutsideFacts, indexdb, statedb

LEMMA ReadCyclesKeeps ==
    ASSUME IInv, NEW t \in Tasks, ReadCycles(t)
    PROVE  IInv'
  <1>1. {"idle", "migrate", "create", "enable"} \subseteq Unlocked
    BY DEF Unlocked
  <1>2. OutsideFacts
    BY OutsideFactsHold
  <1>3. PICK point \in {"idle", "create", "enable"} :
            /\ Goto(t, point) /\ (point # "idle" => Ready)
            /\ point = "enable" => cycles # 0
    BY DEF ReadCycles
  <1>4. point = "enable" => cycles > 0
    BY <1>2, <1>3 DEF OutsideFacts
  <1>5. QED
    BY <1>1, <1>2, <1>3, <1>4, OutsideKeeps DEF OutsideFacts, ReadCycles, indexdb, statedb

LEMMA CreateCycleKeeps ==
    ASSUME IInv, NEW t \in Tasks, CreateCycle(t)
    PROVE  IInv'
  <1>1. "create" \in Unlocked /\ "enable" \in Unlocked
    BY DEF Unlocked
  <1>2. OutsideFacts
    BY OutsideFactsHold
  <1>3. Ready
    BY DEF IInv, HandOverOK, CreateCycle
  <1>4. cycles' \in Nat /\ cycles' >= cycles /\ cycles' > 0
    BY <1>2 DEF OutsideFacts, CreateCycle
  <1>5. QED
    BY <1>1, <1>2, <1>3, <1>4, OutsideKeeps DEF OutsideFacts, CreateCycle, statedb

LEMMA EnableEngineKeeps ==
    ASSUME IInv, NEW t \in Tasks, EnableEngine(t)
    PROVE  IInv'
  <1>1. "enable" \in Unlocked /\ "idle" \in Unlocked
    BY DEF Unlocked
  <1>2. OutsideFacts
    BY OutsideFactsHold
  <1>3. Ready /\ cycles > 0
    BY DEF IInv, HandOverOK, EnableEngine
  <1>4. QED
    BY <1>1, <1>2, <1>3, OutsideKeeps DEF OutsideFacts, EnableEngine, indexdb

\* A request for paths waits for the lock.
LEMMA RequestPathsKeeps ==
    ASSUME IInv, RequestPaths
    PROVE  IInv'
  <1>1. "idle" \in Unlocked /\ "queued" \in Unlocked /\ PathTask \in Tasks
    BY DEF Unlocked, Tasks
  <1>2. OutsideFacts /\ spent' \in Bounds
    BY OutsideFactsHold, SpentTypes DEF IInv, RequestPaths
  <1>3. QED
    BY <1>1, <1>2, OutsideKeeps DEF OutsideFacts, RequestPaths, indexdb, statedb

-----------------------------------------------------------------------------
(* Steps inside run_sync *)

\* What a step of a run means to the hand-over.
LEMMA HandOverKept ==
    ASSUME IInv, NEW t \in Tasks, NEW point,
           \A u \in Tasks : at'[u] = IF u = t THEN point ELSE at[u],
           UNCHANGED <<engine, cycles>>, IndexGrows,
           point \notin {"create", "enable"}
    PROVE  HandOverOK'
  <1>1. ASSUME NEW u \in Tasks
        PROVE  /\ at'[u] \in {"create", "enable"} => Ready'
               /\ at'[u] = "enable" => cycles' > 0
    <2>1. CASE u = t
      BY <2>1
    <2>2. CASE u # t
      BY <2>2, ReadyKept DEF IInv, HandOverOK
    <2>3. QED
      BY <2>1, <2>2
  <1>2. QED
    BY <1>1, ReadyKept DEF IInv, HandOverOK, EngineHasIndex

\* A task takes the lock, or gives up.
LEMMA BeginKeeps ==
    ASSUME IInv, NEW t \in Tasks, Begin(t)
    PROVE  IInv'
  <1>1. /\ "waiting" \in Unlocked /\ "idle" \in Unlocked /\ "scan" \in Locked
        /\ "running" \in RunStatuses
    BY DEF Unlocked, Locked, RunStatuses
  <1>2. PICK point \in {"idle", "scan"} : Goto(t, point) /\ (point = "scan" <=> last # "running" /\ ~stuck)
    BY DEF Begin
  <1>3. /\ at \in [Tasks -> Locked \cup Unlocked]
        /\ \A u \in Tasks : at[u] \notin Locked
    BY RootFacts DEF IInv, TypeOK, Begin
  <1>4. \A u \in Tasks : at'[u] = IF u = t THEN point ELSE at[u]
    BY <1>2, <1>3 DEF Goto
  <1>5. at' \in [Tasks -> Locked \cup Unlocked]
    BY <1>1, <1>2, <1>3 DEF Goto
  <1>6. lock' = IF point = "scan" THEN t ELSE Nobody
    BY <1>2, RootFacts DEF Begin, Goto
  <1>7. ASSUME NEW u \in Tasks PROVE at'[u] \in Locked <=> lock' = u
    <2>1. u # Nobody /\ "idle" \notin Locked
      BY <1>1, RootFacts, Apart
    <2>2. CASE u = t
      BY <1>1, <1>2, <1>4, <1>6, <2>1, <2>2
    <2>3. CASE u # t
      BY <1>3, <1>4, <1>6, <2>1, <2>3
    <2>4. QED
      BY <2>2, <2>3
  <1>8. Point' \in {"idle", "scan"}
    BY <1>2, <1>4, <1>6, RootFacts DEF Point
  <1>9. RunOK' /\ run' \in Run
    BY <1>8, RunGone DEF IInv, RunOK, StreakOK, Begin, files
  <1>10. TypeOK'
    BY <1>1, <1>5, <1>6, <1>7, <1>9 DEF IInv, TypeOK, Begin, files, statedb
  <1>11. SearchOK'
    <2>1. Point' = "scan" => unmarked'
      BY <1>2, <1>4, <1>6, RootFacts DEF Begin, Point
    <2>2. SearchIsCurrent'
      BY DEF IInv, SearchOK, SearchIsCurrent, Begin, statedb
    <2>3. QED
      BY <1>8, <2>1, <2>2 DEF SearchOK
  <1>12. HandOverOK'
    <2>1. UNCHANGED <<engine, cycles>> /\ IndexGrows
      BY IndexKept DEF Begin, statedb, IInv
    <2>2. QED
      BY <1>2, <1>4, <2>1, HandOverKept
  <1>13. QED
    BY <1>9, <1>10, <1>11, <1>12 DEF IInv, RunOK

\* The frame of a step inside run_sync: what it has to show of its run.
LEMMA InsideKeeps ==
    ASSUME IInv, NEW t \in Tasks, NEW point \in Locked, at[t] \in Locked,
           Goto(t, point),
           UNCHANGED <<disk, cycles, engine, lock, job>>, IndexGrows,
           last' \in RunStatuses, patched' \subseteq Paths,
           fts' \subseteq Paths, row' \in [Paths -> Rows], away' \in [Paths -> 0..Confirm],
           run' \in Run, dirty' \in BOOLEAN, circuit' \in BOOLEAN, unmarked' \in BOOLEAN,
           spent' \in Bounds,
           CountsOK', SeenOK', StreakOK', SearchOK'
    PROVE  IInv'
  <1>1. /\ at' \in [Tasks -> Locked \cup Unlocked]
        /\ \A u \in Tasks : at'[u] \in Locked <=> lock' = u
        /\ \A u \in Tasks : at'[u] = IF u = t THEN point ELSE at[u]
    BY MoveTypes DEF IInv
  <1>2. TypeOK'
    BY <1>1 DEF IInv, TypeOK, IndexGrows
  <1>3. point \notin {"create", "enable"}
    BY DEF Locked
  <1>4. HandOverOK'
    BY <1>1, <1>3, HandOverKept
  <1>5. QED
    BY <1>2, <1>4 DEF IInv

\* Where a step inside run_sync comes from and goes to.
LEMMA InsidePoints ==
    ASSUME IInv, NEW t \in Tasks, NEW point \in Locked, at[t] \in Locked,
           Goto(t, point), lock' = lock
    PROVE  lock = t /\ Point = at[t] /\ Point' = point
  BY MoveTypes DEF IInv, TypeOK

LEMMA RunTypes ==
    ASSUME TypeOK
    PROVE  /\ run.next \in 1..Len(Roots) + 1 /\ run.next \in Nat \ {0}
           /\ run.listing \subseteq Paths /\ run.seen \subseteq Paths
           /\ run.completed \in 0..Len(Roots) /\ run.failed \in 0..Len(Roots)
           /\ run.suspicious \in BOOLEAN
  BY RootFacts DEF TypeOK, Run

LEMMA ScanKeeps ==
    ASSUME IInv, NEW t \in Tasks, Scan(t)
    PROVE  IInv'
  <1> DEFINE found == disk \cap PathsOf(Roots[run.next])
  <1>1. "scan" \in Locked /\ "commit" \in Locked /\ Goto(t, "commit") /\ at[t] = "scan"
    BY DEF Locked, Scan
  <1>2. lock' = lock
    BY DEF Scan
  <1>3. Point = "scan" /\ Point' = "commit"
    BY <1>1, <1>2, InsidePoints
  <1>4. /\ run.next \in Nat \ {0} /\ run.next <= Len(Roots)
        /\ run' = [run EXCEPT !.listing = found, !.seen = run.seen \cup found]
        /\ found \subseteq Paths
    BY RunTypes DEF IInv, Scan, PathsOf
  <1>5. run' \in Run
    BY <1>4, RunTypes DEF IInv, TypeOK, Run
  <1>6. /\ run'.next = run.next /\ run'.failed = run.failed /\ run'.completed = run.completed
        /\ run'.suspicious = run.suspicious
        /\ run'.listing = found /\ run'.seen = run.seen \cup found
    BY <1>4 DEF IInv, TypeOK, Run
  <1> HIDE DEF found
  <1>7. /\ Listed = run.next - 1 /\ Listed' = run.next
        /\ Handled = run.next - 1 /\ Handled' = run.next - 1
    BY <1>3, <1>6 DEF Listed, Handled
  <1>8. CountsOK'
    BY <1>3, <1>4, <1>6, <1>7 DEF IInv, CountsOK
  <1>9. DEFINE k == run.next - 1
  <1>10. k \in Nat /\ k + 1 = run.next /\ k <= run.next
    BY <1>4
  <1>11. \A p \in found : RootOf[p] = Roots[run.next]
    BY DEF found, PathsOf
  <1>12. \A p \in found : AmongFirst(p, run.next) /\ ~AmongFirst(p, k)
    BY <1>4, <1>10, <1>11, NextRoot, EarlierRoot
  <1>13. \A p \in run.seen : AmongFirst(p, k)
    BY <1>7 DEF IInv, SeenOK
  <1>14. \A p \in run'.seen : AmongFirst(p, Listed')
    BY <1>4, <1>6, <1>7, <1>10, <1>12, <1>13, MoreRoots
  <1>15. \A p \in run.seen : RootOf[p] # Roots[run.next]
    BY <1>4, <1>10, <1>13, EarlierRoot
  <1>16. run'.listing = run'.seen \cap PathsOf(Roots[run'.next])
    <2>1. run.seen \cap PathsOf(Roots[run.next]) = {}
      BY <1>15 DEF PathsOf
    <2>2. found \subseteq PathsOf(Roots[run.next])
      BY DEF found
    <2>3. QED
      BY <1>6, <2>1, <2>2
  <1>17. run'.failed = 0 /\ ~run'.suspicious =>
            \A p \in Paths : AmongFirst(p, Handled') => (row'[p].status = "active" <=> p \in run'.seen)
    BY <1>6, <1>7, <1>12 DEF IInv, SeenOK, Scan, indexdb
  <1>18. SeenOK'
    <2>1. \A p : AmongFirst(p, Listed') <=> AmongFirst(p, Listed)'
      BY DEF AmongFirst
    <2>2. \A p : AmongFirst(p, Handled') <=> AmongFirst(p, Handled)'
      BY DEF AmongFirst
    <2>3. PathsOf(Roots[run'.next]) = PathsOf(Roots[run.next])'
      BY DEF PathsOf
    <2>4. QED
      BY <1>14, <1>16, <1>17, <2>1, <2>2, <2>3 DEF SeenOK
  <1>19. StreakOK' /\ SearchOK'
    BY <1>3 DEF IInv, StreakOK, SearchOK, SearchIsCurrent, Scan, files, indexdb,
              statedb, marks
  <1>20. QED
    BY <1>1, <1>5, <1>8, <1>18, <1>19, InsideKeeps, IndexKept
       DEF IInv, TypeOK, Scan, files, indexdb, statedb, marks

\* What a recorded scan makes of a row, and of the history of its path.
LEMMA AppliedRows ==
    ASSUME TypeOK, StreakOK, NEW S, NEW moved, moved \subseteq PathsOf(S) \ run.listing,
           row' = Applied(S, run.listing, moved), away' = Counted(S)
    PROVE  /\ row' \in [Paths -> Rows] /\ away' \in [Paths -> 0..Confirm]
           /\ StreakOK'
           /\ \A p \in Paths :
                 row'[p].status = "missing" /\ row[p].status # "missing" => away'[p] >= Confirm
           /\ \A p \in PathsOf(S) : row'[p].status = "active" <=> p \in run.listing
           /\ run.listing \subseteq PathsOf(S) =>
                 \A p \in Paths : RootOf[p] # S => row'[p] = row[p]
  <1>1. Confirm \in Nat \ {0}
    BY RootFacts
  <1>2. ASSUME NEW p \in Paths
        PROVE  /\ row'[p] \in Rows /\ away'[p] \in 0..Confirm
               /\ row'[p].streak <= away'[p]
               /\ row'[p].status = "missing" /\ row[p].status # "missing" => away'[p] >= Confirm
               /\ RootOf[p] = S => (row'[p].status = "active" <=> p \in run.listing)
               /\ RootOf[p] # S => p \in run.listing \/ row'[p] = row[p]
    <2>1. row[p] \in Rows /\ away[p] \in 0..Confirm /\ row[p].streak <= away[p]
      BY DEF TypeOK, StreakOK
    <2>2. /\ row[p].streak \in 0..Confirm
          /\ row[p].status \in {"none", "active", "suspected", "missing"}
      BY <2>1 DEF Rows
    <2>3. row'[p] = IF p \in run.listing THEN ActiveRow ELSE IF p \in moved THEN NoRow
                    ELSE IF p \in Indexed(S) THEN Advanced(row[p]) ELSE row[p]
      BY DEF Applied
    <2>4. away'[p] = IF RootOf[p] # S THEN away[p] ELSE IF p \in run.listing THEN 0
                     ELSE IF away[p] < Confirm THEN away[p] + 1 ELSE Confirm
      BY DEF Counted
    <2>5. CASE p \in run.listing
      <3>1. row'[p] = ActiveRow /\ away'[p] \in 0..Confirm
        BY <1>1, <2>1, <2>3, <2>4, <2>5
      <3>2. ActiveRow \in Rows /\ ActiveRow.streak = 0 /\ ActiveRow.status = "active"
        BY <1>1 DEF ActiveRow, Rows
      <3>3. QED
        BY <2>5, <3>1, <3>2
    <2>6. CASE p \notin run.listing /\ p \in moved
      <3>1. row'[p] = NoRow /\ away'[p] \in 0..Confirm
        BY <1>1, <2>1, <2>3, <2>4, <2>6
      <3>2. NoRow \in Rows /\ NoRow.streak = 0 /\ NoRow.status = "none"
        BY <1>1 DEF NoRow, Rows
      <3>3. RootOf[p] = S
        BY <2>6 DEF PathsOf
      <3>4. QED
        BY <2>6, <3>1, <3>2, <3>3
    <2>7. CASE p \notin run.listing /\ p \notin moved /\ p \in Indexed(S)
      <3>1. row'[p] = Advanced(row[p]) /\ RootOf[p] = S
        BY <2>3, <2>7 DEF Indexed, PathsOf
      <3>2. away'[p] = IF away[p] < Confirm THEN away[p] + 1 ELSE Confirm
        BY <2>4, <2>7, <3>1
      <3>3. CASE row[p].streak + 1 >= Confirm
        <4>1. row'[p] = [status |-> "missing", streak |-> Confirm]
          BY <3>1, <3>3 DEF Advanced
        <4>2. row'[p] \in Rows /\ row'[p].streak = Confirm /\ row'[p].status = "missing"
          BY <1>1, <4>1 DEF Rows
        <4>3. away'[p] = Confirm
          BY <1>1, <2>1, <2>2, <3>2, <3>3
        <4>4. QED
          BY <1>1, <2>7, <3>1, <4>2, <4>3
      <3>4. CASE ~(row[p].streak + 1 >= Confirm)
        <4>1. row'[p] = [status |-> "suspected", streak |-> row[p].streak + 1]
          BY <3>1, <3>4 DEF Advanced
        <4>2. row[p].streak + 1 \in 0..Confirm
          BY <1>1, <2>2, <3>4
        <4>3. row'[p] \in Rows /\ row'[p].streak = row[p].streak + 1 /\ row'[p].status = "suspected"
          BY <4>1, <4>2 DEF Rows
        <4>4. away'[p] \in 0..Confirm /\ row[p].streak + 1 <= away'[p]
          BY <1>1, <2>1, <2>2, <3>2, <3>4
        <4>5. QED
          BY <2>7, <3>1, <4>3, <4>4
      <3>5. QED
        BY <3>3, <3>4
    <2>8. CASE p \notin run.listing /\ p \notin moved /\ p \notin Indexed(S)
      <3>1. row'[p] = row[p]
        BY <2>3, <2>8
      <3>2. away'[p] \in 0..Confirm /\ away[p] <= away'[p]
        BY <1>1, <2>1, <2>4, <2>8
      <3>3. RootOf[p] = S => row[p].status # "active"
        BY <2>8 DEF Indexed, PathsOf
      <3>4. row[p].streak <= away'[p]
        BY <1>1, <2>1, <2>2, <3>2
      <3>5. QED
        BY <2>1, <2>8, <3>1, <3>2, <3>3, <3>4
    <2>9. QED
      BY <2>5, <2>6, <2>7, <2>8
  <1>3. row' \in [Paths -> Rows] /\ away' \in [Paths -> 0..Confirm]
    <2>1. row' = [p \in Paths |-> row'[p]] /\ away' = [p \in Paths |-> away'[p]]
      BY DEF Applied, Counted
    <2>2. QED
      BY <1>2, <2>1
  <1>4. StreakOK'
    BY <1>2 DEF StreakOK
  <1>5. QED
    BY <1>2, <1>3, <1>4 DEF PathsOf

\* The history of MissingWasAway and the rows at the commit of a root.
LEMMA CommitRootWrites ==
    ASSUME IInv, NEW t \in Tasks, CommitRoot(t)
    PROVE  LET S == Roots[run.next] IN
           /\ row' \in [Paths -> Rows] /\ away' \in [Paths -> 0..Confirm]
           /\ StreakOK'
           /\ \A p \in Paths :
                 row'[p].status = "missing" /\ row[p].status # "missing" => away'[p] >= Confirm
           /\ \/ run'.suspicious
              \/ /\ \A p \in PathsOf(S) : row'[p].status = "active" <=> p \in run.listing
                 /\ run.listing \subseteq PathsOf(S) =>
                       \A p \in Paths : RootOf[p] # S => row'[p] = row[p]
  <1> DEFINE S == Roots[run.next]
             lost == Indexed(S) \ run.listing
             guarded == Guarded(Cardinality(lost), Cardinality(Indexed(S)))
  <1>1. CASE guarded
    <2>1. UNCHANGED <<row, away>>
      BY <1>1 DEF CommitRoot
    <2>2. run'.suspicious
      BY <1>1 DEF CommitRoot, IInv, TypeOK, Run
    <2>3. QED
      BY <2>1, <2>2 DEF IInv, TypeOK, StreakOK
  <1>2. CASE ~guarded
    <2>1. PICK moved \in Movable(S, run.listing) : row' = Applied(S, run.listing, moved)
      BY <1>2 DEF CommitRoot
    <2>2. away' = Counted(S) /\ moved \subseteq PathsOf(S) \ run.listing
      BY <1>2 DEF CommitRoot, Movable
    <2>3. QED
      BY <2>1, <2>2, AppliedRows DEF IInv
  <1>3. QED
    BY <1>1, <1>2

LEMMA CommitRootKeeps ==
    ASSUME IInv, NEW t \in Tasks, CommitRoot(t)
    PROVE  IInv'
  <1> DEFINE S == Roots[run.next]
             k == run.next - 1
  <1>1. /\ "commit" \in Locked /\ "record" \in Locked /\ Goto(t, "record")
        /\ at[t] = "commit" /\ lock' = lock
    BY DEF Locked, CommitRoot
  <1>2. Point = "commit" /\ Point' = "record"
    BY <1>1, InsidePoints
  <1>3. run.next \in Nat \ {0} /\ run.next <= Len(Roots) /\ run.completed <= k /\ k \in Nat
    BY <1>2, RunTypes DEF IInv, CountsOK, Handled
  <1>4. PICK g \in BOOLEAN :
            run' = [run EXCEPT !.listing = {}, !.completed = run.completed + 1,
                               !.suspicious = run.suspicious \/ g]
    BY DEF CommitRoot, Guarded
  <1>5. run.completed + 1 \in 0..Len(Roots)
    BY <1>3, RunTypes, RootFacts DEF IInv
  <1>6. run' \in Run
    BY <1>4, <1>5, RunTypes DEF IInv, TypeOK, Run
  <1>7. /\ run'.next = run.next /\ run'.failed = run.failed /\ run'.completed = run.completed + 1
        /\ run'.suspicious = (run.suspicious \/ g) /\ run'.seen = run.seen
    BY <1>4 DEF IInv, TypeOK, Run
  <1>8. /\ Listed = run.next /\ Listed' = run.next
        /\ Handled = k /\ Handled' = run.next
    BY <1>2, <1>7 DEF Listed, Handled
  <1>9. CountsOK'
    <2>1. run.completed + 1 <= run.next
      BY <1>3, RunTypes DEF IInv
    <2>2. QED
      BY <1>2, <1>3, <1>7, <1>8, <2>1 DEF IInv, CountsOK
  <1>10. /\ row' \in [Paths -> Rows] /\ away' \in [Paths -> 0..Confirm] /\ StreakOK'
         /\ \/ run'.suspicious
            \/ /\ \A p \in PathsOf(S) : row'[p].status = "active" <=> p \in run.listing
               /\ run.listing \subseteq PathsOf(S) =>
                     \A p \in Paths : RootOf[p] # S => row'[p] = row[p]
    BY CommitRootWrites
  <1>11. run.listing = run.seen \cap PathsOf(S)
    BY <1>2 DEF IInv, SeenOK
  <1>12. run'.failed = 0 /\ ~run'.suspicious =>
            \A p \in Paths : AmongFirst(p, run.next) => (row'[p].status = "active" <=> p \in run.seen)
    <2>1. SUFFICES ASSUME run'.failed = 0, ~run'.suspicious, NEW p \in Paths, AmongFirst(p, run.next)
                   PROVE  row'[p].status = "active" <=> p \in run.seen
      OBVIOUS
    <2>2. \/ AmongFirst(p, k) /\ RootOf[p] # S
          \/ RootOf[p] = S
      BY <1>3, <2>1, NextRoot
    <2>3. CASE RootOf[p] = S
      <3>1. p \in PathsOf(S)
        BY <2>3 DEF PathsOf
      <3>2. QED
        BY <1>10, <1>11, <2>1, <3>1
    <2>4. CASE AmongFirst(p, k) /\ RootOf[p] # S
      <3>1. row'[p] = row[p]
        BY <1>10, <1>11, <2>1, <2>4
      <3>2. row[p].status = "active" <=> p \in run.seen
        BY <1>7, <1>8, <2>1, <2>4 DEF IInv, SeenOK
      <3>3. QED
        BY <3>1, <3>2
    <2>5. QED
      BY <2>2, <2>3, <2>4
  <1>13. SeenOK'
    <2>1. \A p : AmongFirst(p, run.next) <=> AmongFirst(p, Listed)'
      BY <1>8 DEF AmongFirst
    <2>2. \A p : AmongFirst(p, run.next) <=> AmongFirst(p, Handled)'
      BY <1>8 DEF AmongFirst
    <2>3. \A p \in run'.seen : AmongFirst(p, run.next)
      BY <1>7, <1>8 DEF IInv, SeenOK
    <2>4. QED
      BY <1>2, <1>7, <1>12, <2>1, <2>2, <2>3 DEF SeenOK
  <1>14. SearchOK'
    BY <1>2 DEF IInv, SearchOK, SearchIsCurrent, CommitRoot, marks
  <1>15. IndexGrows
    <2>1. rooted' = rooted \/ rooted' = rooted \cup {S}
      BY DEF CommitRoot
    <2>2. S \in {Roots[n] : n \in 1..Len(Roots)}
      BY <1>3
    <2>3. QED
      BY <2>1, <2>2 DEF IndexGrows, CommitRoot, IInv, TypeOK
  <1>16. QED
    BY <1>1, <1>6, <1>9, <1>10, <1>13, <1>14, <1>15, InsideKeeps
       DEF IInv, TypeOK, CommitRoot, statedb, marks

LEMMA RecordRootKeeps ==
    ASSUME IInv, NEW t \in Tasks, RecordRoot(t)
    PROVE  IInv'
  <1>1. /\ "record" \in Locked /\ "scan" \in Locked /\ Goto(t, "scan")
        /\ at[t] = "record" /\ lock' = lock
    BY DEF Locked, RecordRoot
  <1>2. Point = "record" /\ Point' = "scan"
    BY <1>1, InsidePoints
  <1>3. run.next \in Nat \ {0} /\ run.next <= Len(Roots) /\ run.completed <= run.next
    BY <1>2, RunTypes DEF IInv, CountsOK, Handled
  <1>4. run.next + 1 \in 1..Len(Roots) + 1
    BY <1>3, RootFacts
  <1>5. /\ run' \in Run /\ run'.next = run.next + 1 /\ run'.failed = run.failed
        /\ run'.completed = run.completed /\ run'.suspicious = run.suspicious
        /\ run'.seen = run.seen /\ run'.listing = run.listing
    BY <1>4 DEF IInv, TypeOK, Run, RecordRoot
  <1>6. /\ Listed = run.next /\ Listed' = run.next
        /\ Handled = run.next /\ Handled' = run.next
    BY <1>2, <1>3, <1>5 DEF Listed, Handled
  <1>7. CountsOK'
    <2>1. run.failed \in Nat /\ run.failed < run.next
      BY RunTypes, RootFacts DEF IInv, CountsOK
    <2>2. QED
      BY <1>2, <1>3, <1>5, <1>6, <2>1 DEF IInv, CountsOK
  <1>8. SeenOK'
    BY <1>2, <1>5, <1>6 DEF IInv, SeenOK, AmongFirst, RecordRoot, indexdb
  <1>9. StreakOK' /\ SearchOK'
    BY <1>2 DEF IInv, StreakOK, SearchOK, SearchIsCurrent, RecordRoot, files, indexdb,
              statedb, marks
  <1>10. QED
    BY <1>1, <1>5, <1>7, <1>8, <1>9, InsideKeeps, IndexKept
       DEF IInv, TypeOK, RecordRoot, files, indexdb, statedb, marks

\* A root that fails, before or after it was applied, costs the run its success.
LEMMA FailRootKeeps ==
    ASSUME IInv, NEW t \in Tasks, FailRoot(t)
    PROVE  IInv'
  <1>1. /\ {"scan", "commit", "record", "open"} \subseteq Locked /\ lock' = lock
        /\ at[t] \in {"scan", "commit", "record"}
    BY DEF Locked, FailRoot
  <1>2. PICK point \in {"scan", "open"} : Goto(t, point)
    BY DEF FailRoot
  <1>3. Point = at[t] /\ Point' = point /\ point \in Locked /\ at[t] \in Locked
    BY <1>1, <1>2, InsidePoints
  <1>4. /\ run.next \in Nat \ {0} /\ run.next <= Len(Roots) /\ run.completed <= run.next
        /\ run.failed \in Nat /\ run.failed < run.next /\ run.completed \in Nat
    BY <1>1, <1>3, RunTypes, RootFacts DEF IInv, CountsOK, Handled, FailRoot
  <1>5. run.next + 1 \in 1..Len(Roots) + 1 /\ run.failed + 1 \in 0..Len(Roots)
    BY <1>4, RootFacts
  <1>6. /\ run' \in Run /\ run'.next = run.next + 1 /\ run'.failed = run.failed + 1
        /\ run'.completed = run.completed /\ run'.seen = run.seen
    BY <1>5 DEF IInv, TypeOK, Run, FailRoot
  <1>7. Listed \in Nat /\ Listed <= run.next /\ Listed' = run.next /\ Handled' = run.next
    BY <1>2, <1>3, <1>4, <1>6 DEF Listed, Handled
  <1>8. CountsOK'
    BY <1>2, <1>3, <1>4, <1>6, <1>7 DEF CountsOK
  <1>9. SeenOK'
    <2>1. \A p : AmongFirst(p, run.next) <=> AmongFirst(p, Listed)'
      BY <1>7 DEF AmongFirst
    <2>2. \A p \in run.seen : AmongFirst(p, run.next)
      BY <1>4, <1>7, MoreRoots DEF IInv, SeenOK
    <2>3. run'.failed # 0
      BY <1>4, <1>6
    <2>4. QED
      BY <1>2, <1>3, <1>6, <2>1, <2>2, <2>3 DEF SeenOK
  <1>10. StreakOK' /\ SearchOK'
    BY <1>1, <1>2, <1>3 DEF IInv, StreakOK, SearchOK, SearchIsCurrent, FailRoot, files, indexdb,
              statedb, marks
  <1>11. spent' \in Bounds
    BY SpentTypes DEF IInv, FailRoot, Fault
  <1>12. QED
    BY <1>1, <1>2, <1>3, <1>6, <1>8, <1>9, <1>10, <1>11, InsideKeeps, IndexKept
       DEF IInv, TypeOK, FailRoot, files, indexdb, statedb, marks

\* Steps of the end of a run that leave its counts, its rows and its history.
LEMMA EndingKeeps ==
    ASSUME IInv, NEW t \in Tasks, NEW point \in {"dirty", "rebuild", "clear", "reset"},
           at[t] \in Locked \ {"commit", "record"}, Goto(t, point),
           UNCHANGED <<disk, away, row, cycles, engine, lock, run, job, spent>>, IndexGrows,
           last' \in RunStatuses, patched' \subseteq Paths,
           fts' \subseteq Paths, dirty' \in BOOLEAN, circuit' \in BOOLEAN, unmarked' \in BOOLEAN,
           point = "dirty" => run.failed > 0,
           point = "rebuild" /\ run.failed = 0 => run.next > Len(Roots),
           Point' = point => SearchOK'
    PROVE  IInv'
  <1>1. point \in Locked
    BY DEF Locked
  <1>2. Point = at[t] /\ Point' = point
    BY <1>1, InsidePoints
  <1>3. Listed' = Listed /\ Handled' = Handled
    BY <1>2 DEF Listed, Handled
  <1>4. CountsOK'
    BY <1>2, <1>3 DEF IInv, CountsOK
  <1>5. SeenOK'
    BY <1>2, <1>3 DEF IInv, SeenOK, AmongFirst
  <1>6. StreakOK'
    BY DEF IInv, StreakOK
  <1>7. QED
    BY <1>1, <1>2, <1>4, <1>5, <1>6, InsideKeeps DEF IInv, TypeOK

LEMMA OpenCircuitKeeps ==
    ASSUME IInv, NEW t \in Tasks, OpenCircuit(t)
    PROVE  IInv'
  <1>1. /\ "open" \in Locked /\ "dirty" \in Locked /\ Goto(t, "dirty")
        /\ at[t] = "open" /\ lock' = lock
    BY DEF Locked, OpenCircuit
  <1>2. Point = "open" /\ run.failed > 0
    BY <1>1, InsidePoints DEF IInv, CountsOK
  <1>3. Point' = "dirty" => SearchOK'
    BY <1>2 DEF IInv, SearchOK, SearchIsCurrent, OpenCircuit, indexdb, marks
  <1>4. QED
    BY <1>1, <1>2, <1>3, EndingKeeps, IndexKept DEF IInv, TypeOK, OpenCircuit, files, indexdb, marks

LEMMA MarkSearchKeeps ==
    ASSUME IInv, NEW t \in Tasks, MarkSearch(t)
    PROVE  IInv'
  <1>1. /\ {"scan", "dirty", "rebuild"} \subseteq Locked /\ Goto(t, "rebuild")
        /\ at[t] \in {"scan", "dirty"} /\ lock' = lock
    BY DEF Locked, MarkSearch, ScansOver
  <1>2. Point = at[t]
    BY <1>1, InsidePoints
  <1>3. run.failed = 0 => run.next > Len(Roots)
    BY <1>1, <1>2 DEF MarkSearch, ScansOver, IInv, CountsOK
  <1>4. Point' = "rebuild" => SearchOK'
    BY DEF SearchOK, SearchIsCurrent, MarkSearch
  <1>5. QED
    BY <1>1, <1>2, <1>3, <1>4, EndingKeeps, IndexKept
       DEF IInv, TypeOK, MarkSearch, files, indexdb

\* The rebuilt table shows the rows.
LEMMA FinishKeeps ==
    ASSUME IInv, NEW t \in Tasks, Finish(t)
    PROVE  IInv'
  <1>1. /\ "rebuild" \in Locked /\ "clear" \in Locked /\ Goto(t, "clear")
        /\ at[t] = "rebuild" /\ lock' = lock
    BY DEF Locked, Finish
  <1>2. FinalStatus \in RunStatuses
    BY DEF FinalStatus, RunStatuses
  <1>3. Point' = "clear" => SearchOK'
    BY DEF SearchOK, SearchIsCurrent, Searchable, Finish
  <1>4. fts' \subseteq Paths
    BY DEF Finish, Searchable
  <1>5. IndexGrows /\ patched' \subseteq Paths
    BY DEF IndexGrows, Finish, IInv, TypeOK
  <1>6. QED
    BY <1>1, <1>2, <1>3, <1>4, <1>5, EndingKeeps DEF IInv, TypeOK, Finish, files, statedb

LEMMA ClearSearchKeeps ==
    ASSUME IInv, NEW t \in Tasks, ClearSearch(t)
    PROVE  IInv'
  <1>1. /\ "clear" \in Locked /\ "reset" \in Locked /\ Goto(t, "reset")
        /\ at[t] = "clear" /\ lock' = lock
    BY DEF Locked, ClearSearch
  <1>2. Point = "clear"
    BY <1>1, InsidePoints
  <1>3. Point' = "reset" => SearchOK'
    BY <1>2 DEF IInv, SearchOK, SearchIsCurrent, Searchable, ClearSearch, indexdb, marks
  <1>4. QED
    BY <1>1, <1>3, EndingKeeps, IndexKept DEF IInv, TypeOK, ClearSearch, files, indexdb, marks

-----------------------------------------------------------------------------
(* Steps of run_path_sync *)

\* While folders are scanned the path task holds the lock and no full run is on.
LEMMA FoldersPoint ==
    ASSUME IInv, at[PathTask] = "folders"
    PROVE  /\ PathTask \in Tasks /\ "folders" \in Locked
           /\ lock = PathTask /\ Point = "folders" /\ run = NewRun
  <1>1. PathTask \in Tasks /\ "folders" \in Locked
    BY DEF Tasks, Locked
  <1>2. lock = PathTask /\ Point = "folders"
    BY <1>1, Inside DEF IInv
  <1>3. QED
    BY <1>1, <1>2 DEF IInv, CountsOK

\* The frame of a step between two folders: what it has to show of its rows.
LEMMA FoldersKeep ==
    ASSUME IInv, at[PathTask] = "folders",
           UNCHANGED <<disk, last, stuck, succeeded, rooted, cycles, circuit, engine, lock,
                       at, run, spent, unmarked>>,
           row' \in [Paths -> Rows], away' \in [Paths -> 0..Confirm], fts' \subseteq Paths,
           dirty' \in BOOLEAN, job' \in Job, patched' \subseteq Paths,
           StreakOK', SearchIsCurrent'
    PROVE  IInv'
  <1>1. Point = "folders" /\ Point' = "folders" /\ run = NewRun
    BY FoldersPoint DEF Point
  <1>2. CountsOK' /\ SeenOK'
    BY <1>1, RunGone
  <1>3. TypeOK'
    BY DEF IInv, TypeOK
  <1>4. SearchOK' /\ HandOverOK'
    BY <1>1 DEF IInv, SearchOK, HandOverOK, EngineHasIndex, Ready
  <1>5. QED
    BY <1>2, <1>3, <1>4 DEF IInv

\* The path task takes the lock, or finds no active folder.
LEMMA BeginPathsKeeps ==
    ASSUME IInv, BeginPaths
    PROVE  IInv'
  <1>1. /\ PathTask \in Tasks /\ "queued" \in Unlocked /\ "idle" \in Unlocked
        /\ "folders" \in Locked /\ {"running", "failed"} \subseteq RunStatuses
    BY DEF Tasks, Unlocked, Locked, RunStatuses
  <1>2. PICK n \in 0..MaxFolders :
            IF n = 0
            THEN last' = "failed" /\ Goto(PathTask, "idle") /\ UNCHANGED <<lock, job>>
            ELSE /\ last' = "running" /\ Goto(PathTask, "folders") /\ lock' = PathTask
                 /\ job' = [NewJob EXCEPT !.left = n]
    BY DEF BeginPaths
  <1>3. stuck' \in BOOLEAN
    BY DEF BeginPaths, IInv, TypeOK
  <1>4. CASE n = 0
    <2>1. OutsideFacts
      BY OutsideFactsHold
    <2>2. QED
      BY <1>1, <1>2, <1>3, <1>4, <2>1, OutsideKeeps DEF OutsideFacts, BeginPaths, statedb
  <1>5. CASE n # 0
    <2>1. /\ at \in [Tasks -> Locked \cup Unlocked] /\ lock = Nobody
          /\ \A u \in Tasks : at[u] \notin Locked
      BY RootFacts DEF IInv, TypeOK, BeginPaths
    <2>2. \A u \in Tasks : at'[u] = IF u = PathTask THEN "folders" ELSE at[u]
      BY <1>2, <1>5, <2>1 DEF Goto
    <2>3. at' \in [Tasks -> Locked \cup Unlocked]
      BY <1>1, <1>2, <1>5, <2>1 DEF Goto
    <2>4. \A u \in Tasks : at'[u] \in Locked <=> lock' = u
      BY <1>1, <1>2, <1>5, <2>1, <2>2
    <2>5. Point = "idle" /\ Point' = "folders"
      BY <1>1, <1>2, <1>5, <2>1, <2>2, RootFacts DEF Point
    <2>6. run' = NewRun
      BY <2>5 DEF IInv, CountsOK, BeginPaths
    <2>7. CountsOK' /\ SeenOK' /\ run' \in Run
      BY <2>5, <2>6, RunGone
    <2>8. job' \in Job
      BY <1>2, <1>5, NewJobTypes DEF Job
    <2>9. TypeOK'
      BY <1>1, <1>2, <1>3, <1>5, <2>3, <2>4, <2>7, <2>8
         DEF IInv, TypeOK, BeginPaths, files, statedb, marks
    <2>10. StreakOK' /\ SearchOK'
      BY <2>5 DEF IInv, StreakOK, SearchOK, SearchIsCurrent, BeginPaths, files, statedb, marks
    <2>11. IndexGrows /\ UNCHANGED <<engine, cycles>>
      BY <1>3 DEF IndexGrows, BeginPaths, statedb, IInv, TypeOK
    <2>12. HandOverOK'
      BY <1>1, <2>2, <2>11, HandOverKept
    <2>13. QED
      BY <2>7, <2>9, <2>10, <2>12 DEF IInv
  <1>6. QED
    BY <1>4, <1>5

\* What the scan of a folder makes of the rows, and of the history of their paths.
RowsObserved(active, hidden, lost) ==
    /\ row' \in [Paths -> Rows] /\ away' \in [Paths -> 0..Confirm]
    /\ StreakOK'
    /\ \A p \in Paths :
          row'[p].status = "missing" /\ row[p].status # "missing" => away'[p] >= Confirm
    /\ \A p \in Paths :
          /\ p \in active => row'[p].status = "active"
          /\ p \notin active /\ p \in hidden => row'[p].status = "none"
          /\ p \notin active \cup hidden /\ p \in lost =>
                row'[p].status \in {"suspected", "missing"}
          /\ p \notin active \cup hidden \cup lost => row'[p] = row[p]

LEMMA ObservedRows ==
    ASSUME TypeOK, StreakOK, NEW children, NEW listed, NEW active, NEW hidden, NEW lost,
           lost \subseteq children \ listed, listed \subseteq active \cup hidden,
           row' = Observed(active, hidden, lost), away' = CountedIn(children, listed)
    PROVE  RowsObserved(active, hidden, lost)
  <1>1. Confirm \in Nat \ {0}
    BY RootFacts
  <1> DEFINE Good(p) ==
          /\ row'[p] \in Rows /\ away'[p] \in 0..Confirm
          /\ row'[p].streak <= away'[p]
          /\ row'[p].status = "missing" /\ row[p].status # "missing" => away'[p] >= Confirm
          /\ p \in active => row'[p].status = "active"
          /\ p \notin active /\ p \in hidden => row'[p].status = "none"
          /\ p \notin active \cup hidden /\ p \in lost =>
                row'[p].status \in {"suspected", "missing"}
          /\ p \notin active \cup hidden \cup lost => row'[p] = row[p]
  <1>2. ASSUME NEW p \in Paths PROVE Good(p)
    <2>1. row[p] \in Rows /\ away[p] \in 0..Confirm /\ row[p].streak <= away[p]
      BY DEF TypeOK, StreakOK
    <2>2. /\ row[p].streak \in 0..Confirm
          /\ row[p].status \in {"none", "active", "suspected", "missing"}
      BY <2>1 DEF Rows
    <2>3. row'[p] = IF p \in active THEN ActiveRow ELSE IF p \in hidden THEN NoRow
                    ELSE IF p \in lost THEN Advanced(row[p]) ELSE row[p]
      BY DEF Observed
    <2>4. away'[p] = IF p \notin children THEN away[p] ELSE IF p \in listed THEN 0
                     ELSE IF away[p] < Confirm THEN away[p] + 1 ELSE Confirm
      BY DEF CountedIn
    <2>5. away'[p] \in 0..Confirm
      BY <1>1, <2>1, <2>4
    <2>6. CASE p \in active
      <3>1. ActiveRow \in Rows /\ ActiveRow.streak = 0 /\ ActiveRow.status = "active"
        BY <1>1 DEF ActiveRow, Rows
      <3>2. QED
        BY <1>1, <2>3, <2>5, <2>6, <3>1
    <2>7. CASE p \notin active /\ p \in hidden
      <3>1. NoRow \in Rows /\ NoRow.streak = 0 /\ NoRow.status = "none"
        BY <1>1 DEF NoRow, Rows
      <3>2. QED
        BY <1>1, <2>3, <2>5, <2>7, <3>1
    <2>8. CASE p \notin active /\ p \notin hidden /\ p \in lost
      <3>1. row'[p] = Advanced(row[p])
        BY <2>3, <2>8
      <3>2. away'[p] = IF away[p] < Confirm THEN away[p] + 1 ELSE Confirm
        BY <2>4, <2>8
      <3>3. CASE row[p].streak + 1 >= Confirm
        <4>1. row'[p] = [status |-> "missing", streak |-> Confirm]
          BY <3>1, <3>3 DEF Advanced
        <4>2. row'[p] \in Rows /\ row'[p].streak = Confirm /\ row'[p].status = "missing"
          BY <1>1, <4>1 DEF Rows
        <4>3. away'[p] = Confirm
          BY <1>1, <2>1, <2>2, <3>2, <3>3
        <4>4. QED
          BY <1>1, <2>8, <4>2, <4>3
      <3>4. CASE ~(row[p].streak + 1 >= Confirm)
        <4>1. row'[p] = [status |-> "suspected", streak |-> row[p].streak + 1]
          BY <3>1, <3>4 DEF Advanced
        <4>2. row[p].streak + 1 \in 0..Confirm
          BY <1>1, <2>2, <3>4
        <4>3. row'[p] \in Rows /\ row'[p].streak = row[p].streak + 1 /\ row'[p].status = "suspected"
          BY <4>1, <4>2 DEF Rows
        <4>4. row[p].streak + 1 <= away'[p]
          BY <1>1, <2>1, <2>2, <3>2, <3>4
        <4>5. QED
          BY <2>5, <2>8, <4>3, <4>4
      <3>5. QED
        BY <3>3, <3>4
    <2>9. CASE p \notin active /\ p \notin hidden /\ p \notin lost
      <3>1. row'[p] = row[p] /\ p \notin listed
        BY <2>3, <2>9
      <3>2. away[p] <= away'[p]
        BY <1>1, <2>1, <2>4, <3>1
      <3>3. row[p].streak <= away'[p]
        BY <1>1, <2>1, <2>2, <2>5, <3>2
      <3>4. QED
        BY <2>1, <2>5, <2>9, <3>1, <3>3
    <2>10. QED
      BY <2>6, <2>7, <2>8, <2>9
  <1>3. row' \in [Paths -> Rows] /\ away' \in [Paths -> 0..Confirm]
    <2>1. row' = [p \in Paths |-> row'[p]] /\ away' = [p \in Paths |-> away'[p]]
      BY DEF Observed, CountedIn
    <2>2. QED
      BY <1>2, <2>1
  <1>4. StreakOK'
    BY <1>2 DEF StreakOK
  <1>5. QED
    BY <1>2, <1>3, <1>4 DEF RowsObserved

\* The choices of a scan of a folder: its children, the ones listed, lost and new,
\* and what becomes of them.
FolderScanned(children, listed, lost, new, held, late, moved, changed) ==
    /\ children \subseteq Paths /\ listed = disk \cap children
    /\ lost \subseteq children \ listed
    /\ \A p \in children \ listed : row[p].status \in {"active", "suspected"} <=> p \in lost
    /\ new = {p \in listed : row[p].status = "none"}
    /\ \A p \in listed : row[p].status # "missing"
    /\ held \subseteq new /\ late \subseteq job.deferred \ children
    /\ moved \subseteq lost /\ changed \subseteq listed \ new
    /\ row' = Observed((listed \ held) \cup late, held \cup moved, lost)
    /\ fts' = SearchDelta(lost, (new \ held) \cup late \cup changed)
    /\ away' = CountedIn(children, listed)
    /\ patched' = patched \cup
          {p \in Paths : {row[p].status, row'[p].status} = {"active", "suspected"}}
    /\ job' = [job EXCEPT !.left = job.left - 1, !.done = job.done \cup children,
                          !.deferred = (job.deferred \ late) \cup held, !.completed = TRUE]

LEMMA ScanFolderWrites ==
    ASSUME ScanFolder
    PROVE  \E children, listed, lost, new, held, late, moved, changed :
               FolderScanned(children, listed, lost, new, held, late, moved, changed)
  <1>1. PICK S \in rooted : \E children \in SUBSET (PathsOf(S) \ job.done) :
            LET listed == disk \cap children
                lost == (Indexed(S) \cap children) \ listed
                new == {p \in listed : row[p].status = "none"}
            IN  /\ \A p \in listed : row[p].status # "missing"
                /\ CommitScope(children, listed, lost, new)
    BY DEF ScanFolder
  <1>2. PICK children \in SUBSET (PathsOf(S) \ job.done) :
            LET listed == disk \cap children
                lost == (Indexed(S) \cap children) \ listed
                new == {p \in listed : row[p].status = "none"}
            IN  /\ \A p \in listed : row[p].status # "missing"
                /\ CommitScope(children, listed, lost, new)
    BY <1>1
  <1> DEFINE listed == disk \cap children
             lost == (Indexed(S) \cap children) \ listed
             new == {p \in listed : row[p].status = "none"}
  <1>3. children \subseteq Paths /\ lost \subseteq children \ listed
    BY DEF PathsOf
  <1>4. \A p \in children \ listed : row[p].status \in {"active", "suspected"} <=> p \in lost
    BY DEF PathsOf, Indexed
  <1>5. /\ \A p \in listed : row[p].status # "missing"
        /\ CommitScope(children, listed, lost, new)
    BY <1>2
  <1>6. listed = disk \cap children /\ new = {p \in listed : row[p].status = "none"}
    OBVIOUS
  <1> HIDE DEF listed, lost, new
  <1>7. PICK held \in SUBSET new, late \in SUBSET (job.deferred \ children),
             moved \in SUBSET lost, changed \in SUBSET (listed \ new) :
          /\ row' = Observed((listed \ held) \cup late, held \cup moved, lost)
          /\ fts' = SearchDelta(lost, (new \ held) \cup late \cup changed)
          /\ job' = [job EXCEPT !.left = job.left - 1,
                                !.done = job.done \cup children,
                                !.deferred = (job.deferred \ late) \cup held,
                                !.completed = TRUE]
    BY <1>5 DEF CommitScope
  <1>8. FolderScanned(children, listed, lost, new, held, late, moved, changed)
    BY <1>3, <1>4, <1>5, <1>6, <1>7 DEF FolderScanned, CommitScope
  <1>9. QED
    BY <1>8

\* The search table keeps up with the rows of a scanned folder.
LEMMA FolderSearch ==
    ASSUME TypeOK, StreakOK, SearchIsCurrent, UNCHANGED <<dirty, unmarked>>,
           NEW children, NEW listed, NEW lost, NEW new, NEW held, NEW late, NEW moved, NEW changed,
           FolderScanned(children, listed, lost, new, held, late, moved, changed)
    PROVE  /\ row' \in [Paths -> Rows] /\ away' \in [Paths -> 0..Confirm]
           /\ StreakOK' /\ SearchIsCurrent' /\ fts' \subseteq Paths
           /\ \A p \in Paths :
                 row'[p].status = "missing" /\ row[p].status # "missing" => away'[p] >= Confirm
  <1> DEFINE active == (listed \ held) \cup late
             hidden == held \cup moved
             found == (new \ held) \cup late \cup changed
  <1>1. /\ children \subseteq Paths /\ listed \subseteq children /\ lost \subseteq children \ listed
        /\ new \subseteq listed /\ held \subseteq new /\ late \subseteq Paths \ children
        /\ moved \subseteq lost /\ changed \subseteq listed \ new
        /\ row' = Observed(active, hidden, lost) /\ away' = CountedIn(children, listed)
        /\ fts' = SearchDelta(lost, found)
    BY JobTypes DEF FolderScanned
  <1>2. listed \subseteq active \cup hidden
    BY <1>1
  <1>3. /\ \A p \in new : row[p].status = "none"
        /\ \A p \in listed \ new : row[p].status \in {"active", "suspected"}
        /\ \A p \in lost : row[p].status \in {"active", "suspected"}
    BY <1>1 DEF FolderScanned, TypeOK, Rows
  <1>4. /\ row' \in [Paths -> Rows] /\ away' \in [Paths -> 0..Confirm]
        /\ StreakOK'
        /\ \A p \in Paths :
              row'[p].status = "missing" /\ row[p].status # "missing" => away'[p] >= Confirm
        /\ \A p \in Paths :
              /\ p \in active => row'[p].status = "active"
              /\ p \notin active /\ p \in hidden => row'[p].status = "none"
              /\ p \notin active \cup hidden /\ p \in lost =>
                    row'[p].status \in {"suspected", "missing"}
              /\ p \notin active \cup hidden \cup lost => row'[p] = row[p]
    <2> HIDE DEF active, hidden, found
    <2>1. RowsObserved(active, hidden, lost)
      BY <1>1, <1>2, ObservedRows
    <2>2. QED
      BY <2>1 DEF RowsObserved
  <1>5. fts' \subseteq Paths
    BY <1>1 DEF SearchDelta, TypeOK
  <1>6. \A p \in Paths : p \in fts' <=>
            (p \in fts /\ ~(p \in lost /\ row'[p].status # "suspected")) \/ p \in found
    BY <1>1 DEF SearchDelta
  <1>7. \A p \in Paths : p \notin patched' =>
            /\ p \notin patched
            /\ ~(row[p].status = "active" /\ row'[p].status = "suspected")
            /\ ~(row[p].status = "suspected" /\ row'[p].status = "active")
    BY DEF FolderScanned
  <1> DEFINE Fits(p) == /\ p \in fts' => row'[p].status \in {"active", "suspected"}
                        /\ p \notin patched' => (p \in fts' <=> row'[p].status = "active")
  <1>8. CASE dirty \/ unmarked
    <2>1. SearchIsCurrent'
      BY <1>8 DEF SearchIsCurrent
    <2>2. QED
      BY <1>4, <1>5, <2>1
  <1>9. CASE ~dirty /\ ~unmarked
    <2>1. \A p \in Paths :
            /\ p \in fts => row[p].status \in {"active", "suspected"}
            /\ p \notin patched => (p \in fts <=> row[p].status = "active")
      BY <1>9 DEF SearchIsCurrent
    <2>2. ASSUME NEW p \in Paths PROVE Fits(p)
      <3>1. CASE p \in active
        <4>1. row'[p].status = "active" /\ p \notin lost
          BY <1>1, <1>4, <3>1
        <4>2. p \notin patched' => p \in fts'
          BY <1>1, <1>3, <1>6, <1>7, <2>1, <3>1, <4>1
        <4>3. QED
          BY <4>1, <4>2
      <3>2. CASE p \notin active /\ p \in held
        <4>1. row'[p].status = "none" /\ row[p].status = "none"
          BY <1>1, <1>3, <1>4, <3>2
        <4>2. p \notin fts'
          BY <1>1, <1>6, <2>1, <3>2, <4>1
        <4>3. QED
          BY <4>1, <4>2
      <3>3. CASE p \notin active /\ p \in moved
        <4>1. row'[p].status = "none" /\ p \in lost
          BY <1>1, <1>4, <3>3
        <4>2. p \notin fts'
          BY <1>1, <1>6, <3>3, <4>1
        <4>3. QED
          BY <4>1, <4>2
      <3>4. CASE p \notin active /\ p \notin hidden /\ p \in lost
        <4>1. /\ row'[p].status \in {"suspected", "missing"}
              /\ row[p].status \in {"active", "suspected"}
          BY <1>3, <1>4, <3>4
        <4>2. p \in fts' <=> p \in fts /\ row'[p].status = "suspected"
          BY <1>1, <1>6, <3>4, <4>1
        <4>3. p \notin patched' => ~(p \in fts')
          BY <1>7, <2>1, <4>1, <4>2
        <4>4. QED
          BY <4>1, <4>2, <4>3
      <3>5. CASE p \notin active /\ p \notin hidden /\ p \notin lost
        <4>1. row'[p] = row[p] /\ (p \in fts' <=> p \in fts)
          BY <1>1, <1>4, <1>6, <3>5
        <4>2. QED
          BY <1>7, <2>1, <4>1
      <3>6. QED
        BY <3>1, <3>2, <3>3, <3>4, <3>5
    <2>3. SearchIsCurrent'
      BY <2>2 DEF SearchIsCurrent
    <2>4. QED
      BY <1>4, <1>5, <2>3
  <1>10. QED
    BY <1>8, <1>9

LEMMA ScanFolderKeeps ==
    ASSUME IInv, ScanFolder
    PROVE  /\ IInv'
           /\ \A p \in Paths :
                 row'[p].status = "missing" /\ row[p].status # "missing" => away'[p] >= Confirm
  <1>1. PICK children, listed, lost, new, held, late, moved, changed :
            FolderScanned(children, listed, lost, new, held, late, moved, changed)
    BY ScanFolderWrites
  <1>2. /\ at[PathTask] = "folders" /\ job.left > 0
        /\ UNCHANGED <<disk, last, stuck, succeeded, rooted, cycles, dirty, circuit, engine,
                       lock, at, run, spent, unmarked>>
    BY DEF ScanFolder, statedb
  <1>3. /\ row' \in [Paths -> Rows] /\ away' \in [Paths -> 0..Confirm]
        /\ StreakOK' /\ SearchIsCurrent' /\ fts' \subseteq Paths
        /\ \A p \in Paths :
              row'[p].status = "missing" /\ row[p].status # "missing" => away'[p] >= Confirm
    BY <1>1, <1>2, FolderSearch DEF IInv, SearchOK
  <1>4. job' \in Job
    <2>1. job.left - 1 \in 0..MaxFolders
      BY <1>2, JobTypes DEF IInv
    <2>2. /\ job.done \cup children \subseteq Paths
          /\ (job.deferred \ late) \cup held \subseteq Paths
      BY <1>1, JobTypes DEF FolderScanned, IInv
    <2>3. job \in Job
      BY DEF IInv, TypeOK
    <2>4. QED
      BY <1>1, <2>1, <2>2, <2>3 DEF FolderScanned, Job
  <1>5. patched' \subseteq Paths /\ dirty' \in BOOLEAN
    BY <1>1, <1>2 DEF FolderScanned, IInv, TypeOK
  <1>6. IInv'
    BY <1>2, <1>3, <1>4, <1>5, FoldersKeep
  <1>7. QED
    BY <1>3, <1>6

\* A folder that is passed over or fails writes at most the mark of the table.
LEMMA OtherFoldersKeep ==
    ASSUME IInv, SkipFolder \/ FailFolder
    PROVE  IInv'
  <1>1. /\ at[PathTask] = "folders" /\ job.left > 0
        /\ UNCHANGED <<files, indexdb, circuit, engine, lock, at, run, spent, marks>>
        /\ dirty' \in {dirty, TRUE}
        /\ \/ job' = [job EXCEPT !.left = job.left - 1]
           \/ job' = [job EXCEPT !.left = job.left - 1, !.failed = TRUE]
    BY DEF SkipFolder, FailFolder, statedb
  <1>2. job.left - 1 \in 0..MaxFolders /\ job \in Job
    BY <1>1, JobTypes DEF IInv, TypeOK
  <1>3. job' \in Job
    BY <1>1, <1>2 DEF Job
  <1>4. /\ UNCHANGED <<disk, last, stuck, succeeded, rooted, cycles, circuit, engine, lock,
                       at, run, spent, unmarked, row, away, fts, patched>>
    BY <1>1 DEF files, indexdb, marks
  <1>5. StreakOK' /\ SearchIsCurrent' /\ dirty' \in BOOLEAN
    <2>1. StreakOK'
      BY <1>4 DEF IInv, StreakOK
    <2>2. CASE dirty' = TRUE
      BY <2>1, <2>2 DEF SearchIsCurrent
    <2>3. CASE dirty' = dirty
      <3>1. SearchIsCurrent'
        BY <1>4, <2>3 DEF IInv, SearchOK, SearchIsCurrent
      <3>2. QED
        BY <2>1, <2>3, <3>1 DEF IInv, TypeOK
    <2>4. QED
      BY <1>1, <2>2, <2>3
  <1>6. row' \in [Paths -> Rows] /\ away' \in [Paths -> 0..Confirm] /\ fts' \subseteq Paths
    BY <1>4 DEF IInv, TypeOK
  <1>7. patched' \subseteq Paths
    BY <1>4 DEF IInv, TypeOK
  <1>8. QED
    BY <1>1, <1>3, <1>4, <1>5, <1>6, <1>7, FoldersKeep

-----------------------------------------------------------------------------
(* The end of a run and of the process *)

\* A task leaves run_sync or run_path_sync, and its local variables disappear.
LEMMA LeaveKeeps ==
    ASSUME IInv, NEW t \in Tasks, NEW point \in {"idle", "migrate"}, at[t] \in Locked,
           Goto(t, point), lock' = Nobody, run' = NewRun, job' \in Job,
           UNCHANGED <<files, row, fts, cycles, dirty, engine, marks>>, circuit' \in BOOLEAN,
           last' \in RunStatuses, IndexGrows,
           spent' = spent \/ spent' \in Bounds
    PROVE  IInv'
  <1>1. lock = t /\ at \in [Tasks -> Locked \cup Unlocked]
    BY Inside DEF IInv, TypeOK
  <1>2. "idle" \in Unlocked /\ "migrate" \in Unlocked
    BY DEF Unlocked
  <1>3. /\ \A u \in Tasks : at'[u] = IF u = t THEN point ELSE at[u]
        /\ at' \in [Tasks -> Locked \cup Unlocked]
    BY <1>1, <1>2 DEF Goto
  <1>4. ASSUME NEW u \in Tasks PROVE at'[u] \in Locked <=> lock' = u
    <2>1. u # Nobody
      BY RootFacts
    <2>2. CASE u = t
      BY <1>2, <1>3, <2>1, <2>2, Apart
    <2>3. CASE u # t
      <3>1. at[u] \notin Locked
        BY <1>1, <2>3 DEF IInv, TypeOK
      <3>2. QED
        BY <1>3, <2>1, <2>3, <3>1
    <2>4. QED
      BY <2>2, <2>3
  <1>5. Point' = "idle"
    BY RootFacts DEF Point
  <1>6. RunOK' /\ run' \in Run
    BY <1>5, RunGone DEF IInv, RunOK, StreakOK, files
  <1>7. TypeOK'
    BY <1>3, <1>4, <1>6 DEF IInv, TypeOK, IndexGrows, files, marks
  <1>8. SearchOK'
    BY <1>5 DEF IInv, SearchOK, SearchIsCurrent, marks
  <1>9. HandOverOK'
    BY <1>3, HandOverKept
  <1>10. QED
    BY <1>6, <1>7, <1>8, <1>9 DEF IInv, RunOK

LEMMA EndRunKeeps ==
    ASSUME IInv, NEW t \in Tasks, EndRun(t)
    PROVE  IInv'
  <1>1. at[t] \in Locked /\ lock' = Nobody /\ run' = NewRun /\ circuit' \in BOOLEAN
    BY DEF EndRun, Locked
  <1>2. PICK point \in {"idle", "migrate"} : Goto(t, point)
    BY DEF EndRun
  <1>3. UNCHANGED <<files, row, fts, last, cycles, dirty, engine, marks, job, spent>> /\ IndexGrows
    BY IndexKept DEF EndRun, indexdb, IInv
  <1>4. last' \in RunStatuses /\ job' \in Job
    BY <1>3 DEF IInv, TypeOK
  <1>5. QED
    BY <1>1, <1>2, <1>3, <1>4, LeaveKeeps

LEMMA LeavePathsKeeps ==
    ASSUME IInv, ClosePaths \/ FailPaths
    PROVE  IInv'
  <1>1. at[PathTask] = "folders" /\ (spent' = spent \/ spent' \in Bounds)
    BY SpentTypes DEF IInv, ClosePaths, FailPaths, Fault
  <1>2. PICK status \in {"success", "partial", "failed"} : LeavePaths(status)
    BY DEF ClosePaths, FailPaths
  <1>3. PathTask \in Tasks /\ at[PathTask] \in Locked /\ run = NewRun
    BY <1>1, FoldersPoint
  <1>4. /\ Goto(PathTask, "idle") /\ lock' = Nobody /\ run' = NewRun /\ job' \in Job
        /\ UNCHANGED <<files, row, fts, cycles, dirty, engine, circuit, marks>>
    BY <1>2, <1>3, NewJobTypes DEF LeavePaths, statedb
  <1>5. last' \in RunStatuses /\ circuit' \in BOOLEAN
    BY <1>2, <1>4 DEF LeavePaths, RunStatuses, IInv, TypeOK
  <1>6. IndexGrows
    BY <1>2 DEF LeavePaths, IndexGrows, IInv, TypeOK
  <1>7. QED
    BY <1>1, <1>3, <1>4, <1>5, <1>6, LeaveKeeps

LEMMA RaiseKeeps ==
    ASSUME IInv, NEW t \in Tasks, Raise(t)
    PROVE  IInv'
  <1>1. spent' \in Bounds
    BY SpentTypes DEF IInv, Raise, Fault
  <1>2. Goto(t, "idle") /\ UNCHANGED <<files, indexdb, statedb, marks>>
    BY DEF Raise
  <1>3. IndexGrows /\ last' \in RunStatuses /\ circuit' \in BOOLEAN
    BY <1>2, IndexKept DEF indexdb, statedb, IInv, TypeOK
  <1>4. CASE at[t] \in Locked
    <2>1. lock = t /\ lock' = Nobody /\ run' = NewRun /\ job' = NewJob
      BY <1>4, Inside DEF IInv, Raise
    <2>2. NewJob \in Job
      BY NewJobTypes
    <2>3. QED
      BY <1>1, <1>2, <1>3, <1>4, <2>1, <2>2, LeaveKeeps DEF indexdb, statedb
  <1>5. CASE at[t] \notin Locked
    <2>1. at[t] \in Unlocked /\ "idle" \in Unlocked
      BY <1>5 DEF IInv, TypeOK, Unlocked
    <2>2. lock # t
      BY <1>5 DEF IInv, TypeOK
    <2>3. lock' = lock /\ run' = run /\ job' = job
      BY <2>2 DEF Raise
    <2>4. OutsideFacts
      BY OutsideFactsHold
    <2>5. QED
      BY <1>1, <1>2, <2>1, <2>3, <2>4, OutsideKeeps DEF OutsideFacts, indexdb, statedb
  <1>6. QED
    BY <1>4, <1>5

LEMMA RestartKeeps ==
    ASSUME IInv, Restart
    PROVE  IInv'
  <1>1. spent' \in Bounds
    BY SpentTypes DEF IInv, Restart, Fault
  <1>2. at' \in [Tasks -> Locked \cup Unlocked] /\ \A u \in Tasks : at'[u] = "idle"
    BY DEF Restart, Unlocked
  <1>3. \A u \in Tasks : at'[u] \in Locked <=> lock' = u
    BY <1>2, RootFacts DEF Restart, Locked
  <1>4. Point' = "idle"
    BY RootFacts DEF Point, Restart
  <1>5. RunOK' /\ run' \in Run
    BY <1>4, RunGone DEF IInv, RunOK, StreakOK, Restart, files
  <1>6. /\ last' \in RunStatuses /\ cycles' \in Nat /\ fts' \subseteq Paths
        /\ unmarked' \in BOOLEAN /\ patched' \subseteq Paths
    BY DEF IInv, TypeOK, Restart, RunStatuses, Searchable, marks
  <1>7. engine' \in BOOLEAN /\ dirty' \in BOOLEAN /\ job' \in Job
    BY NewJobTypes DEF IInv, TypeOK, Restart, Ready
  <1>8. TypeOK'
    BY <1>1, <1>2, <1>3, <1>5, <1>6, <1>7 DEF IInv, TypeOK, Restart, files
  <1>9. SearchOK'
    <2>1. CASE dirty \/ fts = {}
      <3>1. fts' = Searchable(row) /\ row' = row
        BY <2>1 DEF Restart
      <3>2. SearchIsCurrent'
        BY <3>1 DEF SearchIsCurrent, Searchable
      <3>3. QED
        BY <1>4, <3>2 DEF SearchOK
    <2>2. CASE ~(dirty \/ fts = {})
      <3>1. UNCHANGED <<fts, row, unmarked, patched>>
        BY <2>2 DEF Restart, marks
      <3>2. SearchIsCurrent'
        BY <2>2, <3>1 DEF IInv, SearchOK, SearchIsCurrent
      <3>3. QED
        BY <1>4, <3>2 DEF SearchOK
    <2>3. QED
      BY <2>1, <2>2
  <1>10. EngineHasIndex'
    <2>1. /\ cycles \in Nat /\ (engine => Ready /\ cycles > 0)
          /\ Ready' = Ready
      BY DEF IInv, TypeOK, HandOverOK, EngineHasIndex, Restart, Ready
    <2>2. CASE engine'
      <3>1. Ready /\ (engine \/ ~engine)
        BY <2>1, <2>2 DEF Restart
      <3>2. cycles' > 0
        BY <2>1, <3>1 DEF Restart
      <3>3. QED
        BY <2>1, <3>1, <3>2 DEF EngineHasIndex
    <2>3. CASE ~engine'
      BY <2>3 DEF EngineHasIndex
    <2>4. QED
      BY <2>2, <2>3
  <1>11. HandOverOK'
    <2>1. \A u \in Tasks : at'[u] \notin {"create", "enable"}
      BY <1>2
    <2>2. QED
      BY <1>10, <2>1 DEF HandOverOK
  <1>12. QED
    BY <1>5, <1>8, <1>9, <1>11 DEF IInv, RunOK

-----------------------------------------------------------------------------
(* The theorems *)

LEMMA InitOK == Init => IInv
  <1> SUFFICES ASSUME Init PROVE IInv
    OBVIOUS
  <1>1. Point = "idle"
    BY RootFacts DEF Init, Point
  <1>2. NewRun \in Run /\ NoRow \in Rows /\ NoRow.streak = 0 /\ NoRow.status = "none"
    BY RootFacts DEF NewRun, Run, NoRow, Rows
  <1>3. at \in [Tasks -> Locked \cup Unlocked] /\ \A u \in Tasks : at[u] \notin Locked /\ lock # u
    BY RootFacts DEF Init, Locked, Unlocked
  <1>4. /\ row \in [Paths -> Rows] /\ away \in [Paths -> 0..Confirm]
        /\ spent \in Bounds
    BY <1>2, RootFacts, FirstIndexAssumption DEF Init, Bounds
  <1>5. TypeOK
    BY <1>2, <1>3, <1>4, NewJobTypes DEF Init, TypeOK, RunStatuses
  <1>6. /\ run.next = 1 /\ run.failed = 0 /\ run.completed = 0 /\ run.seen = {}
        /\ Listed = 0 /\ Handled = 0
    BY <1>1 DEF Init, NewRun, Listed, Handled
  <1>7. CountsOK
    BY <1>1, <1>6 DEF Init, CountsOK
  <1>8. SeenOK
    BY <1>1, <1>6, RootFacts DEF SeenOK
  <1>9. StreakOK
    BY <1>2 DEF Init, StreakOK
  <1>10. SearchOK
    BY <1>1, <1>2 DEF Init, SearchOK, SearchIsCurrent, Searchable
  <1>11. HandOverOK
    BY DEF Init, HandOverOK, EngineHasIndex
  <1>12. QED
    BY <1>5, <1>7, <1>8, <1>9, <1>10, <1>11 DEF IInv

LEMMA StutterKeeps ==
    ASSUME IInv, UNCHANGED vars
    PROVE  IInv'
  <1>1. Point' = Point
    BY DEF vars, Point
  <1>2. RunOK'
    BY <1>1, RunKept DEF IInv, RunOK, vars
  <1>3. TypeOK' /\ SearchOK' /\ HandOverOK'
    BY <1>1 DEF IInv, TypeOK, SearchOK, SearchIsCurrent, Searchable, HandOverOK, EngineHasIndex, Ready,
              vars
  <1>4. QED
    BY <1>2, <1>3 DEF IInv, RunOK

LEMMA NextKeeps == IInv /\ [Next]_vars => IInv'
  <1> SUFFICES ASSUME IInv, [Next]_vars PROVE IInv'
    OBVIOUS
  <1>1. CASE \E p \in Paths : AddFile(p) \/ RemoveFile(p)
    <2>1. PICK new \in SUBSET Paths : Changed(new)
      BY <1>1 DEF AddFile, RemoveFile, IInv, TypeOK
    <2>2. QED
      BY <2>1, ChangedKeeps
  <1>2. CASE \E p, q \in Paths : MoveFile(p, q)
    <2>1. PICK new \in SUBSET Paths : Changed(new)
      BY <1>2 DEF MoveFile, IInv, TypeOK
    <2>2. QED
      BY <2>1, ChangedKeeps
  <1>3. CASE \E t \in Tasks : TaskStep(t) \/ AdminStarts(t) \/ FailRoot(t) \/ Raise(t)
    <2>1. PICK t \in Tasks : TaskStep(t) \/ AdminStarts(t) \/ FailRoot(t) \/ Raise(t)
      BY <1>3
    <2>2. CASE \/ SchedulerMigrates(t) \/ SchedulerStarts(t) \/ AdminStarts(t)
               \/ ReadCycles(t) \/ CreateCycle(t) \/ EnableEngine(t)
      BY <2>2, SchedulerMigratesKeeps, WaitsKeeps, ReadCyclesKeeps, CreateCycleKeeps, EnableEngineKeeps
    <2>3. CASE \/ Begin(t) \/ Scan(t) \/ CommitRoot(t) \/ RecordRoot(t) \/ FailRoot(t)
      BY <2>3, BeginKeeps, ScanKeeps, CommitRootKeeps, RecordRootKeeps, FailRootKeeps
    <2>4. CASE \/ OpenCircuit(t) \/ MarkSearch(t) \/ Finish(t) \/ ClearSearch(t)
               \/ EndRun(t) \/ Raise(t)
      BY <2>4, OpenCircuitKeeps, MarkSearchKeeps, FinishKeeps, ClearSearchKeeps, EndRunKeeps, RaiseKeeps
    <2>5. QED
      BY <2>1, <2>2, <2>3, <2>4 DEF TaskStep
  <1>4. CASE RequestPaths \/ PathStep \/ FailPaths
    BY <1>4, RequestPathsKeeps, BeginPathsKeeps, ScanFolderKeeps, OtherFoldersKeep,
       LeavePathsKeeps DEF PathStep
  <1>5. CASE CircuitExpires \/ Restart
    BY <1>5, CircuitExpiresKeeps, RestartKeeps
  <1>6. CASE UNCHANGED vars
    BY <1>6, StutterKeeps
  <1>7. QED
    BY <1>1, <1>2, <1>3, <1>4, <1>5, <1>6 DEF Next

\* The inductive invariant holds in every reachable state: what a run has counted,
\* listed and shown, what the histories record, and who may hand the site over
\* (run_sync, _commit_root, migrate_existing_index_to_rolling).
THEOREM Invariance == Spec => []IInv
  BY InitOK, NextKeeps, PTL DEF Spec

\* Every variable keeps its type, and only the task inside run_sync holds the
\* lock (sync_lock).
THEOREM TypeCorrect == Spec => []TypeOK
  <1>1. IInv => TypeOK
    BY DEF IInv
  <1>2. QED
    BY <1>1, Invariance, PTL

\* The search table is marked for the next start, belongs to a full run that has
\* not come to the mark, or finds the active rows, apart from those a path run took
\* from active to suspected or back, whatever fails or restarts
\* (set_search_index_dirty, recover_search_index_if_dirty).
THEOREM SearchStaysCurrent == Spec => []SearchIsCurrent
  <1>1. IInv => SearchIsCurrent
    BY DEF IInv, SearchOK
  <1>2. QED
    BY <1>1, Invariance, PTL

\* The rolling engine is enabled only with a successful run of some kind, an active
\* folder and a cycle, however tasks, path runs and restarts interleave in the
\* hand-over (migrate_existing_index_to_rolling).
THEOREM EngineStartsFromIndex == Spec => []EngineHasIndex
  <1>1. IInv => EngineHasIndex
    BY DEF IInv, HandOverOK
  <1>2. QED
    BY <1>1, Invariance, PTL

\* Rows are written by the commits of roots and folders only.
LEMMA RowsChange ==
    ASSUME IInv, [Next]_vars, row' # row
    PROVE  ScanFolder \/ \E t \in Tasks : CommitRoot(t)
  BY DEF Next, TaskStep, AddFile, RemoveFile, MoveFile, Changed, SchedulerMigrates,
         SchedulerStarts, AdminStarts, Begin, Scan, RecordRoot, FailRoot, OpenCircuit,
         MarkSearch, Finish, ClearSearch, EndRun, Raise, CircuitExpires, ReadCycles,
         CreateCycle, EnableEngine, Restart, RequestPaths, PathStep, BeginPaths, SkipFolder,
         FailFolder, ClosePaths, FailPaths, LeavePaths, indexdb, vars

\* A path is reported missing only after Confirm recorded scans of its root or
\* folder in a row that lacked it (advance_missing_candidate,
\* _observe_missing_in_cycle).
THEOREM MissingNeedsAbsence == Spec => MissingWasAway
  <1> DEFINE Step == \A p \in Paths : row'[p].status = "missing" /\ row[p].status # "missing"
                                      => away'[p] >= Confirm
  <1>1. IInv /\ [Next]_vars => [Step]_vars
    <2> SUFFICES ASSUME IInv, [Next]_vars PROVE Step
      OBVIOUS
    <2>1. CASE row' = row
      BY <2>1
    <2>2. CASE row' # row
      <3>1. CASE ScanFolder
        BY <3>1, ScanFolderKeeps
      <3>2. CASE \E t \in Tasks : CommitRoot(t)
        BY <3>2, CommitRootWrites
      <3>3. QED
        BY <2>2, <3>1, <3>2, RowsChange
    <2>3. QED
      BY <2>1, <2>2
  <1> HIDE DEF Step
  <1>2. Spec => [][Step]_vars
    BY <1>1, Invariance, PTL DEF Spec
  <1>3. QED
    BY <1>2 DEF MissingWasAway, Step

\* A full run reports success by its last step only.
LEMMA SuccessIsFinish ==
    ASSUME IInv, [Next]_vars, last = "running", last' = "success", lock # PathTask
    PROVE  \E t \in Tasks : Finish(t)
  BY FoldersPoint DEF Next, TaskStep, AddFile, RemoveFile, MoveFile, Changed, SchedulerMigrates,
         SchedulerStarts, AdminStarts, Begin, Scan, CommitRoot, RecordRoot, FailRoot, OpenCircuit,
         MarkSearch, ClearSearch, EndRun, Raise, CircuitExpires, ReadCycles,
         CreateCycle, EnableEngine, Restart, RequestPaths, PathStep, BeginPaths, SkipFolder,
         ScanFolder, FailFolder, ClosePaths, FailPaths, LeavePaths, indexdb, vars

\* A full run that reports success has dealt with every root, and the active rows are
\* the paths its scans found (run_sync).
THEOREM SuccessIsComplete == Spec => SuccessShowsFiles
  <1> DEFINE Step == last = "running" /\ last' = "success" /\ lock # PathTask =>
                        Searchable(row) = run.seen /\ run.next > Len(Roots)
  <1>1. IInv /\ [Next]_vars => [Step]_vars
    <2> SUFFICES ASSUME IInv, [Next]_vars, last = "running", last' = "success",
                        lock # PathTask
                 PROVE  Searchable(row) = run.seen /\ run.next > Len(Roots)
      OBVIOUS
    <2>1. PICK t \in Tasks : Finish(t)
      BY SuccessIsFinish
    <2>2. FinalStatus = "success" /\ at[t] = "rebuild" /\ at[t] \in Locked
      BY <2>1 DEF Finish, Locked
    <2>3. Point = "rebuild"
      BY <2>2, Inside DEF IInv
    <2>4. run.failed \in Nat /\ run.next \in Nat /\ run.seen \subseteq Paths
      BY RunTypes, RootFacts DEF IInv
    <2>5. run.failed = 0 /\ ~run.suspicious
      BY <2>2, <2>4 DEF FinalStatus
    <2>6. run.next > Len(Roots)
      BY <2>3, <2>5 DEF IInv, CountsOK
    <2>7. Len(Roots) \in Nat /\ Handled \in Nat /\ Len(Roots) <= Handled
      BY <2>3, <2>4, <2>6, RootFacts DEF Handled
    <2>8. \A p \in Paths : AmongFirst(p, Handled)
      BY <2>7, RootFacts, MoreRoots
    <2>9. \A p \in Paths : row[p].status = "active" <=> p \in run.seen
      BY <2>5, <2>8 DEF IInv, SeenOK
    <2>10. Searchable(row) = run.seen
      BY <2>4, <2>9 DEF Searchable
    <2>11. QED
      BY <2>6, <2>10
  <1> HIDE DEF Step
  <1>2. Spec => [][Step]_vars
    BY <1>1, Invariance, PTL DEF Spec
  <1>3. QED
    BY <1>2 DEF SuccessShowsFiles, Step

=============================================================================
