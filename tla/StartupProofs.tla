--------------------------- MODULE StartupProofs ---------------------------
(***************************************************************************)
(* Theorems about Startup, for every set of identifiers and connections and *)
(* every bound.  IInv of Startup is the inductive invariant.  Steps of the  *)
(* same kind share a frame lemma (WorkKeeps, RepairKeeps, CopyKeeps,        *)
(* StopKeeps, MishapKeeps), which says what is left to show of a step.      *)
(***************************************************************************)
EXTENDS Startup, TLAPS

-----------------------------------------------------------------------------
(* Facts about constants and records *)

LEMMA Constants ==
    /\ Current \in Nat /\ Current > 0
    /\ None \notin Connections /\ None \notin Ids
    /\ MaxStops \in Nat /\ MaxLosses \in Nat /\ MaxWork \in Nat
    /\ OldConnection \in Connections
  <1>1. {MaxStops, MaxLosses, MaxWork} \subseteq Nat /\ Current \in Nat \ {0}
    BY StartupAssumption
  <1>2. /\ MaxStops \in {MaxStops, MaxLosses, MaxWork}
        /\ MaxLosses \in {MaxStops, MaxLosses, MaxWork}
        /\ MaxWork \in {MaxStops, MaxLosses, MaxWork}
    OBVIOUS
  <1>3. Current \in Nat /\ Current > 0
    BY <1>1
  <1>4. OldConnection \in Connections
    BY StartupAssumption DEF OldConnection
  <1>5. QED
    BY <1>1, <1>2, <1>3, <1>4, StartupAssumption

\* The fields of a state.db and of an index.db.
LEMMA StateFields ==
    ASSUME NEW s \in State
    PROVE  /\ s.file \in Files /\ s.site \in 0..MaxLosses /\ s.version \in 0..Current
           /\ s.setup \in BOOLEAN /\ s.connection \in Connections \cup {None}
           /\ s.roots \in BOOLEAN /\ s.ids \subseteq Ids
           /\ s.stable \in {"none", "running", "failed", "complete"}
           /\ s.dirty \in BOOLEAN /\ s.engine \in BOOLEAN
  BY DEF State

LEMMA IndexFields ==
    ASSUME NEW i \in Index
    PROVE  /\ i.file \in Files /\ i.site \in 0..MaxLosses /\ i.active \subseteq Ids
           /\ i.folders \in BOOLEAN /\ i.success \in BOOLEAN /\ i.run \in BOOLEAN
           /\ i.cycle \in {"none", "planned", "running", "partial"} /\ i.item \in BOOLEAN
           /\ i.fts \in {"current", "behind", "empty", "old"} /\ i.unmarked \in BOOLEAN
  BY DEF Index

\* What is new is empty.
LEMMA NewFields ==
    /\ NewState \in State /\ NewIndex \in Index
    /\ NewState.file = "absent" /\ NewState.version = 0 /\ NewState.connection = None
    /\ NewState.setup = FALSE /\ NewState.stable = "none"
    /\ NewIndex.file = "absent" /\ NewIndex.active = {} /\ NewIndex.folders = FALSE
    /\ NewIndex.success = FALSE /\ NewIndex.run = FALSE /\ NewIndex.fts = "empty"
  <1>1. NewState \in State
    BY Constants DEF NewState, State, Files
  <1>2. NewIndex \in Index
    BY Constants DEF NewIndex, Index, Files
  <1>3. QED
    BY <1>1, <1>2 DEF NewState, NewIndex

\* The state of the site a start or a request finds.
LEMMA Types ==
    ASSUME TypeOK
    PROVE  /\ state \in State /\ index \in Index
           /\ spent.stops \in 0..MaxStops /\ spent.losses \in 0..MaxLosses
           /\ spent.work \in 0..MaxWork
           /\ backup.state \in State \cup {None} /\ backup.index \in Index \cup {None}
           /\ backup.torn \in BOOLEAN
  BY DEF TypeOK

Keeps(s, t) == t.file = s.file /\ t.site = s.site /\ t.version = s.version
KeepsFile(i, j) == j.file = i.file /\ j.site = i.site

-----------------------------------------------------------------------------
(* The running site *)

\* Work keeps the invariant if the files stay those of the site, active rows are
\* registered and a search table that falls behind is marked or is to be rebuilt.
LEMMA WorkKeeps ==
    ASSUME IInv, pc = "up", UNCHANGED <<dir, pc, backup, origin>>,
           state' \in State, index' \in Index, setups' \subseteq Connections,
           spent' \in [stops: 0..MaxStops, losses: 0..MaxLosses, work: 0..MaxWork],
           Keeps(state, state'), state'.stable = state.stable, KeepsFile(index, index'),
           index'.active \subseteq state'.ids,
           index'.fts \in {"current", "behind"},
           origin # "torn archive" /\ index'.fts = "behind" => state'.dirty \/ index'.unmarked,
           state'.dirty /\ ~index'.run => index'.fts = "current"
    PROVE  IInv'
  <1>1. state.file = "ready" /\ index.file = "ready" /\ state.version = Current
        /\ state.stable = "complete"
    BY DEF IInv, TypeOK, ProgressOK
  <1>2. state'.file = "ready" /\ index'.file = "ready" /\ state'.version = Current
        /\ state'.stable = "complete" /\ state'.site = state.site /\ index'.site = index.site
    BY <1>1 DEF Keeps, KeepsFile
  <1>3. HasIdentity /\ HasIdentity'
    BY <1>1, <1>2, Constants DEF HasIdentity
  <1>4. snapshot' = snapshot /\ copies' = copies /\ pc' = "up"
    BY DEF dir
  <1>5. TypeOK'
    BY <1>2, <1>4 DEF IInv, TypeOK
  <1>6. FilesOK'
    BY <1>1, <1>2, <1>3, <1>4 DEF IInv, FilesOK, Preparations
  <1>7. SiteOK'
    BY <1>2, <1>4 DEF SiteOK, Agree, RefusesForCause
  <1>8. BackupOK'
    BY <1>2, <1>4 DEF IInv, BackupOK
  <1>9. CopiesOK'
    BY <1>4 DEF CopiesOK, UntilSeed
  <1>10. ProgressOK'
    BY <1>2, <1>4 DEF ProgressOK, Repairs, AfterSearch, AfterRuns, AfterStable, AfterRolling,
                      AfterHandOver
  <1>11. QED
    BY <1>5, <1>6, <1>7, <1>8, <1>9, <1>10 DEF IInv

\* What the invariant says of a running site.
LEMMA Running ==
    ASSUME IInv, pc = "up"
    PROVE  /\ state \in State /\ index \in Index
           /\ spent \in [stops: 0..MaxStops, losses: 0..MaxLosses, work: 0..MaxWork]
           /\ setups \subseteq Connections
           /\ index.active \subseteq state.ids
           /\ index.fts \in {"current", "behind"}
           /\ origin # "torn archive" /\ index.fts = "behind" => state.dirty \/ index.unmarked
           /\ state.dirty /\ ~index.run => index.fts = "current"
           /\ state.stable = "complete"
  <1>1. index.fts \in {"current", "behind"} /\ state.stable = "complete"
        /\ index.active \subseteq state.ids
        /\ (state.dirty /\ ~index.run => index.fts = "current")
    BY DEF IInv, ProgressOK
  <1>2. state.file = "ready" /\ index.file = "ready"
    BY DEF IInv, TypeOK
  <1>3. QED
    BY <1>1, <1>2 DEF IInv, TypeOK, SiteOK, Agree

LEMMA WorkingTypes ==
    ASSUME IInv, Working
    PROVE  /\ spent' \in [stops: 0..MaxStops, losses: 0..MaxLosses, work: 0..MaxWork]
           /\ pc = "up" /\ UNCHANGED <<dir, pc, backup, origin>>
  <1>1. spent.work \in 0..MaxWork /\ spent.work < MaxWork /\ MaxWork \in Nat
    BY Types, Constants DEF IInv, Working
  <1>2. spent.work + 1 \in 0..MaxWork
    BY <1>1
  <1>3. spent \in [stops: 0..MaxStops, losses: 0..MaxLosses, work: 0..MaxWork]
    BY DEF IInv, TypeOK
  <1>4. spent' = [spent EXCEPT !.work = spent.work + 1]
    BY DEF Working
  <1>5. spent' \in [stops: 0..MaxStops, losses: 0..MaxLosses, work: 0..MaxWork]
    BY <1>2, <1>3, <1>4
  <1>6. QED
    BY <1>5 DEF Working

\* A setup request looks at the site and leaves it as it is.
LEMMA SetupCheckKeeps ==
    ASSUME IInv, NEW c \in Connections, SetupCheck(c)
    PROVE  IInv'
  <1>1. Working /\ setups' = setups \cup {c} /\ state' = state /\ index' = index
    BY DEF SetupCheck
  <1>2. QED
    BY <1>1, WorkingTypes, Running, WorkKeeps DEF Keeps, KeepsFile

LEMMA SetupSaveKeeps ==
    ASSUME IInv, NEW c \in Connections, SetupSave(c)
    PROVE  IInv'
  <1>1. pc = "up" /\ setups' = setups \ {c} /\ UNCHANGED <<index, dir, pc, backup, origin, spent>>
    BY DEF SetupSave
  <1>2. state \in State
    BY <1>1, Running
  <1>3. state' \in State /\ Keeps(state, state') /\ state'.stable = state.stable
        /\ state'.ids = state.ids /\ state'.dirty = state.dirty
    BY <1>2 DEF SetupSave, State, Keeps
  <1>4. QED
    BY <1>1, <1>3, Running, WorkKeeps DEF KeepsFile

LEMMA ChangeRootsKeeps ==
    ASSUME IInv, ChangeRoots
    PROVE  IInv'
  <1>1. Working /\ index' = index /\ setups' = setups
    BY DEF ChangeRoots
  <1>2. pc = "up" /\ state \in State
    BY <1>1, Running, WorkingTypes
  <1>3. state' \in State /\ Keeps(state, state') /\ state'.stable = state.stable
        /\ state'.ids = state.ids /\ state'.dirty = state.dirty
    BY <1>2 DEF ChangeRoots, State, Keeps
  <1>4. QED
    BY <1>1, <1>3, WorkingTypes, Running, WorkKeeps DEF KeepsFile

LEMMA BeginRunKeeps ==
    ASSUME IInv, BeginRun
    PROVE  IInv'
  <1>1. Working /\ state' = state /\ setups' = setups
    BY DEF BeginRun
  <1>2. pc = "up" /\ index \in Index
    BY <1>1, Running, WorkingTypes
  <1>3. index' \in Index /\ KeepsFile(index, index') /\ index'.active = index.active
        /\ index'.fts = index.fts /\ index'.run = TRUE /\ index'.unmarked = index.unmarked
    BY <1>2 DEF BeginRun, Index, KeepsFile
  <1>4. QED
    BY <1>1, <1>3, WorkingTypes, Running, WorkKeeps DEF Keeps

LEMMA BeginItemKeeps ==
    ASSUME IInv, BeginItem
    PROVE  IInv'
  <1>1. Working /\ state' = state /\ setups' = setups
    BY DEF BeginItem
  <1>2. pc = "up" /\ index \in Index
    BY <1>1, Running, WorkingTypes
  <1>3. index' \in Index /\ KeepsFile(index, index') /\ index'.active = index.active
        /\ index'.fts = index.fts /\ index'.run = index.run /\ index'.unmarked = index.unmarked
    BY <1>2 DEF BeginItem, Index, KeepsFile
  <1>4. QED
    BY <1>1, <1>3, WorkingTypes, Running, WorkKeeps DEF Keeps

LEMMA EndItemKeeps ==
    ASSUME IInv, EndItem
    PROVE  IInv'
  <1>1. Working /\ state' = state /\ setups' = setups
    BY DEF EndItem
  <1>2. pc = "up" /\ index \in Index
    BY <1>1, Running, WorkingTypes
  <1>3. index' \in Index /\ KeepsFile(index, index') /\ index'.active = index.active
        /\ index'.fts = index.fts /\ index'.run = index.run /\ index'.unmarked = index.unmarked
    BY <1>2 DEF EndItem, Index, KeepsFile
  <1>4. QED
    BY <1>1, <1>3, WorkingTypes, Running, WorkKeeps DEF Keeps

\* Identities are registered before their rows are active.
LEMMA RegisterKeeps ==
    ASSUME IInv, NEW r \in Ids, Register(r)
    PROVE  IInv'
  <1>1. Working /\ index' = index /\ setups' = setups
    BY DEF Register
  <1>2. pc = "up" /\ state \in State
    BY <1>1, Running, WorkingTypes
  <1>3. state' \in State /\ Keeps(state, state') /\ state'.stable = state.stable
        /\ state'.ids = state.ids \cup {r} /\ state'.dirty = state.dirty
    BY <1>2 DEF Register, State, Keeps
  <1>4. index'.active \subseteq state'.ids
    BY <1>1, <1>2, <1>3, Running
  <1>5. QED
    BY <1>1, <1>3, <1>4, WorkingTypes, Running, WorkKeeps DEF KeepsFile

LEMMA AddRowKeeps ==
    ASSUME IInv, NEW r \in Ids, AddRow(r)
    PROVE  IInv'
  <1>1. Working /\ state' = state /\ setups' = setups /\ r \in state.ids
    BY DEF AddRow
  <1>2. pc = "up" /\ index \in Index
    BY <1>1, Running, WorkingTypes
  <1>3. index' \in Index /\ KeepsFile(index, index') /\ index'.active = index.active \cup {r}
        /\ index'.run = index.run
        /\ index'.fts = (IF index.run THEN "behind" ELSE index.fts)
        /\ index'.unmarked = (index.unmarked \/ index.run)
    BY <1>2 DEF AddRow, Index, KeepsFile
  <1>4. index'.active \subseteq state'.ids
    BY <1>1, <1>2, <1>3, Running
  <1>5. CASE index.run
    BY <1>1, <1>2, <1>3, <1>4, <1>5, WorkingTypes, Running, WorkKeeps DEF Keeps
  <1>6. CASE ~index.run
    BY <1>1, <1>2, <1>3, <1>4, <1>6, WorkingTypes, Running, WorkKeeps, IndexFields DEF Keeps
  <1>7. QED
    BY <1>5, <1>6

LEMMA MarkSearchKeeps ==
    ASSUME IInv, MarkSearch
    PROVE  IInv'
  <1>1. Working /\ index.run /\ setups' = setups
    BY DEF MarkSearch
  <1>2. pc = "up" /\ state \in State /\ index \in Index
    BY <1>1, Running, WorkingTypes
  <1>3. state' \in State /\ Keeps(state, state') /\ state'.stable = state.stable
        /\ state'.ids = state.ids /\ state'.dirty = TRUE
    BY <1>2 DEF MarkSearch, State, Keeps
  <1>4. index' \in Index /\ KeepsFile(index, index') /\ index'.active = index.active
        /\ index'.fts = index.fts /\ index'.run = index.run
    BY <1>2 DEF MarkSearch, Index, KeepsFile
  <1>5. QED
    BY <1>1, <1>2, <1>3, <1>4, WorkingTypes, Running, WorkKeeps

LEMMA EndRunKeeps ==
    ASSUME IInv, EndRun
    PROVE  IInv'
  <1>1. Working /\ state' = state /\ setups' = setups
    BY DEF EndRun
  <1>2. pc = "up" /\ index \in Index
    BY <1>1, Running, WorkingTypes
  <1>3. index' \in Index /\ KeepsFile(index, index') /\ index'.active = index.active
        /\ index'.fts = "current"
    BY <1>2 DEF EndRun, Index, KeepsFile
  <1>4. QED
    BY <1>1, <1>3, WorkingTypes, Running, WorkKeeps DEF Keeps

\* The mark is cleared when the table has been rebuilt.
LEMMA ClearMarkKeeps ==
    ASSUME IInv, ClearMark
    PROVE  IInv'
  <1>1. Working /\ index' = index /\ setups' = setups /\ state.dirty /\ ~index.run
    BY DEF ClearMark
  <1>2. pc = "up" /\ state \in State
    BY <1>1, Running, WorkingTypes
  <1>3. state' \in State /\ Keeps(state, state') /\ state'.stable = state.stable
        /\ state'.ids = state.ids /\ state'.dirty = FALSE
    BY <1>2 DEF ClearMark, State, Keeps
  <1>4. index'.fts = "current"
    BY <1>1, <1>2, Running
  <1>5. QED
    BY <1>1, <1>3, <1>4, WorkingTypes, Running, WorkKeeps DEF KeepsFile

LEMMA SiteStepKeeps ==
    ASSUME IInv, SiteStep
    PROVE  IInv'
  BY SetupCheckKeeps, SetupSaveKeeps, ChangeRootsKeeps, BeginRunKeeps, BeginItemKeeps,
     EndItemKeeps, RegisterKeeps, AddRowKeeps, MarkSearchKeeps, EndRunKeeps, ClearMarkKeeps
     DEF SiteStep

-----------------------------------------------------------------------------
(* The repairs of a start *)

\* What a start has to repair with: both files, upgraded.
LEMMA Repairing ==
    ASSUME IInv, pc \in Repairs
    PROVE  /\ state \in State /\ index \in Index
           /\ state.file = "ready" /\ index.file = "ready" /\ state.version = Current
           /\ index.site = state.site /\ HasIdentity
           /\ origin # "torn archive" => Agree(state, index)
           /\ index.fts \in {"current", "behind"}
           /\ spent \in [stops: 0..MaxStops, losses: 0..MaxLosses, work: 0..MaxWork]
  <1>1. state.file = "ready" /\ index.file = "ready" /\ state.version = Current
        /\ index.fts \in {"current", "behind"}
    BY DEF IInv, TypeOK, ProgressOK
  <1>2. QED
    BY <1>1 DEF IInv, TypeOK, FilesOK, SiteOK

\* A repair keeps what concerns the files if it leaves the files as they are and
\* their contents in agreement.
LEMMA RepairKeeps ==
    ASSUME IInv, pc \in Repairs, pc' \in Repairs \cup {"up"},
           UNCHANGED <<dir, setups, backup, origin, spent>>,
           state' \in State, index' \in Index, Keeps(state, state'), KeepsFile(index, index'),
           origin # "torn archive" => Agree(state', index')
    PROVE  TypeOK' /\ FilesOK' /\ SiteOK' /\ BackupOK'
  <1>1. state.file = "ready" /\ index.file = "ready" /\ state.version = Current
        /\ index.site = state.site
    BY Repairing
  <1>2. state'.file = "ready" /\ index'.file = "ready" /\ state'.version = Current
        /\ state'.site = state.site /\ index'.site = index.site
    BY <1>1 DEF Keeps, KeepsFile
  <1>3. HasIdentity'
    BY <1>2, Constants DEF HasIdentity
  <1>4. snapshot' = snapshot /\ copies' = copies /\ pc # "up"
    BY DEF dir, Repairs
  <1>5. TypeOK'
    BY <1>2, <1>4 DEF IInv, TypeOK
  <1>6. FilesOK'
    BY <1>1, <1>2, <1>3 DEF IInv, FilesOK, Preparations, Repairs
  <1>7. SiteOK'
    BY <1>2 DEF SiteOK, Agree, RefusesForCause, Repairs
  <1>8. BackupOK'
    BY <1>2, <1>4 DEF IInv, BackupOK
  <1>9. QED
    BY <1>5, <1>6, <1>7, <1>8

\* The files are valid after the preparations.
LEMMA ValidateKeeps ==
    ASSUME IInv, Validate
    PROVE  IInv'
  <1>1. pc = "validate" /\ pc \in Repairs
    BY DEF Validate, Repairs
  <1>2. Valid
    BY <1>1, Repairing DEF Valid
  <1>3. pc' = "search" /\ UNCHANGED <<state, index, dir, setups, backup, origin, spent>>
    BY <1>2 DEF Validate
  <1>4. TypeOK' /\ FilesOK' /\ SiteOK' /\ BackupOK'
    BY <1>1, <1>3, Repairing, RepairKeeps DEF Keeps, KeepsFile, Repairs
  <1>5. CopiesOK'
    BY <1>1, <1>3 DEF IInv, CopiesOK, UntilSeed, dir
  <1>6. ProgressOK'
    BY <1>1, <1>3 DEF IInv, ProgressOK, Repairs, AfterSearch, AfterRuns, AfterStable,
                      AfterRolling, AfterHandOver
  <1>7. QED
    BY <1>4, <1>5, <1>6 DEF IInv

LEMMA RecoverSearchKeeps ==
    ASSUME IInv, RecoverSearch
    PROVE  IInv'
  <1>1. pc = "search" /\ pc \in Repairs /\ state' = state
        /\ UNCHANGED <<dir, setups, backup, origin, spent>>
    BY DEF RecoverSearch, Repairs
  <1>2. index \in Index /\ state \in State /\ (origin # "torn archive" => Agree(state, index))
        /\ index.fts \in {"current", "behind"}
    BY <1>1, Repairing
  <1>3. CASE state.dirty
    <2>1. index' = [index EXCEPT !.fts = "current"] /\ pc' = "search_clear"
      BY <1>3 DEF RecoverSearch
    <2>2. index' \in Index /\ KeepsFile(index, index') /\ index'.fts = "current"
          /\ index'.active = index.active
      BY <1>2, <2>1 DEF Index, KeepsFile
    <2>3. origin # "torn archive" => Agree(state', index')
      BY <1>1, <1>2, <2>2 DEF Agree
    <2>4. TypeOK' /\ FilesOK' /\ SiteOK' /\ BackupOK'
      BY <1>1, <1>2, <2>1, <2>2, <2>3, RepairKeeps DEF Keeps, Repairs
    <2>5. CopiesOK'
      BY <1>1, <2>1, <2>2 DEF IInv, CopiesOK, UntilSeed, dir
    <2>6. ProgressOK'
      BY <1>1, <2>1, <2>2 DEF IInv, ProgressOK, Repairs, AfterSearch, AfterRuns, AfterStable,
                              AfterRolling, AfterHandOver
    <2>7. QED
      BY <2>4, <2>5, <2>6 DEF IInv
  <1>4. CASE ~state.dirty
    <2>1. index' = index /\ pc' = "runs"
      BY <1>4 DEF RecoverSearch
    <2>2. TypeOK' /\ FilesOK' /\ SiteOK' /\ BackupOK'
      BY <1>1, <1>2, <2>1, RepairKeeps DEF Keeps, KeepsFile, Repairs
    <2>3. CopiesOK'
      BY <1>1, <2>1 DEF IInv, CopiesOK, UntilSeed, dir
    <2>4. ProgressOK'
      BY <1>1, <1>4, <2>1 DEF IInv, ProgressOK, Repairs, AfterSearch, AfterRuns, AfterStable,
                              AfterRolling, AfterHandOver
    <2>5. QED
      BY <2>2, <2>3, <2>4 DEF IInv
  <1>5. QED
    BY <1>3, <1>4

\* The table has just been rebuilt.
LEMMA ClearSearchKeeps ==
    ASSUME IInv, ClearSearch
    PROVE  IInv'
  <1>1. pc = "search_clear" /\ pc' = "runs" /\ pc \in Repairs /\ index' = index
        /\ UNCHANGED <<dir, setups, backup, origin, spent>>
    BY DEF ClearSearch, Repairs
  <1>2. index \in Index /\ state \in State /\ (origin # "torn archive" => Agree(state, index))
    BY <1>1, Repairing
  <1>3. state' \in State /\ Keeps(state, state')
        /\ state'.ids = state.ids /\ state'.stable = state.stable /\ state'.engine = state.engine
        /\ state'.roots = state.roots /\ state'.connection = state.connection /\ state'.setup = state.setup
        /\ state'.dirty = FALSE
    BY <1>1, <1>2 DEF ClearSearch, State, Keeps
  <1>4. origin # "torn archive" => Agree(state', index')
    BY <1>1, <1>2, <1>3 DEF Agree, IInv, ProgressOK
  <1>5. TypeOK' /\ FilesOK' /\ SiteOK' /\ BackupOK'
    BY <1>1, <1>2, <1>3, <1>4, RepairKeeps DEF KeepsFile, Repairs
  <1>6. CopiesOK'
    BY <1>1, <1>3 DEF IInv, CopiesOK, UntilSeed, dir
  <1>7. ProgressOK'
    BY <1>1, <1>2, <1>3 DEF IInv, ProgressOK, Repairs, AfterSearch, AfterRuns, AfterStable,
                            AfterRolling, AfterHandOver, Keeps
  <1>8. QED
    BY <1>5, <1>6, <1>7 DEF IInv

LEMMA RecoverRunsKeeps ==
    ASSUME IInv, RecoverRuns
    PROVE  IInv'
  <1>1. pc = "runs" /\ pc' = "stable" /\ pc \in Repairs /\ state' = state
        /\ UNCHANGED <<dir, setups, backup, origin, spent>>
    BY DEF RecoverRuns, Repairs
  <1>2. index \in Index /\ state \in State /\ (origin # "torn archive" => Agree(state, index))
    BY <1>1, Repairing
  <1>3. index' \in Index /\ KeepsFile(index, index')
        /\ index'.active = index.active /\ index'.folders = index.folders /\ index'.success = index.success
        /\ index'.cycle = index.cycle /\ index'.item = index.item /\ index'.fts = index.fts
        /\ index'.unmarked = index.unmarked
        /\ index'.run = FALSE
    BY <1>1, <1>2 DEF RecoverRuns, Index, KeepsFile
  <1>4. origin # "torn archive" => Agree(state', index')
    BY <1>1, <1>2, <1>3 DEF Agree
  <1>5. TypeOK' /\ FilesOK' /\ SiteOK' /\ BackupOK'
    BY <1>1, <1>2, <1>3, <1>4, RepairKeeps DEF Keeps, Repairs
  <1>6. CopiesOK'
    BY <1>1, <1>3 DEF IInv, CopiesOK, UntilSeed, dir
  <1>7. ProgressOK'
    BY <1>1, <1>2, <1>3 DEF IInv, ProgressOK, Repairs, AfterSearch, AfterRuns, AfterStable,
                            AfterRolling, AfterHandOver, Keeps
  <1>8. QED
    BY <1>5, <1>6, <1>7 DEF IInv

LEMMA SeedKeeps ==
    ASSUME IInv, Seed
    PROVE  IInv'
  <1>1. pc = "seed" /\ pc' = "complete" /\ pc \in Repairs /\ index' = index
        /\ UNCHANGED <<dir, setups, backup, origin, spent>>
    BY DEF Seed, Repairs
  <1>2. index \in Index /\ state \in State /\ (origin # "torn archive" => Agree(state, index))
    BY <1>1, Repairing
  <1>3. state.ids \cup index.active \in SUBSET Ids
    BY <1>2, StateFields, IndexFields
  <1>4. state' \in State /\ Keeps(state, state')
        /\ state'.stable = state.stable /\ state'.dirty = state.dirty /\ state'.engine = state.engine
        /\ state'.roots = state.roots /\ state'.connection = state.connection /\ state'.setup = state.setup
        /\ state'.ids = state.ids \cup index.active
    BY <1>1, <1>2, <1>3 DEF Seed, State, Keeps
  <1>5. index'.active \subseteq state'.ids
    BY <1>1, <1>4
  <1>6. origin # "torn archive" => Agree(state', index')
    BY <1>1, <1>2, <1>4, <1>5 DEF Agree
  <1>7. TypeOK' /\ FilesOK' /\ SiteOK' /\ BackupOK'
    BY <1>1, <1>2, <1>4, <1>6, RepairKeeps DEF KeepsFile, Repairs
  <1>8. CopiesOK'
    BY <1>1, <1>4 DEF IInv, CopiesOK, UntilSeed, dir
  <1>9. ProgressOK'
    BY <1>1, <1>2, <1>4, <1>5 DEF IInv, ProgressOK, Repairs, AfterSearch, AfterRuns, AfterStable,
                            AfterRolling, AfterHandOver, Keeps
  <1>10. QED
    BY <1>7, <1>8, <1>9 DEF IInv

LEMMA CompleteStableKeeps ==
    ASSUME IInv, CompleteStable
    PROVE  IInv'
  <1>1. pc = "complete" /\ pc' = "rolling" /\ pc \in Repairs /\ index' = index
        /\ UNCHANGED <<dir, setups, backup, origin, spent>>
    BY DEF CompleteStable, Repairs
  <1>2. index \in Index /\ state \in State /\ (origin # "torn archive" => Agree(state, index))
    BY <1>1, Repairing
  <1>3. state' \in State /\ Keeps(state, state')
        /\ state'.ids = state.ids /\ state'.dirty = state.dirty /\ state'.engine = state.engine
        /\ state'.roots = state.roots /\ state'.connection = state.connection /\ state'.setup = state.setup
        /\ state'.stable = "complete"
    BY <1>1, <1>2 DEF CompleteStable, State, Keeps
  <1>4. origin # "torn archive" => Agree(state', index')
    BY <1>1, <1>2, <1>3 DEF Agree, IInv, ProgressOK
  <1>5. TypeOK' /\ FilesOK' /\ SiteOK' /\ BackupOK'
    BY <1>1, <1>2, <1>3, <1>4, RepairKeeps DEF KeepsFile, Repairs
  <1>6. CopiesOK'
    BY <1>1, <1>3 DEF IInv, CopiesOK, UntilSeed, dir
  <1>7. ProgressOK'
    BY <1>1, <1>2, <1>3 DEF IInv, ProgressOK, Repairs, AfterSearch, AfterRuns, AfterStable,
                            AfterRolling, AfterHandOver, Keeps
  <1>8. QED
    BY <1>5, <1>6, <1>7 DEF IInv

LEMMA RecoverRollingKeeps ==
    ASSUME IInv, RecoverRolling
    PROVE  IInv'
  <1>1. pc = "rolling" /\ pc' = "handover" /\ pc \in Repairs /\ state' = state
        /\ UNCHANGED <<dir, setups, backup, origin, spent>>
    BY DEF RecoverRolling, Repairs
  <1>2. index \in Index /\ state \in State /\ (origin # "torn archive" => Agree(state, index))
    BY <1>1, Repairing
  <1>3. index' \in Index /\ KeepsFile(index, index')
        /\ index'.active = index.active /\ index'.folders = index.folders /\ index'.success = index.success
        /\ index'.run = index.run /\ index'.fts = index.fts /\ index'.unmarked = index.unmarked
        /\ index'.item = FALSE
        /\ index'.cycle = (IF index.cycle = "running" THEN "partial" ELSE index.cycle)
    BY <1>1, <1>2 DEF RecoverRolling, Index, KeepsFile
  <1>4. origin # "torn archive" => Agree(state', index')
    BY <1>1, <1>2, <1>3 DEF Agree
  <1>5. TypeOK' /\ FilesOK' /\ SiteOK' /\ BackupOK'
    BY <1>1, <1>2, <1>3, <1>4, RepairKeeps DEF Keeps, Repairs
  <1>6. CopiesOK'
    BY <1>1, <1>3 DEF IInv, CopiesOK, UntilSeed, dir
  <1>7. ProgressOK'
    BY <1>1, <1>2, <1>3 DEF IInv, ProgressOK, Repairs, AfterSearch, AfterRuns, AfterStable,
                            AfterRolling, AfterHandOver, Keeps
  <1>8. QED
    BY <1>5, <1>6, <1>7 DEF IInv

LEMMA EnableEngineKeeps ==
    ASSUME IInv, EnableEngine
    PROVE  IInv'
  <1>1. pc = "engine" /\ pc' = "recovery" /\ pc \in Repairs /\ index' = index
        /\ UNCHANGED <<dir, setups, backup, origin, spent>>
    BY DEF EnableEngine, Repairs
  <1>2. index \in Index /\ state \in State /\ (origin # "torn archive" => Agree(state, index))
    BY <1>1, Repairing
  <1>3. state' \in State /\ Keeps(state, state')
        /\ state'.ids = state.ids /\ state'.stable = state.stable /\ state'.dirty = state.dirty
        /\ state'.roots = state.roots /\ state'.connection = state.connection /\ state'.setup = state.setup
        /\ state'.engine = TRUE
    BY <1>1, <1>2 DEF EnableEngine, State, Keeps
  <1>4. origin # "torn archive" => Agree(state', index')
    BY <1>1, <1>2, <1>3 DEF Agree
  <1>5. TypeOK' /\ FilesOK' /\ SiteOK' /\ BackupOK'
    BY <1>1, <1>2, <1>3, <1>4, RepairKeeps DEF KeepsFile, Repairs
  <1>6. CopiesOK'
    BY <1>1, <1>3 DEF IInv, CopiesOK, UntilSeed, dir
  <1>7. ProgressOK'
    BY <1>1, <1>2, <1>3 DEF IInv, ProgressOK, Repairs, AfterSearch, AfterRuns, AfterStable,
                            AfterRolling, AfterHandOver, Keeps
  <1>8. QED
    BY <1>5, <1>6, <1>7 DEF IInv

LEMMA RecoveryCycleKeeps ==
    ASSUME IInv, RecoveryCycle
    PROVE  IInv'
  <1>1. pc = "recovery_cycle" /\ pc' = "settings" /\ pc \in Repairs /\ state' = state
        /\ UNCHANGED <<dir, setups, backup, origin, spent>>
    BY DEF RecoveryCycle, Repairs
  <1>2. index \in Index /\ state \in State /\ (origin # "torn archive" => Agree(state, index))
    BY <1>1, Repairing
  <1>3. index' \in Index /\ KeepsFile(index, index')
        /\ index'.active = index.active /\ index'.folders = index.folders /\ index'.success = index.success
        /\ index'.run = index.run /\ index'.item = index.item /\ index'.fts = index.fts
        /\ index'.unmarked = index.unmarked
        /\ (index.cycle # "running" => index'.cycle # "running")
    BY <1>1, <1>2 DEF RecoveryCycle, Index, KeepsFile, WithCycle
  <1>4. origin # "torn archive" => Agree(state', index')
    BY <1>1, <1>2, <1>3 DEF Agree
  <1>5. TypeOK' /\ FilesOK' /\ SiteOK' /\ BackupOK'
    BY <1>1, <1>2, <1>3, <1>4, RepairKeeps DEF Keeps, Repairs
  <1>6. CopiesOK'
    BY <1>1, <1>3 DEF IInv, CopiesOK, UntilSeed, dir
  <1>7. ProgressOK'
    BY <1>1, <1>2, <1>3 DEF IInv, ProgressOK, Repairs, AfterSearch, AfterRuns, AfterStable,
                            AfterRolling, AfterHandOver, Keeps
  <1>8. QED
    BY <1>5, <1>6, <1>7 DEF IInv

LEMMA SettingsKeeps ==
    ASSUME IInv, Settings
    PROVE  IInv'
  <1>1. pc = "settings" /\ pc' = "up" /\ pc \in Repairs /\ index' = index
        /\ UNCHANGED <<dir, setups, backup, origin, spent>>
    BY DEF Settings, Repairs
  <1>2. index \in Index /\ state \in State /\ (origin # "torn archive" => Agree(state, index))
    BY <1>1, Repairing
  <1>3. state' \in State /\ Keeps(state, state')
        /\ state'.ids = state.ids /\ state'.stable = state.stable /\ state'.dirty = state.dirty
        /\ state'.engine = state.engine /\ state'.roots = state.roots /\ state'.connection = state.connection
        /\ state'.setup = (state.setup \/ state.connection # None)
    BY <1>1, <1>2 DEF Settings, State, Keeps
  <1>4. origin # "torn archive" => Agree(state', index')
    BY <1>1, <1>2, <1>3 DEF Agree
  <1>5. TypeOK' /\ FilesOK' /\ SiteOK' /\ BackupOK'
    BY <1>1, <1>2, <1>3, <1>4, RepairKeeps DEF KeepsFile, Repairs
  <1>6. CopiesOK'
    BY <1>1, <1>3 DEF IInv, CopiesOK, UntilSeed, dir
  <1>7. ProgressOK'
    BY <1>1, <1>2, <1>3 DEF IInv, ProgressOK, Repairs, AfterSearch, AfterRuns, AfterStable,
                            AfterRolling, AfterHandOver, Keeps
  <1>8. QED
    BY <1>5, <1>6, <1>7 DEF IInv


LEMMA CheckStableKeeps ==
    ASSUME IInv, CheckStable
    PROVE  IInv'
  <1>1. pc = "stable" /\ pc \in Repairs /\ index' = index
        /\ UNCHANGED <<dir, setups, backup, origin, spent>>
    BY DEF CheckStable, Repairs
  <1>2. index \in Index /\ state \in State /\ (origin # "torn archive" => Agree(state, index))
        /\ state.file = "ready" /\ index.file = "ready"
    BY <1>1, Repairing
  <1>3. ~index.run
    BY <1>1 DEF IInv, ProgressOK, AfterRuns
  <1>4. CASE state.stable = "complete" /\ index.active \subseteq state.ids
    <2>1. pc' = "rolling" /\ state' = state
      BY <1>4 DEF CheckStable
    <2>2. TypeOK' /\ FilesOK' /\ SiteOK' /\ BackupOK'
      BY <1>1, <1>2, <2>1, RepairKeeps DEF Keeps, KeepsFile, Repairs
    <2>3. CopiesOK'
      BY <1>1, <2>1 DEF CopiesOK, UntilSeed
    <2>4. ProgressOK'
      BY <1>1, <1>3, <1>4, <2>1 DEF IInv, ProgressOK, Repairs, AfterSearch, AfterRuns,
                                    AfterStable, AfterRolling, AfterHandOver
    <2>5. QED
      BY <2>2, <2>3, <2>4 DEF IInv
  <1>5. CASE state.stable = "complete" /\ ~(index.active \subseteq state.ids)
    <2>1. pc' = "refused" /\ state' = state
      BY <1>5 DEF CheckStable
    <2>2. origin = "torn archive"
      BY <1>2, <1>5 DEF Agree
    <2>3. TypeOK' /\ FilesOK'
      BY <1>1, <2>1 DEF IInv, TypeOK, FilesOK, HasIdentity, HasContent, Repairs, Preparations, dir
    <2>4. SiteOK' /\ BackupOK'
      BY <1>1, <2>1, <2>2 DEF IInv, SiteOK, RefusesForCause, BackupOK, HasIdentity
    <2>5. CopiesOK' /\ ProgressOK'
      BY <2>1 DEF CopiesOK, UntilSeed, ProgressOK, Repairs, AfterSearch, AfterRuns,
                  AfterStable, AfterRolling, AfterHandOver
    <2>6. QED
      BY <2>3, <2>4, <2>5 DEF IInv
  <1>6. CASE state.stable # "complete"
    <2>1. pc' = "seed" /\ state' = [state EXCEPT !.stable = "running"]
      BY <1>3, <1>6 DEF CheckStable
    <2>2. state' \in State /\ Keeps(state, state') /\ state'.stable = "running"
          /\ state'.dirty = state.dirty
      BY <1>2, <2>1 DEF State, Keeps
    <2>3. origin # "torn archive" => Agree(state', index')
      BY <1>1, <1>2, <2>2 DEF Agree
    <2>4. TypeOK' /\ FilesOK' /\ SiteOK' /\ BackupOK'
      BY <1>1, <1>2, <2>1, <2>2, <2>3, RepairKeeps DEF KeepsFile, Repairs
    <2>5. CopiesOK'
      BY <1>1, <1>6, <2>1 DEF IInv, CopiesOK, UntilSeed, dir
    <2>6. ProgressOK'
      BY <1>1, <1>3, <2>1, <2>2 DEF IInv, ProgressOK, Repairs, AfterSearch, AfterRuns,
                                    AfterStable, AfterRolling, AfterHandOver, Keeps
    <2>7. QED
      BY <2>4, <2>5, <2>6 DEF IInv
  <1>7. QED
    BY <1>4, <1>5, <1>6

LEMMA HandOverKeeps ==
    ASSUME IInv, HandOver
    PROVE  IInv'
  <1>1. pc = "handover" /\ pc \in Repairs /\ state' = state
        /\ UNCHANGED <<dir, setups, backup, origin, spent>>
    BY DEF HandOver, Repairs
  <1>2. index \in Index /\ state \in State /\ (origin # "torn archive" => Agree(state, index))
    BY <1>1, Repairing
  <1>3. CASE ~state.engine /\ index.success /\ index.folders
    <2>1. pc' = "engine" /\ index' = WithCycle
      BY <1>3 DEF HandOver
    <2>2. index' \in Index /\ KeepsFile(index, index') /\ index'.active = index.active
          /\ index'.fts = index.fts /\ index'.unmarked = index.unmarked
          /\ index'.run = index.run /\ index'.item = index.item
          /\ (index.cycle # "running" => index'.cycle # "running")
      BY <1>2, <2>1 DEF Index, KeepsFile, WithCycle
    <2>3. origin # "torn archive" => Agree(state', index')
      BY <1>1, <1>2, <2>2 DEF Agree
    <2>4. TypeOK' /\ FilesOK' /\ SiteOK' /\ BackupOK'
      BY <1>1, <1>2, <2>1, <2>2, <2>3, RepairKeeps DEF Keeps, Repairs
    <2>5. CopiesOK'
      BY <2>1 DEF CopiesOK, UntilSeed
    <2>6. ProgressOK'
      BY <1>1, <2>1, <2>2 DEF IInv, ProgressOK, Repairs, AfterSearch, AfterRuns,
                              AfterStable, AfterRolling, AfterHandOver
    <2>7. QED
      BY <2>4, <2>5, <2>6 DEF IInv
  <1>4. CASE ~(~state.engine /\ index.success /\ index.folders)
    <2>1. pc' = "recovery" /\ index' = index
      BY <1>4 DEF HandOver
    <2>2. TypeOK' /\ FilesOK' /\ SiteOK' /\ BackupOK'
      BY <1>1, <1>2, <2>1, RepairKeeps DEF Keeps, KeepsFile, Repairs
    <2>3. CopiesOK'
      BY <2>1 DEF CopiesOK, UntilSeed
    <2>4. ProgressOK'
      BY <1>1, <1>4, <2>1 DEF IInv, ProgressOK, Repairs, AfterSearch, AfterRuns,
                              AfterStable, AfterRolling, AfterHandOver
    <2>5. QED
      BY <2>2, <2>3, <2>4 DEF IInv
  <1>5. QED
    BY <1>3, <1>4

LEMMA RecoverIndexKeeps ==
    ASSUME IInv, RecoverIndex
    PROVE  IInv'
  <1>1. pc = "recovery" /\ pc \in Repairs /\ state' = state
        /\ UNCHANGED <<dir, setups, backup, origin, spent>>
    BY DEF RecoverIndex, Repairs
  <1>2. index \in Index /\ state \in State /\ (origin # "torn archive" => Agree(state, index))
    BY <1>1, Repairing
  <1>3. CASE state.engine /\ ~index.folders /\ state.roots
    <2>1. pc' = "recovery_cycle" /\ index' = [index EXCEPT !.folders = TRUE]
      BY <1>3 DEF RecoverIndex
    <2>2. index' \in Index /\ KeepsFile(index, index') /\ index'.active = index.active
          /\ index'.fts = index.fts /\ index'.unmarked = index.unmarked
          /\ index'.run = index.run /\ index'.item = index.item
          /\ index'.cycle = index.cycle /\ index'.folders = TRUE
      BY <1>2, <2>1 DEF Index, KeepsFile
    <2>3. origin # "torn archive" => Agree(state', index')
      BY <1>1, <1>2, <2>2 DEF Agree
    <2>4. TypeOK' /\ FilesOK' /\ SiteOK' /\ BackupOK'
      BY <1>1, <1>2, <2>1, <2>2, <2>3, RepairKeeps DEF Keeps, Repairs
    <2>5. CopiesOK'
      BY <2>1 DEF CopiesOK, UntilSeed
    <2>6. ProgressOK'
      BY <1>1, <1>3, <2>1, <2>2 DEF IInv, ProgressOK, Repairs, AfterSearch, AfterRuns,
                                    AfterStable, AfterRolling, AfterHandOver
    <2>7. QED
      BY <2>4, <2>5, <2>6 DEF IInv
  <1>4. CASE ~(state.engine /\ ~index.folders /\ state.roots)
    <2>1. pc' = "settings" /\ index' = index
      BY <1>4 DEF RecoverIndex
    <2>2. TypeOK' /\ FilesOK' /\ SiteOK' /\ BackupOK'
      BY <1>1, <1>2, <2>1, RepairKeeps DEF Keeps, KeepsFile, Repairs
    <2>3. CopiesOK'
      BY <2>1 DEF CopiesOK, UntilSeed
    <2>4. ProgressOK'
      BY <1>1, <1>4, <2>1 DEF IInv, ProgressOK, Repairs, AfterSearch, AfterRuns,
                              AfterStable, AfterRolling, AfterHandOver
    <2>5. QED
      BY <2>2, <2>3, <2>4 DEF IInv
  <1>5. QED
    BY <1>3, <1>4

-----------------------------------------------------------------------------
(* The preparations of a start *)

\* What a start goes on with.
LEMMA Preparing ==
    ASSUME IInv, pc \in Preparations
    PROVE  /\ state \in State /\ index \in Index
           /\ spent.losses \in 0..MaxLosses
           /\ state.file # "damaged" /\ index.file # "damaged"
           /\ state.file # "ready" => index.file = "absent" /\ ~HasIdentity
           /\ index.file # "ready" => ~HasContent /\ index.fts = "empty"
           /\ index.file # "absent" => HasIdentity /\ index.site = state.site
           /\ backup.index = None => backup.state = None
  <1>1. state \in State /\ index \in Index /\ spent.losses \in 0..MaxLosses
    BY Types DEF IInv
  <1>2. state.file \in {"absent", "partial", "damaged", "ready"}
        /\ index.file \in {"absent", "partial", "damaged", "ready"}
    BY <1>1, StateFields, IndexFields DEF Files
  <1>3. backup.index = None => backup.state = None
    BY DEF IInv, BackupOK, Preparations
  <1>4. QED
    BY <1>1, <1>2, <1>3 DEF IInv, FilesOK

\* Copying and the snapshot leave both files as they are.
LEMMA CopyKeeps ==
    ASSUME IInv, pc \in {"down", "copy_state", "copy_index", "snapshot"},
           pc' \in {"copy_state", "copy_index", "snapshot", "state_tables"},
           UNCHANGED <<state, index, setups, backup, origin, spent>>,
           snapshot' \in State \cup {None}, copies' \subseteq {"state", "index", "other"},
           state.file # "damaged" /\ index.file # "damaged",
           state.file = "absent" => index.file = "absent",
           CopiesOK'
    PROVE  IInv'
  <1>1. TypeOK'
    BY DEF IInv, TypeOK, Preparations, Repairs
  <1>2. FilesOK'
    BY DEF IInv, FilesOK, HasIdentity, HasContent
  <1>3. SiteOK'
    BY DEF IInv, SiteOK, Agree, RefusesForCause
  <1>4. BackupOK'
    BY DEF IInv, BackupOK, HasIdentity
  <1>5. ProgressOK'
    BY DEF ProgressOK, Repairs, AfterSearch, AfterRuns, AfterStable, AfterRolling, AfterHandOver
  <1>6. QED
    BY <1>1, <1>2, <1>3, <1>4, <1>5 DEF IInv

LEMMA BeginKeeps ==
    ASSUME IInv, Begin
    PROVE  IInv'
  <1>1. pc = "down" /\ UNCHANGED <<state, index, dir, setups, backup, origin, spent>>
    BY DEF Begin
  <1>2. snapshot' = snapshot /\ copies' = copies
    BY <1>1 DEF dir
  <1>3. CASE Valid
    <2>1. pc' = "copy_state"
      BY <1>3 DEF Begin
    <2>2. state.file # "damaged" /\ index.file # "damaged"
          /\ (state.file = "absent" => index.file = "absent")
      BY <1>3 DEF Valid, Traces
    <2>3. CopiesOK'
      BY <2>1 DEF CopiesOK, UntilSeed
    <2>4. QED
      BY <1>1, <1>2, <2>1, <2>2, <2>3, CopyKeeps DEF IInv, TypeOK
  <1>4. CASE ~Valid
    <2>1. pc' = "refused"
      BY <1>4 DEF Begin
    <2>2. state \in State /\ index \in Index
      BY Types DEF IInv
    <2>3. state.file # "ready" \/ index.file \in {"partial", "damaged"}
      BY <1>4, <2>2, IndexFields DEF IInv, FilesOK, Valid, Files
    <2>4. TypeOK' /\ FilesOK'
      BY <1>1, <1>2, <2>1 DEF IInv, TypeOK, FilesOK, HasIdentity, HasContent, Repairs,
                              Preparations
    <2>5. SiteOK' /\ BackupOK'
      BY <1>1, <2>1, <2>3 DEF IInv, SiteOK, Agree, RefusesForCause, BackupOK, HasIdentity
    <2>6. CopiesOK' /\ ProgressOK'
      BY <2>1 DEF CopiesOK, UntilSeed, ProgressOK, Repairs, AfterSearch, AfterRuns,
                  AfterStable, AfterRolling, AfterHandOver
    <2>7. QED
      BY <2>4, <2>5, <2>6 DEF IInv
  <1>5. QED
    BY <1>3, <1>4

\* Either both files will have been copied, or there is nothing to migrate.
LEMMA CopyStateKeeps ==
    ASSUME IInv, CopyState
    PROVE  IInv'
  <1>1. pc = "copy_state" /\ pc \in Preparations
        /\ UNCHANGED <<state, index, snapshot, setups, backup, origin, spent>>
    BY DEF CopyState, Preparations
  <1>2. index \in Index /\ state \in State
    BY <1>1, Preparing
  <1>3. pc' \in {"copy_index", "snapshot"} /\ copies' \subseteq {"state", "index", "other"}
    BY DEF CopyState, IInv, TypeOK
  <1>4. CopiesOK'
    <2>1. CASE NeedsCopies
      BY <2>1 DEF CopyState, CopiesOK, UntilSeed
    <2>2. CASE ~NeedsCopies
      <3>1. pc' = "snapshot" /\ copies' = copies
        BY <2>2 DEF CopyState
      <3>2. index.active # {} => state.file = "ready" /\ index.file = "ready"
        BY <1>1, <1>2, Preparing, StateFields, IndexFields DEF HasContent, Files
      <3>3. QED
        BY <1>1, <2>2, <3>1, <3>2 DEF NeedsCopies, CopiesOK, UntilSeed
    <2>3. QED
      BY <2>1, <2>2
  <1>5. QED
    BY <1>1, <1>3, <1>4, Preparing, CopyKeeps DEF IInv, TypeOK

LEMMA CopyIndexKeeps ==
    ASSUME IInv, CopyIndex
    PROVE  IInv'
  <1>1. pc = "copy_index" /\ pc \in Preparations /\ pc' = "snapshot"
        /\ copies' = copies \cup {"index"}
        /\ UNCHANGED <<state, index, snapshot, setups, backup, origin, spent>>
    BY DEF CopyIndex, Preparations
  <1>2. "state" \in copies /\ copies \subseteq {"state", "index", "other"}
        /\ snapshot \in State \cup {None}
    BY <1>1 DEF IInv, TypeOK, CopiesOK
  <1>3. CopiesOK'
    BY <1>1, <1>2 DEF CopiesOK, UntilSeed
  <1>4. QED
    BY <1>1, <1>2, <1>3, Preparing, CopyKeeps

LEMMA SnapshotKeeps ==
    ASSUME IInv, Snapshot
    PROVE  IInv'
  <1>1. pc = "snapshot" /\ pc \in Preparations /\ pc' = "state_tables"
        /\ UNCHANGED <<state, index, copies, setups, backup, origin, spent>>
        /\ snapshot' = IF state.file = "ready" /\ state.version < Current
                       THEN state ELSE snapshot
    BY DEF Snapshot, Preparations
  <1>2. state \in State /\ snapshot \in State \cup {None}
        /\ copies \subseteq {"state", "index", "other"}
    BY DEF IInv, TypeOK
  <1>3. CopiesOK'
    BY <1>1 DEF IInv, CopiesOK, UntilSeed, HasIdentity
  <1>4. QED
    BY <1>1, <1>2, <1>3, Preparing, CopyKeeps

\* The table steps keep what concerns the backup and the site.
LEMMA TablesKeep ==
    ASSUME IInv, pc \in {"state_tables", "index_tables"},
           pc' \in {"state_tables", "index_tables", "validate"},
           UNCHANGED <<dir, setups, backup, origin, spent>>,
           state' \in State, index' \in Index,
           pc' # "state_tables" => state'.file = "ready",
           pc' = "validate" => index'.file = "ready",
           state'.version = Current \/ ~HasIdentity',
           state'.file = "ready" /\ index'.file = "ready" /\ origin # "torn archive" =>
              Agree(state', index')
    PROVE  TypeOK' /\ SiteOK' /\ BackupOK'
  <1>1. snapshot' = snapshot /\ copies' = copies
    BY DEF dir
  <1>2. TypeOK'
    BY <1>1 DEF IInv, TypeOK, Preparations, Repairs
  <1>3. SiteOK'
    BY DEF SiteOK, Agree, RefusesForCause
  <1>4. backup.index = None => backup.state = None
    BY Preparing DEF Preparations
  <1>5. BackupOK'
    BY <1>4 DEF IInv, BackupOK
  <1>6. QED
    BY <1>2, <1>3, <1>5

LEMMA CreateStateKeeps ==
    ASSUME IInv, CreateState
    PROVE  IInv'
  <1>1. pc = "state_tables" /\ pc' = "state_tables" /\ pc \in Preparations /\ index' = index
        /\ UNCHANGED <<dir, setups, backup, origin, spent>>
    BY DEF CreateState, Preparations
  <1>2. state.file # "ready" /\ index.file = "absent" /\ ~HasIdentity /\ ~HasContent
        /\ index \in Index /\ state \in State /\ spent.losses \in 0..MaxLosses
        /\ state.file # "damaged"
    BY <1>1, Preparing DEF CreateState
  <1>3. state' \in State /\ ~HasIdentity' /\ state'.file \in {"partial", "ready"}
    <2>1. CASE state.file = "absent"
      <3>1. state' = [NewState EXCEPT !.file = "partial", !.site = spent.losses]
        BY <2>1 DEF CreateState
      <3>2. NewState \in State /\ NewState.version = 0 /\ NewState.connection = None
            /\ NewState.setup = FALSE
        BY NewFields
      <3>3. state' \in State /\ state'.version = 0 /\ state'.connection = None
            /\ state'.setup = FALSE /\ state'.file = "partial"
        BY <1>2, <3>1, <3>2 DEF State, Files
      <3>4. QED
        BY <3>3 DEF HasIdentity
    <2>2. CASE state.file # "absent"
      <3>1. state' = [state EXCEPT !.file = "ready"]
        BY <2>2 DEF CreateState
      <3>2. state' \in State /\ state'.version = state.version
            /\ state'.connection = state.connection /\ state'.setup = state.setup
            /\ state'.file = "ready"
        BY <1>2, <3>1 DEF State, Files
      <3>3. QED
        BY <1>2, <3>2 DEF HasIdentity
    <2>3. QED
      BY <2>1, <2>2
  <1>4. TypeOK' /\ SiteOK' /\ BackupOK'
    BY <1>1, <1>2, <1>3, TablesKeep
  <1>5. FilesOK'
    BY <1>1, <1>2, <1>3 DEF IInv, FilesOK, HasContent, Preparations
  <1>6. CopiesOK'
    BY <1>1, <1>2, <1>3 DEF CopiesOK, HasContent
  <1>7. ProgressOK'
    BY <1>1 DEF ProgressOK, Repairs, AfterSearch, AfterRuns, AfterStable, AfterRolling,
                AfterHandOver
  <1>8. QED
    BY <1>4, <1>5, <1>6, <1>7 DEF IInv

LEMMA UpgradeStateKeeps ==
    ASSUME IInv, UpgradeState
    PROVE  IInv'
  <1>1. pc = "state_tables" /\ pc' = "index_tables" /\ pc \in Preparations /\ index' = index
        /\ UNCHANGED <<dir, setups, backup, origin, spent>> /\ state.file = "ready"
    BY DEF UpgradeState, Preparations
  <1>2. index \in Index /\ state \in State /\ index.file # "damaged"
    BY <1>1, Preparing
  <1>3. Current \in 0..Current
    BY Constants
  <1>4. state' \in State /\ state'.version = Current /\ state'.file = "ready"
        /\ state'.site = state.site /\ state'.stable = state.stable /\ state'.ids = state.ids
        /\ state'.dirty = state.dirty
    BY <1>1, <1>2, <1>3 DEF UpgradeState, State
  <1>5. HasIdentity'
    BY <1>4, Constants DEF HasIdentity
  <1>6. state'.file = "ready" /\ index'.file = "ready" /\ origin # "torn archive" =>
           Agree(state', index')
    BY <1>1, <1>4 DEF IInv, SiteOK, Agree
  <1>7. TypeOK' /\ SiteOK' /\ BackupOK'
    BY <1>1, <1>2, <1>4, <1>6, TablesKeep
  <1>8. FilesOK'
    BY <1>1, <1>2, <1>4, <1>5, Preparing DEF IInv, FilesOK, HasContent, Preparations
  <1>9. CopiesOK'
    BY <1>1, <1>4 DEF IInv, CopiesOK, UntilSeed, dir
  <1>10. ProgressOK'
    BY <1>1, <1>4 DEF ProgressOK, Repairs, AfterSearch, AfterRuns, AfterStable, AfterRolling,
                      AfterHandOver
  <1>11. QED
    BY <1>7, <1>8, <1>9, <1>10 DEF IInv

\* Before index.db is complete there is nothing in it.
LEMMA CreateIndexKeeps ==
    ASSUME IInv, CreateIndex
    PROVE  IInv'
  <1>1. pc = "index_tables" /\ pc' = "index_tables" /\ pc \in Preparations /\ state' = state
        /\ UNCHANGED <<dir, setups, backup, origin, spent>> /\ index.file # "ready"
    BY DEF CreateIndex, Preparations
  <1>2. index \in Index /\ state \in State /\ index.file # "damaged" /\ ~HasContent
        /\ index.fts = "empty" /\ (index.file # "absent" => index.site = state.site)
    BY <1>1, Preparing
  <1>3. state.file = "ready" /\ state.version = Current
    BY <1>1 DEF IInv, TypeOK, ProgressOK
  <1>4. HasIdentity
    BY <1>3, Constants DEF HasIdentity
  <1>5. state.site \in 0..MaxLosses
    BY <1>2, StateFields
  <1>6. index' \in Index /\ index'.active = {} /\ ~HasContent' /\ index'.fts = "empty"
        /\ index'.file \in {"partial", "ready"} /\ index'.site = state.site
    <2>1. CASE index.file = "absent"
      <3>1. index' = [NewIndex EXCEPT !.file = "partial", !.site = state.site]
        BY <2>1 DEF CreateIndex
      <3>2. NewIndex \in Index /\ NewIndex.active = {} /\ NewIndex.folders = FALSE
            /\ NewIndex.success = FALSE /\ NewIndex.run = FALSE /\ NewIndex.fts = "empty"
        BY NewFields
      <3>3. index' \in Index /\ index'.active = {} /\ index'.folders = FALSE
            /\ index'.success = FALSE /\ index'.run = FALSE /\ index'.fts = "empty"
            /\ index'.file = "partial" /\ index'.site = state.site
        BY <1>5, <3>1, <3>2 DEF Index, Files
      <3>4. QED
        BY <3>3 DEF HasContent
    <2>2. CASE index.file # "absent"
      <3>1. index' = [index EXCEPT !.file = "ready"]
        BY <2>2 DEF CreateIndex
      <3>2. index' \in Index /\ index'.active = index.active /\ index'.folders = index.folders
            /\ index'.success = index.success /\ index'.run = index.run /\ index'.fts = index.fts
            /\ index'.file = "ready" /\ index'.site = index.site
        BY <1>2, <3>1 DEF Index, Files
      <3>3. QED
        BY <1>2, <2>2, <3>2 DEF HasContent
    <2>3. QED
      BY <2>1, <2>2
  <1>7. Agree(state', index')
    BY <1>6 DEF Agree
  <1>8. TypeOK' /\ SiteOK' /\ BackupOK'
    BY <1>1, <1>2, <1>3, <1>6, <1>7, TablesKeep
  <1>9. FilesOK'
    BY <1>1, <1>3, <1>4, <1>6 DEF FilesOK, HasIdentity
  <1>10. CopiesOK'
    BY <1>1, <1>6 DEF CopiesOK
  <1>11. ProgressOK'
    BY <1>1, <1>3 DEF ProgressOK, Repairs, AfterSearch, AfterRuns, AfterStable, AfterRolling,
                      AfterHandOver
  <1>12. QED
    BY <1>8, <1>9, <1>10, <1>11 DEF IInv

\* The search table of a ready index is dropped, or filled and done with.
LEMMA SearchTableKeeps ==
    ASSUME IInv, pc = "index_tables", pc' \in {"index_tables", "validate"}, state' = state,
           UNCHANGED <<dir, setups, backup, origin, spent>>, index.file = "ready",
           index' \in Index, index'.file = index.file, index'.site = index.site,
           index'.active = index.active, index'.unmarked = index.unmarked,
           index'.fts = index.fts \/ index'.fts # "behind",
           pc' = "validate" => index'.fts \in {"current", "behind"}
    PROVE  IInv'
  <1>1. state.file = "ready" /\ state.version = Current /\ state \in State
    BY DEF IInv, TypeOK, ProgressOK
  <1>2. HasIdentity' /\ HasIdentity
    BY <1>1, Constants DEF HasIdentity
  <1>3. origin # "torn archive" => Agree(state', index')
    BY <1>1 DEF IInv, SiteOK, Agree
  <1>4. TypeOK' /\ SiteOK' /\ BackupOK'
    BY <1>1, <1>3, TablesKeep
  <1>5. FilesOK'
    BY <1>1, <1>2 DEF IInv, FilesOK
  <1>6. CopiesOK'
    BY DEF IInv, CopiesOK, UntilSeed, dir
  <1>7. ProgressOK'
    BY <1>1 DEF ProgressOK, Repairs, AfterSearch, AfterRuns, AfterStable, AfterRolling,
                AfterHandOver
  <1>8. QED
    BY <1>4, <1>5, <1>6, <1>7 DEF IInv

LEMMA DropOldSearchKeeps ==
    ASSUME IInv, DropOldSearch
    PROVE  IInv'
  <1>1. index \in Index
    BY DEF IInv, TypeOK
  <1>2. index' \in Index /\ index'.file = index.file /\ index'.site = index.site
        /\ index'.active = index.active /\ index'.unmarked = index.unmarked
        /\ index'.fts = "empty"
    BY <1>1 DEF DropOldSearch, Index
  <1>3. QED
    BY <1>2, SearchTableKeeps DEF DropOldSearch

LEMMA FillSearchKeeps ==
    ASSUME IInv, FillSearch
    PROVE  IInv'
  <1>1. index \in Index
    BY DEF IInv, TypeOK
  <1>2. index' \in Index /\ index'.file = index.file /\ index'.site = index.site
        /\ index'.active = index.active /\ index'.unmarked = index.unmarked
        /\ index'.fts = IF index.fts = "empty" THEN "current" ELSE index.fts
    BY <1>1 DEF FillSearch, Index
  <1>3. index.fts \in {"current", "behind", "empty", "old"} /\ index.fts # "old"
    BY <1>1, IndexFields DEF FillSearch
  <1>4. QED
    BY <1>2, <1>3, SearchTableKeeps DEF FillSearch

LEMMA StartStepKeeps ==
    ASSUME IInv, StartStep
    PROVE  IInv'
  BY BeginKeeps, CopyStateKeeps, CopyIndexKeeps, SnapshotKeeps, CreateStateKeeps,
     UpgradeStateKeeps, CreateIndexKeeps, DropOldSearchKeeps, FillSearchKeeps, ValidateKeeps,
     RecoverSearchKeeps, ClearSearchKeeps, RecoverRunsKeeps, CheckStableKeeps, SeedKeeps,
     CompleteStableKeeps, RecoverRollingKeeps, HandOverKeeps, EnableEngineKeeps,
     RecoverIndexKeeps, RecoveryCycleKeeps, SettingsKeeps
     DEF StartStep

-----------------------------------------------------------------------------
(* Stops, backups and mishaps *)

\* A site that is down has no start or work under way.
LEMMA DownKeeps ==
    ASSUME TypeOK', FilesOK', BackupOK', pc' = "down",
           state'.file = "ready" /\ index'.file = "ready" /\ origin' # "torn archive" =>
              Agree(state', index')
    PROVE  IInv'
  <1>1. SiteOK'
    BY DEF SiteOK, Agree, RefusesForCause
  <1>2. CopiesOK' /\ ProgressOK'
    BY DEF CopiesOK, UntilSeed, ProgressOK, Repairs, AfterSearch, AfterRuns, AfterStable,
           AfterRolling, AfterHandOver
  <1>3. QED
    BY <1>1, <1>2 DEF IInv

LEMMA StopTypes ==
    ASSUME IInv, Stop
    PROVE  spent' \in [stops: 0..MaxStops, losses: 0..MaxLosses, work: 0..MaxWork]
  <1>1. spent.stops \in 0..MaxStops /\ spent.stops < MaxStops /\ MaxStops \in Nat
    BY Types, Constants DEF IInv, Stop
  <1>2. spent.stops + 1 \in 0..MaxStops
    BY <1>1
  <1>3. spent' = [spent EXCEPT !.stops = spent.stops + 1]
        /\ spent \in [stops: 0..MaxStops, losses: 0..MaxLosses, work: 0..MaxWork]
    BY DEF Stop, IInv, TypeOK
  <1>4. QED
    BY <1>2, <1>3

LEMMA StopKeeps ==
    ASSUME IInv, Stop, UNCHANGED <<index, dir, origin>>,
           state' \in State, Keeps(state, state'), HasIdentity' = HasIdentity,
           state'.file = "ready" /\ index.file = "ready" /\ origin # "torn archive" =>
              Agree(state', index)
    PROVE  IInv'
  <1>1. pc' = "down" /\ setups' = {} /\ snapshot' = snapshot /\ copies' = copies
        /\ backup' = IF backup.index = None THEN NoBackup ELSE backup
    BY DEF Stop, dir
  <1>2. NoBackup \in [state: State \cup {None}, index: Index \cup {None}, torn: BOOLEAN]
    BY DEF NoBackup
  <1>3. backup' \in [state: State \cup {None}, index: Index \cup {None}, torn: BOOLEAN]
    BY <1>1, <1>2 DEF IInv, TypeOK
  <1>4. TypeOK'
    BY <1>1, <1>3, StopTypes DEF IInv, TypeOK, Repairs
  <1>5. FilesOK'
    BY <1>1 DEF IInv, FilesOK, Keeps, Preparations, HasContent
  <1>6. BackupOK'
    <2>1. CASE backup.index = None
      BY <1>1, <2>1 DEF IInv, BackupOK, NoBackup
    <2>2. CASE backup.index # None
      BY <1>1, <2>2 DEF IInv, BackupOK, Keeps
    <2>3. QED
      BY <2>1, <2>2
  <1>7. QED
    BY <1>1, <1>4, <1>5, <1>6, DownKeeps

LEMMA CrashKeeps ==
    ASSUME IInv, Crash
    PROVE  IInv'
  <1>1. Stop /\ state' = state /\ UNCHANGED <<index, dir, origin>>
    BY DEF Crash
  <1>2. state \in State
    BY DEF IInv, TypeOK
  <1>3. HasIdentity' = HasIdentity
    BY <1>1 DEF HasIdentity
  <1>4. QED
    BY <1>1, <1>2, <1>3, StopKeeps DEF Keeps, IInv, SiteOK

LEMMA FailStableKeeps ==
    ASSUME IInv, FailStable
    PROVE  IInv'
  <1>1. Stop /\ UNCHANGED <<index, dir, origin>> /\ pc \in Repairs
    BY DEF FailStable, Repairs
  <1>2. state \in State /\ (origin # "torn archive" => Agree(state, index))
    BY <1>1, Repairing
  <1>3. state' \in State /\ Keeps(state, state') /\ state'.stable = "failed"
        /\ state'.dirty = state.dirty /\ state'.connection = state.connection
        /\ state'.setup = state.setup
    BY <1>2 DEF FailStable, State, Keeps
  <1>4. HasIdentity' = HasIdentity
    BY <1>3 DEF HasIdentity, Keeps
  <1>5. origin # "torn archive" => Agree(state', index)
    BY <1>2, <1>3 DEF Agree
  <1>6. QED
    BY <1>1, <1>3, <1>4, <1>5, StopKeeps

\* The first half of a backup is of the running site.
LEMMA BackupStateKeeps ==
    ASSUME IInv, BackupState
    PROVE  IInv'
  <1>1. pc = "up" /\ backup.state = None /\ backup' = [backup EXCEPT !.state = state]
        /\ UNCHANGED <<state, index, dir, pc, setups, origin, spent>>
    BY DEF BackupState
  <1>2. state \in State /\ state.file = "ready" /\ state.version = Current
        /\ backup \in [state: State \cup {None}, index: Index \cup {None}, torn: BOOLEAN]
    BY <1>1 DEF IInv, TypeOK, ProgressOK
  <1>3. backup' \in [state: State \cup {None}, index: Index \cup {None}, torn: BOOLEAN]
        /\ backup'.state = state /\ backup'.index = backup.index
    BY <1>1, <1>2
  <1>4. backup.index = None
    BY <1>1 DEF IInv, BackupOK
  <1>5. snapshot' = snapshot /\ copies' = copies
    BY <1>1 DEF dir
  <1>6. TypeOK' /\ FilesOK'
    BY <1>1, <1>3, <1>5 DEF IInv, TypeOK, FilesOK, HasIdentity, HasContent
  <1>7. BackupOK'
    BY <1>1, <1>2, <1>3, <1>4 DEF IInv, BackupOK
  <1>8. SiteOK' /\ CopiesOK'
    BY <1>1, <1>5 DEF IInv, SiteOK, Agree, RefusesForCause, CopiesOK, HasIdentity
  <1>9. ProgressOK'
    BY <1>1 DEF IInv, ProgressOK
  <1>10. QED
    BY <1>6, <1>7, <1>8, <1>9 DEF IInv

\* The second half agrees with the first one if state.db is still the same.
LEMMA BackupIndexKeeps ==
    ASSUME IInv, BackupIndex
    PROVE  IInv'
  <1>1. pc = "up" /\ backup.state # None /\ backup.index = None
        /\ backup' = [backup EXCEPT !.index = index, !.torn = state # backup.state]
        /\ UNCHANGED <<state, index, dir, pc, setups, origin, spent>>
    BY DEF BackupIndex
  <1>2. state \in State /\ index \in Index /\ state.file = "ready" /\ index.file = "ready"
        /\ backup \in [state: State \cup {None}, index: Index \cup {None}, torn: BOOLEAN]
    BY <1>1 DEF IInv, TypeOK
  <1>3. backup' \in [state: State \cup {None}, index: Index \cup {None}, torn: BOOLEAN]
        /\ backup'.state = backup.state /\ backup'.index = index
        /\ backup'.torn = (state # backup.state)
    BY <1>1, <1>2
  <1>4. origin = "site" /\ backup.state.file = "ready" /\ backup.state.version = Current
        /\ (state.version = Current \/ ~HasIdentity) /\ backup.state.site = state.site
    BY <1>1 DEF IInv, BackupOK
  <1>5. Agree(state, index) /\ index.site = state.site
    BY <1>2, <1>4 DEF IInv, SiteOK, FilesOK
  <1>6. snapshot' = snapshot /\ copies' = copies
    BY <1>1 DEF dir
  <1>7. TypeOK' /\ FilesOK'
    BY <1>1, <1>3, <1>6 DEF IInv, TypeOK, FilesOK, HasIdentity, HasContent
  <1>8. BackupOK'
    BY <1>1, <1>2, <1>3, <1>4, <1>5 DEF BackupOK, HasIdentity, Agree
  <1>9. SiteOK' /\ CopiesOK'
    BY <1>1, <1>6 DEF IInv, SiteOK, Agree, RefusesForCause, CopiesOK, HasIdentity
  <1>10. ProgressOK'
    BY <1>1 DEF IInv, ProgressOK
  <1>11. QED
    BY <1>7, <1>8, <1>9, <1>10 DEF IInv

\* What a loss leaves alone.
LEMMA LossTypes ==
    ASSUME IInv, Loss
    PROVE  /\ pc' = "down" /\ setups' = setups /\ backup' = backup
           /\ spent' \in [stops: 0..MaxStops, losses: 0..MaxLosses, work: 0..MaxWork]
           /\ backup.state # None => backup.index # None
           /\ state \in State /\ index \in Index
  <1>1. spent.losses \in 0..MaxLosses /\ spent.losses < MaxLosses /\ MaxLosses \in Nat
    BY Types, Constants DEF IInv, Loss
  <1>2. spent.losses + 1 \in 0..MaxLosses
    BY <1>1
  <1>3. spent' = [spent EXCEPT !.losses = spent.losses + 1]
        /\ spent \in [stops: 0..MaxStops, losses: 0..MaxLosses, work: 0..MaxWork]
    BY DEF Loss, IInv, TypeOK
  <1>4. spent' \in [stops: 0..MaxStops, losses: 0..MaxLosses, work: 0..MaxWork]
    BY <1>2, <1>3
  <1>5. QED
    BY <1>4, Types DEF Loss, IInv, BackupOK

\* Files that are gone or damaged are not ready, so that nothing is left to agree.
LEMMA MishapKeeps ==
    ASSUME IInv, Mishap, state' \in State, index' \in Index,
           snapshot' \in State \cup {None}, copies' \subseteq {"state", "index", "other"},
           FilesOK', state'.version = state.version \/ ~HasIdentity',
           HasIdentity' => HasIdentity,
           state'.file = "ready" /\ index'.file = "ready" => Agree(state', index')
    PROVE  IInv'
  <1>1. Loss /\ origin' = "site"
    BY DEF Mishap
  <1>2. TypeOK'
    BY <1>1, LossTypes DEF IInv, TypeOK, Repairs
  <1>3. BackupOK'
    BY <1>1, LossTypes DEF IInv, BackupOK
  <1>4. QED
    BY <1>1, <1>2, <1>3, LossTypes, DownKeeps

LEMMA LoseStateKeeps ==
    ASSUME IInv, LoseState
    PROVE  IInv'
  <1>1. Mishap /\ state' = NewState /\ UNCHANGED <<index, dir>> /\ pc' = "down"
    BY DEF LoseState, Mishap, Loss
  <1>2. state'.file = "absent" /\ ~HasIdentity' /\ state' \in State
    BY <1>1, NewFields DEF HasIdentity
  <1>3. FilesOK'
    BY <1>1, <1>2 DEF IInv, FilesOK, HasContent, Preparations
  <1>4. QED
    BY <1>1, <1>2, <1>3, MishapKeeps DEF IInv, TypeOK, dir

LEMMA LoseIndexKeeps ==
    ASSUME IInv, LoseIndex
    PROVE  IInv'
  <1>1. Mishap /\ index' = NewIndex /\ UNCHANGED <<state, dir>> /\ pc' = "down"
    BY DEF LoseIndex, Mishap, Loss
  <1>2. index'.file = "absent" /\ ~HasContent' /\ index'.fts = "empty" /\ index' \in Index
    BY <1>1, NewFields DEF HasContent
  <1>3. HasIdentity' = HasIdentity
    BY <1>1 DEF HasIdentity
  <1>4. FilesOK'
    BY <1>1, <1>2, <1>3 DEF IInv, FilesOK, Preparations
  <1>5. QED
    BY <1>1, <1>2, <1>3, <1>4, MishapKeeps DEF IInv, TypeOK, dir

LEMMA DamageStateKeeps ==
    ASSUME IInv, DamageState
    PROVE  IInv'
  <1>1. Mishap /\ state' = [state EXCEPT !.file = "damaged"] /\ state.file # "absent"
        /\ UNCHANGED <<index, dir>> /\ pc' = "down"
    BY DEF DamageState, Mishap, Loss
  <1>2. state \in State
    BY DEF IInv, TypeOK
  <1>3. state' \in State /\ state'.file = "damaged" /\ state'.version = state.version
        /\ state'.site = state.site /\ state'.connection = state.connection
        /\ state'.setup = state.setup
    BY <1>1, <1>2 DEF State, Files
  <1>4. HasIdentity' = HasIdentity
    BY <1>3 DEF HasIdentity
  <1>5. FilesOK'
    BY <1>1, <1>3, <1>4 DEF IInv, FilesOK, HasContent, Preparations
  <1>6. QED
    BY <1>1, <1>3, <1>4, <1>5, MishapKeeps DEF IInv, TypeOK, dir

LEMMA DamageIndexKeeps ==
    ASSUME IInv, DamageIndex
    PROVE  IInv'
  <1>1. Mishap /\ index' = [index EXCEPT !.file = "damaged"] /\ index.file # "absent"
        /\ UNCHANGED <<state, dir>> /\ pc' = "down"
    BY DEF DamageIndex, Mishap, Loss
  <1>2. index \in Index
    BY DEF IInv, TypeOK
  <1>3. index' \in Index /\ index'.file = "damaged" /\ index'.site = index.site
    BY <1>1, <1>2 DEF Index, Files
  <1>4. HasIdentity' = HasIdentity
    BY <1>1 DEF HasIdentity
  <1>5. FilesOK'
    BY <1>1, <1>3, <1>4 DEF IInv, FilesOK, Preparations
  <1>6. QED
    BY <1>1, <1>3, <1>4, <1>5, MishapKeeps DEF IInv, TypeOK, dir

LEMMA WipeKeeps ==
    ASSUME IInv, Wipe
    PROVE  IInv'
  <1>1. Mishap /\ state' = NewState /\ index' = NewIndex /\ snapshot' = None /\ copies' = {}
        /\ pc' = "down"
    BY DEF Wipe, Mishap, Loss
  <1>2. state'.file = "absent" /\ ~HasIdentity' /\ state' \in State
    BY <1>1, NewFields DEF HasIdentity
  <1>3. index'.file = "absent" /\ ~HasContent' /\ index'.fts = "empty" /\ index' \in Index
    BY <1>1, NewFields DEF HasContent
  <1>4. FilesOK'
    BY <1>1, <1>2, <1>3 DEF FilesOK, Preparations
  <1>5. QED
    BY <1>1, <1>2, <1>3, <1>4, MishapKeeps

\* A backup that is restored brings back two files of one site.
LEMMA RestoreKeeps ==
    ASSUME IInv, Restore
    PROVE  IInv'
  <1>1. Loss /\ backup.index # None /\ state' = backup.state /\ index' = backup.index
        /\ snapshot' = None /\ copies' \subseteq {"other"}
        /\ origin' = (IF backup.torn THEN "torn archive" ELSE "archive")
    BY DEF Restore
  <1>2. backup.state # None /\ backup.state.file = "ready" /\ backup.state.version = Current
        /\ backup.index.file = "ready" /\ backup.index.site = backup.state.site
        /\ (~backup.torn => Agree(backup.state, backup.index))
    BY <1>1 DEF IInv, BackupOK
  <1>3. state' \in State /\ index' \in Index
    BY <1>1, <1>2, Types DEF IInv
  <1>4. HasIdentity'
    BY <1>1, <1>2, Constants DEF HasIdentity
  <1>5. pc' = "down" /\ backup' = backup
    BY <1>1, LossTypes
  <1>6. TypeOK'
    BY <1>1, <1>3, LossTypes DEF IInv, TypeOK, Repairs
  <1>7. FilesOK'
    BY <1>1, <1>2, <1>4, <1>5 DEF FilesOK, Preparations
  <1>8. BackupOK'
    BY <1>1, <1>2, <1>5 DEF IInv, BackupOK, Agree
  <1>9. QED
    BY <1>1, <1>2, <1>5, <1>6, <1>7, <1>8, DownKeeps DEF Agree

LEMMA FileStepKeeps ==
    ASSUME IInv, FileStep
    PROVE  IInv'
  BY BackupStateKeeps, BackupIndexKeeps, LoseStateKeeps, LoseIndexKeeps, DamageStateKeeps,
     DamageIndexKeeps, WipeKeeps, RestoreKeeps DEF FileStep

-----------------------------------------------------------------------------
(* Theorems *)

LEMMA InitOK == Init => IInv
  <1> SUFFICES ASSUME Init PROVE IInv
    OBVIOUS
  <1>1. /\ snapshot = None /\ copies = {} /\ pc = "down" /\ setups = {}
        /\ backup = NoBackup /\ origin = "site"
        /\ spent = [stops |-> 0, losses |-> 0, work |-> 0]
    BY DEF Init
  <1>2. spent \in [stops: 0..MaxStops, losses: 0..MaxLosses, work: 0..MaxWork]
    BY <1>1, Constants
  <1>3. backup \in [state: State \cup {None}, index: Index \cup {None}, torn: BOOLEAN]
        /\ backup.state = None /\ backup.index = None
    BY <1>1 DEF NoBackup
  <1>4. state \in State /\ index \in Index /\ state.stable = "none"
        /\ index.fts # "behind" /\ FilesOK
    <2>1. CASE state = NewState /\ index = NewIndex
      BY <1>1, <2>1, NewFields DEF FilesOK, HasIdentity, HasContent, Preparations
    <2>2. CASE \E v \in 0..Current - 1, a \in SUBSET Ids, done \in BOOLEAN :
                  state = OldState(v) /\ index = OldIndex(a, done)
      <3>1. PICK v \in 0..Current - 1, a \in SUBSET Ids, done \in BOOLEAN :
                    state = OldState(v) /\ index = OldIndex(a, done)
        BY <2>2
      <3>2. v \in 0..Current /\ 0 \in 0..MaxLosses /\ 0 \in 0..Current
        BY Constants
      <3>3. state \in State /\ state.file = "ready" /\ state.connection = OldConnection
            /\ state.site = 0 /\ state.stable = "none"
        BY <3>1, <3>2, Constants DEF OldState, NewState, State, Files
      <3>4. index \in Index /\ index.file = "ready" /\ index.site = 0 /\ index.fts = "old"
        BY <3>1, <3>2 DEF OldIndex, NewIndex, Index, Files
      <3>5. HasIdentity
        BY <3>3, Constants DEF HasIdentity
      <3>6. QED
        BY <1>1, <3>3, <3>4, <3>5 DEF FilesOK, Preparations
    <2>3. QED
      BY <2>1, <2>2 DEF Init
  <1>5. TypeOK
    BY <1>1, <1>2, <1>3, <1>4 DEF TypeOK, Repairs
  <1>6. SiteOK
    BY <1>1, <1>4 DEF SiteOK, Agree, RefusesForCause
  <1>7. BackupOK
    BY <1>1, <1>3 DEF BackupOK
  <1>8. CopiesOK /\ ProgressOK
    BY <1>1 DEF CopiesOK, UntilSeed, ProgressOK, Repairs, AfterSearch, AfterRuns, AfterStable,
                AfterRolling, AfterHandOver
  <1>9. QED
    BY <1>4, <1>5, <1>6, <1>7, <1>8 DEF IInv

LEMMA StutterKeeps ==
    ASSUME IInv, UNCHANGED vars
    PROVE  IInv'
  <1>1. TypeOK'
    BY DEF IInv, vars, dir, TypeOK
  <1>2. FilesOK'
    BY DEF IInv, vars, dir, FilesOK, HasIdentity, HasContent
  <1>3. SiteOK' /\ BackupOK'
    BY DEF IInv, vars, dir, SiteOK, Agree, RefusesForCause, BackupOK, HasIdentity
  <1>4. CopiesOK' /\ ProgressOK'
    BY DEF IInv, vars, dir, CopiesOK, ProgressOK, HasIdentity
  <1>5. QED
    BY <1>1, <1>2, <1>3, <1>4 DEF IInv

LEMMA NextKeeps == IInv /\ [Next]_vars => IInv'
  BY StartStepKeeps, SiteStepKeeps, FileStepKeeps, FailStableKeeps, CrashKeeps, StutterKeeps
     DEF Next

\* The inductive invariant holds in every reachable state: whose files these are,
\* what a start has achieved, what has been copied, and what a backup holds
\* (lifespan and all it calls, backup.sh, restore.sh).
THEOREM Invariance == Spec => []IInv
  BY InitOK, NextKeeps, PTL DEF Spec

\* Every variable keeps its type, and a start that repairs has both files.
THEOREM TypeCorrect == Spec => []TypeOK
  <1>1. IInv => TypeOK
    BY DEF IInv
  <1>2. QED
    BY <1>1, Invariance, PTL

\* A start is refused only for files that are gone, damaged or incomplete, or for
\* a torn archive, whatever crashes came before (validate_database_files,
\* migrate_stable_resource_ids).
THEOREM RefusedOnlyForCause == Spec => []RefusesForCause
  <1>1. IInv => RefusesForCause
    BY DEF IInv, SiteOK
  <1>2. QED
    BY <1>1, Invariance, PTL

\* An index with content is never used with the state of another installation
\* (validate_database_files).
THEOREM IndexOfItsSite == Spec => []IndexIsItsSites
  <1>1. IInv => IndexIsItsSites
    BY DEF IInv, FilesOK, IndexIsItsSites
  <1>2. QED
    BY <1>1, Invariance, PTL

\* The last step of a start is the one that serves.
LEMMA UpBySettings ==
    ASSUME [Next]_vars, pc' = "up", pc # "up"
    PROVE  Settings
  BY DEF Next, StartStep, SiteStep, FileStep, FailStable, Crash, Stop, Working,
         Begin, CopyState, CopyIndex, Snapshot, CreateState, UpgradeState, CreateIndex,
         DropOldSearch, FillSearch, Validate, RecoverSearch, ClearSearch, RecoverRuns,
         CheckStable, Seed, CompleteStable, RecoverRolling, HandOver, EnableEngine,
         RecoverIndex, RecoveryCycle, SetupCheck, SetupSave, Register, AddRow, ChangeRoots,
         BeginRun, BeginItem, MarkSearch, EndRun, ClearMark, EndItem, BackupState, BackupIndex,
         LoseState, LoseIndex, DamageState, DamageIndex, Wipe, Restore, Mishap, Loss, vars

\* A site that comes up has every repair behind it, however many starts were cut
\* off on the way (lifespan).
THEOREM RecoveredWhenUp == Spec => ComesUpRecovered
  <1> DEFINE Step == pc' = "up" /\ pc # "up" => Recovered'
  <1>1. IInv /\ [Next]_vars => [Step]_vars
    <2> SUFFICES ASSUME IInv, [Next]_vars, pc' = "up", pc # "up" PROVE Recovered'
      OBVIOUS
    <2>1. Settings
      BY UpBySettings
    <2>2. pc = "settings" /\ pc \in Repairs /\ index' = index /\ origin' = origin
      BY <2>1 DEF Settings, Repairs
    <2>3. state \in State /\ index.fts \in {"current", "behind"}
          /\ (origin # "torn archive" => Agree(state, index)) /\ state.version = Current
      BY <2>2, Repairing
    <2>4. /\ state'.setup = (state.setup \/ state.connection # None)
          /\ state'.connection = state.connection /\ state'.version = state.version
          /\ state'.stable = state.stable /\ state'.ids = state.ids
          /\ state'.engine = state.engine /\ state'.roots = state.roots
      BY <2>1, <2>3 DEF Settings, State
    <2>5. ~index.run /\ ~index.item /\ index.cycle # "running" /\ state.stable = "complete"
          /\ index.active \subseteq state.ids /\ ~state.dirty
          /\ (index.success /\ index.folders => state.engine)
          /\ (state.engine /\ state.roots => index.folders)
      BY <2>2 DEF IInv, ProgressOK, AfterSearch, AfterRuns, AfterStable, AfterRolling,
                  AfterHandOver
    <2>6. index.fts = "current" \/ index.unmarked \/ origin = "torn archive"
      BY <2>3, <2>5 DEF Agree
    <2>7. QED
      BY <2>2, <2>3, <2>4, <2>5, <2>6 DEF Recovered
  <1> HIDE DEF Step
  <1>2. Spec => [][Step]_vars
    BY <1>1, Invariance, PTL DEF Spec
  <1>3. QED
    BY <1>2 DEF ComesUpRecovered, Step

\* Where a start seeds identifiers nothing else changes them.
LEMMA IdsChange ==
    ASSUME IInv, [Next]_vars, pc = "seed"
    PROVE  state'.ids = state.ids \/ Seed
  <1>1. state \in State
    BY DEF IInv, TypeOK
  <1>2. CASE StartStep
    BY <1>2 DEF StartStep, Begin, CopyState, CopyIndex, Snapshot, CreateState, UpgradeState,
                CreateIndex, DropOldSearch, FillSearch, Validate, RecoverSearch, ClearSearch,
                RecoverRuns, CheckStable, CompleteStable, RecoverRolling, HandOver,
                EnableEngine, RecoverIndex, RecoveryCycle, Settings
  <1>3. ~SiteStep
    BY DEF SiteStep, Working, SetupCheck, SetupSave, Register, AddRow, ChangeRoots, BeginRun,
           BeginItem, MarkSearch, EndRun, ClearMark, EndItem
  <1>4. ~FileStep
    BY DEF FileStep, BackupState, BackupIndex, LoseState, LoseIndex, DamageState, DamageIndex,
           Wipe, Restore, Mishap, Loss
  <1>5. CASE FailStable
    BY <1>1, <1>5 DEF FailStable, State
  <1>6. CASE Crash \/ UNCHANGED vars
    BY <1>6 DEF Crash, vars
  <1>7. QED
    BY <1>2, <1>3, <1>4, <1>5, <1>6 DEF Next

\* Identities are seeded only when both files have been copied
\* (backup_stable_id_databases).
THEOREM SeedAfterCopies == Spec => SeedIsCopied
  <1> DEFINE Step == pc = "seed" /\ state'.ids # state.ids => {"state", "index"} \subseteq copies
  <1>1. IInv /\ [Next]_vars => [Step]_vars
    <2> SUFFICES ASSUME IInv, [Next]_vars, pc = "seed", state'.ids # state.ids
                 PROVE  {"state", "index"} \subseteq copies
      OBVIOUS
    <2>1. Seed
      BY IdsChange
    <2>2. state \in State /\ index \in Index
      BY DEF IInv, TypeOK
    <2>3. state'.ids = state.ids \cup index.active
      BY <2>1, <2>2 DEF Seed, State
    <2>4. index.active # {}
      BY <2>3
    <2>5. QED
      BY <2>4 DEF IInv, CopiesOK, ProgressOK, UntilSeed
  <1> HIDE DEF Step
  <1>2. Spec => [][Step]_vars
    BY <1>1, Invariance, PTL DEF Spec
  <1>3. QED
    BY <1>2 DEF SeedIsCopied, Step

\* The work of a site upgrades nothing, and leaves the setup of a site that is set
\* up as it is.
LEMMA WorkOnState ==
    ASSUME state \in State, SiteStep
    PROVE  /\ state'.version = state.version
           /\ state.setup => state'.setup /\ state'.connection = state.connection
  <1>1. ASSUME NEW c \in Connections, SetupSave(c)
        PROVE  /\ state'.version = state.version
               /\ state.setup => state'.setup /\ state'.connection = state.connection
    BY <1>1 DEF SetupSave, State
  <1>2. ASSUME NEW r \in Ids, Register(r)
        PROVE  /\ state'.version = state.version /\ state'.setup = state.setup
               /\ state'.connection = state.connection
    BY <1>2 DEF Register, State
  <1>3. CASE ChangeRoots
    BY <1>3 DEF ChangeRoots, State
  <1>4. CASE MarkSearch
    BY <1>4 DEF MarkSearch, State
  <1>5. CASE ClearMark
    BY <1>5 DEF ClearMark, State
  <1>6. CASE state' = state
    BY <1>6
  <1>7. ASSUME NEW c \in Connections, SetupCheck(c) PROVE state' = state
    BY <1>7 DEF SetupCheck
  <1>8. ASSUME NEW r \in Ids, AddRow(r) PROVE state' = state
    BY <1>8 DEF AddRow
  <1>9. ASSUME BeginRun \/ BeginItem \/ EndRun \/ EndItem PROVE state' = state
    BY <1>9 DEF BeginRun, BeginItem, EndRun, EndItem
  <1>10. QED
    BY <1>1, <1>2, <1>3, <1>4, <1>5, <1>6, <1>7, <1>8, <1>9 DEF SiteStep

\* Nothing but an upgrade raises the version of a file that has data: a new file
\* has none, and a backup is of an upgraded site.
LEMMA VersionRises ==
    ASSUME IInv, [Next]_vars, state'.version > state.version, HasIdentity
    PROVE  UpgradeState
  <1>1. state \in State /\ state.version \in 0..Current /\ Current \in Nat
    BY StateFields, Constants DEF IInv, TypeOK
  <1>2. CASE StartStep
    <2>1. ~CreateState
      <3>1. CASE pc = "state_tables" /\ state.file # "ready"
        BY <3>1, Preparing DEF Preparations
      <3>2. QED
        BY <3>1 DEF CreateState
    <2>2. CASE ClearSearch \/ Seed \/ CompleteStable \/ EnableEngine \/ Settings \/ CheckStable
      BY <1>1, <2>2 DEF ClearSearch, Seed, CompleteStable, EnableEngine, Settings, CheckStable,
                        State
    <2>3. CASE \/ Begin \/ CopyState \/ CopyIndex \/ Snapshot \/ CreateIndex \/ DropOldSearch
               \/ FillSearch \/ Validate \/ RecoverSearch \/ RecoverRuns \/ RecoverRolling
               \/ HandOver \/ RecoverIndex \/ RecoveryCycle
      BY <1>1, <2>3 DEF Begin, CopyState, CopyIndex, Snapshot, CreateIndex, DropOldSearch,
                        FillSearch, Validate, RecoverSearch, RecoverRuns, RecoverRolling,
                        HandOver, RecoverIndex, RecoveryCycle
    <2>4. QED
      BY <1>2, <2>1, <2>2, <2>3 DEF StartStep
  <1>3. CASE SiteStep
    BY <1>1, <1>3, WorkOnState
  <1>4. CASE FileStep
    <2>1. CASE Restore
      <3>1. backup.state # None /\ backup.state.version = Current
            /\ (state.version = Current \/ ~HasIdentity) /\ state' = backup.state
        BY <2>1 DEF Restore, IInv, BackupOK
      <3>2. QED
        BY <1>1, <3>1
    <2>2. CASE LoseState \/ Wipe
      BY <1>1, <2>2, NewFields DEF LoseState, Wipe
    <2>3. CASE BackupState \/ BackupIndex \/ LoseIndex \/ DamageState \/ DamageIndex
      BY <1>1, <2>3 DEF BackupState, BackupIndex, LoseIndex, DamageState, DamageIndex, State
    <2>4. QED
      BY <1>4, <2>1, <2>2, <2>3 DEF FileStep
  <1>5. CASE FailStable
    BY <1>1, <1>5 DEF FailStable, State
  <1>6. CASE Crash \/ UNCHANGED vars
    BY <1>1, <1>6 DEF Crash, vars
  <1>7. QED
    BY <1>2, <1>3, <1>4, <1>5, <1>6 DEF Next

\* A file with the data of a site is upgraded only after it was copied as it is
\* (_create_pre_migration_backup).
THEOREM UpgradeAfterCopy == Spec => UpgradeIsCopied
  <1> DEFINE Step == state'.version > state.version /\ HasIdentity => snapshot = state
  <1>1. IInv /\ [Next]_vars => [Step]_vars
    <2> SUFFICES ASSUME IInv, [Next]_vars, state'.version > state.version, HasIdentity
                 PROVE  snapshot = state
      OBVIOUS
    <2>1. UpgradeState /\ state \in State
      BY VersionRises DEF IInv, TypeOK
    <2>2. state'.version = Current /\ pc = "state_tables" /\ state.file = "ready"
      BY <2>1 DEF UpgradeState, State
    <2>3. state.version < Current
      BY <2>1, <2>2, StateFields, Constants
    <2>4. QED
      BY <2>2, <2>3 DEF IInv, CopiesOK
  <1> HIDE DEF Step
  <1>2. Spec => [][Step]_vars
    BY <1>1, Invariance, PTL DEF Spec
  <1>3. QED
    BY <1>2 DEF UpgradeIsCopied, Step

\* Of setup requests that race one decides about the connection for good
\* (admin_setup_alist).
THEOREM SetupIsFinal == Spec => SetupDecidesOnce
  <1> DEFINE Step == pc = "up" /\ state.setup =>
                        state'.setup /\ state'.connection = state.connection
  <1>1. IInv /\ [Next]_vars => [Step]_vars
    <2> SUFFICES ASSUME IInv, [Next]_vars, pc = "up", state.setup
                 PROVE  state'.setup /\ state'.connection = state.connection
      OBVIOUS
    <2>1. state \in State
      BY DEF IInv, TypeOK
    <2>2. ~StartStep /\ ~FailStable
      BY DEF StartStep, FailStable, Begin, CopyState, CopyIndex, Snapshot, CreateState,
             UpgradeState, CreateIndex, DropOldSearch, FillSearch, Validate, RecoverSearch,
             ClearSearch, RecoverRuns, CheckStable, Seed, CompleteStable, RecoverRolling,
             HandOver, EnableEngine, RecoverIndex, RecoveryCycle, Settings
    <2>3. CASE SiteStep
      BY <2>1, <2>3, WorkOnState
    <2>4. CASE FileStep
      BY <2>4 DEF FileStep, BackupState, BackupIndex, LoseState, LoseIndex, DamageState,
                  DamageIndex, Wipe, Restore, Mishap, Loss
    <2>5. CASE Crash \/ UNCHANGED vars
      BY <2>5 DEF Crash, vars
    <2>6. QED
      BY <2>2, <2>3, <2>4, <2>5 DEF Next
  <1> HIDE DEF Step
  <1>2. Spec => [][Step]_vars
    BY <1>1, Invariance, PTL DEF Spec
  <1>3. QED
    BY <1>2 DEF SetupDecidesOnce, Step

=============================================================================
