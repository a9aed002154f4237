------------------------------ MODULE Startup ------------------------------
(***************************************************************************)
(* How the API starts (lifespan of infrastructure/lifespan.py): the files   *)
(* are validated, copied, created and upgraded (database.py, migrations.py),*)
(* and what a stop or crash left behind is repaired (search.py, indexer.py, *)
(* identity/migration.py, sync/rolling.py, admin_auth.py).                  *)
(*                                                                         *)
(* A start may crash between any two commits and is repeated.  While the    *)
(* site runs, its indexing writes identities to state.db and rows to        *)
(* index.db, two requests may set it up at once, and scripts/backup.sh may  *)
(* copy the two files one after the other.  While it is down, files get     *)
(* lost or damaged, and scripts/restore.sh puts a backup in their place.    *)
(***************************************************************************)
EXTENDS Naturals

CONSTANTS
    Ids,         \* stable resource identifiers
    Connections, \* AList connections, one for each setup request
    None,        \* no connection, no file, no backup
    Current,     \* CURRENT_SCHEMA_VERSION
    MaxStops,    \* bound: stops, crashes and failing starts
    MaxLosses,   \* bound: lost, damaged, wiped and restored files
    MaxWork      \* bound: what the site does while it is up

ASSUME StartupAssumption ==
    /\ None \notin Ids \cup Connections /\ Connections # {}
    /\ Current \in Nat \ {0}
    /\ {MaxStops, MaxLosses, MaxWork} \subseteq Nat

VARIABLES
    state,       \* state.db
    index,       \* index.db
    snapshot,    \* .codex-backups/pre-migration: the newest copy of state.db
    copies,      \* .codex-backups/pre-0.3.0-stable-id: the files copied; and
                 \* whether the data directory holds "other" files
    pc,          \* the step of lifespan, or whether the API is up or down
    setups,      \* connections of the setup requests under way
    backup,      \* an archive, or as much of it as is made
    origin,      \* history: where the files are from
    spent        \* how much of the bounds is used

dir == <<snapshot, copies>>
vars == <<state, index, snapshot, copies, pc, setups, backup, origin, spent>>

-----------------------------------------------------------------------------
(* State *)

\* "partial" is a file that lacks required tables.
Files == {"absent", "partial", "damaged", "ready"}

State == [file: Files,
          site: 0..MaxLosses,         \* history: the installation it belongs to
          version: 0..Current,
          setup: BOOLEAN,             \* setup_completed
          connection: Connections \cup {None},
          roots: BOOLEAN,             \* there is an enabled content root
          ids: SUBSET Ids,            \* resource_identities
          stable: {"none", "running", "failed", "complete"},
          dirty: BOOLEAN,             \* search_index_dirty
          engine: BOOLEAN]            \* sync_engine_version and first index

Index == [file: Files,
          site: 0..MaxLosses,         \* history: the installation it belongs to
          active: SUBSET Ids,         \* active resources
          folders: BOOLEAN,           \* there is an active folder
          success: BOOLEAN,           \* a sync run has succeeded
          run: BOOLEAN,               \* a sync run is marked as running
          cycle: {"none", "planned", "running", "partial"},
          item: BOOLEAN,              \* a folder of the cycle is marked as running
          fts: {"current", "behind", "empty", "old"},
          unmarked: BOOLEAN]          \* history: rows changed that no mark covers

NewState == [file |-> "absent", site |-> 0, version |-> 0, setup |-> FALSE,
             connection |-> None, roots |-> FALSE, ids |-> {}, stable |-> "none",
             dirty |-> FALSE, engine |-> FALSE]
NewIndex == [file |-> "absent", site |-> 0, active |-> {}, folders |-> FALSE,
             success |-> FALSE, run |-> FALSE, cycle |-> "none", item |-> FALSE,
             fts |-> "empty", unmarked |-> FALSE]

\* The steps of lifespan, in order: first the files, then their repairs.
Preparations == {"copy_state", "copy_index", "snapshot", "state_tables", "index_tables"}
Repairs == {"validate", "search", "search_clear", "runs", "stable", "seed", "complete",
            "rolling", "handover", "engine", "recovery", "recovery_cycle", "settings"}

TypeOK ==
    /\ state \in State
    /\ index \in Index
    /\ snapshot \in State \cup {None}
    /\ copies \subseteq {"state", "index", "other"}
    /\ pc \in Preparations \cup Repairs \cup {"down", "refused", "up"}
    /\ setups \subseteq Connections
    /\ backup \in [state: State \cup {None}, index: Index \cup {None}, torn: BOOLEAN]
    /\ origin \in {"site", "archive", "torn archive"}
    /\ spent \in [stops: 0..MaxStops, losses: 0..MaxLosses, work: 0..MaxWork]
    /\ pc \in Repairs \cup {"index_tables", "up"} => state.file = "ready"
    /\ pc \in Repairs \cup {"up"} => index.file = "ready"

NoBackup == [state |-> None, index |-> None, torn |-> FALSE]

\* A new directory, or the files of a site that an older program left behind:
\* before schema versions (0) or before stable identifiers (stable = "none").
OldConnection == CHOOSE c \in Connections : TRUE
OldState(v) ==
    [NewState EXCEPT !.file = "ready", !.version = v, !.connection = OldConnection,
                     !.roots = TRUE]
OldIndex(a, done) ==
    [NewIndex EXCEPT !.file = "ready", !.active = a, !.folders = TRUE,
                     !.success = done, !.run = ~done, !.fts = "old"]

Init ==
    /\ \/ state = NewState /\ index = NewIndex
       \/ \E v \in 0..Current - 1, a \in SUBSET Ids, done \in BOOLEAN :
             state = OldState(v) /\ index = OldIndex(a, done)
    /\ snapshot = None
    /\ copies = {}
    /\ pc = "down"
    /\ setups = {}
    /\ backup = NoBackup
    /\ origin = "site"
    /\ spent = [stops |-> 0, losses |-> 0, work |-> 0]

-----------------------------------------------------------------------------
(* validate_database_files *)

HasContent == index.active # {} \/ index.folders \/ index.success \/ index.run
HasIdentity == state.version > 0 \/ state.connection # None \/ state.setup
Traces == index.file # "absent" \/ snapshot # None \/ copies # {}

ValidWithoutState ==
    \/ state.file = "absent" /\ snapshot = None /\ copies = {}
    \/ /\ state.file = "ready"
       /\ \/ index.file = "absent"
          \/ index.file = "ready" /\ (HasContent => HasIdentity)
Valid ==
    \/ state.file = "absent" /\ ~Traces
    \/ /\ state.file = "ready"
       /\ \/ index.file = "absent"
          \/ index.file = "ready" /\ (HasContent => HasIdentity)

Begin ==
    /\ pc = "down"
    /\ pc' = IF Valid THEN "copy_state" ELSE "refused"
    /\ UNCHANGED <<state, index, dir, setups, backup, origin, spent>>

Validate ==
    /\ pc = "validate"
    /\ pc' = IF Valid THEN "search" ELSE "refused"
    /\ UNCHANGED <<state, index, dir, setups, backup, origin, spent>>

-----------------------------------------------------------------------------
(* backup_stable_id_databases: both files, each replacing what is there *)

NeedsCopiesOfState ==
    /\ state.file = "ready" /\ index.file = "ready"
    /\ index.active # {} /\ state.stable # "complete"
    /\ "state" \notin copies
NeedsCopies ==
    /\ state.file = "ready" /\ index.file = "ready"
    /\ index.active # {} /\ state.stable # "complete"
    /\ ~({"state", "index"} \subseteq copies)

CopyState ==
    /\ pc = "copy_state"
    /\ IF NeedsCopies
       THEN copies' = copies \cup {"state"} /\ pc' = "copy_index"
       ELSE pc' = "snapshot" /\ UNCHANGED copies
    /\ UNCHANGED <<state, index, snapshot, setups, backup, origin, spent>>

CopyIndex ==
    /\ pc = "copy_index"
    /\ copies' = copies \cup {"index"}
    /\ pc' = "snapshot"
    /\ UNCHANGED <<state, index, snapshot, setups, backup, origin, spent>>

-----------------------------------------------------------------------------
(* init_databases *)

\* _create_pre_migration_backup.
SnapshotOnce ==
    /\ pc = "snapshot"
    /\ snapshot' = IF state.file = "ready" /\ state.version < Current /\ copies = {}
                   THEN state ELSE snapshot
    /\ pc' = "state_tables"
    /\ UNCHANGED <<state, index, copies, setups, backup, origin, spent>>
Snapshot ==
    /\ pc = "snapshot"
    /\ snapshot' = IF state.file = "ready" /\ state.version < Current THEN state ELSE snapshot
    /\ pc' = "state_tables"
    /\ UNCHANGED <<state, index, copies, setups, backup, origin, spent>>

\* Statements that create or alter tables commit one by one; from the first
\* UPDATE on the upgrade of state.db is one transaction.
CreateState ==
    /\ pc = "state_tables" /\ state.file # "ready"
    /\ state' = IF state.file = "absent"
                THEN [NewState EXCEPT !.file = "partial", !.site = spent.losses]
                ELSE [state EXCEPT !.file = "ready"]
    /\ UNCHANGED <<index, dir, pc, setups, backup, origin, spent>>

\* run_migrations from whatever version the file has.
UpgradeState ==
    /\ pc = "state_tables" /\ state.file = "ready"
    /\ state' = [state EXCEPT !.version = Current]
    /\ pc' = "index_tables"
    /\ UNCHANGED <<index, dir, setups, backup, origin, spent>>

CreateIndex ==
    /\ pc = "index_tables" /\ index.file # "ready"
    /\ index' = IF index.file = "absent"
                THEN [NewIndex EXCEPT !.file = "partial", !.site = state.site]
                ELSE [index EXCEPT !.file = "ready"]
    /\ UNCHANGED <<state, dir, pc, setups, backup, origin, spent>>

DropOldSearch ==
    /\ pc = "index_tables" /\ index.file = "ready" /\ index.fts = "old"
    /\ index' = [index EXCEPT !.fts = "empty"]
    /\ UNCHANGED <<state, dir, pc, setups, backup, origin, spent>>

\* An empty search table is filled, whoever left it empty.
FillSearchNot ==
    /\ pc = "index_tables" /\ index.file = "ready" /\ index.fts # "old"
    /\ pc' = "validate"
    /\ UNCHANGED <<state, index, dir, setups, backup, origin, spent>>
FillSearchAnyway ==
    /\ pc = "index_tables" /\ index.fts # "old"
    /\ index' = [index EXCEPT !.fts = IF index.fts = "empty" THEN "current" ELSE index.fts]
    /\ pc' = "validate"
    /\ UNCHANGED <<state, dir, setups, backup, origin, spent>>
FillSearch ==
    /\ pc = "index_tables" /\ index.file = "ready" /\ index.fts # "old"
    /\ index' = [index EXCEPT !.fts = IF index.fts = "empty" THEN "current" ELSE index.fts]
    /\ pc' = "validate"
    /\ UNCHANGED <<state, dir, setups, backup, origin, spent>>

-----------------------------------------------------------------------------
(* recover_search_index_if_dirty, recover_interrupted_sync_runs *)

RecoverSearch ==
    /\ pc = "search"
    /\ IF state.dirty
       THEN index' = [index EXCEPT !.fts = "current"] /\ pc' = "search_clear"
       ELSE pc' = "runs" /\ UNCHANGED index
    /\ UNCHANGED <<state, dir, setups, backup, origin, spent>>

ClearSearch ==
    /\ pc = "search_clear"
    /\ state' = [state EXCEPT !.dirty = FALSE]
    /\ pc' = "runs"
    /\ UNCHANGED <<index, dir, setups, backup, origin, spent>>

RecoverRunsNot ==
    /\ pc = "runs"
    /\ pc' = "stable"
    /\ UNCHANGED <<state, index, dir, setups, backup, origin, spent>>
RecoverRuns ==
    /\ pc = "runs"
    /\ index' = [index EXCEPT !.run = FALSE]
    /\ pc' = "stable"
    /\ UNCHANGED <<state, dir, setups, backup, origin, spent>>

-----------------------------------------------------------------------------
(* migrate_stable_resource_ids *)

CheckStableBegun ==
    /\ pc = "stable"
    /\ IF state.stable # "none"
       THEN /\ pc' = IF index.active \subseteq state.ids THEN "rolling" ELSE "refused"
            /\ UNCHANGED state
       ELSE IF index.run
       THEN pc' = "refused" /\ UNCHANGED state
       ELSE pc' = "seed" /\ state' = [state EXCEPT !.stable = "running"]
    /\ UNCHANGED <<index, dir, setups, backup, origin, spent>>
CheckStable ==
    /\ pc = "stable"
    /\ IF state.stable = "complete"
       THEN /\ pc' = IF index.active \subseteq state.ids THEN "rolling" ELSE "refused"
            /\ UNCHANGED state
       ELSE IF index.run
       THEN pc' = "refused" /\ UNCHANGED state
       ELSE pc' = "seed" /\ state' = [state EXCEPT !.stable = "running"]
    /\ UNCHANGED <<index, dir, setups, backup, origin, spent>>

Seed ==
    /\ pc = "seed"
    /\ state' = [state EXCEPT !.ids = state.ids \cup index.active]
    /\ pc' = "complete"
    /\ UNCHANGED <<index, dir, setups, backup, origin, spent>>

CompleteStable ==
    /\ pc = "complete"
    /\ state' = [state EXCEPT !.stable = "complete"]
    /\ pc' = "rolling"
    /\ UNCHANGED <<index, dir, setups, backup, origin, spent>>

Stop ==
    /\ spent.stops < MaxStops
    /\ spent' = [spent EXCEPT !.stops = spent.stops + 1]
    /\ pc' = "down"
    /\ setups' = {}
    /\ backup' = IF backup.index = None THEN NoBackup ELSE backup

\* An exception while identities are seeded is recorded and ends the start.
FailStable ==
    /\ pc \in {"seed", "complete"}
    /\ Stop
    /\ state' = [state EXCEPT !.stable = "failed"]
    /\ UNCHANGED <<index, dir, origin>>

-----------------------------------------------------------------------------
(* recover_rolling_state, migrate_existing_index_to_rolling,                  *)
(* prepare_index_recovery, ensure_setup_compatible                            *)

\* _create_cycle: an active cycle is used again.
WithCycle == [index EXCEPT !.cycle = IF index.cycle = "none" THEN "planned" ELSE index.cycle]

RecoverRolling ==
    /\ pc = "rolling"
    /\ index' = [index EXCEPT !.item = FALSE,
                              !.cycle = IF index.cycle = "running" THEN "partial" ELSE index.cycle]
    /\ pc' = "handover"
    /\ UNCHANGED <<state, dir, setups, backup, origin, spent>>

HandOver ==
    /\ pc = "handover"
    /\ IF ~state.engine /\ index.success /\ index.folders
       THEN index' = WithCycle /\ pc' = "engine"
       ELSE pc' = "recovery" /\ UNCHANGED index
    /\ UNCHANGED <<state, dir, setups, backup, origin, spent>>

EnableEngine ==
    /\ pc = "engine"
    /\ state' = [state EXCEPT !.engine = TRUE]
    /\ pc' = "recovery"
    /\ UNCHANGED <<index, dir, setups, backup, origin, spent>>

\* An index without folders is seeded with the content roots: it was lost.
RecoverIndex ==
    /\ pc = "recovery"
    /\ IF state.engine /\ ~index.folders /\ state.roots
       THEN index' = [index EXCEPT !.folders = TRUE] /\ pc' = "recovery_cycle"
       ELSE pc' = "settings" /\ UNCHANGED index
    /\ UNCHANGED <<state, dir, setups, backup, origin, spent>>

RecoveryCycle ==
    /\ pc = "recovery_cycle"
    /\ index' = WithCycle
    /\ pc' = "settings"
    /\ UNCHANGED <<state, dir, setups, backup, origin, spent>>

\* A site with a connection counts as set up.
Settings ==
    /\ pc = "settings"
    /\ state' = [state EXCEPT !.setup = state.setup \/ state.connection # None]
    /\ pc' = "up"
    /\ UNCHANGED <<index, dir, setups, backup, origin, spent>>

-----------------------------------------------------------------------------
(* What the running site does to its files *)

Working ==
    /\ pc = "up"
    /\ spent.work < MaxWork
    /\ spent' = [spent EXCEPT !.work = spent.work + 1]
    /\ UNCHANGED <<dir, pc, backup, origin>>

\* admin_setup_alist looks whether the site is set up, tests the connection,
\* and saves it; the flag is inserted, so that a second request fails and its
\* connection is rolled back.
SetupCheck(c) ==
    /\ c \notin setups /\ ~state.setup
    /\ Working
    /\ setups' = setups \cup {c}
    /\ UNCHANGED <<state, index>>

SetupSaveAnyway(c) ==
    /\ c \in setups /\ pc = "up"
    /\ setups' = setups \ {c}
    /\ state' = [state EXCEPT !.setup = TRUE, !.connection = c]
    /\ UNCHANGED <<index, dir, pc, backup, origin, spent>>
SetupSave(c) ==
    /\ c \in setups /\ pc = "up"
    /\ setups' = setups \ {c}
    /\ state' = IF state.setup THEN state
                ELSE [state EXCEPT !.setup = TRUE, !.connection = c]
    /\ UNCHANGED <<index, dir, pc, backup, origin, spent>>

ChangeRoots ==
    /\ Working
    /\ state.setup
    /\ state' = [state EXCEPT !.roots = ~state.roots]
    /\ UNCHANGED <<index, setups>>

\* run_sync, as far as it matters to the next start: FirstIndex has the rest.
BeginRun ==
    /\ Working
    /\ state.roots /\ ~state.engine /\ ~index.run
    /\ index' = [index EXCEPT !.run = TRUE]
    /\ UNCHANGED <<state, setups>>

\* A window of a cycle: RollingCycle has the rest.
BeginItem ==
    /\ Working
    /\ state.engine /\ index.folders /\ ~index.item
    /\ index' = [index EXCEPT !.cycle = "running", !.item = TRUE]
    /\ UNCHANGED <<state, setups>>

\* A scan commits identities first, rows after; a window changes the search
\* table with the rows, a run rebuilds it at its end.
Register(r) ==
    /\ Working
    /\ index.run \/ index.item
    /\ state' = [state EXCEPT !.ids = state.ids \cup {r}]
    /\ UNCHANGED <<index, setups>>

AddRow(r) ==
    /\ Working
    /\ r \in state.ids
    /\ index.run \/ index.item
    /\ index' = [index EXCEPT !.active = index.active \cup {r}, !.folders = TRUE,
                              !.fts = IF index.run THEN "behind" ELSE index.fts,
                              !.unmarked = index.unmarked \/ index.run]
    /\ UNCHANGED <<state, setups>>

MarkSearch ==
    /\ Working
    /\ index.run
    /\ state' = [state EXCEPT !.dirty = TRUE]
    /\ index' = [index EXCEPT !.unmarked = FALSE]
    /\ UNCHANGED setups

EndRun ==
    /\ Working
    /\ index.run /\ state.dirty
    /\ \E success \in BOOLEAN :
          index' = [index EXCEPT !.run = FALSE, !.fts = "current", !.unmarked = FALSE,
                                 !.success = index.success \/ success]
    /\ UNCHANGED <<state, setups>>

ClearMark ==
    /\ Working
    /\ state.dirty /\ ~index.run
    /\ state' = [state EXCEPT !.dirty = FALSE]
    /\ UNCHANGED <<index, setups>>

EndItem ==
    /\ Working
    /\ index.item
    /\ index' = [index EXCEPT !.item = FALSE, !.cycle = "partial"]
    /\ UNCHANGED <<state, setups>>

\* A stop, a crash, or a start that fails: what is in memory is gone,
\* and backup.sh fails, which runs inside the container.
Crash ==
    /\ pc \notin {"down", "refused"}
    /\ Stop
    /\ UNCHANGED <<state, index, dir, origin>>

-----------------------------------------------------------------------------
(* Backups, and what happens to the files of a site that is down *)

\* backup.sh copies state.db of a running site, then index.db.
BackupState ==
    /\ pc = "up" /\ backup.state = None
    /\ backup' = [backup EXCEPT !.state = state]
    /\ UNCHANGED <<state, index, dir, pc, setups, origin, spent>>

BackupIndex ==
    /\ pc = "up" /\ backup.state # None /\ backup.index = None
    /\ backup' = [backup EXCEPT !.index = index, !.torn = state # backup.state]
    /\ UNCHANGED <<state, index, dir, pc, setups, origin, spent>>

Loss ==
    /\ pc \in {"down", "refused"}
    /\ spent.losses < MaxLosses
    /\ spent' = [spent EXCEPT !.losses = spent.losses + 1]
    /\ pc' = "down"
    /\ UNCHANGED <<setups, backup>>

Mishap == Loss /\ origin' = "site"

LoseState == Mishap /\ state' = NewState /\ UNCHANGED <<index, dir>>
LoseIndex == Mishap /\ index' = NewIndex /\ UNCHANGED <<state, dir>>
DamageState ==
    /\ Mishap /\ state.file # "absent"
    /\ state' = [state EXCEPT !.file = "damaged"]
    /\ UNCHANGED <<index, dir>>
DamageIndex ==
    /\ Mishap /\ index.file # "absent"
    /\ index' = [index EXCEPT !.file = "damaged"]
    /\ UNCHANGED <<state, dir>>
Wipe ==
    /\ Mishap
    /\ state' = NewState /\ index' = NewIndex /\ snapshot' = None /\ copies' = {}

\* restore.sh moves the directory away and puts the archive's files in its
\* place; an archive has no databases but these two, and may have other files.
Restore ==
    /\ Loss
    /\ backup.index # None
    /\ state' = backup.state /\ index' = backup.index
    /\ snapshot' = None /\ copies' \in SUBSET {"other"}
    /\ origin' = IF backup.torn THEN "torn archive" ELSE "archive"

-----------------------------------------------------------------------------
StartStep ==
    \/ Begin \/ CopyState \/ CopyIndex \/ Snapshot \/ CreateState \/ UpgradeState
    \/ CreateIndex \/ DropOldSearch \/ FillSearch \/ Validate
    \/ RecoverSearch \/ ClearSearch \/ RecoverRuns
    \/ CheckStable \/ Seed \/ CompleteStable
    \/ RecoverRolling \/ HandOver \/ EnableEngine \/ RecoverIndex \/ RecoveryCycle
    \/ Settings

SiteStep ==
    \/ \E c \in Connections : SetupCheck(c) \/ SetupSave(c)
    \/ \E r \in Ids : Register(r) \/ AddRow(r)
    \/ ChangeRoots \/ BeginRun \/ BeginItem \/ MarkSearch \/ EndRun \/ ClearMark \/ EndItem

FileStep ==
    \/ BackupState \/ BackupIndex
    \/ LoseState \/ LoseIndex \/ DamageState \/ DamageIndex \/ Wipe \/ Restore

Next == StartStep \/ SiteStep \/ FileStep \/ FailStable \/ Crash

Spec == Init /\ [][Next]_vars

\* The container is started again whenever it ends (restart: unless-stopped of
\* docker-compose.yml), and a start goes on to its next step.
FairSpec == Spec /\ WF_vars(StartStep)
-----------------------------------------------------------------------------
(* Properties *)

\* A start is refused only when a file is gone, damaged or was never completed,
\* or for an archive whose files differ in time: no sequence of crashes and
\* work leaves a site whose active resources are not registered or whose index
\* is not its own (validate_database_files, migrate_stable_resource_ids).
RefusesForCause ==
    pc = "refused" =>
        \/ state.file # "ready" \/ index.file \in {"partial", "damaged"}
        \/ origin = "torn archive"

\* The content of an index is never served, or extended, with the state of
\* another installation (validate_database_files).
IndexIsItsSites ==
    state.file = "ready" /\ index.file = "ready" /\ HasContent => index.site = state.site

\* A site that comes up has every repair behind it, however many starts were
\* interrupted on the way (lifespan).
Recovered ==
    /\ ~index.run /\ ~index.item /\ index.cycle # "running"
    /\ state.version = Current /\ state.stable = "complete"
    /\ index.active \subseteq state.ids
    /\ index.fts = "current" \/ index.unmarked \/ origin = "torn archive"
    /\ index.success /\ index.folders => state.engine
    /\ state.engine /\ state.roots => index.folders
    /\ state.connection # None => state.setup
ComesUpRecovered == [][pc' = "up" /\ pc # "up" => Recovered']_vars

\* A file with data of a site is upgraded only after it was copied as it is
\* (_create_pre_migration_backup).
UpgradeIsCopied ==
    [][state'.version > state.version /\ HasIdentity => snapshot = state]_vars

\* Identities are seeded only when copies of both files from before the
\* migration exist (backup_stable_id_databases).
SeedIsCopied ==
    [][pc = "seed" /\ state'.ids # state.ids => {"state", "index"} \subseteq copies]_vars

\* Of requests that set the site up at once, one decides about the connection
\* for good (admin_setup_alist).
SetupDecidesOnce ==
    [][pc = "up" /\ state.setup => state'.setup /\ state'.connection = state.connection]_vars

\* What keeps a site down for good.
Broken ==
    \/ ~Valid
    \/ origin = "torn archive" /\ ~(index.active \subseteq state.ids)

\* The site comes up in the end, unless its files keep it from it.
ComesUp == <>[](pc = "up" \/ Broken)

\* What the administration guide promises of a complete backup: a restored one
\* starts.
BackupStarts == pc = "refused" => origin = "site"

-----------------------------------------------------------------------------
(* The inductive invariant behind the theorems of StartupProofs *)

\* The steps of a start that follow another one.
AfterHandOver == {"recovery", "recovery_cycle", "settings"}
AfterRolling == {"handover", "engine"} \cup AfterHandOver
AfterStable == {"rolling"} \cup AfterRolling
AfterRuns == {"stable", "seed", "complete"} \cup AfterStable
AfterSearch == {"runs"} \cup AfterRuns
UntilSeed == {"snapshot", "state_tables", "index_tables", "validate", "search",
              "search_clear", "runs", "stable", "seed"}

\* A file that was never completed holds nothing, an index is never without the
\* state of its site, and a start goes on only with files it can complete.
FilesOK ==
    /\ state.file \in {"absent", "partial"} => ~HasIdentity
    /\ index.file \in {"absent", "partial"} => ~HasContent /\ index.fts = "empty"
    /\ state.file # "absent" /\ index.file # "absent" =>
          HasIdentity /\ index.site = state.site
    /\ pc \in Preparations =>
          /\ state.file # "damaged" /\ index.file # "damaged"
          /\ state.file = "absent" => index.file = "absent"

\* The two files of a site agree: active rows are registered after the
\* migration, and a search table that is behind is marked.
Agree(s, i) ==
    /\ s.stable = "complete" => i.active \subseteq s.ids
    /\ i.fts = "behind" => s.dirty \/ i.unmarked
SiteOK ==
    /\ state.file = "ready" /\ index.file = "ready" /\ origin # "torn archive" =>
          Agree(state, index)
    /\ RefusesForCause

\* The only backup is one of a site that was up, and is the origin of what is
\* restored; its files agree unless it is torn.
BackupOK ==
    /\ backup.index = None => origin = "site"
    /\ backup.state # None =>
          /\ backup.state.file = "ready" /\ backup.state.version = Current
          /\ state.version = Current \/ ~HasIdentity
    /\ backup.state # None /\ backup.index = None =>
          pc = "up" /\ backup.state.site = state.site
    /\ backup.index # None =>
          /\ backup.state # None
          /\ backup.index.file = "ready" /\ backup.index.site = backup.state.site
          /\ ~backup.torn => Agree(backup.state, backup.index)

\* What is upgraded or seeded has been copied.
CopiesOK ==
    /\ pc = "state_tables" /\ state.file = "ready" /\ state.version < Current /\ HasIdentity =>
          snapshot = state
    /\ pc = "copy_index" => "state" \in copies
    /\ pc \in UntilSeed /\ index.active # {} /\ state.stable # "complete" =>
          {"state", "index"} \subseteq copies

\* What the steps of a start have achieved so far.
ProgressOK ==
    /\ pc \in {"index_tables", "up"} \cup Repairs => state.version = Current
    /\ pc \in {"up"} \cup Repairs => index.fts \in {"current", "behind"}
    /\ pc = "search_clear" => index.fts = "current"
    /\ pc \in AfterSearch => ~state.dirty
    /\ pc = "up" /\ state.dirty /\ ~index.run => index.fts = "current"
    /\ pc \in AfterRuns => ~index.run
    /\ pc = "seed" => state.stable # "complete"
    /\ pc \in {"complete", "up"} \cup AfterStable => index.active \subseteq state.ids
    /\ pc \in {"up"} \cup AfterStable => state.stable = "complete"
    /\ pc \in AfterRolling => ~index.item /\ index.cycle # "running"
    /\ pc \in AfterHandOver => (index.success /\ index.folders => state.engine)
    /\ pc \in {"recovery_cycle", "settings"} => (state.engine /\ state.roots => index.folders)

IInv == TypeOK /\ FilesOK /\ SiteOK /\ BackupOK /\ CopiesOK /\ ProgressOK
=============================================================================
