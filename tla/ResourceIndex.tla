--------------------------- MODULE ResourceIndex ---------------------------
(***************************************************************************)
(* How the index follows the files of AList: _scan_cycle_item and          *)
(* _commit_scope of sync/rolling.py for the resources of a folder,         *)
(* resolve_resource_identities of identity/service.py, and search.py.      *)
(*                                                                         *)
(* A scan lists one folder (a scope), commits what it finds out about      *)
(* identities to state.db, and only then commits rows, search table and    *)
(* pending candidates to index.db.  Files change at any time; a scan may   *)
(* fail and the process may crash between any two of these steps.          *)
(* sync_lock admits one scan at a time; a rebuild of the search table does *)
(* not take it.                                                            *)
(***************************************************************************)
EXTENDS Naturals

CONSTANTS
    Scopes,      \* folders, all active
    Paths,       \* paths of files
    ScopeOf,     \* the folder of a path
    Contents,    \* size, time, extension and type: the identity fingerprint
    Ids,         \* stable resource identifiers
    None,        \* no path, no content, no listing
    Confirm,     \* sync_missing_confirm_runs
    MaxCycles,   \* bound: cycles
    MaxChanges,  \* bound: changes of the files
    MaxFaults,   \* bound: failing scans and crashes
    MaxRebuilds, \* bound: rebuilds of the search table
    MaxEvents    \* bound: changes, faults and rebuilds together

\* What AList says of a folder: the contents of some paths.
Listings == UNION {[P -> Contents] : P \in SUBSET Paths}

ASSUME ResourceAssumption ==
    /\ ScopeOf \in [Paths -> Scopes]
    /\ None \notin Scopes \cup Paths \cup Contents \cup Ids \cup Listings
    /\ Confirm \in Nat \ {0}
    /\ {MaxCycles, MaxChanges, MaxFaults, MaxRebuilds, MaxEvents} \subseteq Nat

VARIABLES
    disk,        \* AList: the content at each path
    registry,    \* state.db: resource_identities
    row,         \* index.db: resources
    fts,         \* index.db: search_fts, the indexed path of each identifier
    dirty,       \* state.db: search_index_dirty
    candidates,  \* index.db: pending ResourceIdentityCandidates of the cycle
    verified,    \* index.db: the listing behind FolderScanState.fingerprint
    cycle,       \* id of the current cycle
    todo,        \* its folders that are not yet verified
    scan,        \* the scan under way and what it is about to commit
    rebuild,     \* the rebuild under way and the rows it has read
    spent,       \* how much of the bounds is used
    away,        \* history: paths that were absent some time in this cycle
    awayBefore,  \* history: the same for the cycles before
    quiet,       \* history: this cycle began after the last change or fault
    overlap,     \* history: a scan committed while the last rebuild held old rows
    mixed,       \* history: resources that were torn when a scan ended, until a
                 \*   scan writes the search entry of their row
    undecided,   \* history: paths left without a row that no later scan of
                 \*   the cycle decides about
    givenUp      \* history: folders given up in this cycle

files == <<disk, away, quiet>>
index == <<row, fts, candidates, verified>>
vars == <<disk, registry, row, fts, dirty, candidates, verified, cycle, todo,
          scan, rebuild, spent, away, awayBefore, quiet, overlap, mixed, undecided, givenUp>>

-----------------------------------------------------------------------------
(* State *)

Statuses == {"none", "active", "suspected", "missing"}
Identity == [path: Paths \cup {None}, content: Contents \cup {None}]
Row == [status: Statuses, path: Paths \cup {None}, content: Contents \cup {None},
        streak: Nat, seen: Nat]
Candidate == [path: Paths, content: Contents, id: Ids]

\* What a scan will commit: the rows, the entries to write to and to delete from
\* the search table, the candidates, the paths it leaves without a row, and
\* whether the database accepts it.
Draft == [row: [Ids -> Row], put: [Ids -> Paths \cup {None}], drop: SUBSET Ids,
          candidates: SUBSET Candidate, left: SUBSET Paths, ok: BOOLEAN]

Unregistered == [path |-> None, content |-> None]
NoRow == [status |-> "none", path |-> None, content |-> None, streak |-> 0, seen |-> 0]
ActiveRow(p, c) == [status |-> "active", path |-> p, content |-> c, streak |-> 0, seen |-> 0]
NoScan == [at |-> "idle", scope |-> None, entries |-> None, draft |-> None]
NoRebuild == [at |-> "idle", rows |-> None]
Written == [at |-> "written", rows |-> None]

\* Type correctness of every variable.
TypeOK ==
    /\ disk \in [Paths -> Contents \cup {None}]
    /\ registry \in [Ids -> Identity]
    /\ row \in [Ids -> Row]
    /\ fts \in [Ids -> Paths \cup {None}]
    /\ dirty \in BOOLEAN
    /\ candidates \subseteq Candidate
    /\ verified \in [Scopes -> Listings \cup {None}]
    /\ cycle \in Nat
    /\ todo \subseteq Scopes
    /\ \/ scan = NoScan
       \/ scan \in [at: {"listed"}, scope: Scopes, entries: Listings, draft: {None}]
       \/ scan \in [at: {"resolved"}, scope: Scopes, entries: Listings, draft: Draft]
    /\ \/ rebuild = NoRebuild
       \/ rebuild \in [at: {"read"}, rows: [Ids -> Paths \cup {None}]]
       \/ rebuild = Written
    /\ spent \in [changes: Nat, faults: Nat, rebuilds: Nat]
    /\ away \subseteq Paths
    /\ awayBefore \subseteq Paths
    /\ quiet \in BOOLEAN
    /\ overlap \in BOOLEAN
    /\ mixed \subseteq Ids
    /\ undecided \subseteq Paths
    /\ givenUp \subseteq Scopes

Indexed(i) == row[i].status \in {"active", "suspected"}   \* MISSING_CANDIDATE_STATUSES
Active(i) == row[i].status = "active"
Registered(i) == registry[i].path # None
InScope(r, S) == r.path # None /\ ScopeOf[r.path] = S

\* The identity is recorded at another path than its row has, as a scan that
\* fails after its identities are committed leaves it.
TornFrom(rows, i) == rows[i].status # "none" /\ registry[i].path # rows[i].path
Torn(i) == TornFrom(row, i)

Files(S) == {p \in Paths : ScopeOf[p] = S /\ disk[p] # None}
Listing(S) == [p \in Files(S) |-> disk[p]]

\* Room for one more change, fault or rebuild.
Room == spent.changes + spent.faults + spent.rebuilds < MaxEvents

ActivePaths == [i \in Ids |-> IF Active(i) THEN row[i].path ELSE None]

-----------------------------------------------------------------------------
(* The first index and the migration left rows, registry and search table in *)
(* agreement with the files, and a first cycle.                              *)
Init ==
    /\ disk \in [Paths -> Contents \cup {None}]
    /\ \E id \in [{p \in Paths : disk[p] # None} -> Ids] :
         /\ \A p, q \in DOMAIN id : p # q => id[p] # id[q]
         /\ registry = [i \in Ids |->
              IF \E p \in DOMAIN id : id[p] = i
              THEN LET p == CHOOSE p \in DOMAIN id : id[p] = i
                   IN  [path |-> p, content |-> disk[p]]
              ELSE Unregistered]
    /\ row = [i \in Ids |-> IF Registered(i)
                            THEN ActiveRow(registry[i].path, registry[i].content)
                            ELSE NoRow]
    /\ fts = [i \in Ids |-> registry[i].path]
    /\ dirty = FALSE
    /\ candidates = {}
    /\ verified = [S \in Scopes |-> None]
    /\ cycle = 1
    /\ todo = Scopes
    /\ scan = NoScan
    /\ rebuild = NoRebuild
    /\ spent = [changes |-> 0, faults |-> 0, rebuilds |-> 0]
    /\ away = {p \in Paths : disk[p] = None}
    /\ awayBefore = {}
    /\ quiet = FALSE
    /\ overlap = FALSE
    /\ mixed = {}
    /\ undecided = {}
    /\ givenUp = {}

-----------------------------------------------------------------------------
(* Files change at any time *)

Changed(new) ==
    /\ Room /\ spent.changes < MaxChanges
    /\ spent' = [spent EXCEPT !.changes = spent.changes + 1]
    /\ disk' = new
    /\ away' = away \cup {p \in Paths : new[p] = None}
    /\ quiet' = FALSE
    /\ UNCHANGED <<registry, index, dirty, cycle, todo, scan, rebuild, awayBefore, overlap,
                   mixed, undecided, givenUp>>

\* A file is created, copied there or overwritten.
WriteFile(p, c) == disk[p] # c /\ Changed([disk EXCEPT ![p] = c])
RemoveFile(p) == disk[p] # None /\ Changed([disk EXCEPT ![p] = None])
MoveFile(p, q) ==
    /\ disk[p] # None /\ disk[q] = None
    /\ Changed([disk EXCEPT ![p] = None, ![q] = disk[p]])

-----------------------------------------------------------------------------
(* resolve_resource_identities *)

KnownAt(p) == {i \in Ids : registry[i].path = p}

\* Identities of a content that were last seen at a path not visible now.
Unseen(c, visible) ==
    {i \in Ids : Registered(i) /\ registry[i].content = c /\ registry[i].path \notin visible}

\* Those among them that may be followed to their new path.
AllUnseen(c, visible, allowed) == Unseen(c, visible)
Candidates(c, visible, allowed) ==
    {i \in Unseen(c, visible) : registry[i].path \in allowed}

Single(S) == \E i \in S : S = {i}

\* id gives each path of a listing the identity that was there, or the only
\* candidate that no other path of the listing takes; or None, which defers the
\* decision if one identity of the content is left elsewhere; or a new one.
Resolves(id, listing, visible, allowed, defer) ==
    \A p \in DOMAIN listing :
        LET others == {id[q] : q \in DOMAIN listing \ {p}} \ {None}
            unseen == Unseen(listing[p], visible) \ others
            likely == Candidates(listing[p], visible, allowed) \ others
        IN  IF KnownAt(p) # {} THEN id[p] \in KnownAt(p)
            ELSE IF Single(likely) THEN id[p] \in likely
            ELSE IF defer /\ likely = {} /\ Single(unseen) THEN id[p] = None
            ELSE id[p] \in Ids \ others /\ ~Registered(id[p])

Resolutions(listing, visible, allowed, defer) ==
    {id \in [DOMAIN listing -> Ids \cup {None}] :
        Resolves(id, listing, visible, allowed, defer)}

\* The registry once a resolution is committed to state.db.
Recorded(id, listing) ==
    [i \in Ids |->
        IF \E p \in DOMAIN listing : id[p] = i
        THEN LET p == CHOOSE p \in DOMAIN listing : id[p] = i
             IN  [path |-> p, content |-> listing[p]]
        ELSE registry[i]]

-----------------------------------------------------------------------------
(* _scan_cycle_item and _commit_scope *)

RowsOf(S) == {i \in Ids : Indexed(i) /\ InScope(row[i], S)}
Gone(S, listing) == {i \in RowsOf(S) : row[i].path \notin DOMAIN listing}

\* Work an unchanged listing would leave undone.
UnsettledRows(S) == \E i \in RowsOf(S) : row[i].status = "suspected"
Unsettled(S) ==
    \/ \E i \in RowsOf(S) : row[i].status = "suspected"
    \/ \E c \in candidates : InScope(row[c.id], S)

\* The listing is the one of the last commit: the folder is verified as it is.
ScanUnchanged(S) ==
    /\ scan = NoScan /\ S \in todo
    /\ verified[S] = Listing(S) /\ ~Unsettled(S)
    /\ todo' = todo \ {S}
    /\ UNCHANGED <<files, registry, index, dirty, cycle, scan, rebuild, spent,
                   awayBefore, overlap, mixed, undecided, givenUp>>

ScanList(S) ==
    /\ scan = NoScan /\ S \in todo
    /\ verified[S] # Listing(S) \/ Unsettled(S)
    /\ scan' = [at |-> "listed", scope |-> S, entries |-> Listing(S), draft |-> None]
    /\ UNCHANGED <<files, registry, index, dirty, cycle, todo, rebuild, spent,
                   awayBefore, overlap, mixed, undecided, givenUp>>

\* _observe_missing_in_cycle.
ObservedUnmarked(r) ==
    IF r.seen = cycle THEN r
    ELSE [r EXCEPT !.streak = r.streak + 1,
                   !.status = IF r.streak + 1 >= Confirm THEN "missing" ELSE "suspected"]
ObservedEarly(r) ==
    IF r.seen = cycle THEN r
    ELSE [r EXCEPT !.streak = r.streak + 1, !.seen = cycle,
                   !.status = IF r.streak + 2 >= Confirm THEN "missing" ELSE "suspected"]
Observed(r) ==
    IF r.seen = cycle THEN r
    ELSE [r EXCEPT !.streak = r.streak + 1, !.seen = cycle,
                   !.status = IF r.streak + 1 >= Confirm THEN "missing" ELSE "suspected"]

\* The rows an entry is written to: the one of its path or the one of its
\* identity; a new one if neither is there.
RowFor(S, id, p) ==
    LET atPath == {i \in RowsOf(S) : row[i].path = p}
    IN  IF atPath # {} THEN CHOOSE i \in atPath : TRUE ELSE id[p]

\* The database refuses a second row of an identifier or of a path.
Distinct(rows) ==
    \A i, j \in Ids : i # j /\ rows[i].path # None => rows[i].path # rows[j].path
Acceptable(rows, inserted) ==
    /\ \A i \in inserted : row[i].status = "none"
    /\ Distinct(rows)

\* What is about to be committed once id resolves the entries; first and last
\* give the entries written first and last to each row.  An entry that changes
\* its row is written to the search table, under the identity of the entry.  Two
\* entries share a row if it is torn, and then the last one has it.
Drafted(S, entries, id, first, last) ==
    LET kept == {p \in DOMAIN entries : id[p] # None}
        gone == Gone(S, entries) \ {id[p] : p \in DOMAIN entries}
        rows == [i \in Ids |-> IF i \in DOMAIN last THEN ActiveRow(last[i], entries[last[i]])
                               ELSE IF i \in gone THEN Observed(row[i])
                               ELSE row[i]]
        changed == {p \in kept : LET i == RowFor(S, id, p)
                                 IN  first[i] # p \/ row[i] # ActiveRow(p, entries[p])}
    IN  [row |-> rows,
         put |-> [i \in Ids |-> IF \E p \in changed : id[p] = i
                                THEN CHOOSE p \in changed : id[p] = i ELSE None],
         drop |-> {i \in gone : rows[i].status = "missing" /\ row[i].status # "missing"},
         candidates |-> candidates \cup
             {[path |-> p, content |-> entries[p],
               id |-> CHOOSE i \in Unseen(entries[p], DOMAIN entries) :
                          i \notin {id[q] : q \in DOMAIN entries}]
              : p \in DOMAIN entries \ kept},
         left |-> {p \in kept : LET i == RowFor(S, id, p) IN last[i] # p /\ Torn(i)},
         ok |-> Acceptable(rows, DOMAIN last \ RowsOf(S))]

\* The identities of the entries are resolved and committed.
ScanResolve ==
    /\ scan.at = "listed"
    /\ LET S == scan.scope
           entries == scan.entries
           allowed == {row[i].path : i \in Gone(S, entries)}
       IN  \E id \in Resolutions(entries, DOMAIN entries, allowed, TRUE) :
             LET kept == {p \in DOMAIN entries : id[p] # None}
                 written == {RowFor(S, id, p) : p \in kept}
                 writers(i) == {p \in kept : RowFor(S, id, p) = i}
             IN  \E first, last \in [written -> kept] :
                   /\ \A i \in written :
                        /\ {first[i], last[i]} \subseteq writers(i)
                        /\ first[i] = last[i] => writers(i) = {first[i]}
                   /\ registry' = Recorded(id, entries)
                   /\ scan' = [scan EXCEPT !.at = "resolved",
                                           !.draft = Drafted(S, entries, id, first, last)]
    /\ UNCHANGED <<files, index, dirty, cycle, todo, rebuild, spent, awayBefore, overlap,
                   mixed, undecided, givenUp>>

-----------------------------------------------------------------------------
(* _resolve_pending_for_parent: candidates whose old folder was now observed *)

Due(draft) ==
    {c \in draft.candidates : \/ draft.row[c.id].status = "none"
                              \/ InScope(draft.row[c.id], scan.scope)}

\* The draft with candidate c closed, and with i at its path and in the search
\* table if the resolution of c gave the row of i to it.
Closed(draft, c) == [draft EXCEPT !.candidates = draft.candidates \ {c},
                                  !.left = draft.left \cup {c.path}]
Placed(draft, c, i, ok) ==
    [row |-> [draft.row EXCEPT ![i] = ActiveRow(c.path, c.content)],
     put |-> [draft.put EXCEPT ![i] = c.path],
     drop |-> draft.drop,
     candidates |-> draft.candidates \ {c},
     left |-> draft.left,
     ok |-> ok /\ Acceptable([draft.row EXCEPT ![i] = ActiveRow(c.path, c.content)], {})]

\* The source was never indexed: the candidate is cancelled.
CancelCandidate(c) ==
    /\ scan.draft.row[c.id].status = "none"
    /\ scan' = [scan EXCEPT !.draft = Closed(scan.draft, c)]
    /\ UNCHANGED registry

\* The source is gone as well: the file moved, unless its identity did already.
ResolveMove(c) ==
    LET source == scan.draft.row[c.id]
        listing == [p \in {c.path} |-> c.content]
    IN  /\ source.status # "none" /\ source.seen = cycle
        /\ \E id \in Resolutions(listing, {c.path}, {source.path}, FALSE) :
             /\ registry' = Recorded(id, listing)
             /\ scan' = [scan EXCEPT !.draft = IF id[c.path] = c.id
                                               THEN Placed(scan.draft, c, c.id, TRUE)
                                               ELSE Closed(scan.draft, c)]

\* The source is still there: the file is a copy with an identity of its own.
ResolveCopy(c) ==
    LET source == scan.draft.row[c.id]
        listing == [p \in {c.path} |-> c.content]
    IN  /\ source.status # "none" /\ source.seen # cycle
        /\ \E id \in Resolutions(listing, {source.path, c.path}, {}, FALSE) :
             /\ registry' = Recorded(id, listing)
             /\ scan' = [scan EXCEPT !.draft =
                  Placed(scan.draft, c, id[c.path],
                         scan.draft.row[id[c.path]].status = "none")]

ScanSettle ==
    /\ scan.at = "resolved" /\ scan.draft.ok
    /\ \E c \in Due(scan.draft) : CancelCandidate(c) \/ ResolveMove(c) \/ ResolveCopy(c)
    /\ UNCHANGED <<files, index, dirty, cycle, todo, rebuild, spent, awayBefore, overlap,
                   mixed, undecided, givenUp>>

-----------------------------------------------------------------------------
(* The end of a scan *)

\* apply_search_fts_delta.
AppliedDropLast(draft) ==
    [i \in Ids |-> IF i \in draft.drop THEN None
                   ELSE IF draft.put[i] # None THEN draft.put[i]
                   ELSE fts[i]]
Applied(draft) ==
    [i \in Ids |-> IF draft.put[i] # None THEN draft.put[i]
                   ELSE IF i \in draft.drop THEN None
                   ELSE fts[i]]

\* Paths that get no row and will get none in this cycle: no candidate of theirs
\* waits for a folder yet to be scanned.
LeftOut(draft) ==
    LET waits(c) == \E S \in todo \ {scan.scope} : InScope(draft.row[c.id], S)
    IN  draft.left \cup {c.path : c \in {d \in draft.candidates : ~waits(d)}}

\* The draft writes the search entry of the row of i.
Shown(draft, i) == draft.row[i].status = "active" /\ draft.put[i] = draft.row[i].path

ScanCommit ==
    /\ scan.at = "resolved" /\ scan.draft.ok /\ Due(scan.draft) = {}
    /\ row' = scan.draft.row
    /\ fts' = Applied(scan.draft)
    /\ candidates' = scan.draft.candidates
    /\ verified' = [verified EXCEPT ![scan.scope] = scan.entries]
    /\ todo' = todo \ {scan.scope}
    /\ scan' = NoScan
    /\ overlap' = (overlap \/ rebuild.at = "read")
    /\ mixed' = {i \in Ids : \/ TornFrom(scan.draft.row, i)
                             \/ i \in mixed /\ ~Shown(scan.draft, i)}
    /\ undecided' = (undecided \ DOMAIN scan.entries) \cup LeftOut(scan.draft)
    /\ UNCHANGED <<files, registry, dirty, cycle, rebuild, spent, awayBefore, givenUp>>

\* AList, the churn guard or the search table fails the scan, or the database
\* has refused the draft, which passes for a failure of the search table if the
\* draft was flushed with its changes; the index is rolled back, the identities
\* are not.
\* The folder is tried again or given up in this cycle.
ScanFail ==
    /\ scan # NoScan
    /\ \/ /\ Room /\ spent.faults < MaxFaults
          /\ spent' = [spent EXCEPT !.faults = spent.faults + 1]
          /\ dirty' \in {dirty, dirty \/ scan.at = "resolved"}
          /\ quiet' = FALSE
       \/ /\ scan.at = "resolved" /\ ~scan.draft.ok
          /\ dirty' \in {dirty, TRUE}
          /\ UNCHANGED <<spent, quiet>>
    /\ \/ UNCHANGED <<todo, undecided, givenUp>>
       \/ /\ todo' = todo \ {scan.scope}
          /\ undecided' = undecided \cup
                {c.path : c \in {d \in candidates : InScope(row[d.id], scan.scope)}}
          /\ givenUp' = givenUp \cup {scan.scope}
    /\ scan' = NoScan
    /\ mixed' = mixed \cup {i \in Ids : Torn(i)}
    /\ UNCHANGED <<disk, away, registry, index, cycle, rebuild, awayBefore, overlap>>

\* The process stops and starts again; a dirty search table is rebuilt first.
Crash ==
    /\ scan # NoScan \/ rebuild # NoRebuild \/ dirty
    /\ Room /\ spent.faults < MaxFaults
    /\ spent' = [spent EXCEPT !.faults = spent.faults + 1]
    /\ fts' = IF dirty THEN ActivePaths ELSE fts
    /\ overlap' = (overlap /\ ~dirty)
    /\ mixed' = mixed \cup {i \in Ids : Torn(i)}
    /\ dirty' = FALSE
    /\ scan' = NoScan
    /\ rebuild' = NoRebuild
    /\ quiet' = FALSE
    /\ UNCHANGED <<disk, away, registry, row, candidates, verified, cycle, todo, awayBefore,
                   undecided, givenUp>>

\* Every folder is verified or given up; candidates of a past cycle are inert.
NewCycle ==
    /\ scan = NoScan /\ todo = {}
    /\ cycle < MaxCycles
    /\ cycle' = cycle + 1
    /\ todo' = Scopes
    /\ candidates' = {}
    /\ awayBefore' = awayBefore \cup away
    /\ away' = {p \in Paths : disk[p] = None}
    /\ quiet' = TRUE
    /\ givenUp' = {}
    /\ UNCHANGED <<disk, registry, row, fts, dirty, verified, scan, rebuild, spent, overlap,
                   mixed, undecided>>

-----------------------------------------------------------------------------
(* rebuild_public_search_index *)

RebuildRead ==
    /\ rebuild.at = "idle"
    /\ Room /\ spent.rebuilds < MaxRebuilds
    /\ spent' = [spent EXCEPT !.rebuilds = spent.rebuilds + 1]
    /\ dirty' = TRUE
    /\ rebuild' = [at |-> "read", rows |-> ActivePaths]
    /\ overlap' = FALSE
    /\ UNCHANGED <<files, registry, index, cycle, todo, scan, awayBefore,
                   mixed, undecided, givenUp>>

RebuildWrite ==
    /\ rebuild.at = "read"
    /\ fts' = rebuild.rows
    /\ rebuild' = Written
    /\ UNCHANGED <<files, registry, row, dirty, candidates, verified, cycle, todo,
                   scan, spent, awayBefore, overlap, mixed, undecided, givenUp>>

RebuildClear ==
    /\ rebuild.at = "written"
    /\ dirty' = FALSE
    /\ rebuild' = NoRebuild
    /\ UNCHANGED <<files, registry, index, cycle, todo, scan, spent, awayBefore, overlap,
                   mixed, undecided, givenUp>>

Next ==
    \/ \E p \in Paths, c \in Contents : WriteFile(p, c)
    \/ \E p \in Paths : RemoveFile(p)
    \/ \E p, q \in Paths : MoveFile(p, q)
    \/ \E S \in Scopes : ScanUnchanged(S) \/ ScanList(S)
    \/ ScanResolve \/ ScanSettle \/ ScanCommit \/ ScanFail
    \/ Crash \/ NewCycle
    \/ RebuildRead \/ RebuildWrite \/ RebuildClear

Spec == Init /\ [][Next]_vars

-----------------------------------------------------------------------------
(* Correctness *)

\* Two identities never claim one path, which would stop every later scan
\* ("RuntimeError" in resolve_resource_identities), although identities are
\* committed by scans that then fail.
OnePathPerIdentity ==
    \A i, j \in Ids : Registered(i) /\ i # j => registry[i].path # registry[j].path

\* What the index holds is known to the registry, whatever crashes between the
\* two commits: the start refuses an index with unknown resources
\* (migrate_stable_resource_ids).
IndexedIsRegistered ==
    \A i \in Ids : row[i].status # "none" => Registered(i)

\* The same of the rows a scan is about to commit.
DraftedIsRegistered ==
    scan.at = "resolved" => \A i \in Ids : scan.draft.row[i].status # "none" => Registered(i)

\* The histories tell the truth: a path without a file is away, and so is one
\* that the listing under way lacks.
AbsentIsAway ==
    /\ \A p \in Paths : disk[p] = None => p \in away
    /\ scan # NoScan => \A p \in Paths : ScopeOf[p] = scan.scope /\ p \notin DOMAIN scan.entries
                                            => p \in away

\* A row that some cycle observed as missing had no file at its path in it.
Truthful(r) ==
    /\ r.status = "none" => r = NoRow
    /\ r.seen <= cycle
    /\ r.status # "none" /\ r.seen = cycle => r.path \in away
    /\ r.status # "none" /\ r.seen \in 1 .. (cycle - 1) => r.path \in awayBefore
    /\ r.seen = 0 <=> r.streak = 0
    /\ r.status = "suspected" => r.streak # 0
ObservedIsAway ==
    /\ cycle > 0
    /\ \A i \in Ids : Truthful(row[i])
    /\ scan.at = "resolved" => \A i \in Ids : Truthful(scan.draft.row[i])

\* A row a scan will confirm missing was in the index, at the same path.
ConfirmedWasAway ==
    scan.at = "resolved" =>
        \A i \in Ids : scan.draft.row[i].status = "missing" /\ row[i].status # "missing" =>
            /\ scan.draft.row[i].path = row[i].path
            /\ scan.draft.row[i].seen = cycle
            /\ Confirm > 1 => row[i].path \in awayBefore

\* With types, what the safety of identities rests on.
BaseInv ==
    /\ TypeOK
    /\ OnePathPerIdentity
    /\ IndexedIsRegistered
    /\ DraftedIsRegistered
    /\ AbsentIsAway
    /\ ObservedIsAway
    /\ ConfirmedWasAway

\* The database holds at most one row of a path, and so does a draft it accepts.
RowsDistinct ==
    /\ Distinct(row)
    /\ scan.at = "resolved" /\ scan.draft.ok => Distinct(scan.draft.row)

\* A scan is of a folder still to do, lists its paths only, and candidates are
\* of folders done with, those of the scan apart.
CandidatesAreDone ==
    /\ \A c \in candidates : ScopeOf[c.path] \notin todo
    /\ scan # NoScan => /\ scan.scope \in todo
                        /\ \A p \in DOMAIN scan.entries : ScopeOf[p] = scan.scope
    /\ scan.at = "resolved" =>
           \A c \in scan.draft.candidates :
               c.path \in DOMAIN scan.entries \/ ScopeOf[c.path] \notin todo

\* Between scans only a mixed resource is torn.
TornIsMixed == scan.at # "resolved" => \A i \in Ids \ mixed : ~Torn(i)

\* The search table once a draft is committed: a row that is torn from its
\* identity is left where the listing has no file; any other has its entry
\* written or deleted, unless neither the row nor the entry changes.
Drafts(draft, i) ==
    \/ /\ TornFrom(draft.row, i)
       /\ ScopeOf[draft.row[i].path] = scan.scope
       /\ draft.row[i].path \notin DOMAIN scan.entries
    \/ /\ ~TornFrom(draft.row, i)
       /\ \/ draft.row[i].status \notin {"active", "missing"}
          \/ Shown(draft, i)
          \/ draft.put[i] = None /\ i \in draft.drop /\ draft.row[i].status = "missing"
          \/ draft.put[i] = None /\ i \notin draft.drop /\ draft.row[i] = row[i]
DraftFollows ==
    scan.at = "resolved" /\ scan.draft.ok => \A i \in Ids \ mixed : Drafts(scan.draft, i)

\* A rebuild is marked, and holds the active rows until a scan commits others.
RebuildIsMarked ==
    /\ rebuild.at # "idle" => dirty
    /\ rebuild.at = "read" /\ ~overlap => rebuild.rows = ActivePaths

\* The search entry of each resource is that of its row.
Follows(entry) ==
    \A i \in Ids \ mixed : /\ Active(i) => entry[i] = row[i].path
                           /\ row[i].status = "missing" => entry[i] = None

\* The search table has every active resource under its path and no confirmed
\* missing one, unless it is marked dirty, a scan was committed while the last
\* rebuild held old rows, or a scan ended that had recorded the resource elsewhere.
SearchFollowsIndex == dirty \/ overlap \/ Follows(fts)

SearchInv ==
    /\ RowsDistinct
    /\ CandidatesAreDone
    /\ TornIsMixed
    /\ DraftFollows
    /\ RebuildIsMarked
    /\ rebuild.at = "written" /\ ~overlap => Follows(fts)
    /\ SearchFollowsIndex

\* In a cycle begun after the last change or fault, a folder done with was
\* verified as it is, unless it was given up, and a scan has listed what there is.
VerifiedIsListing ==
    quiet => /\ \A S \in Scopes \ (todo \cup givenUp) : verified[S] = Listing(S)
             /\ scan # NoScan => scan.entries = Listing(scan.scope)

\* Rows have paths, and one that is shown was not observed as missing since.
Proper(r) == /\ r.status # "none" => r.path # None
             /\ r.status = "active" => r.seen = 0
ProperRows ==
    /\ \A i \in Ids : Proper(row[i])
    /\ scan.at = "resolved" => \A i \in Ids : Proper(scan.draft.row[i])

\* A candidate is of a file verified in its folder, and the only one of its path;
\* a row at that path is of a mixed resource.
CandidatesAreListed ==
    /\ \A c, d \in candidates : c.path = d.path => c = d
    /\ \A c \in candidates :
         LET listing == verified[ScopeOf[c.path]]
         IN  listing # None /\ c.path \in DOMAIN listing /\ listing[c.path] = c.content
    /\ \A c \in candidates, i \in Ids : row[i].path = c.path => i \in mixed

\* The listings are of their folders; what they hold is shown, or waits for a
\* folder to do, or is undecided; and a row that is not mixed is as they say.
Shows(rows, p, c) == \E i \in Ids : rows[i] = ActiveRow(p, c)
Matches(r, listing) == IF r.path \in DOMAIN listing
                       THEN r = ActiveRow(r.path, listing[r.path])
                       ELSE r.status # "active"
Waits(p) == \E c \in candidates, S \in todo : c.path = p /\ InScope(row[c.id], S)
VerifiedIsShown ==
    \A S \in Scopes : verified[S] # None =>
        /\ \A p \in DOMAIN verified[S] : ScopeOf[p] = S
        /\ \A p \in DOMAIN verified[S] \ undecided : Shows(row, p, verified[S][p]) \/ Waits(p)
        /\ \A i \in Ids \ mixed : row[i].status # "none" /\ ScopeOf[row[i].path] = S =>
               Matches(row[i], verified[S])

\* The candidates of a draft, and what becomes of those there were.
DraftedCandidates ==
    scan.at = "resolved" /\ scan.draft.ok =>
        /\ \A c, d \in scan.draft.candidates : c.path = d.path => c = d
        /\ \A c \in scan.draft.candidates :
             \/ c \in candidates /\ c.path \notin DOMAIN scan.entries
             \/ c.path \in DOMAIN scan.entries /\ c.content = scan.entries[c.path]
        /\ \A c \in candidates :
             \/ c \in scan.draft.candidates
             \/ c.path \in scan.draft.left
             \/ Shows(scan.draft.row, c.path, c.content)
        /\ \A c \in scan.draft.candidates, i \in Ids :
             /\ scan.draft.row[i].path = c.path =>
                    i \in mixed /\ ~Shown(scan.draft, i) /\ row[i].path = c.path
             /\ registry[i].path = c.path => i \in mixed \/ scan.draft.row[i].status = "none"

\* The rows of a draft: those of other folders stay, one observed in this cycle
\* stays at its path, every entry is shown, waits or is left, and what will not
\* be mixed is as the listings say.
DraftedRows ==
    scan.at = "resolved" /\ scan.draft.ok =>
        /\ \A i \in Ids : row[i].status # "none" /\ ~InScope(row[i], scan.scope) =>
               scan.draft.row[i] = row[i]
        /\ \A i \in Ids : scan.draft.row[i].status # "none" /\ scan.draft.row[i].seen = cycle =>
               row[i].status # "none" /\ scan.draft.row[i].path = row[i].path
        /\ \A p \in DOMAIN scan.entries : \/ p \in scan.draft.left
                                          \/ \E c \in scan.draft.candidates : c.path = p
                                          \/ Shows(scan.draft.row, p, scan.entries[p])
        /\ \A i \in Ids :
             /\ scan.draft.row[i].status # "none"
             /\ Shown(scan.draft, i) \/ (i \notin mixed /\ ~TornFrom(scan.draft.row, i))
             => LET S == ScopeOf[scan.draft.row[i].path]
                    listing == IF S = scan.scope THEN scan.entries ELSE verified[S]
                IN  listing # None => Matches(scan.draft.row[i], listing)

\* The database refuses a draft only for a file that is back at the path of a
\* missing row, or for a mixed resource that has its row or its identity in the
\* folder or where a candidate is.
RefusalHasCause ==
    scan.at = "resolved" /\ ~scan.draft.ok =>
        \/ \E i \in Ids : row[i].status = "missing" /\ row[i].path \in DOMAIN scan.entries
        \/ \E i \in mixed : \E p \in {row[i].path, registry[i].path} \ {None} :
               ScopeOf[p] = scan.scope \/ \E c \in candidates : c.path = p

DiskInv ==
    /\ VerifiedIsListing
    /\ ProperRows
    /\ CandidatesAreListed
    /\ VerifiedIsShown
    /\ DraftedCandidates
    /\ DraftedRows
    /\ RefusalHasCause

\* The inductive invariant.
IInv == BaseInv /\ SearchInv /\ DiskInv

\* An identity leaves a path only if no file was there some time in the same
\* cycle: a copy never takes the identity of a file that stays in its place.
IdentityStaysWithFile ==
    [][\A i \in Ids : Registered(i) /\ registry'[i].path # registry[i].path =>
                          registry[i].path \in away]_vars

\* A file is confirmed missing only if its path was without a file both in this
\* cycle and in an earlier one.
MissingInTwoCycles ==
    [][\A i \in Ids : row[i].status # "missing" /\ row'[i].status = "missing" =>
                          row[i].path \in away \cap awayBefore]_vars

\* All folders are done with in a cycle begun after the last change or fault:
\* given up only if the database refused their drafts (RefusalHasCause).
Settled == quiet /\ todo = {}

\* Once settled, except in folders given up, every file is shown as it is unless
\* no scan of a cycle was left to decide about its path, and every row shown is
\* of a file as it is unless a scan that ended had recorded the resource elsewhere.
IndexFollowsDisk ==
    Settled =>
        \A p \in Paths : ScopeOf[p] \notin givenUp =>
            /\ disk[p] # None /\ p \notin undecided =>
                   \E i \in Ids : row[i] = ActiveRow(p, disk[p])
            /\ \A i \in Ids \ mixed : Active(i) /\ row[i].path = p =>
                   disk[p] # None /\ row[i].content = disk[p]

\* Once settled, every file has an identity: "A reliable rename or move preserves
\* the ID; copies, path reuse, and ambiguous matches receive a new ID"
\* (docs/architecture.md:64).
EveryFileHasAnIdentity ==
    Settled => \A p \in Paths : disk[p] # None => KnownAt(p) # {}
=============================================================================
