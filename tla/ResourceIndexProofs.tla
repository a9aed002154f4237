------------------------ MODULE ResourceIndexProofs ------------------------
(* Theorems about ResourceIndex: the safety of identities and of the        *)
(* confirmation of missing files, for every set of folders, files and       *)
(* identifiers and every bound.                                             *)
EXTENDS ResourceIndex, TLAPS

-----------------------------------------------------------------------------
(* Shapes of the state *)

LEMMA ScanShape ==
    ASSUME TypeOK
    PROVE  /\ scan = NoScan <=> scan.at = "idle"
           /\ scan.at \in {"idle", "listed", "resolved"}
           /\ scan.at # "idle" => scan.scope \in Scopes /\ scan.entries \in Listings
           /\ scan.at = "listed" => scan \in [at: {"listed"}, scope: Scopes, entries: Listings, draft: {None}]
           /\ scan.at = "resolved" =>
                /\ scan \in [at: {"resolved"}, scope: Scopes, entries: Listings, draft: Draft]
                /\ scan.draft \in Draft
<1>1. CASE scan = NoScan
  BY <1>1 DEF NoScan
<1>2. CASE scan \in [at: {"listed"}, scope: Scopes, entries: Listings, draft: {None}]
  BY <1>2 DEF NoScan
<1>3. CASE scan \in [at: {"resolved"}, scope: Scopes, entries: Listings, draft: Draft]
  BY <1>3 DEF NoScan
<1>4. QED
  BY <1>1, <1>2, <1>3 DEF TypeOK

LEMMA ListingShape ==
    ASSUME NEW listing \in Listings
    PROVE  /\ DOMAIN listing \subseteq Paths
           /\ listing \in [DOMAIN listing -> Contents]
  BY DEF Listings

LEMMA OneFileListing ==
    ASSUME NEW p \in Paths, NEW c \in Contents
    PROVE  [q \in {p} |-> c] \in Listings
<1>1. [q \in {p} |-> c] \in [{p} -> Contents]
  OBVIOUS
<1>2. {p} \in SUBSET Paths
  OBVIOUS
<1>3. QED
  BY <1>1, <1>2 DEF Listings

LEMMA ActiveRowType ==
    ASSUME NEW p \in Paths, NEW c \in Contents
    PROVE  ActiveRow(p, c) \in Row
  BY DEF ActiveRow, Row, Statuses

LEMMA ObservedType ==
    ASSUME TypeOK, NEW r \in Row
    PROVE  Observed(r) \in Row
<1>1. r.streak + 1 \in Nat /\ cycle \in Nat
  BY DEF TypeOK, Row
<1>2. QED
  BY <1>1 DEF Observed, Row, Statuses

-----------------------------------------------------------------------------
(* What a resolution does to the registry *)

LEMMA ResolvedIds ==
    ASSUME TypeOK, NEW listing, NEW visible, NEW allowed, NEW defer \in BOOLEAN,
           NEW id \in Resolutions(listing, visible, allowed, defer)
    PROVE  /\ id \in [DOMAIN listing -> Ids \cup {None}]
           /\ ~defer => \A p \in DOMAIN listing : id[p] \in Ids
<1>1. id \in [DOMAIN listing -> Ids \cup {None}]
  BY DEF Resolutions
<1>2. ASSUME ~defer, NEW p \in DOMAIN listing
      PROVE  id[p] \in Ids
  BY <1>2 DEF Resolutions, Resolves, KnownAt, Candidates, Unseen
<1>3. QED
  BY <1>1, <1>2

LEMMA RecordedType ==
    ASSUME TypeOK, NEW listing \in Listings,
           NEW id \in [DOMAIN listing -> Ids \cup {None}]
    PROVE  /\ Recorded(id, listing) \in [Ids -> Identity]
           /\ \A i \in Ids : Registered(i) => Recorded(id, listing)[i].path # None
           /\ \A p \in DOMAIN listing : id[p] \in Ids => Recorded(id, listing)[id[p]].path # None
<1>1. ASSUME NEW i \in Ids
      PROVE  /\ Recorded(id, listing)[i] \in Identity
             /\ Registered(i) => Recorded(id, listing)[i].path # None
             /\ (\E p \in DOMAIN listing : id[p] = i) => Recorded(id, listing)[i].path # None
  <2>1. CASE \E p \in DOMAIN listing : id[p] = i
    <3>1. PICK p \in DOMAIN listing : Recorded(id, listing)[i] = [path |-> p, content |-> listing[p]]
      BY <2>1 DEF Recorded
    <3>2. p \in Paths /\ listing[p] \in Contents /\ p # None
      BY ListingShape, ResourceAssumption
    <3>3. QED
      BY <3>1, <3>2 DEF Identity
  <2>2. CASE ~\E p \in DOMAIN listing : id[p] = i
    BY <2>2 DEF Recorded, TypeOK, Registered
  <2>3. QED
    BY <2>1, <2>2
<1>2. QED
  BY <1>1 DEF Recorded

\* An identity is given another path only if its own was allowed to be left.
LEMMA RecordedLeaves ==
    ASSUME TypeOK, NEW listing \in Listings, NEW visible, NEW allowed, NEW defer \in BOOLEAN,
           NEW id \in Resolutions(listing, visible, allowed, defer),
           NEW i \in Ids, Registered(i),
           Recorded(id, listing)[i].path # registry[i].path
    PROVE  registry[i].path \in allowed
<1>1. \E p \in DOMAIN listing : id[p] = i
  BY DEF Recorded
<1>2. PICK p \in DOMAIN listing :
        id[p] = i /\ Recorded(id, listing)[i] = [path |-> p, content |-> listing[p]]
  BY <1>1 DEF Recorded
<1>3. i \notin KnownAt(p)
  BY <1>2 DEF KnownAt
<1>4. KnownAt(p) = {}
  BY <1>2, <1>3 DEF Resolutions, Resolves
<1>5. i # None
  BY ResourceAssumption
<1>6. i \in Candidates(listing[p], visible, allowed)
  BY <1>2, <1>4, <1>5 DEF Resolutions, Resolves
<1>7. QED
  BY <1>6 DEF Candidates

LEMMA RecordedOnePath ==
    ASSUME TypeOK, OnePathPerIdentity, NEW listing \in Listings, NEW visible, NEW allowed,
           NEW defer \in BOOLEAN, NEW id \in Resolutions(listing, visible, allowed, defer),
           NEW i \in Ids, NEW j \in Ids, i # j, Recorded(id, listing)[i].path # None
    PROVE  Recorded(id, listing)[i].path # Recorded(id, listing)[j].path
<1> DEFINE Taken(k) == \E p \in DOMAIN listing : id[p] = k
<1>1. ASSUME NEW k \in Ids, Taken(k)
      PROVE  \E p \in DOMAIN listing : id[p] = k /\ Recorded(id, listing)[k].path = p
  <2>1. PICK p \in DOMAIN listing :
          id[p] = k /\ Recorded(id, listing)[k] = [path |-> p, content |-> listing[p]]
    BY <1>1 DEF Recorded
  <2>2. QED
    BY <2>1
<1>2. ASSUME NEW k \in Ids, ~Taken(k)
      PROVE  Recorded(id, listing)[k] = registry[k]
  BY <1>2 DEF Recorded
\* A path that someone was registered at stays with who was registered there.
<1>3. ASSUME NEW k \in Ids, NEW l \in Ids, k # l, Taken(k), ~Taken(l)
      PROVE  Recorded(id, listing)[k].path # Recorded(id, listing)[l].path
  <2>1. PICK p \in DOMAIN listing : id[p] = k /\ Recorded(id, listing)[k].path = p
    BY <1>1, <1>3
  <2>2. p \in Paths /\ p # None
    BY ListingShape, ResourceAssumption
  <2>3. ASSUME registry[l].path = p
        PROVE  FALSE
    <3>1. l \in KnownAt(p)
      BY <2>3 DEF KnownAt
    <3>2. k \in KnownAt(p)
      BY <2>1, <3>1 DEF Resolutions, Resolves
    <3>3. QED
      BY <1>3, <2>2, <2>3, <3>2 DEF KnownAt, OnePathPerIdentity, Registered
  <2>4. QED
    BY <1>2, <1>3, <2>1, <2>3
<1>4. CASE Taken(i) /\ Taken(j)
  BY <1>1, <1>4
<1>5. CASE Taken(i) /\ ~Taken(j)
  BY <1>3, <1>5
<1>6. CASE ~Taken(i) /\ Taken(j)
  BY <1>3, <1>6
<1>7. CASE ~Taken(i) /\ ~Taken(j)
  BY <1>2, <1>7 DEF OnePathPerIdentity, Registered
<1>8. QED
  BY <1>4, <1>5, <1>6, <1>7

-----------------------------------------------------------------------------
(* Initial states *)

LEMMA InitInv == Init => BaseInv
<1> SUFFICES ASSUME Init PROVE BaseInv
  OBVIOUS
<1> USE ResourceAssumption
<1>1. PICK id \in [{p \in Paths : disk[p] # None} -> Ids] :
        /\ \A p, q \in DOMAIN id : p # q => id[p] # id[q]
        /\ registry = [i \in Ids |->
             IF \E p \in DOMAIN id : id[p] = i
             THEN LET p == CHOOSE p \in DOMAIN id : id[p] = i
                  IN  [path |-> p, content |-> disk[p]]
             ELSE Unregistered]
  BY DEF Init
<1>2. ASSUME NEW i \in Ids
      PROVE  \/ /\ registry[i].path \in Paths /\ registry[i].content \in Contents
                /\ registry[i] = [path |-> registry[i].path, content |-> registry[i].content]
                /\ registry[i].path \in DOMAIN id /\ id[registry[i].path] = i
             \/ registry[i] = Unregistered
  <2>1. CASE \E p \in DOMAIN id : id[p] = i
    <3>1. PICK p \in DOMAIN id : id[p] = i /\ registry[i] = [path |-> p, content |-> disk[p]]
      BY <1>1, <2>1
    <3>2. p \in Paths /\ disk[p] \in Contents
      BY <3>1 DEF Init
    <3>3. QED
      BY <3>1, <3>2
  <2>2. CASE ~\E p \in DOMAIN id : id[p] = i
    BY <1>1, <2>2
  <2>3. QED
    BY <2>1, <2>2
<1>3. registry \in [Ids -> Identity]
  BY <1>1, <1>2 DEF Identity, Unregistered
<1>4. ASSUME NEW i \in Ids
      PROVE  /\ row[i] \in Row
             /\ row[i] = NoRow \/ (Registered(i) /\ row[i] = ActiveRow(registry[i].path, registry[i].content))
  <2>1. CASE Registered(i)
    <3>1. registry[i].path \in Paths /\ registry[i].content \in Contents
      <4>1. registry[i] # Unregistered
        BY <2>1 DEF Registered, Unregistered
      <4>2. QED
        BY <1>2, <4>1
    <3>2. row[i] = ActiveRow(registry[i].path, registry[i].content)
      BY <2>1 DEF Init
    <3>3. QED
      BY <2>1, <3>1, <3>2, ActiveRowType
  <2>2. CASE ~Registered(i)
    BY <2>2 DEF Init, NoRow, Row, Statuses
  <2>3. QED
    BY <2>1, <2>2
<1>5. TypeOK
  <2>1. row \in [Ids -> Row]
    BY <1>4 DEF Init
  <2>2. fts \in [Ids -> Paths \cup {None}]
    BY <1>3 DEF Init, Identity
  <2>3. QED
    BY <1>3, <2>1, <2>2 DEF Init, TypeOK
<1>6. OnePathPerIdentity
  <2>1. ASSUME NEW i \in Ids, NEW j \in Ids, Registered(i), i # j
        PROVE  registry[i].path # registry[j].path
    <3>1. registry[i] # Unregistered
      BY <2>1 DEF Registered, Unregistered
    <3>2. registry[i].path \in Paths /\ id[registry[i].path] = i
      BY <1>2, <3>1
    <3>3. CASE registry[j] = Unregistered
      BY <2>1, <3>3 DEF Registered, Unregistered
    <3>4. CASE registry[j] # Unregistered
      <4>1. id[registry[j].path] = j
        BY <1>2, <3>4
      <4>2. QED
        BY <2>1, <3>2, <4>1
    <3>5. QED
      BY <3>3, <3>4
  <2>2. QED
    BY <2>1 DEF OnePathPerIdentity
<1>7. IndexedIsRegistered
  BY <1>4 DEF IndexedIsRegistered, NoRow
<1>8. scan = NoScan /\ scan.at = "idle" /\ cycle = 1
  BY DEF Init, NoScan
<1>9. AbsentIsAway
  BY <1>8 DEF Init, AbsentIsAway
<1>10. ObservedIsAway
  <2>1. ASSUME NEW i \in Ids PROVE Truthful(row[i])
    <3>1. CASE row[i] = NoRow
      BY <1>8, <3>1 DEF Truthful, NoRow
    <3>2. CASE row[i] = ActiveRow(registry[i].path, registry[i].content)
      <4>1. row[i].status = "active" /\ row[i].seen = 0 /\ row[i].streak = 0
        BY <3>2 DEF ActiveRow
      <4>2. QED
        BY <1>8, <4>1 DEF Truthful
    <3>3. QED
      BY <1>4, <3>1, <3>2
  <2>2. QED
    BY <1>8, <2>1 DEF ObservedIsAway
<1>11. QED
  BY <1>5, <1>6, <1>7, <1>8, <1>9, <1>10 DEF BaseInv, DraftedIsRegistered, ConfirmedWasAway

-----------------------------------------------------------------------------
(* Steps that change files, histories or the search table only *)

LEMMA ChangedInv ==
    ASSUME BaseInv, NEW new \in [Paths -> Contents \cup {None}], Changed(new)
    PROVE  BaseInv'
<1>1. spent.changes + 1 \in Nat
  BY DEF BaseInv, TypeOK
<1>2. TypeOK'
  BY <1>1 DEF BaseInv, TypeOK, Changed, index
<1>3. OnePathPerIdentity' /\ IndexedIsRegistered' /\ DraftedIsRegistered'
  BY DEF BaseInv, Changed, index, OnePathPerIdentity, IndexedIsRegistered, DraftedIsRegistered,
         Registered
<1>4. AbsentIsAway'
  BY DEF BaseInv, Changed, AbsentIsAway
<1>5. ObservedIsAway'
  BY DEF BaseInv, Changed, index, ObservedIsAway, Truthful
<1>6. ConfirmedWasAway'
  BY DEF BaseInv, Changed, index, ConfirmedWasAway
<1>7. QED
  BY <1>2, <1>3, <1>4, <1>5, <1>6 DEF BaseInv

LEMMA FilesInv ==
    ASSUME BaseInv,
           \/ \E p \in Paths, c \in Contents : WriteFile(p, c)
           \/ \E p \in Paths : RemoveFile(p)
           \/ \E p, q \in Paths : MoveFile(p, q)
    PROVE  BaseInv'
<1>1. ASSUME NEW p \in Paths, NEW c \in Contents \cup {None}
      PROVE  [disk EXCEPT ![p] = c] \in [Paths -> Contents \cup {None}]
  BY DEF BaseInv, TypeOK
<1>2. ASSUME NEW p \in Paths, NEW q \in Paths
      PROVE  [disk EXCEPT ![p] = None, ![q] = disk[p]] \in [Paths -> Contents \cup {None}]
  BY DEF BaseInv, TypeOK
<1>3. QED
  BY <1>1, <1>2, ChangedInv DEF WriteFile, RemoveFile, MoveFile

\* The variables the invariant relates to each other.
core == <<disk, registry, row, candidates, verified, cycle, scan, away, awayBefore>>

LEMMA CoreInv ==
    ASSUME BaseInv, UNCHANGED core, TypeOK'
    PROVE  BaseInv'
BY DEF BaseInv, core, OnePathPerIdentity, IndexedIsRegistered, DraftedIsRegistered, Registered,
       AbsentIsAway, ObservedIsAway, Truthful, ConfirmedWasAway

LEMMA RebuildInv ==
    ASSUME BaseInv, RebuildRead \/ RebuildWrite \/ RebuildClear
    PROVE  BaseInv'
<1>1. ActivePaths \in [Ids -> Paths \cup {None}]
  BY DEF BaseInv, TypeOK, ActivePaths, Row
<1>2. spent.rebuilds + 1 \in Nat
  BY DEF BaseInv, TypeOK
<1>3. CASE RebuildRead
  <2>1. TypeOK'
    BY <1>1, <1>2, <1>3 DEF BaseInv, TypeOK, RebuildRead, files, index
  <2>2. QED
    BY <1>3, <2>1, CoreInv DEF RebuildRead, core, files, index
<1>4. CASE RebuildWrite
  <2>1. rebuild.rows \in [Ids -> Paths \cup {None}]
    BY <1>4 DEF BaseInv, TypeOK, RebuildWrite, NoRebuild, Written
  <2>2. TypeOK'
    BY <1>4, <2>1 DEF BaseInv, TypeOK, RebuildWrite, files
  <2>3. QED
    BY <1>4, <2>2, CoreInv DEF RebuildWrite, core, files
<1>5. CASE RebuildClear
  <2>1. TypeOK'
    BY <1>5 DEF BaseInv, TypeOK, RebuildClear, files, index
  <2>2. QED
    BY <1>5, <2>1, CoreInv DEF RebuildClear, core, files, index
<1>6. QED
  BY <1>3, <1>4, <1>5

LEMMA ScanUnchangedInv ==
    ASSUME BaseInv, NEW S \in Scopes, ScanUnchanged(S)
    PROVE  BaseInv'
<1>1. TypeOK'
  BY DEF BaseInv, TypeOK, ScanUnchanged, files, index
<1>2. QED
  BY <1>1, CoreInv DEF ScanUnchanged, core, files, index

LEMMA ScanListInv ==
    ASSUME BaseInv, NEW S \in Scopes, ScanList(S)
    PROVE  BaseInv'
<1>1. Listing(S) \in Listings /\ DOMAIN Listing(S) = Files(S)
  <2>1. Listing(S) \in [Files(S) -> Contents] /\ Files(S) \in SUBSET Paths
    BY DEF BaseInv, TypeOK, Listing, Files
  <2>2. QED
    BY <2>1 DEF Listings
<1>2. scan' \in [at: {"listed"}, scope: Scopes, entries: Listings, draft: {None}]
  BY <1>1 DEF ScanList
<1>3. TypeOK'
  BY <1>2 DEF BaseInv, TypeOK, ScanList, files, index
<1>4. scan'.at = "listed" /\ scan'.scope = S /\ scan'.entries = Listing(S)
  BY DEF ScanList
<1>5. AbsentIsAway'
  BY <1>1, <1>4 DEF BaseInv, AbsentIsAway, ScanList, files, Files
<1>6. OnePathPerIdentity' /\ IndexedIsRegistered' /\ DraftedIsRegistered'
  BY <1>4 DEF BaseInv, ScanList, index, OnePathPerIdentity, IndexedIsRegistered,
              DraftedIsRegistered, Registered
<1>7. ObservedIsAway' /\ ConfirmedWasAway'
  BY <1>4 DEF BaseInv, ScanList, files, index, ObservedIsAway, Truthful, ConfirmedWasAway
<1>8. QED
  BY <1>3, <1>5, <1>6, <1>7 DEF BaseInv

\* A scan that ends without a commit leaves nothing to be said about it.
LEMMA AbandonedInv ==
    ASSUME BaseInv, TypeOK', scan' = NoScan,
           UNCHANGED <<disk, registry, row, cycle, away, awayBefore>>
    PROVE  BaseInv'
<1>1. scan'.at = "idle"
  BY DEF NoScan
<1>2. OnePathPerIdentity' /\ IndexedIsRegistered' /\ DraftedIsRegistered'
  BY <1>1 DEF BaseInv, OnePathPerIdentity, IndexedIsRegistered, DraftedIsRegistered, Registered
<1>3. AbsentIsAway' /\ ObservedIsAway' /\ ConfirmedWasAway'
  BY <1>1 DEF BaseInv, AbsentIsAway, ObservedIsAway, Truthful, ConfirmedWasAway, NoScan
<1>4. QED
  BY <1>2, <1>3 DEF BaseInv

LEMMA ScanFailInv ==
    ASSUME BaseInv, ScanFail
    PROVE  BaseInv'
<1>1. spent.faults + 1 \in Nat
  BY DEF BaseInv, TypeOK
<1>2. {c.path : c \in {d \in candidates : InScope(row[d.id], scan.scope)}} \subseteq Paths
  BY DEF BaseInv, TypeOK, Candidate
<1>3. undecided' \subseteq Paths /\ todo' \subseteq Scopes /\ givenUp' \subseteq Scopes
  <2>1. scan.scope \in Scopes
    BY ScanShape DEF BaseInv, ScanFail
  <2>2. QED
    BY <1>2, <2>1 DEF BaseInv, TypeOK, ScanFail
<1>4. spent' \in [changes: Nat, faults: Nat, rebuilds: Nat] /\ dirty' \in BOOLEAN /\ quiet' \in BOOLEAN
  BY <1>1 DEF BaseInv, TypeOK, ScanFail
<1>5. TypeOK'
  BY <1>3, <1>4 DEF BaseInv, TypeOK, ScanFail, index
<1>6. QED
  BY <1>5, AbandonedInv DEF ScanFail, index

LEMMA CrashInv ==
    ASSUME BaseInv, Crash
    PROVE  BaseInv'
<1>1. ActivePaths \in [Ids -> Paths \cup {None}]
  BY DEF BaseInv, TypeOK, ActivePaths, Row
<1>2. spent.faults + 1 \in Nat
  BY DEF BaseInv, TypeOK
<1>3. TypeOK'
  BY <1>1, <1>2 DEF BaseInv, TypeOK, Crash
<1>4. QED
  BY <1>3, AbandonedInv DEF Crash

LEMMA NewCycleInv ==
    ASSUME BaseInv, NewCycle
    PROVE  BaseInv'
<1>1. cycle \in Nat /\ cycle > 0 /\ cycle' = cycle + 1 /\ scan = NoScan /\ scan' = NoScan
  BY DEF BaseInv, TypeOK, NewCycle, ObservedIsAway
<1>2. TypeOK'
  BY <1>1 DEF BaseInv, TypeOK, NewCycle
<1>3. OnePathPerIdentity' /\ IndexedIsRegistered'
  BY DEF BaseInv, NewCycle, OnePathPerIdentity, IndexedIsRegistered, Registered
<1>4. scan'.at = "idle"
  BY <1>1 DEF NoScan
<1>5. AbsentIsAway'
  BY <1>1 DEF NewCycle, AbsentIsAway
<1>6. ASSUME NEW i \in Ids PROVE Truthful(row[i])'
  <2>1. row[i] \in Row /\ Truthful(row[i]) /\ row'[i] = row[i]
    BY DEF BaseInv, TypeOK, ObservedIsAway, NewCycle
  <2>2. row[i].seen \in Nat
    BY <2>1 DEF Row
  <2>3. QED
    BY <1>1, <2>1, <2>2 DEF Truthful, NewCycle
<1>7. ObservedIsAway'
  BY <1>1, <1>4, <1>6 DEF ObservedIsAway
<1>8. QED
  BY <1>2, <1>3, <1>4, <1>5, <1>7 DEF BaseInv, DraftedIsRegistered, ConfirmedWasAway

-----------------------------------------------------------------------------
(* Steps that draft what will be committed *)

\* What a draft must satisfy, with the registry that is committed with it, for
\* the invariant to hold afterwards.
LEMMA DraftInv ==
    ASSUME BaseInv, scan.at # "idle", NEW draft \in Draft,
           scan' = [scan EXCEPT !.at = "resolved", !.draft = draft],
           registry' \in [Ids -> Identity],
           OnePathPerIdentity',
           \A i \in Ids : Registered(i) => registry'[i].path # None,
           \A i \in Ids : draft.row[i].status # "none" => registry'[i].path # None,
           \A i \in Ids : Truthful(draft.row[i]),
           \A i \in Ids : draft.row[i].status = "missing" /\ row[i].status # "missing" =>
               /\ draft.row[i].path = row[i].path
               /\ draft.row[i].seen = cycle
               /\ Confirm > 1 => row[i].path \in awayBefore,
           UNCHANGED <<files, index, dirty, cycle, todo, rebuild, spent, awayBefore, overlap, mixed,
                       undecided, givenUp>>
    PROVE  BaseInv'
<1>1. /\ scan \in [at: {"listed", "resolved"}, scope: Scopes, entries: Listings, draft: {None} \cup Draft]
      /\ scan # NoScan
  BY ScanShape DEF BaseInv
<1>2. /\ scan' = [at |-> "resolved", scope |-> scan.scope, entries |-> scan.entries, draft |-> draft]
      /\ scan.scope \in Scopes /\ scan.entries \in Listings
  BY <1>1
<1>3. TypeOK'
  BY <1>2 DEF BaseInv, TypeOK, files, index
<1>4. scan'.at = "resolved" /\ scan'.draft = draft
      /\ scan'.scope = scan.scope /\ scan'.entries = scan.entries
  BY <1>2
<1>5. IndexedIsRegistered' /\ DraftedIsRegistered'
  BY <1>4 DEF BaseInv, index, IndexedIsRegistered, DraftedIsRegistered, Registered
<1>6. AbsentIsAway'
  BY <1>1, <1>4 DEF BaseInv, files, AbsentIsAway
<1>7. ObservedIsAway'
  BY <1>4 DEF BaseInv, files, index, ObservedIsAway, Truthful
<1>8. ConfirmedWasAway'
  BY <1>4 DEF BaseInv, index, ConfirmedWasAway
<1>9. QED
  BY <1>3, <1>5, <1>6, <1>7, <1>8 DEF BaseInv

LEMMA TruthfulActive ==
    ASSUME BaseInv, NEW p, NEW c
    PROVE  Truthful(ActiveRow(p, c))
<1>1. cycle \in Nat /\ cycle > 0
  BY DEF BaseInv, TypeOK, ObservedIsAway
<1>2. QED
  BY <1>1 DEF Truthful, ActiveRow

\* A row whose path is missing from the listing of its folder.
LEMMA TruthfulObserved ==
    ASSUME BaseInv, scan.at = "listed", NEW i \in Gone(scan.scope, scan.entries)
    PROVE  /\ row[i].path \in away
           /\ Truthful(Observed(row[i]))
           /\ Observed(row[i]).status = "missing" /\ row[i].status # "missing" =>
                /\ Observed(row[i]).path = row[i].path
                /\ Observed(row[i]).seen = cycle
                /\ Confirm > 1 => row[i].path \in awayBefore
<1>1. /\ i \in Ids /\ row[i].status \in {"active", "suspected"}
      /\ row[i].path # None /\ ScopeOf[row[i].path] = scan.scope
      /\ row[i].path \notin DOMAIN scan.entries
  BY DEF Gone, RowsOf, InScope, Indexed
<1>2. row[i] \in Row /\ cycle \in Nat /\ cycle > 0 /\ Truthful(row[i])
  BY <1>1 DEF BaseInv, TypeOK, ObservedIsAway
<1>3. row[i].path \in Paths /\ row[i].seen \in Nat /\ row[i].streak \in Nat
  BY <1>1, <1>2 DEF Row
<1>4. scan # NoScan
  BY DEF NoScan
<1>5. row[i].path \in away
  BY <1>1, <1>3, <1>4 DEF BaseInv, AbsentIsAway
<1>6. CASE row[i].seen = cycle
  BY <1>2, <1>5, <1>6 DEF Observed
<1>7. CASE row[i].seen # cycle
  <2>1. /\ Observed(row[i]).path = row[i].path
        /\ Observed(row[i]).seen = cycle
        /\ Observed(row[i]).streak = row[i].streak + 1
        /\ Observed(row[i]).status = IF row[i].streak + 1 >= Confirm THEN "missing" ELSE "suspected"
    BY <1>2, <1>7 DEF Observed, Row
  <2>2. row[i].streak + 1 # 0 /\ cycle # 0 /\ cycle <= cycle /\ cycle \notin 1 .. (cycle - 1)
    BY <1>2, <1>3
  <2>3. Truthful(Observed(row[i]))
    BY <1>5, <2>1, <2>2 DEF Truthful
  <2>4. ASSUME row[i].streak + 1 >= Confirm, Confirm > 1
        PROVE  row[i].path \in awayBefore
    <3>1. row[i].streak # 0
      BY <1>3, <2>4, ResourceAssumption
    <3>2. row[i].seen # 0 /\ row[i].seen <= cycle
      BY <1>2, <3>1 DEF Truthful
    <3>3. row[i].seen \in 1 .. (cycle - 1)
      BY <1>2, <1>3, <1>7, <3>2
    <3>4. QED
      BY <1>1, <1>2, <3>3 DEF Truthful
  <2>5. QED
    BY <1>5, <2>1, <2>3, <2>4
<1>8. QED
  BY <1>6, <1>7

-----------------------------------------------------------------------------
(* The resolution of a listing *)

LEMMA RowForType ==
    ASSUME TypeOK, NEW S, NEW listing \in Listings,
           NEW id \in [DOMAIN listing -> Ids \cup {None}],
           NEW p \in DOMAIN listing, id[p] # None
    PROVE  /\ RowFor(S, id, p) \in Ids
           /\ RowFor(S, id, p) = id[p] \/ RowFor(S, id, p) \in RowsOf(S)
<1>1. id[p] \in Ids
  OBVIOUS
<1>2. RowFor(S, id, p) = id[p] \/ RowFor(S, id, p) \in {i \in RowsOf(S) : row[i].path = p}
  BY DEF RowFor
<1>3. QED
  BY <1>1, <1>2 DEF RowsOf

\* A path is deferred only if one identity of its content is left elsewhere.
LEMMA DeferredHasSource ==
    ASSUME TypeOK, NEW listing \in Listings, NEW allowed,
           NEW id \in Resolutions(listing, DOMAIN listing, allowed, TRUE),
           NEW p \in DOMAIN listing, id[p] = None
    PROVE  \E i \in Unseen(listing[p], DOMAIN listing) :
               \A q \in DOMAIN listing : id[q] # i
<1> DEFINE others == {id[q] : q \in DOMAIN listing \ {p}} \ {None}
           unseen == Unseen(listing[p], DOMAIN listing) \ others
           likely == Candidates(listing[p], DOMAIN listing, allowed) \ others
<1>1. None \notin Ids
  BY ResourceAssumption
<1>2. None \notin KnownAt(p) /\ None \notin likely /\ unseen \subseteq Ids
  BY <1>1 DEF KnownAt, Candidates, Unseen
<1>3. IF KnownAt(p) # {} THEN id[p] \in KnownAt(p)
      ELSE IF Single(likely) THEN id[p] \in likely
      ELSE IF TRUE /\ likely = {} /\ Single(unseen) THEN id[p] = None
      ELSE id[p] \in Ids \ others /\ ~Registered(id[p])
  BY DEF Resolutions, Resolves
<1>4. Single(unseen)
  BY <1>1, <1>2, <1>3
<1>5. PICK i \in unseen : TRUE
  BY <1>4 DEF Single
<1>6. i # None
  BY <1>1, <1>2
<1>7. \A q \in DOMAIN listing : id[q] # i
  BY <1>5, <1>6
<1>8. QED
  BY <1>5, <1>7

\* What a resolved scan drafts: types, and where each drafted row comes from.
\* A path without an identity has one identity of its content to wait for.
Deferrable(listing, id) ==
    \A p \in DOMAIN listing : id[p] = None =>
        \E i \in Unseen(listing[p], DOMAIN listing) : \A q \in DOMAIN listing : id[q] # i
\* Every row that is written has an entry it is written from.
Writes(S, listing, id, last) ==
    \A i \in DOMAIN last : /\ last[i] \in DOMAIN listing /\ id[last[i]] # None
                           /\ RowFor(S, id, last[i]) = i
\* A drafted row is written from an entry, observed as missing, or unchanged.
Origin(S, listing, id, last, draft, i) ==
    \/ /\ draft.row[i] = ActiveRow(last[i], listing[last[i]])
       /\ i \in RowsOf(S) \/ \E p \in DOMAIN listing : id[p] = i
    \/ i \in Gone(S, listing) /\ draft.row[i] = Observed(row[i])
    \/ draft.row[i] = row[i]

LEMMA DraftedShape ==
    ASSUME TypeOK, NEW S, NEW listing \in Listings,
           NEW id \in [DOMAIN listing -> Ids \cup {None}], Deferrable(listing, id),
           NEW first, NEW last, Writes(S, listing, id, last),
           NEW draft, draft = Drafted(S, listing, id, first, last)
    PROVE  draft \in Draft /\ \A i \in Ids : Origin(S, listing, id, last, draft, i)
<1> USE DEF Deferrable, Writes, Origin
<1>1. DOMAIN listing \subseteq Paths /\ listing \in [DOMAIN listing -> Contents]
  BY ListingShape
<1> DEFINE kept == {p \in DOMAIN listing : id[p] # None}
           gone == Gone(S, listing) \ {id[p] : p \in DOMAIN listing}
           rows == [i \in Ids |-> IF i \in DOMAIN last THEN ActiveRow(last[i], listing[last[i]])
                                  ELSE IF i \in gone THEN Observed(row[i])
                                  ELSE row[i]]
           changed == {p \in kept : LET i == RowFor(S, id, p)
                                    IN  first[i] # p \/ row[i] # ActiveRow(p, listing[p])}
           put == [i \in Ids |-> IF \E p \in changed : id[p] = i
                                 THEN CHOOSE p \in changed : id[p] = i ELSE None]
           drop == {i \in gone : rows[i].status = "missing" /\ row[i].status # "missing"}
           source(p) == CHOOSE i \in Unseen(listing[p], DOMAIN listing) :
                            i \notin {id[q] : q \in DOMAIN listing}
           deferred == {[path |-> p, content |-> listing[p], id |-> source(p)]
                        : p \in DOMAIN listing \ kept}
           left == {p \in kept : LET i == RowFor(S, id, p) IN last[i] # p /\ Torn(i)}
           ok == Acceptable(rows, DOMAIN last \ RowsOf(S))
<1>2. draft = [row |-> rows, put |-> put, drop |-> drop,
               candidates |-> candidates \cup deferred, left |-> left, ok |-> ok]
  BY DEF Drafted
<1>3. gone \subseteq Ids
  BY DEF Gone, RowsOf
<1>4. ASSUME NEW i \in Ids
      PROVE  /\ rows[i] \in Row
             /\ \/ /\ rows[i] = ActiveRow(last[i], listing[last[i]])
                   /\ i \in RowsOf(S) \/ \E p \in DOMAIN listing : id[p] = i
                \/ i \in Gone(S, listing) /\ rows[i] = Observed(row[i])
                \/ rows[i] = row[i]
  <2>1. row[i] \in Row
    BY DEF TypeOK
  <2>2. CASE i \in DOMAIN last
    <3>1. last[i] \in DOMAIN listing /\ id[last[i]] # None
      BY <2>2
    <3>2. rows[i] = ActiveRow(last[i], listing[last[i]])
      BY <2>2
    <3>3. rows[i] \in Row
      BY <1>1, <3>1, <3>2, ActiveRowType
    <3>4. i = RowFor(S, id, last[i])
      BY <2>2
    <3>5. i = id[last[i]] \/ i \in RowsOf(S)
      BY <3>1, <3>4, RowForType
    <3>6. QED
      BY <3>1, <3>2, <3>3, <3>5
  <2>3. CASE i \notin DOMAIN last /\ i \in gone
    <3>1. rows[i] = Observed(row[i])
      BY <2>3
    <3>2. QED
      BY <2>1, <2>3, <3>1, ObservedType
  <2>4. CASE i \notin DOMAIN last /\ i \notin gone
    <3>1. rows[i] = row[i]
      BY <2>4
    <3>2. QED
      BY <2>1, <3>1
  <2>5. QED
    BY <2>2, <2>3, <2>4
<1>5. rows \in [Ids -> Row]
  BY <1>4
<1>6. put \in [Ids -> Paths \cup {None}]
  <2>1. changed \subseteq Paths
    BY <1>1
  <2>2. ASSUME NEW i \in Ids PROVE put[i] \in Paths \cup {None}
    BY <2>1
  <2>3. QED
    BY <2>2
<1>7. deferred \subseteq Candidate
  <2>1. ASSUME NEW p \in DOMAIN listing \ kept
        PROVE  [path |-> p, content |-> listing[p], id |-> source(p)] \in Candidate
    <3>1. source(p) \in Unseen(listing[p], DOMAIN listing)
      <4>1. p \in DOMAIN listing /\ id[p] = None
        OBVIOUS
      <4>2. \E i \in Unseen(listing[p], DOMAIN listing) : i \notin {id[q] : q \in DOMAIN listing}
        BY <4>1
      <4>3. QED
        BY <4>2
    <3>2. source(p) \in Ids
      BY <3>1 DEF Unseen
    <3>3. QED
      BY <1>1, <3>2 DEF Candidate
  <2>2. QED
    BY <2>1
<1>8. ok \in BOOLEAN
  BY DEF Acceptable
<1>9. /\ drop \in SUBSET Ids /\ candidates \cup deferred \in SUBSET Candidate
      /\ left \in SUBSET Paths
  BY <1>1, <1>3, <1>7 DEF TypeOK
<1> HIDE DEF gone, rows, changed, put, drop, deferred, left, ok
<1>10. draft \in Draft
  BY <1>2, <1>5, <1>6, <1>8, <1>9 DEF Draft
<1>11. draft.row = rows
  BY <1>2
<1>12. QED
  BY <1>4, <1>10, <1>11

LEMMA ScanResolveInv ==
    ASSUME BaseInv, ScanResolve
    PROVE  BaseInv'
<1> DEFINE S == scan.scope
           entries == scan.entries
           allowed == {row[i].path : i \in Gone(S, entries)}
           keptBy(id) == {p \in DOMAIN entries : id[p] # None}
           writtenBy(id) == {RowFor(S, id, p) : p \in keptBy(id)}
<1>1. scan.at = "listed" /\ S \in Scopes /\ entries \in Listings
  BY ScanShape DEF BaseInv, ScanResolve
<1>2. PICK id \in Resolutions(entries, DOMAIN entries, allowed, TRUE) :
        \E first, last \in [writtenBy(id) -> keptBy(id)] :
          /\ \A i \in writtenBy(id) :
               /\ {first[i], last[i]} \subseteq {p \in keptBy(id) : RowFor(S, id, p) = i}
               /\ first[i] = last[i] => {p \in keptBy(id) : RowFor(S, id, p) = i} = {first[i]}
          /\ registry' = Recorded(id, entries)
          /\ scan' = [scan EXCEPT !.at = "resolved",
                                  !.draft = Drafted(S, entries, id, first, last)]
  BY DEF ScanResolve
<1> HIDE DEF allowed, S, entries
<1>3. PICK kept, written : kept = keptBy(id) /\ written = writtenBy(id)
  OBVIOUS
<1>4. PICK first \in [written -> kept], last \in [written -> kept] :
        /\ \A i \in written : RowFor(S, id, last[i]) = i
        /\ registry' = Recorded(id, entries)
        /\ scan' = [scan EXCEPT !.at = "resolved",
                                !.draft = Drafted(S, entries, id, first, last)]
  BY <1>2, <1>3
<1>5. PICK draft : draft = Drafted(S, entries, id, first, last)
  OBVIOUS
<1>6. kept = {p \in DOMAIN entries : id[p] # None} /\ written = {RowFor(S, id, p) : p \in kept}
  BY <1>3
<1> HIDE DEF keptBy, writtenBy
<1>7. id \in [DOMAIN entries -> Ids \cup {None}]
  BY DEF Resolutions
<1>8. \A p \in DOMAIN entries : id[p] = None =>
         \E i \in Unseen(entries[p], DOMAIN entries) : \A q \in DOMAIN entries : id[q] # i
  BY <1>1, DeferredHasSource DEF BaseInv
<1>9. /\ draft \in Draft
      /\ \A i \in Ids :
           \/ /\ draft.row[i] = ActiveRow(last[i], entries[last[i]])
              /\ i \in RowsOf(S) \/ \E p \in DOMAIN entries : id[p] = i
           \/ i \in Gone(S, entries) /\ draft.row[i] = Observed(row[i])
           \/ draft.row[i] = row[i]
  <2>1. TypeOK
    BY DEF BaseInv
  <2>2. \A i \in DOMAIN last : /\ last[i] \in DOMAIN entries /\ id[last[i]] # None
                                /\ RowFor(S, id, last[i]) = i
    BY <1>4, <1>6
  <2>3. Deferrable(entries, id) /\ Writes(S, entries, id, last)
    BY <1>8, <2>2 DEF Deferrable, Writes
  <2>4. draft \in Draft /\ \A i \in Ids : Origin(S, entries, id, last, draft, i)
    BY <1>1, <2>1, <1>5, <1>7, <2>3, DraftedShape
  <2>5. QED
    BY <2>4 DEF Origin
<1>10. /\ registry' \in [Ids -> Identity]
       /\ \A i \in Ids : Registered(i) => registry'[i].path # None
       /\ \A i \in Ids : (\E p \in DOMAIN entries : id[p] = i) => registry'[i].path # None
  <2>1. TypeOK
    BY DEF BaseInv
  <2>2. /\ registry' \in [Ids -> Identity]
        /\ \A i \in Ids : Registered(i) => registry'[i].path # None
        /\ \A p \in DOMAIN entries : id[p] \in Ids => registry'[id[p]].path # None
    BY <1>1, <1>4, <1>7, <2>1, RecordedType
  <2>3. QED
    BY <2>2
<1>11. OnePathPerIdentity'
  <2>1. ASSUME NEW i \in Ids, NEW j \in Ids, i # j, registry'[i].path # None
        PROVE  registry'[i].path # registry'[j].path
    BY <1>1, <1>4, <2>1, RecordedOnePath DEF BaseInv
  <2>2. QED
    BY <2>1 DEF OnePathPerIdentity, Registered
<1>12. UNCHANGED <<files, index, dirty, cycle, todo, rebuild, spent, awayBefore, overlap, mixed, undecided, givenUp>>
  BY DEF ScanResolve
<1>13. ASSUME NEW i \in Ids
      PROVE  /\ row[i].status # "none" => Registered(i)
             /\ i \in RowsOf(S) => row[i].status # "none"
             /\ Truthful(row[i])
  BY DEF BaseInv, IndexedIsRegistered, ObservedIsAway, RowsOf, Indexed
<1>14. scan' = [scan EXCEPT !.at = "resolved", !.draft = draft]
  BY <1>4, <1>5
<1>15. ASSUME NEW i \in Ids
       PROVE  /\ draft.row[i].status # "none" => registry'[i].path # None
              /\ Truthful(draft.row[i])
              /\ draft.row[i].status = "missing" /\ row[i].status # "missing" =>
                   /\ draft.row[i].path = row[i].path
                   /\ draft.row[i].seen = cycle
                   /\ Confirm > 1 => row[i].path \in awayBefore
  <2>1. CASE /\ draft.row[i] = ActiveRow(last[i], entries[last[i]])
             /\ i \in RowsOf(S) \/ \E p \in DOMAIN entries : id[p] = i
    <3>1. registry'[i].path # None
      BY <1>10, <1>13, <2>1
    <3>2. draft.row[i].status = "active"
      BY <2>1 DEF ActiveRow
    <3>3. QED
      BY <2>1, <3>1, <3>2, TruthfulActive
  <2>2. CASE i \in Gone(S, entries) /\ draft.row[i] = Observed(row[i])
    <3>1. i \in RowsOf(S)
      BY <2>2 DEF Gone
    <3>2. registry'[i].path # None
      BY <1>10, <1>13, <3>1
    <3>3. QED
      BY <1>1, <2>2, <3>2, TruthfulObserved DEF S, entries
  <2>3. CASE draft.row[i] = row[i]
    BY <1>10, <1>13, <2>3
  <2>4. QED
    BY <1>9, <2>1, <2>2, <2>3
<1>16. scan.at # "idle"
  BY <1>1
<1>17. QED
  BY <1>9, <1>10, <1>11, <1>12, <1>14, <1>15, <1>16, DraftInv

-----------------------------------------------------------------------------
(* The resolution of a candidate *)

LEMMA ClosedShape ==
    ASSUME NEW draft \in Draft, NEW c \in draft.candidates
    PROVE  /\ Closed(draft, c) \in Draft
           /\ Closed(draft, c).row = draft.row
           /\ Closed(draft, c).put = draft.put
           /\ Closed(draft, c).drop = draft.drop
           /\ Closed(draft, c).candidates = draft.candidates \ {c}
           /\ Closed(draft, c).left = draft.left \cup {c.path}
           /\ Closed(draft, c).ok = draft.ok
<1>1. c.path \in Paths
  BY DEF Draft, Candidate
<1>2. draft.left \cup {c.path} \in SUBSET Paths /\ draft.candidates \ {c} \in SUBSET Candidate
  BY <1>1 DEF Draft
<1>3. QED
  BY <1>2 DEF Closed, Draft

LEMMA PlacedShape ==
    ASSUME NEW draft \in Draft, NEW c \in draft.candidates, NEW i \in Ids, NEW ok \in BOOLEAN
    PROVE  /\ Placed(draft, c, i, ok) \in Draft
           /\ Placed(draft, c, i, ok).row = [draft.row EXCEPT ![i] = ActiveRow(c.path, c.content)]
<1>1. /\ draft.row \in [Ids -> Row] /\ draft.put \in [Ids -> Paths \cup {None}]
      /\ draft.drop \in SUBSET Ids /\ draft.candidates \in SUBSET Candidate
      /\ draft.left \in SUBSET Paths
  BY DEF Draft
<1>2. c.path \in Paths /\ c.content \in Contents
  BY <1>1 DEF Candidate
<1>3. ActiveRow(c.path, c.content) \in Row
  BY <1>2, ActiveRowType
<1> DEFINE rows == [draft.row EXCEPT ![i] = ActiveRow(c.path, c.content)]
           put == [draft.put EXCEPT ![i] = c.path]
           both == ok /\ Acceptable(rows, {})
<1>4. rows \in [Ids -> Row] /\ put \in [Ids -> Paths \cup {None}]
  BY <1>1, <1>2, <1>3
<1>5. both \in BOOLEAN
  OBVIOUS
<1>6. draft.candidates \ {c} \in SUBSET Candidate
  BY <1>1
<1>7. Placed(draft, c, i, ok) = [row |-> rows, put |-> put, drop |-> draft.drop,
                                 candidates |-> draft.candidates \ {c}, left |-> draft.left,
                                 ok |-> both]
  BY DEF Placed
<1> HIDE DEF rows, put, both
<1>8. Placed(draft, c, i, ok) \in Draft /\ Placed(draft, c, i, ok).row = rows
  BY <1>1, <1>4, <1>5, <1>6, <1>7 DEF Draft
<1>9. QED
  BY <1>8 DEF rows

LEMMA ResolvedInv ==
    ASSUME BaseInv, NEW p \in Paths, NEW content \in Contents, NEW visible, NEW allowed,
           NEW id \in Resolutions([q \in {p} |-> content], visible, allowed, FALSE),
           registry' = Recorded(id, [q \in {p} |-> content])
    PROVE  /\ registry' \in [Ids -> Identity]
           /\ OnePathPerIdentity'
           /\ \A i \in Ids : Registered(i) => registry'[i].path # None
           /\ id[p] \in Ids /\ registry'[id[p]].path # None
<1> DEFINE listing == [q \in {p} |-> content]
<1>1. listing \in Listings /\ p \in DOMAIN listing
  BY OneFileListing
<1>2. TypeOK /\ OnePathPerIdentity
  BY DEF BaseInv
<1> HIDE DEF listing
<1>3. /\ id \in [DOMAIN listing -> Ids \cup {None}]
      /\ \A q \in DOMAIN listing : id[q] \in Ids
  BY <1>2, ResolvedIds DEF listing
<1>4. registry' = Recorded(id, listing)
  BY DEF listing
<1>5. id \in Resolutions(listing, visible, allowed, FALSE)
  BY DEF listing
<1>6. ASSUME NEW i \in Ids, NEW j \in Ids, i # j, registry'[i].path # None
      PROVE  registry'[i].path # registry'[j].path
  BY <1>1, <1>2, <1>4, <1>5, <1>6, RecordedOnePath
<1>7. OnePathPerIdentity'
  BY <1>6 DEF OnePathPerIdentity, Registered
<1>8. QED
  BY <1>1, <1>2, <1>3, <1>4, <1>7, RecordedType

\* A settled candidate leaves every drafted row alone but the one it places.
LEMMA SettledInv ==
    ASSUME BaseInv, scan.at = "resolved", NEW draft \in Draft,
           scan' = [scan EXCEPT !.draft = draft],
           registry' \in [Ids -> Identity],
           OnePathPerIdentity',
           \A i \in Ids : Registered(i) => registry'[i].path # None,
           \A i \in Ids :
               \/ draft.row[i] = scan.draft.row[i]
               \/ /\ \E p, c : draft.row[i] = ActiveRow(p, c)
                  /\ registry'[i].path # None,
           UNCHANGED <<files, index, dirty, cycle, todo, rebuild, spent, awayBefore, overlap, mixed,
                       undecided, givenUp>>
    PROVE  BaseInv'
<1>1. scan \in [at: {"resolved"}, scope: Scopes, entries: Listings, draft: Draft]
  BY ScanShape DEF BaseInv
<1>2. scan' = [scan EXCEPT !.at = "resolved", !.draft = draft] /\ scan.at # "idle"
  BY <1>1
<1>3. ASSUME NEW i \in Ids
      PROVE  /\ draft.row[i].status # "none" => registry'[i].path # None
             /\ Truthful(draft.row[i])
             /\ draft.row[i].status = "missing" /\ row[i].status # "missing" =>
                  /\ draft.row[i].path = row[i].path
                  /\ draft.row[i].seen = cycle
                  /\ Confirm > 1 => row[i].path \in awayBefore
  <2>1. CASE draft.row[i] = scan.draft.row[i]
    BY <2>1 DEF BaseInv, DraftedIsRegistered, ObservedIsAway, ConfirmedWasAway
  <2>2. ASSUME NEW p, NEW c, draft.row[i] = ActiveRow(p, c), registry'[i].path # None
        PROVE  /\ draft.row[i].status = "active" /\ registry'[i].path # None
               /\ Truthful(draft.row[i])
    <3>1. draft.row[i].status = "active"
      BY <2>2 DEF ActiveRow
    <3>2. QED
      BY <2>2, <3>1, TruthfulActive
  <2>3. QED
    BY <2>1, <2>2
<1>4. QED
  BY <1>2, <1>3, DraftInv

LEMMA ScanSettleInv ==
    ASSUME BaseInv, ScanSettle
    PROVE  BaseInv'
<1>1. /\ scan.at = "resolved" /\ scan.draft \in Draft
      /\ UNCHANGED <<files, index, dirty, cycle, todo, rebuild, spent, awayBefore, overlap, mixed,
                     undecided, givenUp>>
  BY ScanShape DEF BaseInv, ScanSettle
<1>2. PICK c \in Due(scan.draft) : CancelCandidate(c) \/ ResolveMove(c) \/ ResolveCopy(c)
  BY DEF ScanSettle
<1>3. c \in scan.draft.candidates
  BY DEF Due
<1>4. c.path \in Paths /\ c.content \in Contents /\ c.id \in Ids
  BY <1>1, <1>3 DEF Draft, Candidate
<1>5. Closed(scan.draft, c) \in Draft /\ Closed(scan.draft, c).row = scan.draft.row
  BY <1>1, <1>3, ClosedShape
<1>6. ASSUME NEW i \in Ids, NEW ok \in BOOLEAN, registry'[i].path # None
      PROVE  /\ Placed(scan.draft, c, i, ok) \in Draft
             /\ \A j \in Ids :
                  \/ Placed(scan.draft, c, i, ok).row[j] = scan.draft.row[j]
                  \/ /\ \E p, d : Placed(scan.draft, c, i, ok).row[j] = ActiveRow(p, d)
                     /\ registry'[j].path # None
  <2>1. /\ Placed(scan.draft, c, i, ok) \in Draft
        /\ Placed(scan.draft, c, i, ok).row
              = [scan.draft.row EXCEPT ![i] = ActiveRow(c.path, c.content)]
    BY <1>1, <1>3, PlacedShape
  <2>2. scan.draft.row \in [Ids -> Row]
    BY <1>1 DEF Draft
  <2>3. ASSUME NEW j \in Ids
        PROVE  \/ Placed(scan.draft, c, i, ok).row[j] = scan.draft.row[j]
               \/ j = i /\ Placed(scan.draft, c, i, ok).row[j] = ActiveRow(c.path, c.content)
    BY <2>1, <2>2
  <2>4. QED
    BY <1>6, <2>1, <2>3
<1>7. CASE CancelCandidate(c)
  <2>1. scan' = [scan EXCEPT !.draft = Closed(scan.draft, c)] /\ registry' = registry
    BY <1>7 DEF CancelCandidate
  <2>2. /\ registry' \in [Ids -> Identity] /\ OnePathPerIdentity'
        /\ \A i \in Ids : Registered(i) => registry'[i].path # None
    BY <2>1 DEF BaseInv, TypeOK, OnePathPerIdentity, Registered
  <2>3. QED
    BY <1>1, <1>5, <2>1, <2>2, SettledInv
<1>8. CASE ResolveMove(c)
  <2>1. PICK id \in Resolutions([p \in {c.path} |-> c.content], {c.path},
                                {scan.draft.row[c.id].path}, FALSE) :
          /\ registry' = Recorded(id, [p \in {c.path} |-> c.content])
          /\ scan' = [scan EXCEPT !.draft = IF id[c.path] = c.id
                                            THEN Placed(scan.draft, c, c.id, TRUE)
                                            ELSE Closed(scan.draft, c)]
    BY <1>8 DEF ResolveMove
  <2>2. /\ registry' \in [Ids -> Identity]
        /\ OnePathPerIdentity'
        /\ \A i \in Ids : Registered(i) => registry'[i].path # None
        /\ id[c.path] \in Ids /\ registry'[id[c.path]].path # None
    BY <1>4, <2>1, ResolvedInv
  <2>3. CASE id[c.path] = c.id
    <3>1. scan' = [scan EXCEPT !.draft = Placed(scan.draft, c, c.id, TRUE)]
      BY <2>1, <2>3
    <3>2. /\ Placed(scan.draft, c, c.id, TRUE) \in Draft
          /\ \A j \in Ids :
               \/ Placed(scan.draft, c, c.id, TRUE).row[j] = scan.draft.row[j]
               \/ /\ \E p, d : Placed(scan.draft, c, c.id, TRUE).row[j] = ActiveRow(p, d)
                  /\ registry'[j].path # None
      BY <1>4, <1>6, <2>2, <2>3
    <3>3. QED
      BY <1>1, <2>2, <3>1, <3>2, SettledInv
  <2>4. CASE id[c.path] # c.id
    <3>1. scan' = [scan EXCEPT !.draft = Closed(scan.draft, c)]
      BY <2>1, <2>4
    <3>2. QED
      BY <1>1, <1>5, <2>2, <3>1, SettledInv
  <2>5. QED
    BY <2>3, <2>4
<1>9. CASE ResolveCopy(c)
  <2>1. PICK id \in Resolutions([p \in {c.path} |-> c.content],
                                {scan.draft.row[c.id].path, c.path}, {}, FALSE) :
          /\ registry' = Recorded(id, [p \in {c.path} |-> c.content])
          /\ scan' = [scan EXCEPT !.draft =
               Placed(scan.draft, c, id[c.path], scan.draft.row[id[c.path]].status = "none")]
    BY <1>9 DEF ResolveCopy
  <2>2. /\ registry' \in [Ids -> Identity]
        /\ OnePathPerIdentity'
        /\ \A i \in Ids : Registered(i) => registry'[i].path # None
        /\ id[c.path] \in Ids /\ registry'[id[c.path]].path # None
    BY <1>4, <2>1, ResolvedInv
  <2>3. PICK new, ok : /\ new = id[c.path]
                       /\ ok = (scan.draft.row[id[c.path]].status = "none")
    OBVIOUS
  <2>4. new \in Ids /\ ok \in BOOLEAN /\ registry'[new].path # None
    BY <2>2, <2>3
  <2>5. scan' = [scan EXCEPT !.draft = Placed(scan.draft, c, new, ok)]
    BY <2>1, <2>3
  <2>6. /\ Placed(scan.draft, c, new, ok) \in Draft
        /\ \A j \in Ids :
             \/ Placed(scan.draft, c, new, ok).row[j] = scan.draft.row[j]
             \/ /\ \E p, d : Placed(scan.draft, c, new, ok).row[j] = ActiveRow(p, d)
                /\ registry'[j].path # None
    BY <1>6, <2>4
  <2>7. QED
    BY <1>1, <2>2, <2>5, <2>6, SettledInv
<1>10. QED
  BY <1>2, <1>7, <1>8, <1>9

LEMMA ScanCommitInv ==
    ASSUME BaseInv, ScanCommit
    PROVE  BaseInv'
<1>1. /\ scan.at = "resolved" /\ scan.draft \in Draft
      /\ scan.scope \in Scopes /\ scan.entries \in Listings
  BY ScanShape DEF BaseInv, ScanCommit
<1>2. /\ scan.draft.row \in [Ids -> Row] /\ scan.draft.put \in [Ids -> Paths \cup {None}]
      /\ scan.draft.candidates \subseteq Candidate
  BY <1>1 DEF Draft
<1>3. Applied(scan.draft) \in [Ids -> Paths \cup {None}]
  BY <1>2 DEF BaseInv, TypeOK, Applied
<1>4. LeftOut(scan.draft) \subseteq Paths
  BY <1>1, <1>2 DEF LeftOut, Draft, Candidate
<1>5. [verified EXCEPT ![scan.scope] = scan.entries] \in [Scopes -> Listings \cup {None}]
  BY <1>1 DEF BaseInv, TypeOK
<1>6. TypeOK'
  <2>1. (undecided \ DOMAIN scan.entries) \cup LeftOut(scan.draft) \subseteq Paths
    BY <1>4 DEF BaseInv, TypeOK
  <2>2. QED
    BY <1>2, <1>3, <1>5, <2>1 DEF BaseInv, TypeOK, ScanCommit, files
<1>7. scan' = NoScan /\ scan'.at = "idle" /\ row' = scan.draft.row /\ registry' = registry
  BY DEF ScanCommit, NoScan
<1>8. OnePathPerIdentity' /\ IndexedIsRegistered' /\ DraftedIsRegistered'
  BY <1>1, <1>7 DEF BaseInv, OnePathPerIdentity, IndexedIsRegistered, DraftedIsRegistered, Registered
<1>9. AbsentIsAway'
  BY <1>7 DEF BaseInv, ScanCommit, files, AbsentIsAway
<1>10. ObservedIsAway'
  BY <1>1, <1>7 DEF BaseInv, ScanCommit, files, ObservedIsAway, Truthful
<1>11. ConfirmedWasAway'
  BY <1>7 DEF ConfirmedWasAway
<1>12. QED
  BY <1>6, <1>8, <1>9, <1>10, <1>11 DEF BaseInv

-----------------------------------------------------------------------------
(* Safety *)

LEMMA StutterInv ==
    ASSUME BaseInv, UNCHANGED vars
    PROVE  BaseInv'
<1>1. TypeOK'
  BY DEF BaseInv, TypeOK, vars
<1>2. QED
  BY <1>1, CoreInv DEF vars, core

LEMMA NextInv ==
    ASSUME BaseInv, [Next]_vars
    PROVE  BaseInv'
<1>1. CASE \/ \E p \in Paths, c \in Contents : WriteFile(p, c)
           \/ \E p \in Paths : RemoveFile(p)
           \/ \E p, q \in Paths : MoveFile(p, q)
  BY <1>1, FilesInv
<1>2. ASSUME NEW S \in Scopes, ScanUnchanged(S) \/ ScanList(S)
      PROVE  BaseInv'
  BY <1>2, ScanUnchangedInv, ScanListInv
<1>3. CASE ScanResolve
  BY <1>3, ScanResolveInv
<1>4. CASE ScanSettle
  BY <1>4, ScanSettleInv
<1>5. CASE ScanCommit
  BY <1>5, ScanCommitInv
<1>6. CASE ScanFail
  BY <1>6, ScanFailInv
<1>7. CASE Crash
  BY <1>7, CrashInv
<1>8. CASE NewCycle
  BY <1>8, NewCycleInv
<1>9. CASE RebuildRead \/ RebuildWrite \/ RebuildClear
  BY <1>9, RebuildInv
<1>10. CASE UNCHANGED vars
  BY <1>10, StutterInv
<1>11. QED
  BY <1>1, <1>2, <1>3, <1>4, <1>5, <1>6, <1>7, <1>8, <1>9, <1>10 DEF Next

\* The base of the invariant holds in every reachable state, whatever the
\* folders, files, identifiers and bounds: _scan_cycle_item keeps the registry
\* and the index in a state that its next scan can work with.
THEOREM BaseInvariance == Spec => []BaseInv
<1>1. Init => BaseInv
  BY InitInv
<1>2. BaseInv /\ [Next]_vars => BaseInv'
  BY NextInv
<1>3. QED
  BY <1>1, <1>2, PTL DEF Spec

\* resolve_resource_identities never registers two identifiers at one path, not
\* even when scans that committed identities fail afterwards.
THEOREM OnePath == Spec => []OnePathPerIdentity
<1>1. BaseInv => OnePathPerIdentity
  BY DEF BaseInv
<1>2. QED
  BY <1>1, BaseInvariance, PTL

\* state.db is committed before index.db, so a row of the index never has an
\* identifier that the registry does not know.
THEOREM RegisteredFirst == Spec => []IndexedIsRegistered
<1>1. BaseInv => IndexedIsRegistered
  BY DEF BaseInv
<1>2. QED
  BY <1>1, BaseInvariance, PTL

-----------------------------------------------------------------------------
(* What a step may do to an identity *)

\* Only the resolutions of scans write to the registry.
LEMMA OnlyScansRegister ==
    ASSUME [Next]_vars, registry' # registry
    PROVE  ScanResolve \/ ScanSettle
<1>1. ASSUME NEW S \in Scopes, ScanUnchanged(S) \/ ScanList(S)
      PROVE  registry' = registry
  BY <1>1 DEF ScanUnchanged, ScanList
<1>2. QED
  BY <1>1 DEF Next, vars, WriteFile, RemoveFile, MoveFile, Changed, ScanCommit, ScanFail, Crash,
             NewCycle, RebuildRead, RebuildWrite, RebuildClear

LEMMA ResolveStays ==
    ASSUME BaseInv, ScanResolve, NEW i \in Ids, Registered(i),
           registry'[i].path # registry[i].path
    PROVE  registry[i].path \in away
<1> DEFINE entries == scan.entries
           allowed == {row[j].path : j \in Gone(scan.scope, entries)}
<1>1. scan.at = "listed" /\ entries \in Listings
  BY ScanShape DEF BaseInv, ScanResolve
<1>2. PICK id \in Resolutions(entries, DOMAIN entries, allowed, TRUE) :
        registry' = Recorded(id, entries)
  BY DEF ScanResolve
<1> HIDE DEF entries, allowed
<1>3. registry[i].path \in allowed
  BY <1>1, <1>2, RecordedLeaves DEF BaseInv
<1>4. PICK j \in Gone(scan.scope, scan.entries) : registry[i].path = row[j].path
  BY <1>3 DEF allowed, entries
<1>5. QED
  BY <1>1, <1>4, TruthfulObserved

LEMMA SettleStays ==
    ASSUME BaseInv, ScanSettle, NEW i \in Ids, Registered(i),
           registry'[i].path # registry[i].path
    PROVE  registry[i].path \in away
<1>1. scan.at = "resolved" /\ scan.draft \in Draft
  BY ScanShape DEF BaseInv, ScanSettle
<1>2. PICK c \in Due(scan.draft) : CancelCandidate(c) \/ ResolveMove(c) \/ ResolveCopy(c)
  BY DEF ScanSettle
<1>3. c.path \in Paths /\ c.content \in Contents /\ c.id \in Ids
  BY <1>1 DEF Draft, Candidate, Due
<1> DEFINE listing == [p \in {c.path} |-> c.content]
           source == scan.draft.row[c.id]
<1>4. listing \in Listings
  BY <1>3, OneFileListing
<1>5. CASE CancelCandidate(c)
  BY <1>5 DEF CancelCandidate
<1>6. CASE ResolveMove(c)
  <2>1. PICK id \in Resolutions(listing, {c.path}, {source.path}, FALSE) :
          registry' = Recorded(id, listing)
    BY <1>6 DEF ResolveMove
  <2>2. source.status # "none" /\ source.seen = cycle
    BY <1>6 DEF ResolveMove
  <2>3. Truthful(source)
    BY <1>1, <1>3 DEF BaseInv, ObservedIsAway
  <2> HIDE DEF listing, source
  <2>4. registry[i].path \in {source.path}
    BY <1>4, <2>1, RecordedLeaves DEF BaseInv
  <2>5. QED
    BY <2>2, <2>3, <2>4 DEF Truthful
<1>7. CASE ResolveCopy(c)
  <2>1. PICK id \in Resolutions(listing, {source.path, c.path}, {}, FALSE) :
          registry' = Recorded(id, listing)
    BY <1>7 DEF ResolveCopy
  <2> HIDE DEF listing, source
  <2>2. registry[i].path \in {}
    BY <1>4, <2>1, RecordedLeaves DEF BaseInv
  <2>3. QED
    BY <2>2
<1>8. QED
  BY <1>2, <1>5, <1>6, <1>7

\* An identity leaves a path only if the path was without a file some time in
\* the same cycle: a copy never takes the identity of a file that stays.
THEOREM IdentityStays == Spec => IdentityStaysWithFile
<1>1. BaseInv /\ [Next]_vars =>
        [\A i \in Ids : Registered(i) /\ registry'[i].path # registry[i].path =>
                            registry[i].path \in away]_vars
  <2>1. ASSUME BaseInv, [Next]_vars, NEW i \in Ids, Registered(i),
               registry'[i].path # registry[i].path
        PROVE  registry[i].path \in away
    BY <2>1, OnlyScansRegister, ResolveStays, SettleStays
  <2>2. QED
    BY <2>1
<1>2. QED
  BY <1>1, BaseInvariance, PTL DEF Spec, IdentityStaysWithFile

-----------------------------------------------------------------------------
(* What confirms that a file is missing *)

LEMMA OnlyCommitsConfirm ==
    ASSUME BaseInv, [Next]_vars, Confirm > 1, NEW i \in Ids,
           row[i].status # "missing", row'[i].status = "missing"
    PROVE  row[i].path \in away \cap awayBefore
<1>1. ScanCommit
  <2>1. ASSUME NEW S \in Scopes, ScanUnchanged(S) \/ ScanList(S)
        PROVE  row' = row
    BY <2>1 DEF ScanUnchanged, ScanList, index
  <2>2. row' # row
    OBVIOUS
  <2>3. QED
    BY <2>1, <2>2 DEF Next, vars, index, WriteFile, RemoveFile, MoveFile, Changed, ScanResolve,
           ScanSettle, ScanFail, Crash, NewCycle, RebuildRead, RebuildWrite, RebuildClear
<1>2. scan.at = "resolved" /\ scan.draft.row[i].status = "missing"
  BY <1>1 DEF ScanCommit
<1>3. /\ scan.draft.row[i].path = row[i].path
      /\ scan.draft.row[i].seen = cycle
      /\ row[i].path \in awayBefore
  BY <1>2 DEF BaseInv, ConfirmedWasAway
<1>4. Truthful(scan.draft.row[i])
  BY <1>2 DEF BaseInv, ObservedIsAway
<1>5. scan.draft.row[i].path \in away
  BY <1>2, <1>3, <1>4 DEF Truthful
<1>6. QED
  BY <1>3, <1>5

\* With sync_missing_confirm_runs of at least two, a file is confirmed missing
\* only if its path was without a file in this cycle and in an earlier one,
\* however often its folder is scanned within a cycle.
THEOREM TwoCycles ==
    ASSUME Confirm > 1
    PROVE  Spec => MissingInTwoCycles
<1>1. BaseInv /\ [Next]_vars =>
        [\A i \in Ids : row[i].status # "missing" /\ row'[i].status = "missing" =>
                            row[i].path \in away \cap awayBefore]_vars
  <2>1. ASSUME BaseInv, [Next]_vars, NEW i \in Ids,
               row[i].status # "missing", row'[i].status = "missing"
        PROVE  row[i].path \in away \cap awayBefore
    BY <2>1, OnlyCommitsConfirm
  <2>2. QED
    BY <2>1
<1>2. QED
  BY <1>1, BaseInvariance, PTL DEF Spec, MissingInTwoCycles
-----------------------------------------------------------------------------
(* The search table: steps that draft nothing *)

ScanInv == RowsDistinct /\ CandidatesAreDone /\ TornIsMixed /\ DraftFollows
TableInv ==
    /\ RebuildIsMarked
    /\ rebuild.at = "written" /\ ~overlap => Follows(fts)
    /\ SearchFollowsIndex

LEMMA SearchParts ==
    /\ SearchInv <=> ScanInv /\ TableInv
    /\ SearchInv' <=> ScanInv' /\ TableInv'
  BY DEF SearchInv, ScanInv, TableInv

LEMMA InitSearch == Init => SearchInv
<1> SUFFICES ASSUME Init PROVE SearchInv
  OBVIOUS
<1>1. BaseInv
  BY InitInv
<1>2. ASSUME NEW i \in Ids
      PROVE  \/ row[i] = NoRow /\ ~Registered(i)
             \/ /\ row[i].status = "active" /\ row[i].path = registry[i].path
                /\ Registered(i)
  <2>1. row[i] = IF Registered(i) THEN ActiveRow(registry[i].path, registry[i].content)
                 ELSE NoRow
    BY DEF Init
  <2>2. QED
    BY <2>1 DEF ActiveRow
<1>3. scan.at = "idle" /\ scan = NoScan /\ candidates = {} /\ rebuild.at = "idle"
  BY DEF Init, NoScan, NoRebuild
<1>4. RowsDistinct
  <2>1. ASSUME NEW i \in Ids, NEW j \in Ids, i # j, row[i].path # None
        PROVE  row[i].path # row[j].path
    <3>1. Registered(i) /\ row[i].path = registry[i].path
      BY <1>2, <2>1 DEF NoRow
    <3>2. row[j].path = registry[j].path \/ row[j].path = None
      BY <1>2 DEF NoRow
    <3>3. QED
      BY <1>1, <2>1, <3>1, <3>2 DEF BaseInv, OnePathPerIdentity
  <2>2. QED
    BY <1>3, <2>1 DEF RowsDistinct, Distinct
<1>5. \A i \in Ids : ~Torn(i)
  BY <1>2 DEF Torn, TornFrom, NoRow
<1>6. Follows(fts)
  <2>1. ASSUME NEW i \in Ids
        PROVE  row[i].status \in {"none", "active"} /\ (Active(i) => fts[i] = row[i].path)
    BY <1>2 DEF Init, NoRow, Active
  <2>2. QED
    BY <2>1 DEF Follows
<1>7. QED
  BY <1>3, <1>4, <1>5, <1>6 DEF SearchInv, CandidatesAreDone, TornIsMixed, DraftFollows,
     RebuildIsMarked, SearchFollowsIndex

\* Nothing but the number of mixed resources grows, and the mark may be set.
LEMMA TableFrame ==
    ASSUME TableInv, UNCHANGED <<row, fts, rebuild, overlap>>, dirty => dirty',
           mixed \subseteq mixed'
    PROVE  TableInv'
<1>1. ActivePaths' = ActivePaths
  BY DEF ActivePaths, Active
<1>2. Follows(fts) => Follows(fts)'
  BY DEF Follows, Active
<1>3. QED
  BY <1>1, <1>2 DEF TableInv, RebuildIsMarked, SearchFollowsIndex

LEMMA ScanFrame ==
    ASSUME ScanInv, UNCHANGED <<registry, row, candidates, scan, mixed>>,
           todo' \subseteq todo, scan = NoScan \/ todo' = todo
    PROVE  ScanInv'
<1>1. RowsDistinct'
  BY DEF ScanInv, RowsDistinct, Distinct
<1>2. CandidatesAreDone'
  <2>1. scan.at = "resolved" => scan # NoScan
    BY DEF NoScan
  <2>2. QED
    BY <2>1 DEF ScanInv, CandidatesAreDone
<1>3. TornIsMixed'
  BY DEF ScanInv, TornIsMixed, Torn, TornFrom
<1>4. DraftFollows'
  BY DEF ScanInv, DraftFollows, Drafts, Shown, TornFrom
<1>5. QED
  BY <1>1, <1>2, <1>3, <1>4 DEF ScanInv

\* A scan ends without a commit, or there is none.
LEMMA ScanAbandoned ==
    ASSUME ScanInv, scan' = NoScan, UNCHANGED <<registry, row>>,
           \A c \in candidates' : ScopeOf[c.path] \notin todo',
           \A i \in Ids \ mixed' : ~Torn(i)
    PROVE  ScanInv'
<1>1. scan'.at = "idle"
  BY DEF NoScan
<1>2. RowsDistinct' /\ CandidatesAreDone' /\ DraftFollows'
  BY <1>1 DEF ScanInv, RowsDistinct, Distinct, CandidatesAreDone, DraftFollows
<1>3. TornIsMixed'
  BY DEF TornIsMixed, Torn, TornFrom
<1>4. QED
  BY <1>2, <1>3 DEF ScanInv

LEMMA FilesSearch ==
    ASSUME SearchInv,
           \/ \E p \in Paths, c \in Contents : WriteFile(p, c)
           \/ \E p \in Paths : RemoveFile(p)
           \/ \E p, q \in Paths : MoveFile(p, q)
    PROVE  SearchInv'
<1>1. UNCHANGED <<registry, row, fts, dirty, candidates, todo, scan, rebuild, overlap, mixed>>
  BY DEF WriteFile, RemoveFile, MoveFile, Changed, index
<1>2. QED
  BY <1>1, SearchParts, TableFrame, ScanFrame

LEMMA ScanUnchangedSearch ==
    ASSUME SearchInv, NEW S \in Scopes, ScanUnchanged(S)
    PROVE  SearchInv'
<1>1. /\ UNCHANGED <<registry, row, fts, dirty, candidates, scan, rebuild, overlap, mixed>>
      /\ todo' \subseteq todo /\ scan = NoScan
  BY DEF ScanUnchanged, index
<1>2. QED
  BY <1>1, SearchParts, TableFrame, ScanFrame

\* The table that the paths of the active rows are written to.
LEMMA RebuiltFollows ==
    ASSUME fts' = ActivePaths, row' = row
    PROVE  Follows(fts)'
  BY DEF Follows, ActivePaths, Active

LEMMA ScanListSearch ==
    ASSUME BaseInv, SearchInv, NEW S \in Scopes, ScanList(S)
    PROVE  SearchInv'
<1>1. /\ UNCHANGED <<registry, row, fts, dirty, candidates, todo, rebuild, overlap, mixed>>
      /\ scan = NoScan /\ S \in todo
      /\ scan'.at = "listed" /\ scan'.scope = S /\ scan'.entries = Listing(S)
  BY DEF ScanList, index
<1>2. \A p \in DOMAIN Listing(S) : ScopeOf[p] = S
  BY DEF Listing, Files
<1>3. RowsDistinct' /\ DraftFollows'
  BY <1>1 DEF SearchInv, RowsDistinct, Distinct, DraftFollows
<1>4. CandidatesAreDone'
  BY <1>1, <1>2 DEF SearchInv, CandidatesAreDone
<1>5. TornIsMixed'
  <2>1. scan.at # "resolved"
    BY <1>1 DEF NoScan
  <2>2. QED
    BY <1>1, <2>1 DEF SearchInv, TornIsMixed, Torn, TornFrom
<1>6. QED
  BY <1>1, <1>3, <1>4, <1>5, SearchParts, TableFrame DEF ScanInv

LEMMA ScanFailSearch ==
    ASSUME BaseInv, SearchInv, ScanFail
    PROVE  SearchInv'
<1>1. /\ UNCHANGED <<registry, row, fts, candidates, rebuild, overlap>>
      /\ scan' = NoScan /\ mixed' = mixed \cup {i \in Ids : Torn(i)} /\ todo' \subseteq todo
  BY DEF ScanFail, index
<1>2. dirty => dirty'
  BY DEF ScanFail
<1>3. \A c \in candidates' : ScopeOf[c.path] \notin todo'
  BY <1>1 DEF SearchInv, CandidatesAreDone
<1>4. \A i \in Ids \ mixed' : ~Torn(i)
  BY <1>1
<1>5. ScanInv' /\ TableInv'
  BY <1>1, <1>2, <1>3, <1>4, SearchParts, TableFrame, ScanAbandoned
<1>6. QED
  BY <1>5, SearchParts

LEMMA CrashSearch ==
    ASSUME BaseInv, SearchInv, Crash
    PROVE  SearchInv'
<1>1. /\ UNCHANGED <<registry, row, candidates, todo>>
      /\ scan' = NoScan /\ mixed' = mixed \cup {i \in Ids : Torn(i)}
      /\ fts' = IF dirty THEN ActivePaths ELSE fts
      /\ overlap' = (overlap /\ ~dirty) /\ dirty' = FALSE
      /\ rebuild'.at = "idle"
  BY DEF Crash, NoRebuild
<1>2. \A c \in candidates' : ScopeOf[c.path] \notin todo'
  BY <1>1 DEF SearchInv, CandidatesAreDone
<1>3. \A i \in Ids \ mixed' : ~Torn(i)
  BY <1>1
<1>4. ScanInv'
  BY <1>1, <1>2, <1>3, SearchParts, ScanAbandoned
<1>5. SearchFollowsIndex'
  <2>1. CASE dirty
    BY <1>1, <2>1, RebuiltFollows DEF SearchFollowsIndex
  <2>2. CASE ~dirty
    <3>1. overlap \/ Follows(fts)
      BY <2>2 DEF SearchInv, SearchFollowsIndex
    <3>2. Follows(fts) => Follows(fts)'
      BY <1>1, <2>2 DEF Follows, Active
    <3>3. QED
      BY <1>1, <2>2, <3>1, <3>2 DEF SearchFollowsIndex
  <2>3. QED
    BY <2>1, <2>2
<1>6. TableInv'
  BY <1>1, <1>5 DEF TableInv, RebuildIsMarked
<1>7. QED
  BY <1>4, <1>6, SearchParts

LEMMA NewCycleSearch ==
    ASSUME SearchInv, NewCycle
    PROVE  SearchInv'
<1>1. /\ UNCHANGED <<registry, row, fts, dirty, scan, rebuild, overlap, mixed>>
      /\ scan = NoScan /\ scan.at = "idle" /\ candidates' = {}
  BY DEF NewCycle, NoScan
<1>2. \A i \in Ids \ mixed' : ~Torn(i)
  BY <1>1 DEF SearchInv, TornIsMixed
<1>3. ScanInv'
  BY <1>1, <1>2, SearchParts, ScanAbandoned
<1>4. TableInv'
  BY <1>1, SearchParts, TableFrame
<1>5. QED
  BY <1>3, <1>4, SearchParts

LEMMA RebuildSearch ==
    ASSUME SearchInv, RebuildRead \/ RebuildWrite \/ RebuildClear
    PROVE  SearchInv'
<1>1. UNCHANGED <<registry, row, candidates, todo, scan, mixed>>
  BY DEF RebuildRead, RebuildWrite, RebuildClear, index
<1>2. ScanInv'
  BY <1>1, SearchParts, ScanFrame
<1>3. ActivePaths' = ActivePaths
  BY <1>1 DEF ActivePaths, Active
<1>4. CASE RebuildRead
  <2>1. dirty' /\ rebuild'.at = "read" /\ rebuild'.rows = ActivePaths
    BY <1>4 DEF RebuildRead
  <2>2. QED
    BY <1>2, <1>3, <2>1, SearchParts DEF TableInv, RebuildIsMarked, SearchFollowsIndex
<1>5. CASE RebuildWrite
  <2>1. /\ dirty /\ dirty' = dirty /\ rebuild'.at = "written" /\ overlap' = overlap
        /\ ~overlap => fts' = ActivePaths
    BY <1>5 DEF RebuildWrite, Written, SearchInv, RebuildIsMarked
  <2>2. ~overlap => Follows(fts)'
    BY <1>1, <2>1, RebuiltFollows
  <2>3. QED
    BY <1>2, <2>1, <2>2, SearchParts DEF TableInv, RebuildIsMarked, SearchFollowsIndex
<1>6. CASE RebuildClear
  <2>1. /\ rebuild.at = "written" /\ rebuild'.at = "idle" /\ UNCHANGED <<fts, overlap>>
    BY <1>6 DEF RebuildClear, NoRebuild, index
  <2>2. ~overlap => Follows(fts)'
    BY <1>1, <2>1 DEF SearchInv, Follows, Active
  <2>3. QED
    BY <1>2, <2>1, <2>2, SearchParts DEF TableInv, RebuildIsMarked, SearchFollowsIndex
<1>7. QED
  BY <1>4, <1>5, <1>6

-----------------------------------------------------------------------------
(* The search table: the resolution of a listing *)

\* No identity is given to two paths of a listing.
LEMMA ResolvedApart ==
    ASSUME NEW listing \in Listings, NEW visible, NEW allowed, NEW defer \in BOOLEAN,
           NEW id \in Resolutions(listing, visible, allowed, defer),
           NEW p \in DOMAIN listing, NEW q \in DOMAIN listing, id[p] # None, id[p] = id[q]
    PROVE  p = q
<1> SUFFICES ASSUME p # q PROVE FALSE
  OBVIOUS
<1>1. ASSUME NEW a \in DOMAIN listing, NEW b \in DOMAIN listing, a # b,
             id[a] = id[b], id[a] # None
      PROVE  registry[id[a]].path = a
  <2> DEFINE others == {id[r] : r \in DOMAIN listing \ {a}} \ {None}
             unseen == Unseen(listing[a], visible) \ others
             likely == Candidates(listing[a], visible, allowed) \ others
  <2>1. id[a] \in others
    BY <1>1
  <2>2. IF KnownAt(a) # {} THEN id[a] \in KnownAt(a)
        ELSE IF Single(likely) THEN id[a] \in likely
        ELSE IF defer /\ likely = {} /\ Single(unseen) THEN id[a] = None
        ELSE id[a] \in Ids \ others /\ ~Registered(id[a])
    BY DEF Resolutions, Resolves
  <2>3. id[a] \notin likely /\ id[a] \notin Ids \ others
    BY <2>1
  <2> HIDE DEF others, unseen, likely
  <2>4. id[a] \in KnownAt(a)
    BY <1>1, <2>2, <2>3
  <2>5. QED
    BY <2>4 DEF KnownAt
<1>2. QED
  BY <1>1

\* The path that a resolution records for an identity.
LEMMA RecordedAt ==
    ASSUME NEW listing \in Listings, NEW id \in [DOMAIN listing -> Ids \cup {None}],
           NEW i \in Ids
    PROVE  \/ \E p \in DOMAIN listing : id[p] = i /\ Recorded(id, listing)[i].path = p
           \/ /\ \A p \in DOMAIN listing : id[p] # i
              /\ Recorded(id, listing)[i] = registry[i]
<1>1. CASE \E p \in DOMAIN listing : id[p] = i
  <2>1. PICK p \in DOMAIN listing :
          id[p] = i /\ Recorded(id, listing)[i] = [path |-> p, content |-> listing[p]]
    BY <1>1 DEF Recorded
  <2>2. QED
    BY <2>1
<1>2. CASE \A p \in DOMAIN listing : id[p] # i
  BY <1>2 DEF Recorded
<1>3. QED
  BY <1>1, <1>2

\* A path keeps the identity that is registered there.
LEMMA KnownKeeps ==
    ASSUME OnePathPerIdentity, NEW listing \in Listings, NEW visible, NEW allowed,
           NEW defer \in BOOLEAN, NEW id \in Resolutions(listing, visible, allowed, defer),
           NEW p \in DOMAIN listing, NEW i \in Ids, registry[i].path = p
    PROVE  id[p] = i
<1>1. i \in KnownAt(p) /\ p # None
  BY ListingShape, ResourceAssumption DEF KnownAt
<1>2. id[p] \in KnownAt(p)
  BY <1>1 DEF Resolutions, Resolves
<1>3. QED
  BY <1>1, <1>2 DEF KnownAt, OnePathPerIdentity, Registered

\* No identity is given twice, and a path keeps the one registered there.
Resolved(listing, id) ==
    /\ \A p, q \in DOMAIN listing : id[p] # None /\ id[p] = id[q] => p = q
    /\ \A p \in DOMAIN listing, i \in Ids : registry[i].path = p => id[p] = i

LEMMA ResolutionIs ==
    ASSUME OnePathPerIdentity, NEW listing \in Listings, NEW visible, NEW allowed,
           NEW defer \in BOOLEAN, NEW id \in Resolutions(listing, visible, allowed, defer)
    PROVE  Resolved(listing, id)
  BY ResolvedApart, KnownKeeps DEF Resolved

\* The entries that are written to the search table under their identity.
Rewritten(S, listing, id, first) ==
    {p \in {q \in DOMAIN listing : id[q] # None} :
        \/ first[RowFor(S, id, p)] # p
        \/ row[RowFor(S, id, p)] # ActiveRow(p, listing[p])}

\* What a scan drafts about one resource.
Told(listing, id, last, changed, gone, draft, i) ==
    /\ i \in DOMAIN last => draft.row[i] = ActiveRow(last[i], listing[last[i]])
    /\ i \notin DOMAIN last /\ i \in gone => draft.row[i] = Observed(row[i])
    /\ i \notin DOMAIN last /\ i \notin gone => draft.row[i] = row[i]
    /\ \/ draft.put[i] \in changed /\ id[draft.put[i]] = i
       \/ draft.put[i] = None /\ \A p \in changed : id[p] # i
    /\ i \in draft.drop <=> /\ i \in gone
                            /\ draft.row[i].status = "missing"
                            /\ row[i].status # "missing"

LEMMA DraftedFor ==
    ASSUME NEW S, NEW listing, NEW id, NEW first, NEW last, NEW i \in Ids
    PROVE  Told(listing, id, last, Rewritten(S, listing, id, first),
                Gone(S, listing) \ {id[p] : p \in DOMAIN listing},
                Drafted(S, listing, id, first, last), i)
<1> DEFINE draft == Drafted(S, listing, id, first, last)
           gone == Gone(S, listing) \ {id[p] : p \in DOMAIN listing}
           rows == [k \in Ids |-> IF k \in DOMAIN last THEN ActiveRow(last[k], listing[last[k]])
                                  ELSE IF k \in gone THEN Observed(row[k])
                                  ELSE row[k]]
           changed == Rewritten(S, listing, id, first)
           put == [k \in Ids |-> IF \E p \in changed : id[p] = k
                                 THEN CHOOSE p \in changed : id[p] = k ELSE None]
           drop == {k \in gone : rows[k].status = "missing" /\ row[k].status # "missing"}
<1>1. draft.row = rows /\ draft.put = put /\ draft.drop = drop
  BY DEF Drafted, Rewritten
<1>2. \/ put[i] \in changed /\ id[put[i]] = i
      \/ put[i] = None /\ \A p \in changed : id[p] # i
  <2>1. CASE \E p \in changed : id[p] = i
    <3>1. put[i] = CHOOSE p \in changed : id[p] = i
      BY <2>1
    <3>2. QED
      BY <2>1, <3>1
  <2>2. CASE ~\E p \in changed : id[p] = i
    BY <2>2
  <2>3. QED
    BY <2>1, <2>2
<1>3. QED
  BY <1>1, <1>2 DEF Told

LEMMA ObservedKeepsPath ==
    ASSUME TypeOK, NEW i \in Ids
    PROVE  /\ Observed(row[i]).path = row[i].path
           /\ \/ Observed(row[i]) = row[i]
              \/ Observed(row[i]).status \in {"missing", "suspected"}
<1>1. row[i] \in Row
  BY DEF TypeOK
<1>2. QED
  BY <1>1 DEF Observed, Row

\* What ScanResolve does, with the resolution and the order of writing it picks.
ResolvedBy(listing, allowed, id, first, last, draft) ==
    LET S == scan.scope
    IN  /\ listing = scan.entries
        /\ allowed = {row[k].path : k \in Gone(S, listing)}
        /\ id \in Resolutions(listing, DOMAIN listing, allowed, TRUE)
        /\ Writes(S, listing, id, last)
        /\ DOMAIN last = {RowFor(S, id, p) : p \in {q \in DOMAIN listing : id[q] # None}}
        /\ draft = Drafted(S, listing, id, first, last)
        /\ registry' = Recorded(id, listing)
        /\ row' = row
        /\ scan'.scope = S /\ scan'.entries = listing

\* After the resolution of a listing, the draft of every resource that is not
\* mixed is one that the search table can follow.
LEMMA ResolveDrafts ==
    ASSUME BaseInv, RowsDistinct, TornIsMixed, scan.at = "listed",
           NEW listing \in Listings, NEW allowed, NEW id, NEW first, NEW last, NEW draft,
           ResolvedBy(listing, allowed, id, first, last, draft),
           NEW i \in Ids \ mixed
    PROVE  Drafts(draft, i)'
<1> PICK S : S = scan.scope
  OBVIOUS
<1> USE DEF ResolvedBy
<1> DEFINE changed == Rewritten(S, listing, id, first)
<1>0. PICK gone : gone = Gone(S, listing) \ {id[p] : p \in DOMAIN listing}
  OBVIOUS
<1>1. TypeOK /\ OnePathPerIdentity /\ None \notin Ids /\ None \notin Paths
  BY ResourceAssumption DEF BaseInv
<1>2. id \in [DOMAIN listing -> Ids \cup {None}] /\ DOMAIN listing \subseteq Paths
  BY ListingShape DEF Resolutions
<1>3. /\ i \in DOMAIN last => draft.row[i] = ActiveRow(last[i], listing[last[i]])
      /\ i \notin DOMAIN last /\ i \in gone => draft.row[i] = Observed(row[i])
      /\ i \notin DOMAIN last /\ i \notin gone => draft.row[i] = row[i]
      /\ \/ draft.put[i] \in changed /\ id[draft.put[i]] = i
         \/ draft.put[i] = None /\ \A p \in changed : id[p] # i
      /\ i \in draft.drop <=> /\ i \in gone
                              /\ draft.row[i].status = "missing"
                              /\ row[i].status # "missing"
  <2>1. Told(listing, id, last, Rewritten(S, listing, id, first),
             Gone(S, listing) \ {id[p] : p \in DOMAIN listing},
             Drafted(S, listing, id, first, last), i)
    BY DraftedFor
  <2>2. QED
    BY <1>0, <2>1 DEF Told
<1>4. row[i].status = "none" \/ registry[i].path = row[i].path
  BY DEF TornIsMixed, Torn, TornFrom
<1>5. changed \subseteq DOMAIN listing /\ \A p \in changed : id[p] # None
  BY DEF Rewritten
<1>6. Drafts(draft, i)' <=>
        \/ /\ draft.row[i].status # "none" /\ registry'[i].path # draft.row[i].path
           /\ ScopeOf[draft.row[i].path] = S
           /\ draft.row[i].path \notin DOMAIN listing
        \/ /\ draft.row[i].status = "none" \/ registry'[i].path = draft.row[i].path
           /\ \/ draft.row[i].status \notin {"active", "missing"}
              \/ draft.row[i].status = "active" /\ draft.put[i] = draft.row[i].path
              \/ draft.put[i] = None /\ i \in draft.drop /\ draft.row[i].status = "missing"
              \/ draft.put[i] = None /\ i \notin draft.drop /\ draft.row[i] = row[i]
  BY DEF Drafts, Shown, TornFrom
<1>a. Resolved(listing, id)
  BY <1>1, ResolutionIs
<1>b. registry'[i] = Recorded(id, listing)[i]
  OBVIOUS
<1>c. \/ \E p \in DOMAIN listing : id[p] = i /\ registry'[i].path = p
      \/ (\A p \in DOMAIN listing : id[p] # i) /\ registry'[i] = registry[i]
  BY <1>2, <1>b, RecordedAt
<1> HIDE DEF changed
\* The row of i is written from an entry: it is the one of its identity.
<1>7. CASE i \in DOMAIN last
  <2>1. /\ last[i] \in DOMAIN listing /\ id[last[i]] # None
        /\ RowFor(S, id, last[i]) = i
    BY <1>7 DEF Writes
  <2>2. draft.row[i].status = "active" /\ draft.row[i].path = last[i]
    BY <1>3, <1>7 DEF ActiveRow
  <2>3. id[last[i]] = i
    <3>1. SUFFICES ASSUME id[last[i]] # i PROVE FALSE
      OBVIOUS
    <3>2. i \in {k \in RowsOf(S) : row[k].path = last[i]}
      BY <2>1, <3>1 DEF RowFor
    <3>3. row[i].path = last[i] /\ row[i].status # "none"
      BY <3>2 DEF RowsOf, Indexed
    <3>4. registry[i].path = last[i]
      BY <1>4, <3>3
    <3>5. QED
      BY <2>1, <3>1, <3>4, <1>a DEF Resolved
  <2>4. registry'[i].path = last[i]
    <3>1. PICK p \in DOMAIN listing : id[p] = i /\ registry'[i].path = p
      BY <2>1, <2>3, <1>c
    <3>2. p = last[i]
      BY <2>1, <2>3, <3>1, <1>a DEF Resolved
    <3>3. QED
      BY <3>1, <3>2
  <2>5. CASE draft.put[i] \in changed /\ id[draft.put[i]] = i
    <3>1. draft.put[i] = last[i]
      BY <1>5, <2>1, <2>3, <2>5, <1>a DEF Resolved
    <3>2. QED
      BY <1>6, <2>2, <2>4, <3>1
  <2>6. CASE draft.put[i] = None /\ \A p \in changed : id[p] # i
    <3>1. row[i] = ActiveRow(last[i], listing[last[i]])
      BY <2>1, <2>3, <2>6 DEF changed, Rewritten
    <3>2. draft.row[i] = row[i] /\ i \notin draft.drop
      BY <1>3, <1>7, <2>2, <3>1
    <3>3. QED
      BY <1>6, <2>2, <2>4, <2>6, <3>2
  <2>7. QED
    BY <1>3, <2>5, <2>6
\* The row of i is observed as missing: its identity is not in the listing.
<1>8. CASE i \notin DOMAIN last /\ i \in gone
  <2>1. /\ \A p \in DOMAIN listing : id[p] # i
        /\ row[i].status \in {"active", "suspected"}
    BY <1>0, <1>8 DEF Gone, RowsOf, Indexed
  <2>2. registry'[i] = registry[i]
    BY <2>1, <1>c
  <2>3. draft.put[i] = None
    BY <1>3, <1>5, <2>1
  <2>4. draft.row[i] = Observed(row[i])
    BY <1>3, <1>8
  <2>5. registry'[i].path = draft.row[i].path
    BY <1>1, <1>4, <2>1, <2>2, <2>4, ObservedKeepsPath
  <2>6. CASE draft.row[i].status = "missing"
    <3>1. i \in draft.drop
      BY <1>3, <1>8, <2>1, <2>6
    <3>2. QED
      BY <1>6, <2>3, <2>5, <2>6, <3>1
  <2>7. CASE draft.row[i].status # "missing"
    <3>1. i \notin draft.drop
      BY <1>3, <2>7
    <3>2. draft.row[i] = row[i] \/ draft.row[i].status = "suspected"
      BY <1>1, <2>4, <2>7, ObservedKeepsPath
    <3>3. QED
      BY <1>6, <2>3, <2>5, <3>1, <3>2
  <2>8. QED
    BY <2>6, <2>7
\* The row of i is left as it is, while its identity may be recorded elsewhere.
<1>9. CASE i \notin DOMAIN last /\ i \notin gone
  <2>1. draft.row[i] = row[i] /\ i \notin draft.drop
    BY <1>3, <1>9
  <2>2. CASE row[i].status = "none"
    BY <1>6, <2>1, <2>2
  <2>3. CASE row[i].status # "none" /\ registry'[i].path # row[i].path
    <3>1. registry[i].path = row[i].path /\ registry'[i].path # registry[i].path
      BY <1>4, <2>3
    <3>2. Registered(i)
      BY <2>3 DEF BaseInv, IndexedIsRegistered
    <3>3. registry[i].path \in allowed
      BY <1>1, <3>1, <3>2, RecordedLeaves
    <3>4. PICK k \in Gone(S, listing) : row[i].path = row[k].path
      BY <3>1, <3>3
    <3>5. ScopeOf[row[i].path] = S /\ row[i].path \notin DOMAIN listing
      BY <3>4 DEF Gone, RowsOf, InScope
    <3>6. QED
      BY <1>6, <2>1, <2>3, <3>5
  <2>4. CASE row[i].status # "none" /\ registry'[i].path = row[i].path
    <3>1. draft.put[i] = None
      <4>1. SUFFICES ASSUME draft.put[i] \in changed, id[draft.put[i]] = i PROVE FALSE
        BY <1>3
      <4>2. draft.put[i] \in DOMAIN listing /\ id[draft.put[i]] # None
        BY <1>5, <4>1
      <4>3. PICK p \in DOMAIN listing : id[p] = i /\ registry'[i].path = p
        BY <4>1, <4>2, <1>c
      <4>4. p = row[i].path /\ p \in Paths /\ id[p] # None
        BY <1>1, <1>2, <2>4, <4>3
      <4>5. RowFor(S, id, p) \in DOMAIN last
        BY <4>3, <4>4
      <4>6. RowFor(S, id, p) # i
        BY <1>9, <4>5
      <4>7. PICK k \in RowsOf(S) : row[k].path = p /\ k # i
        <5>1. {k \in RowsOf(S) : row[k].path = p} # {}
          BY <4>3, <4>6 DEF RowFor
        <5>2. RowFor(S, id, p) \in {k \in RowsOf(S) : row[k].path = p}
          BY <5>1 DEF RowFor
        <5>3. QED
          BY <4>6, <5>2
      <4>8. QED
        BY <1>1, <4>4, <4>7 DEF RowsDistinct, Distinct, RowsOf
    <3>2. QED
      BY <1>6, <2>1, <2>4, <3>1
  <2>5. QED
    BY <2>2, <2>3, <2>4
<1>10. QED
  BY <1>7, <1>8, <1>9

LEMMA DraftedRest ==
    ASSUME NEW S, NEW listing, NEW id, NEW first, NEW last
    PROVE  LET draft == Drafted(S, listing, id, first, last)
           IN  /\ draft.ok => Distinct(draft.row)
               /\ \A c \in draft.candidates : c \in candidates \/ c.path \in DOMAIN listing
<1> DEFINE draft == Drafted(S, listing, id, first, last)
<1>1. draft.ok = Acceptable(draft.row, DOMAIN last \ RowsOf(S))
  BY DEF Drafted
<1>2. draft.ok => Distinct(draft.row)
  BY <1>1 DEF Acceptable, Distinct
<1>3. ASSUME NEW c \in draft.candidates, c \notin candidates
      PROVE  c.path \in DOMAIN listing
  BY <1>3 DEF Drafted
<1>4. QED
  BY <1>2, <1>3

LEMMA ResolvePicked ==
    ASSUME BaseInv, ScanResolve
    PROVE  \E listing, allowed, id, first, last, draft :
               /\ listing \in Listings
               /\ ResolvedBy(listing, allowed, id, first, last, draft)
               /\ scan.at = "listed" /\ scan # NoScan
               /\ scan'.at = "resolved" /\ scan'.draft = draft /\ scan' # NoScan
<1> DEFINE S == scan.scope
           listing == scan.entries
           allowed == {row[i].path : i \in Gone(S, listing)}
           keptBy(id) == {p \in DOMAIN listing : id[p] # None}
           writtenBy(id) == {RowFor(S, id, p) : p \in keptBy(id)}
<1>2. scan.at = "listed" /\ S \in Scopes /\ listing \in Listings /\ scan # NoScan
  BY ScanShape DEF BaseInv, ScanResolve, NoScan
<1>3. PICK id \in Resolutions(listing, DOMAIN listing, allowed, TRUE) :
        \E first, last \in [writtenBy(id) -> keptBy(id)] :
          /\ \A i \in writtenBy(id) :
               /\ {first[i], last[i]} \subseteq {p \in keptBy(id) : RowFor(S, id, p) = i}
               /\ first[i] = last[i] => {p \in keptBy(id) : RowFor(S, id, p) = i} = {first[i]}
          /\ registry' = Recorded(id, listing)
          /\ scan' = [scan EXCEPT !.at = "resolved",
                                  !.draft = Drafted(S, listing, id, first, last)]
  BY DEF ScanResolve
<1>1. PICK allow : allow = allowed
  OBVIOUS
<1> HIDE DEF allowed, S, listing
<1>4. PICK kept, written : kept = keptBy(id) /\ written = writtenBy(id)
  OBVIOUS
<1>5. PICK first \in [written -> kept], last \in [written -> kept] :
        /\ \A i \in written : RowFor(S, id, last[i]) = i
        /\ registry' = Recorded(id, listing)
        /\ scan' = [scan EXCEPT !.at = "resolved",
                                !.draft = Drafted(S, listing, id, first, last)]
  BY <1>3, <1>4
<1>6. kept = {p \in DOMAIN listing : id[p] # None} /\ written = {RowFor(S, id, p) : p \in kept}
  BY <1>4
<1> HIDE DEF keptBy, writtenBy
<1>7. PICK draft : draft = Drafted(S, listing, id, first, last)
  OBVIOUS
<1>8. /\ scan'.at = "resolved" /\ scan'.scope = scan.scope /\ scan'.entries = scan.entries
      /\ scan'.draft = draft /\ scan' # NoScan
  <2>1. scan \in [at: {"listed"}, scope: Scopes, entries: Listings, draft: {None}]
    BY <1>2, ScanShape DEF BaseInv
  <2>2. QED
    BY <1>5, <1>7, <2>1 DEF NoScan
<1>9. row' = row
  BY DEF ScanResolve, index
<1>10. /\ Writes(S, listing, id, last)
       /\ DOMAIN last = {RowFor(S, id, p) : p \in {q \in DOMAIN listing : id[q] # None}}
  BY <1>5, <1>6 DEF Writes
<1>11. ResolvedBy(listing, allow, id, first, last, draft)
  BY <1>1, <1>3, <1>5, <1>7, <1>8, <1>9, <1>10 DEF ResolvedBy, S, listing, allowed
<1>12. QED
  BY <1>2, <1>8, <1>11

LEMMA ScanResolveSearch ==
    ASSUME BaseInv, SearchInv, ScanResolve
    PROVE  SearchInv'
<1>1. PICK listing, allowed, id, first, last, draft :
        /\ listing \in Listings
        /\ ResolvedBy(listing, allowed, id, first, last, draft)
        /\ scan.at = "listed" /\ scan # NoScan
        /\ scan'.at = "resolved" /\ scan'.draft = draft /\ scan' # NoScan
  BY ResolvePicked
<1>2. /\ listing = scan.entries /\ scan'.scope = scan.scope /\ scan'.entries = scan.entries
      /\ draft = Drafted(scan.scope, listing, id, first, last)
  BY <1>1 DEF ResolvedBy
<1>3. UNCHANGED <<row, fts, dirty, candidates, todo, rebuild, overlap, mixed>>
  BY DEF ScanResolve, index
<1>4. /\ draft.ok => Distinct(draft.row)
      /\ \A c \in draft.candidates : c \in candidates \/ c.path \in DOMAIN listing
  BY <1>2, DraftedRest
<1>5. RowsDistinct'
  BY <1>1, <1>3, <1>4 DEF SearchInv, RowsDistinct, Distinct
<1>6. CandidatesAreDone'
  BY <1>1, <1>2, <1>3, <1>4 DEF SearchInv, CandidatesAreDone
<1>7. TornIsMixed'
  BY <1>1 DEF TornIsMixed
<1>8. ASSUME NEW i \in Ids \ mixed
      PROVE  Drafts(draft, i)'
  BY <1>1, ResolveDrafts DEF SearchInv
<1>9. DraftFollows'
  BY <1>1, <1>3, <1>8 DEF DraftFollows, Drafts, Shown, TornFrom
<1>10. QED
  BY <1>3, <1>5, <1>6, <1>7, <1>9, SearchParts, TableFrame DEF ScanInv

-----------------------------------------------------------------------------
(* The search table: the resolution of a candidate *)

\* What a settled candidate leaves of the invariant to show.
LEMMA SettledSearch ==
    ASSUME BaseInv, SearchInv, scan.at = "resolved", NEW draft \in Draft,
           scan' = [scan EXCEPT !.draft = draft],
           draft.candidates \subseteq scan.draft.candidates,
           draft.ok => Distinct(draft.row),
           draft.ok => \A i \in Ids \ mixed :
               IF registry'[i].path = registry[i].path /\ draft.row[i] = scan.draft.row[i]
                     /\ draft.put[i] = scan.draft.put[i]
               THEN scan.draft.ok
               ELSE Drafts(draft, i)',
           draft.drop = scan.draft.drop,
           UNCHANGED <<row, fts, dirty, candidates, todo, rebuild, overlap, mixed>>
    PROVE  SearchInv'
<1>1. scan \in [at: {"resolved"}, scope: Scopes, entries: Listings, draft: Draft]
  BY ScanShape DEF BaseInv
<1>2. /\ scan'.at = "resolved" /\ scan'.draft = draft
      /\ scan'.scope = scan.scope /\ scan'.entries = scan.entries
      /\ scan # NoScan /\ scan' # NoScan
  BY <1>1 DEF NoScan
<1>3. RowsDistinct'
  BY <1>2 DEF SearchInv, RowsDistinct, Distinct
<1>4. CandidatesAreDone'
  BY <1>2 DEF SearchInv, CandidatesAreDone
<1>5. TornIsMixed'
  BY <1>2 DEF TornIsMixed
<1>6. ASSUME draft.ok, NEW i \in Ids \ mixed
      PROVE  Drafts(draft, i)'
  <2>1. CASE /\ registry'[i].path = registry[i].path /\ draft.row[i] = scan.draft.row[i]
             /\ draft.put[i] = scan.draft.put[i]
    <3>1. Drafts(scan.draft, i)
      BY <1>6, <2>1 DEF SearchInv, DraftFollows
    <3>2. QED
      BY <1>2, <2>1, <3>1 DEF Drafts, Shown, TornFrom
  <2>2. QED
    BY <1>6, <2>1
<1>7. DraftFollows'
  BY <1>2, <1>6 DEF DraftFollows, Drafts, Shown, TornFrom
<1>8. QED
  BY <1>3, <1>4, <1>5, <1>7, SearchParts, TableFrame DEF ScanInv

\* What the resolution of a candidate records: identity i is at path p now, and
\* was there before, at a path it may leave or nowhere.
Takes(i, p, allowed) ==
    /\ i \in Ids /\ registry'[i].path = p
    /\ \A j \in Ids : j # i => registry'[j] = registry[j]
    /\ registry[i].path \in {p, None} \cup allowed

LEMMA CandidateRecorded ==
    ASSUME BaseInv, NEW p \in Paths, NEW content \in Contents, NEW visible, NEW allowed,
           NEW id \in Resolutions([q \in {p} |-> content], visible, allowed, FALSE),
           registry' = Recorded(id, [q \in {p} |-> content])
    PROVE  Takes(id[p], p, allowed)
<1> DEFINE listing == [q \in {p} |-> content]
<1>1. listing \in Listings /\ DOMAIN listing = {p}
  BY OneFileListing
<1>2. TypeOK
  BY DEF BaseInv
<1> HIDE DEF listing
<1>3. id \in Resolutions(listing, visible, allowed, FALSE) /\ registry' = Recorded(id, listing)
  BY DEF listing
<1>4. id \in [DOMAIN listing -> Ids \cup {None}] /\ id[p] \in Ids
  BY <1>1, <1>2, <1>3, ResolvedIds
<1>5. ASSUME NEW i \in Ids
      PROVE  \/ \E q \in DOMAIN listing : id[q] = i /\ registry'[i].path = q
             \/ (\A q \in DOMAIN listing : id[q] # i) /\ registry'[i] = registry[i]
  BY <1>1, <1>3, <1>4, RecordedAt
<1>6. registry'[id[p]].path = p
  BY <1>1, <1>4, <1>5
<1>7. ASSUME NEW i \in Ids, i # id[p]
      PROVE  registry'[i] = registry[i]
  BY <1>1, <1>5, <1>7
<1>8. ASSUME registry[id[p]].path \notin {p, None}
      PROVE  registry[id[p]].path \in allowed
  <2>1. Registered(id[p]) /\ Recorded(id, listing)[id[p]].path # registry[id[p]].path
    BY <1>3, <1>6, <1>8 DEF Registered
  <2>2. QED
    BY <1>1, <1>2, <1>3, <1>4, <2>1, RecordedLeaves
<1>9. QED
  BY <1>4, <1>6, <1>7, <1>8 DEF Takes

\* What a candidate that is placed leaves of the draft.
IsPlaced(new, draft, c, i) ==
    /\ new \in Draft
    /\ new.row = [draft.row EXCEPT ![i] = ActiveRow(c.path, c.content)]
    /\ new.put = [draft.put EXCEPT ![i] = c.path]
    /\ new.drop = draft.drop
    /\ new.candidates = draft.candidates \ {c}
    /\ new.left = draft.left
    /\ new.ok => Distinct(new.row)

LEMMA PlacedRest ==
    ASSUME NEW draft \in Draft, NEW c \in draft.candidates, NEW i \in Ids, NEW ok \in BOOLEAN
    PROVE  IsPlaced(Placed(draft, c, i, ok), draft, c, i)
<1>1. Placed(draft, c, i, ok).ok => Distinct(Placed(draft, c, i, ok).row)
  BY DEF Placed, Acceptable, Distinct
<1>2. QED
  BY <1>1, PlacedShape DEF IsPlaced, Placed

\* A candidate that is placed: the row, its entry and its identity agree.
LEMMA PlacedSearch ==
    ASSUME BaseInv, SearchInv, scan.at = "resolved", scan.draft.ok,
           NEW c \in scan.draft.candidates, NEW i \in Ids, NEW ok \in BOOLEAN,
           scan' = [scan EXCEPT !.draft = Placed(scan.draft, c, i, ok)],
           registry'[i].path = c.path,
           \A j \in Ids : j # i => registry'[j] = registry[j],
           UNCHANGED <<row, fts, dirty, candidates, todo, rebuild, overlap, mixed>>
    PROVE  SearchInv'
<1>1. scan.draft \in Draft
  BY ScanShape DEF BaseInv
<1>2. PICK draft : draft = Placed(scan.draft, c, i, ok)
  OBVIOUS
<1>3. /\ draft \in Draft
      /\ draft.row = [scan.draft.row EXCEPT ![i] = ActiveRow(c.path, c.content)]
      /\ draft.put = [scan.draft.put EXCEPT ![i] = c.path]
      /\ draft.drop = scan.draft.drop
      /\ draft.candidates \subseteq scan.draft.candidates
      /\ draft.ok => Distinct(draft.row)
  <2>1. IsPlaced(draft, scan.draft, c, i)
    BY <1>1, <1>2, PlacedRest
  <2>2. QED
    BY <2>1 DEF IsPlaced
<1>4. scan.draft.row \in [Ids -> Row] /\ scan.draft.put \in [Ids -> Paths \cup {None}]
  BY <1>1 DEF Draft
<1>5. ASSUME NEW j \in Ids, j # i
      PROVE  /\ registry'[j].path = registry[j].path /\ draft.row[j] = scan.draft.row[j]
             /\ draft.put[j] = scan.draft.put[j]
  BY <1>3, <1>4, <1>5
<1>6. Drafts(draft, i)'
  <2>1. draft.row[i] = ActiveRow(c.path, c.content) /\ draft.put[i] = c.path
    BY <1>3, <1>4
  <2>2. draft.row[i].status = "active" /\ draft.row[i].path = c.path
    BY <2>1 DEF ActiveRow
  <2>3. QED
    BY <2>1, <2>2 DEF Drafts, Shown, TornFrom
<1>7. \A j \in Ids \ mixed :
        IF registry'[j].path = registry[j].path /\ draft.row[j] = scan.draft.row[j]
              /\ draft.put[j] = scan.draft.put[j]
        THEN scan.draft.ok
        ELSE Drafts(draft, j)'
  BY <1>5, <1>6
<1>8. QED
  BY <1>2, <1>3, <1>7, SettledSearch

\* A candidate that is closed while another identity takes its path.
LEMMA ClosedSearch ==
    ASSUME BaseInv, SearchInv, scan.at = "resolved", scan.draft.ok,
           NEW c \in scan.draft.candidates, NEW i \in Ids,
           scan' = [scan EXCEPT !.draft = Closed(scan.draft, c)],
           registry'[i].path = c.path,
           \A j \in Ids : j # i => registry'[j] = registry[j],
           i # c.id,
           registry[i].path \in {c.path, None, scan.draft.row[c.id].path},
           UNCHANGED <<row, fts, dirty, candidates, todo, rebuild, overlap, mixed>>
    PROVE  SearchInv'
<1>1. scan.draft \in Draft
  BY ScanShape DEF BaseInv
<1>2. PICK draft : draft = Closed(scan.draft, c)
  OBVIOUS
<1>3. /\ draft \in Draft
      /\ draft.row = scan.draft.row /\ draft.put = scan.draft.put
      /\ draft.drop = scan.draft.drop /\ draft.ok = scan.draft.ok
      /\ draft.candidates \subseteq scan.draft.candidates
  <2>1. draft.candidates = scan.draft.candidates \ {c}
    BY <1>1, <1>2, ClosedShape
  <2>2. QED
    BY <1>1, <1>2, <2>1, ClosedShape
<1>4. Distinct(scan.draft.row)
  BY DEF SearchInv, RowsDistinct
<1>5. /\ c.id \in Ids /\ scan # NoScan
      /\ scan'.scope = scan.scope /\ scan'.entries = scan.entries
  <2>1. scan \in [at: {"resolved"}, scope: Scopes, entries: Listings, draft: Draft]
    BY ScanShape DEF BaseInv
  <2>2. QED
    BY <2>1 DEF Draft, Candidate, NoScan
<1>6. ASSUME i \notin mixed, registry[i].path # c.path
      PROVE  Drafts(draft, i)'
  <2>1. CASE scan.draft.row[i].status = "none"
    BY <1>3, <2>1 DEF Drafts, TornFrom
  <2>2. CASE scan.draft.row[i].status # "none"
    <3>1. registry[i].path # None
      BY <2>2 DEF BaseInv, DraftedIsRegistered, Registered
    <3>2. registry[i].path = scan.draft.row[c.id].path
      BY <1>6, <3>1
    <3>3. TornFrom(scan.draft.row, i)
      BY <1>4, <1>5, <2>2, <3>1, <3>2 DEF TornFrom, Distinct
    <3>4. /\ ScopeOf[scan.draft.row[i].path] = scan.scope
          /\ scan.draft.row[i].path \notin DOMAIN scan.entries
      BY <1>6, <3>3 DEF SearchInv, DraftFollows, Drafts
    <3>5. scan.draft.row[i].path # c.path
      BY <1>5, <3>4 DEF SearchInv, CandidatesAreDone
    <3>6. QED
      BY <1>3, <1>5, <2>2, <3>4, <3>5 DEF Drafts, TornFrom
  <2>3. QED
    BY <2>1, <2>2
<1>7. \A j \in Ids \ mixed :
        IF registry'[j].path = registry[j].path /\ draft.row[j] = scan.draft.row[j]
              /\ draft.put[j] = scan.draft.put[j]
        THEN scan.draft.ok
        ELSE Drafts(draft, j)'
  BY <1>3, <1>6
<1>8. QED
  BY <1>2, <1>3, <1>4, <1>7, SettledSearch

LEMMA ScanSettleSearch ==
    ASSUME BaseInv, SearchInv, ScanSettle
    PROVE  SearchInv'
<1>1. /\ scan.at = "resolved" /\ scan.draft \in Draft /\ scan.draft.ok
      /\ UNCHANGED <<row, fts, dirty, candidates, todo, rebuild, overlap, mixed>>
  BY ScanShape DEF BaseInv, ScanSettle, index
<1>2. PICK c \in Due(scan.draft) : CancelCandidate(c) \/ ResolveMove(c) \/ ResolveCopy(c)
  BY DEF ScanSettle
<1>3. c \in scan.draft.candidates
  BY DEF Due
<1>4. c.path \in Paths /\ c.content \in Contents /\ c.id \in Ids
  BY <1>1, <1>3 DEF Draft, Candidate
<1>5. CASE CancelCandidate(c)
  <2>1. scan' = [scan EXCEPT !.draft = Closed(scan.draft, c)] /\ registry' = registry
    BY <1>5 DEF CancelCandidate
  <2>2. PICK draft : draft = Closed(scan.draft, c)
    OBVIOUS
  <2>3. /\ draft \in Draft
        /\ draft.row = scan.draft.row /\ draft.put = scan.draft.put
        /\ draft.drop = scan.draft.drop /\ draft.ok = scan.draft.ok
        /\ draft.candidates \subseteq scan.draft.candidates
    <3>1. draft.candidates = scan.draft.candidates \ {c}
      BY <1>1, <1>3, <2>2, ClosedShape
    <3>2. QED
      BY <1>1, <1>3, <2>2, <3>1, ClosedShape
  <2>4. Distinct(scan.draft.row)
    BY <1>1 DEF SearchInv, RowsDistinct
  <2>5. QED
    BY <1>1, <2>1, <2>2, <2>3, <2>4, SettledSearch
<1>6. CASE ResolveMove(c)
  <2>1. PICK id \in Resolutions([p \in {c.path} |-> c.content], {c.path},
                                {scan.draft.row[c.id].path}, FALSE) :
          /\ registry' = Recorded(id, [p \in {c.path} |-> c.content])
          /\ scan' = [scan EXCEPT !.draft = IF id[c.path] = c.id
                                            THEN Placed(scan.draft, c, c.id, TRUE)
                                            ELSE Closed(scan.draft, c)]
    BY <1>6 DEF ResolveMove
  <2>2. PICK i : i = id[c.path]
    OBVIOUS
  <2>3. /\ i \in Ids /\ registry'[i].path = c.path
        /\ \A j \in Ids : j # i => registry'[j] = registry[j]
        /\ registry[i].path \in {c.path, None, scan.draft.row[c.id].path}
    <3>1. Takes(id[c.path], c.path, {scan.draft.row[c.id].path})
      BY <1>4, <2>1, CandidateRecorded
    <3>2. QED
      BY <2>2, <3>1 DEF Takes
  <2>4. CASE i = c.id
    <3>1. scan' = [scan EXCEPT !.draft = Placed(scan.draft, c, i, TRUE)]
      BY <2>1, <2>2, <2>4
    <3>2. QED
      BY <1>1, <1>3, <2>3, <3>1, PlacedSearch
  <2>5. CASE i # c.id
    <3>1. scan' = [scan EXCEPT !.draft = Closed(scan.draft, c)]
      BY <2>1, <2>2, <2>5
    <3>2. QED
      BY <1>1, <1>3, <2>3, <2>5, <3>1, ClosedSearch
  <2>6. QED
    BY <2>4, <2>5
<1>7. CASE ResolveCopy(c)
  <2>1. PICK id \in Resolutions([p \in {c.path} |-> c.content],
                                {scan.draft.row[c.id].path, c.path}, {}, FALSE) :
          /\ registry' = Recorded(id, [p \in {c.path} |-> c.content])
          /\ scan' = [scan EXCEPT !.draft =
               Placed(scan.draft, c, id[c.path], scan.draft.row[id[c.path]].status = "none")]
    BY <1>7 DEF ResolveCopy
  <2>2. PICK i, ok : i = id[c.path] /\ ok = (scan.draft.row[id[c.path]].status = "none")
    OBVIOUS
  <2>3. /\ i \in Ids /\ registry'[i].path = c.path
        /\ \A j \in Ids : j # i => registry'[j] = registry[j]
    <3>1. Takes(id[c.path], c.path, {})
      BY <1>4, <2>1, CandidateRecorded
    <3>2. QED
      BY <2>2, <3>1 DEF Takes
  <2>4. ok \in BOOLEAN /\ scan' = [scan EXCEPT !.draft = Placed(scan.draft, c, i, ok)]
    BY <2>1, <2>2
  <2>5. QED
    BY <1>1, <1>3, <2>3, <2>4, PlacedSearch
<1>8. QED
  BY <1>2, <1>5, <1>6, <1>7

-----------------------------------------------------------------------------
(* The search table: the commit *)

LEMMA ScanCommitSearch ==
    ASSUME BaseInv, SearchInv, ScanCommit
    PROVE  SearchInv'
<1>1. PICK draft : draft = scan.draft
  OBVIOUS
<1>2. /\ scan.at = "resolved" /\ draft \in Draft /\ draft.ok /\ scan # NoScan
      /\ row' = draft.row /\ registry' = registry /\ fts' = Applied(draft)
      /\ candidates' = draft.candidates /\ todo' = todo \ {scan.scope}
      /\ scan' = NoScan /\ scan'.at = "idle"
      /\ dirty' = dirty /\ rebuild' = rebuild
      /\ overlap' = (overlap \/ rebuild.at = "read")
      /\ mixed' = {i \in Ids : TornFrom(draft.row, i) \/ (i \in mixed /\ ~Shown(draft, i))}
  BY <1>1, ScanShape DEF BaseInv, ScanCommit, NoScan
<1>3. RowsDistinct'
  BY <1>1, <1>2 DEF SearchInv, RowsDistinct, Distinct
<1>4. CandidatesAreDone'
  <2>1. ASSUME NEW c \in draft.candidates
        PROVE  ScopeOf[c.path] \notin todo'
    BY <1>1, <1>2, <2>1 DEF SearchInv, CandidatesAreDone
  <2>2. QED
    BY <1>2, <2>1 DEF CandidatesAreDone
<1>5. TornIsMixed' /\ DraftFollows'
  BY <1>2 DEF TornIsMixed, DraftFollows, Torn, TornFrom
<1>6. ScanInv'
  BY <1>3, <1>4, <1>5 DEF ScanInv
<1>7. ASSUME Follows(fts)
      PROVE  Follows(fts)'
  <2>1. ASSUME NEW i \in Ids \ mixed'
        PROVE  /\ draft.row[i].status = "active" => fts'[i] = draft.row[i].path
               /\ draft.row[i].status = "missing" => fts'[i] = None
    <3>1. /\ ~TornFrom(draft.row, i)
          /\ fts'[i] = IF draft.put[i] # None THEN draft.put[i]
                       ELSE IF i \in draft.drop THEN None ELSE fts[i]
      BY <1>2, <2>1 DEF Applied
    <3>2. draft.row[i].status # "none" => draft.row[i].path # None
      BY <1>1, <1>2, <3>1 DEF TornFrom, BaseInv, DraftedIsRegistered, Registered
    <3>3. CASE Shown(draft, i)
      BY <3>1, <3>2, <3>3 DEF Shown
    <3>4. CASE ~Shown(draft, i)
      <4>1. i \notin mixed
        BY <1>2, <2>1, <3>4
      <4>2. \/ draft.row[i].status \notin {"active", "missing"}
            \/ draft.put[i] = None /\ i \in draft.drop /\ draft.row[i].status = "missing"
            \/ draft.put[i] = None /\ i \notin draft.drop /\ draft.row[i] = row[i]
        BY <1>1, <1>2, <2>1, <3>1, <3>4, <4>1 DEF SearchInv, DraftFollows, Drafts
      <4>3. /\ row[i].status = "active" => fts[i] = row[i].path
            /\ row[i].status = "missing" => fts[i] = None
        BY <1>7, <2>1, <4>1 DEF Follows, Active
      <4>4. QED
        BY <3>1, <4>2, <4>3
    <3>5. QED
      BY <3>3, <3>4
  <2>2. QED
    BY <1>2, <2>1 DEF Follows, Active
<1>8. TableInv'
  BY <1>2, <1>7 DEF SearchInv, TableInv, RebuildIsMarked, SearchFollowsIndex
<1>9. QED
  BY <1>6, <1>8, SearchParts

LEMMA NextSearch ==
    ASSUME BaseInv, SearchInv, [Next]_vars
    PROVE  SearchInv'
<1>1. CASE \/ \E p \in Paths, c \in Contents : WriteFile(p, c)
           \/ \E p \in Paths : RemoveFile(p)
           \/ \E p, q \in Paths : MoveFile(p, q)
  BY <1>1, FilesSearch
<1>2. ASSUME NEW S \in Scopes, ScanUnchanged(S) \/ ScanList(S)
      PROVE  SearchInv'
  BY <1>2, ScanUnchangedSearch, ScanListSearch
<1>3. CASE ScanResolve
  BY <1>3, ScanResolveSearch
<1>4. CASE ScanSettle
  BY <1>4, ScanSettleSearch
<1>5. CASE ScanCommit
  BY <1>5, ScanCommitSearch
<1>6. CASE ScanFail
  BY <1>6, ScanFailSearch
<1>7. CASE Crash
  BY <1>7, CrashSearch
<1>8. CASE NewCycle
  BY <1>8, NewCycleSearch
<1>9. CASE RebuildRead \/ RebuildWrite \/ RebuildClear
  BY <1>9, RebuildSearch
<1>10. CASE UNCHANGED vars
  <2>1. /\ UNCHANGED <<registry, row, fts, dirty, candidates, todo, scan, rebuild, overlap, mixed>>
    BY <1>10 DEF vars
  <2>2. QED
    BY <2>1, SearchParts, TableFrame, ScanFrame
<1>11. QED
  BY <1>1, <1>2, <1>3, <1>4, <1>5, <1>6, <1>7, <1>8, <1>9, <1>10 DEF Next

-----------------------------------------------------------------------------
(* The files: steps that draft nothing *)

StateDisk == ProperRows /\ CandidatesAreListed /\ VerifiedIsShown
DraftDisk == DraftedCandidates /\ DraftedRows /\ RefusalHasCause

LEMMA DiskParts ==
    /\ DiskInv <=> VerifiedIsListing /\ StateDisk /\ DraftDisk
    /\ DiskInv' <=> VerifiedIsListing' /\ StateDisk' /\ DraftDisk'
  BY DEF DiskInv, StateDisk, DraftDisk

LEMMA InitDisk == Init => DiskInv
<1> SUFFICES ASSUME Init PROVE DiskInv
  OBVIOUS
<1>1. /\ scan.at = "idle" /\ candidates = {} /\ quiet = FALSE
      /\ verified = [S \in Scopes |-> None]
  BY DEF Init, NoScan
<1>2. ASSUME NEW i \in Ids PROVE Proper(row[i])
  <2>1. row[i] = IF Registered(i) THEN ActiveRow(registry[i].path, registry[i].content)
                 ELSE NoRow
    BY DEF Init
  <2>2. QED
    BY <2>1 DEF ActiveRow, NoRow, Proper, Registered
<1>3. QED
  BY <1>1, <1>2 DEF DiskInv, VerifiedIsListing, ProperRows, CandidatesAreListed,
     VerifiedIsShown, DraftedCandidates, DraftedRows, RefusalHasCause

\* Files and histories of other things apart, nothing changes.
LEMMA DiskFrame ==
    ASSUME StateDisk, DraftDisk,
           UNCHANGED <<registry, row, candidates, verified, cycle, todo, scan, mixed, undecided>>
    PROVE  StateDisk' /\ DraftDisk'
<1>1. ProperRows'
  BY DEF StateDisk, ProperRows, Proper
<1>2. CandidatesAreListed'
  BY DEF StateDisk, CandidatesAreListed
<1>3. VerifiedIsShown'
  BY DEF StateDisk, VerifiedIsShown, Shows, Waits, InScope, Matches
<1>4. DraftedCandidates'
  BY DEF DraftDisk, DraftedCandidates, Shows, Shown
<1>5. DraftedRows'
  BY DEF DraftDisk, DraftedRows, Shows, Shown, InScope, Matches, TornFrom
<1>6. RefusalHasCause'
  BY DEF DraftDisk, RefusalHasCause
<1>7. QED
  BY <1>1, <1>2, <1>3, <1>4, <1>5, <1>6 DEF StateDisk, DraftDisk

LEMMA NoDraftDisk ==
    ASSUME scan'.at # "resolved"
    PROVE  DraftDisk'
  BY DEF DraftDisk, DraftedCandidates, DraftedRows, RefusalHasCause

LEMMA FilesDisk ==
    ASSUME DiskInv,
           \/ \E p \in Paths, c \in Contents : WriteFile(p, c)
           \/ \E p \in Paths : RemoveFile(p)
           \/ \E p, q \in Paths : MoveFile(p, q)
    PROVE  DiskInv'
<1>1. /\ UNCHANGED <<registry, row, candidates, verified, cycle, todo, scan, mixed, undecided>>
      /\ quiet' = FALSE
  BY DEF WriteFile, RemoveFile, MoveFile, Changed, index
<1>2. VerifiedIsListing'
  BY <1>1 DEF VerifiedIsListing
<1>3. QED
  BY <1>1, <1>2, DiskParts, DiskFrame

LEMMA ListingFrame ==
    ASSUME disk' = disk
    PROVE  \A S : Listing(S)' = Listing(S)
  BY DEF Listing, Files

LEMMA RebuildDisk ==
    ASSUME DiskInv, RebuildRead \/ RebuildWrite \/ RebuildClear
    PROVE  DiskInv'
<1>1. UNCHANGED <<disk, quiet, registry, row, candidates, verified, cycle, todo, scan, mixed,
                  undecided, givenUp>>
  BY DEF RebuildRead, RebuildWrite, RebuildClear, files, index
<1>2. VerifiedIsListing'
  BY <1>1, ListingFrame DEF DiskInv, VerifiedIsListing
<1>3. QED
  BY <1>1, <1>2, DiskParts, DiskFrame

\* A folder is done with, and no candidate waits for it that is still decided.
LEMMA DoneShown ==
    ASSUME VerifiedIsShown, NEW S,
           UNCHANGED <<row, candidates, verified>>, mixed \subseteq mixed',
           todo' = todo \/ todo' = todo \ {S}, undecided \subseteq undecided',
           todo' # todo => \A c \in candidates : InScope(row[c.id], S) => c.path \in undecided'
    PROVE  VerifiedIsShown'
<1>1. ASSUME NEW p, Waits(p), p \notin undecided'
      PROVE  Waits(p)'
  <2>1. PICK c \in candidates, T \in todo : c.path = p /\ InScope(row[c.id], T)
    BY <1>1 DEF Waits
  <2>2. T \in todo'
    BY <1>1, <2>1
  <2>3. QED
    BY <2>1, <2>2 DEF Waits, InScope
<1>2. ASSUME NEW T \in Scopes, verified'[T] # None
      PROVE  /\ \A p \in DOMAIN verified'[T] : ScopeOf[p] = T
             /\ \A p \in DOMAIN verified'[T] \ undecided' :
                    Shows(row', p, verified'[T][p]) \/ Waits(p)'
             /\ \A i \in Ids \ mixed' : row'[i].status # "none" /\ ScopeOf[row'[i].path] = T =>
                    Matches(row'[i], verified'[T])
  <2>1. /\ \A p \in DOMAIN verified[T] : ScopeOf[p] = T
        /\ \A p \in DOMAIN verified[T] \ undecided : Shows(row, p, verified[T][p]) \/ Waits(p)
        /\ \A i \in Ids \ mixed : row[i].status # "none" /\ ScopeOf[row[i].path] = T =>
               Matches(row[i], verified[T])
    BY <1>2 DEF VerifiedIsShown
  <2>2. QED
    BY <1>1, <2>1
<1>3. QED
  BY <1>2 DEF VerifiedIsShown, Shows, Matches

LEMMA ScanUnchangedDisk ==
    ASSUME BaseInv, DiskInv, NEW S \in Scopes, ScanUnchanged(S)
    PROVE  DiskInv'
<1>1. /\ UNCHANGED <<disk, quiet, registry, row, candidates, verified, cycle, scan, mixed,
                     undecided, givenUp>>
      /\ todo' = todo \ {S} /\ scan = NoScan /\ scan.at = "idle" /\ verified[S] = Listing(S)
      /\ \A c \in candidates : ~InScope(row[c.id], S)
  BY DEF ScanUnchanged, files, index, NoScan, Unsettled
<1>2. VerifiedIsListing'
  BY <1>1, ListingFrame DEF DiskInv, VerifiedIsListing
<1>3. ProperRows' /\ CandidatesAreListed'
  BY <1>1 DEF DiskInv, ProperRows, Proper, CandidatesAreListed
<1>4. VerifiedIsShown'
  BY <1>1, DoneShown DEF DiskInv
<1>5. QED
  BY <1>1, <1>2, <1>3, <1>4, DiskParts, NoDraftDisk DEF StateDisk

LEMMA ScanListDisk ==
    ASSUME BaseInv, DiskInv, NEW S \in Scopes, ScanList(S)
    PROVE  DiskInv'
<1>1. /\ UNCHANGED <<disk, quiet, registry, row, candidates, verified, cycle, todo, mixed,
                     undecided, givenUp>>
      /\ scan'.at = "listed" /\ scan'.scope = S /\ scan'.entries = Listing(S)
  BY DEF ScanList, files, index
<1>2. VerifiedIsListing'
  BY <1>1, ListingFrame DEF DiskInv, VerifiedIsListing
<1>3. ProperRows' /\ CandidatesAreListed'
  BY <1>1 DEF DiskInv, ProperRows, Proper, CandidatesAreListed
<1>4. VerifiedIsShown'
  BY <1>1, DoneShown DEF DiskInv
<1>5. QED
  BY <1>1, <1>2, <1>3, <1>4, DiskParts, NoDraftDisk DEF StateDisk

LEMMA ScanFailDisk ==
    ASSUME BaseInv, DiskInv, ScanFail
    PROVE  DiskInv'
<1>1. /\ UNCHANGED <<disk, registry, row, candidates, verified, cycle>>
      /\ scan' = NoScan /\ scan'.at = "idle" /\ mixed \subseteq mixed'
      /\ quiet' => quiet
  <2>1. UNCHANGED <<disk, registry, index, cycle>> /\ scan' = NoScan
        /\ mixed' = mixed \cup {i \in Ids : Torn(i)}
    BY DEF ScanFail
  <2>2. quiet' = FALSE \/ quiet' = quiet
    BY DEF ScanFail
  <2> QED
    BY <2>1, <2>2 DEF index, NoScan
<1>2. \/ UNCHANGED <<todo, undecided, givenUp>>
      \/ /\ todo' = todo \ {scan.scope} /\ givenUp' = givenUp \cup {scan.scope}
         /\ undecided \subseteq undecided'
         /\ \A c \in candidates : InScope(row[c.id], scan.scope) => c.path \in undecided'
  BY DEF ScanFail
<1>3. VerifiedIsListing'
  BY <1>1, <1>2, ListingFrame DEF DiskInv, VerifiedIsListing
<1>4. ProperRows' /\ CandidatesAreListed'
  BY <1>1 DEF DiskInv, ProperRows, Proper, CandidatesAreListed
<1>5. VerifiedIsShown'
  BY <1>1, <1>2, DoneShown DEF DiskInv
<1>6. QED
  BY <1>1, <1>3, <1>4, <1>5, DiskParts, NoDraftDisk DEF StateDisk

LEMMA CrashDisk ==
    ASSUME BaseInv, DiskInv, Crash
    PROVE  DiskInv'
<1>1. /\ UNCHANGED <<row, candidates, verified, todo, undecided>>
      /\ scan' = NoScan /\ scan'.at = "idle" /\ mixed \subseteq mixed' /\ quiet' = FALSE
  BY DEF Crash, NoScan
<1>2. VerifiedIsListing'
  BY <1>1 DEF VerifiedIsListing
<1>3. ProperRows' /\ CandidatesAreListed'
  BY <1>1 DEF DiskInv, ProperRows, Proper, CandidatesAreListed
<1>4. VerifiedIsShown'
  BY <1>1, DoneShown DEF DiskInv
<1>5. QED
  BY <1>1, <1>2, <1>3, <1>4, DiskParts, NoDraftDisk DEF StateDisk

LEMMA NewCycleDisk ==
    ASSUME BaseInv, DiskInv, NewCycle
    PROVE  DiskInv'
<1>1. /\ UNCHANGED <<row, verified, scan, mixed, undecided>>
      /\ scan = NoScan /\ scan.at = "idle" /\ candidates' = {} /\ todo = {} /\ todo' = Scopes
  BY DEF NewCycle, NoScan
<1>2. VerifiedIsListing'
  BY <1>1 DEF VerifiedIsListing
<1>3. ProperRows' /\ CandidatesAreListed'
  BY <1>1 DEF DiskInv, ProperRows, Proper, CandidatesAreListed
<1>4. VerifiedIsShown'
  <2>1. \A p : ~Waits(p)
    BY <1>1 DEF Waits
  <2>2. QED
    BY <1>1, <2>1 DEF DiskInv, VerifiedIsShown, Shows, Matches
<1>5. QED
  BY <1>1, <1>2, <1>3, <1>4, DiskParts, NoDraftDisk DEF StateDisk

-----------------------------------------------------------------------------
(* The files: the resolution of a listing *)

Resolving(listing, allowed, id, first, last, draft) ==
    /\ BaseInv /\ SearchInv /\ DiskInv
    /\ scan.at = "listed" /\ listing \in Listings
    /\ ResolvedBy(listing, allowed, id, first, last, draft)

\* Which row an entry is written to, and from which entry a row is written.
Placing(listing, id, last) ==
    /\ \A p \in DOMAIN listing : id[p] # None =>
         LET i == RowFor(scan.scope, id, p)
         IN  /\ i \in DOMAIN last
             /\ \/ i \in RowsOf(scan.scope) /\ row[i].path = p
                \/ i = id[p] /\ \A k \in RowsOf(scan.scope) : row[k].path # p
    /\ \A p \in DOMAIN listing, i \in RowsOf(scan.scope) :
         id[p] # None /\ row[i].path = p => RowFor(scan.scope, id, p) = i
    /\ \A i \in DOMAIN last : /\ last[i] \in DOMAIN listing /\ id[last[i]] # None
                              /\ RowFor(scan.scope, id, last[i]) = i

LEMMA ResolvePlacing ==
    ASSUME NEW listing, NEW allowed, NEW id, NEW first, NEW last, NEW draft,
           Resolving(listing, allowed, id, first, last, draft)
    PROVE  Placing(listing, id, last)
<1> PICK S : S = scan.scope
  OBVIOUS
<1>1. /\ DOMAIN listing \subseteq Paths /\ None \notin Paths
      /\ Distinct(row)
  BY ListingShape, ResourceAssumption DEF Resolving, SearchInv, RowsDistinct
<1>2. /\ Writes(S, listing, id, last)
      /\ DOMAIN last = {RowFor(S, id, p) : p \in {q \in DOMAIN listing : id[q] # None}}
  BY DEF Resolving, ResolvedBy
<1>3. ASSUME NEW p \in DOMAIN listing, id[p] # None
      PROVE  /\ RowFor(S, id, p) \in DOMAIN last
             /\ \/ RowFor(S, id, p) \in RowsOf(S) /\ row[RowFor(S, id, p)].path = p
                \/ RowFor(S, id, p) = id[p] /\ \A k \in RowsOf(S) : row[k].path # p
  <2>1. CASE {k \in RowsOf(S) : row[k].path = p} = {}
    <3>1. RowFor(S, id, p) = id[p]
      BY <2>1 DEF RowFor
    <3>2. QED
      BY <1>2, <1>3, <2>1, <3>1
  <2>2. CASE {k \in RowsOf(S) : row[k].path = p} # {}
    <3>1. RowFor(S, id, p) \in {k \in RowsOf(S) : row[k].path = p}
      BY <2>2 DEF RowFor
    <3>2. QED
      BY <1>2, <1>3, <3>1
  <2>3. QED
    BY <2>1, <2>2
<1>4. ASSUME NEW p \in DOMAIN listing, id[p] # None, NEW i \in RowsOf(S), row[i].path = p
      PROVE  RowFor(S, id, p) = i
  <2>1. RowFor(S, id, p) \in RowsOf(S) /\ row[RowFor(S, id, p)].path = p
    BY <1>3, <1>4
  <2>2. RowFor(S, id, p) \in Ids /\ i \in Ids /\ p # None
    BY <1>1, <2>1 DEF RowsOf
  <2>3. QED
    BY <1>1, <1>4, <2>1, <2>2 DEF Distinct
<1>5. QED
  BY <1>2, <1>3, <1>4 DEF Placing, Writes

\* The rest of a draft: its candidates, what it leaves, whether it is accepted.
DeferredAt(listing, id, p) ==
    [path |-> p, content |-> listing[p],
     id |-> CHOOSE i \in Unseen(listing[p], DOMAIN listing) :
                i \notin {id[q] : q \in DOMAIN listing}]
Rest(listing, id, last, draft) ==
    /\ draft.ok = Acceptable(draft.row, DOMAIN last \ RowsOf(scan.scope))
    /\ candidates \subseteq draft.candidates
    /\ \A c \in draft.candidates :
         \/ c \in candidates
         \/ \E p \in DOMAIN listing : id[p] = None /\ c = DeferredAt(listing, id, p)
    /\ \A p \in DOMAIN listing : id[p] = None => DeferredAt(listing, id, p) \in draft.candidates
    /\ \A p \in DOMAIN listing :
         LET i == RowFor(scan.scope, id, p)
         IN  id[p] # None /\ last[i] # p /\ Torn(i) => p \in draft.left

LEMMA ResolveRest ==
    ASSUME NEW listing, NEW allowed, NEW id, NEW first, NEW last, NEW draft,
           Resolving(listing, allowed, id, first, last, draft)
    PROVE  Rest(listing, id, last, draft)
<1> DEFINE kept == {p \in DOMAIN listing : id[p] # None}
<1>1. draft = Drafted(scan.scope, listing, id, first, last)
  BY DEF Resolving, ResolvedBy
<1>2. draft.ok = Acceptable(draft.row, DOMAIN last \ RowsOf(scan.scope))
  BY <1>1 DEF Drafted
<1>3. draft.candidates = candidates \cup {DeferredAt(listing, id, p) : p \in DOMAIN listing \ kept}
  BY <1>1 DEF Drafted, DeferredAt
<1>4. draft.left = {p \in kept : LET i == RowFor(scan.scope, id, p) IN last[i] # p /\ Torn(i)}
  BY <1>1 DEF Drafted
<1>5. QED
  BY <1>2, <1>3, <1>4 DEF Rest

\* The drafted rows, as Told.
Rows(listing, id, last, draft, i) ==
    /\ i \in DOMAIN last => draft.row[i] = ActiveRow(last[i], listing[last[i]])
    /\ i \notin DOMAIN last =>
         \/ draft.row[i] = row[i]
            /\ (i \in Gone(scan.scope, listing) => \E p \in DOMAIN listing : id[p] = i)
         \/ draft.row[i] = Observed(row[i]) /\ i \in Gone(scan.scope, listing)
    /\ \/ /\ draft.put[i] \in DOMAIN listing /\ id[draft.put[i]] = i
          /\ id[draft.put[i]] # None
       \/ draft.put[i] = None

LEMMA ResolveRows ==
    ASSUME NEW listing, NEW allowed, NEW id, NEW first, NEW last, NEW draft,
           Resolving(listing, allowed, id, first, last, draft), NEW i \in Ids
    PROVE  Rows(listing, id, last, draft, i)
<1>1. draft = Drafted(scan.scope, listing, id, first, last)
  BY DEF Resolving, ResolvedBy
<1>2. Told(listing, id, last, Rewritten(scan.scope, listing, id, first),
           Gone(scan.scope, listing) \ {id[p] : p \in DOMAIN listing},
           draft, i)
  BY <1>1, DraftedFor
<1>3. \A p \in Rewritten(scan.scope, listing, id, first) : p \in DOMAIN listing /\ id[p] # None
  BY DEF Rewritten
<1>4. QED
  BY <1>2, <1>3 DEF Told, Rows

\* The identities and the paths they are recorded at.
Recorded1(listing, id) ==
    /\ id \in [DOMAIN listing -> Ids \cup {None}]
    /\ Resolved(listing, id)
    /\ \A i \in Ids : \/ \E p \in DOMAIN listing : id[p] = i /\ registry'[i].path = p
                      \/ (\A p \in DOMAIN listing : id[p] # i) /\ registry'[i] = registry[i]

LEMMA ResolveRecorded ==
    ASSUME NEW listing, NEW allowed, NEW id, NEW first, NEW last, NEW draft,
           Resolving(listing, allowed, id, first, last, draft)
    PROVE  Recorded1(listing, id)
<1>1. /\ listing \in Listings /\ OnePathPerIdentity
      /\ id \in Resolutions(listing, DOMAIN listing, allowed, TRUE)
      /\ registry' = Recorded(id, listing)
  BY DEF Resolving, ResolvedBy, BaseInv
<1>2. id \in [DOMAIN listing -> Ids \cup {None}]
  BY <1>1 DEF Resolutions
<1>3. Resolved(listing, id)
  BY <1>1, ResolutionIs
<1>4. ASSUME NEW i \in Ids
      PROVE  \/ \E p \in DOMAIN listing : id[p] = i /\ registry'[i].path = p
             \/ (\A p \in DOMAIN listing : id[p] # i) /\ registry'[i] = registry[i]
  BY <1>1, <1>2, RecordedAt
<1>5. QED
  BY <1>2, <1>3, <1>4 DEF Recorded1

\* Two entries share a row only if it is torn.
LEMMA TwoWriters ==
    ASSUME NEW listing, NEW id, NEW last, Placing(listing, id, last), Recorded1(listing, id),
           NEW p \in DOMAIN listing, id[p] # None,
           NEW i, i = RowFor(scan.scope, id, p), last[i] # p
    PROVE  Torn(i)
<1>1. PICK q : q = last[i]
  OBVIOUS
<1>2. q \in DOMAIN listing /\ id[q] # None /\ RowFor(scan.scope, id, q) = i /\ p # q
  BY <1>1 DEF Placing
<1>3. /\ \/ i \in RowsOf(scan.scope) /\ row[i].path = p
         \/ i = id[p] /\ \A k \in RowsOf(scan.scope) : row[k].path # p
      /\ \/ i \in RowsOf(scan.scope) /\ row[i].path = q
         \/ i = id[q] /\ \A k \in RowsOf(scan.scope) : row[k].path # q
  BY <1>2 DEF Placing
<1>4. /\ id[p] # id[q]
      /\ i \in RowsOf(scan.scope) => /\ i \in Ids /\ row[i].status # "none"
                                     /\ registry[i].path = p => id[p] = i
                                     /\ registry[i].path = q => id[q] = i
  BY <1>2 DEF Recorded1, Resolved, RowsOf, Indexed
<1>5. QED
  BY <1>2, <1>3, <1>4 DEF Torn, TornFrom

\* Every entry is shown by the draft, or deferred, or left.
LEMMA ResolveEntries ==
    ASSUME NEW listing, NEW allowed, NEW id, NEW first, NEW last, NEW draft,
           Resolving(listing, allowed, id, first, last, draft), NEW p \in DOMAIN listing
    PROVE  \/ p \in draft.left
           \/ \E c \in draft.candidates : c.path = p
           \/ Shows(draft.row, p, listing[p])
<1>1. /\ Placing(listing, id, last) /\ Rest(listing, id, last, draft)
      /\ Recorded1(listing, id)
  BY ResolvePlacing, ResolveRest, ResolveRecorded
<1>2. CASE id[p] = None
  <2>1. DeferredAt(listing, id, p) \in draft.candidates
    BY <1>1, <1>2 DEF Rest
  <2>2. DeferredAt(listing, id, p).path = p
    BY DEF DeferredAt
  <2>3. QED
    BY <2>1, <2>2
<1>3. CASE id[p] # None
  <2>1. PICK i : i = RowFor(scan.scope, id, p)
    OBVIOUS
  <2>2. i \in DOMAIN last /\ i \in Ids
    BY <1>1, <1>3, <2>1 DEF Placing, RowsOf, Recorded1
  <2>3. CASE last[i] = p
    <3>1. draft.row[i] = ActiveRow(p, listing[p])
      BY <2>2, <2>3, ResolveRows DEF Rows
    <3>2. QED
      BY <2>2, <3>1 DEF Shows
  <2>4. CASE last[i] # p
    <3>1. Torn(i)
      BY <1>1, <1>3, <2>1, <2>4, TwoWriters
    <3>2. QED
      BY <1>1, <1>3, <2>1, <2>4, <3>1 DEF Rest
  <2>5. QED
    BY <2>3, <2>4
<1>4. QED
  BY <1>2, <1>3

LEMMA ObservedMoves ==
    ASSUME TypeOK, NEW i \in Ids
    PROVE  /\ Observed(row[i]).path = row[i].path
           /\ row[i].seen # cycle => Observed(row[i]).status \in {"missing", "suspected"}
           /\ row[i].seen = cycle => Observed(row[i]) = row[i]
<1>1. row[i] \in Row
  BY DEF TypeOK
<1>2. QED
  BY <1>1 DEF Observed, Row

\* What the state before the resolution says of a row.
RowIs(i) ==
    /\ row[i] \in Row
    /\ row[i].status = "none" => row[i].path = None
    /\ row[i].status # "none" => row[i].path \in Paths
    /\ row[i].status = "active" => row[i].seen # cycle
    /\ i \notin mixed => row[i].status = "none" \/ registry[i].path = row[i].path
    /\ i \in RowsOf(scan.scope) <=> /\ row[i].status \in {"active", "suspected"}
                                    /\ row[i].path \in Paths
                                    /\ ScopeOf[row[i].path] = scan.scope

LEMMA ResolveBefore ==
    ASSUME NEW listing, NEW allowed, NEW id, NEW first, NEW last, NEW draft,
           Resolving(listing, allowed, id, first, last, draft), NEW i \in Ids
    PROVE  RowIs(i)
<1>1. /\ row[i] \in Row /\ Truthful(row[i]) /\ Proper(row[i]) /\ cycle # 0
  BY DEF Resolving, BaseInv, TypeOK, ObservedIsAway, DiskInv, ProperRows
<1>2. i \notin mixed => row[i].status = "none" \/ registry[i].path = row[i].path
  BY DEF Resolving, SearchInv, TornIsMixed, Torn, TornFrom
<1>3. row[i].path \in Paths \cup {None} /\ None \notin Paths
  BY <1>1, ResourceAssumption DEF Row
<1>4. row[i].status = "none" => row[i].path = None
  BY <1>1 DEF Truthful, NoRow
<1>5. QED
  BY <1>1, <1>2, <1>3, <1>4 DEF RowIs, Proper, RowsOf, Indexed, InScope

\* The listing is of its folder, which is still to do.
LEMMA ResolveListing ==
    ASSUME NEW listing, NEW allowed, NEW id, NEW first, NEW last, NEW draft,
           Resolving(listing, allowed, id, first, last, draft)
    PROVE  /\ DOMAIN listing \subseteq Paths /\ None \notin Paths /\ None \notin Ids
           /\ \A p \in DOMAIN listing : ScopeOf[p] = scan.scope
           /\ \A c \in candidates : c.path \in Paths /\ c.path \notin DOMAIN listing
           /\ Distinct(row) /\ TypeOK
<1>1. listing = scan.entries /\ scan # NoScan /\ TypeOK
  BY DEF Resolving, ResolvedBy, NoScan, BaseInv
<1>2. /\ \A p \in DOMAIN listing : ScopeOf[p] = scan.scope
      /\ scan.scope \in todo /\ \A c \in candidates : ScopeOf[c.path] \notin todo
  BY <1>1 DEF Resolving, SearchInv, CandidatesAreDone
<1>3. DOMAIN listing \subseteq Paths /\ None \notin Paths /\ None \notin Ids
  BY ListingShape, ResourceAssumption DEF Resolving
<1>4. \A c \in candidates : c.path \in Paths
  BY <1>1 DEF TypeOK, Candidate
<1>5. Distinct(row)
  BY DEF Resolving, SearchInv, RowsDistinct
<1>6. QED
  BY <1>1, <1>2, <1>3, <1>4, <1>5

\* Rows of other folders stay, and rows observed in this cycle keep their path.
LEMMA ResolveOthers ==
    ASSUME NEW listing, NEW allowed, NEW id, NEW first, NEW last, NEW draft,
           Resolving(listing, allowed, id, first, last, draft), NEW i \in Ids
    PROVE  /\ draft.ok /\ row[i].status # "none" /\ ~InScope(row[i], scan.scope) =>
                  draft.row[i] = row[i]
           /\ draft.row[i].status # "none" /\ draft.row[i].seen = cycle =>
                  row[i].status # "none" /\ draft.row[i].path = row[i].path
           /\ Proper(draft.row[i])
<1>1. /\ Placing(listing, id, last) /\ Rest(listing, id, last, draft)
      /\ Rows(listing, id, last, draft, i) /\ RowIs(i)
  BY ResolvePlacing, ResolveRest, ResolveRows, ResolveBefore
<1>2. TypeOK /\ cycle \in Nat /\ cycle > 0 /\ Proper(row[i])
  BY DEF Resolving, BaseInv, TypeOK, ObservedIsAway, DiskInv, ProperRows
<1>3. CASE i \in DOMAIN last
  <2>1. /\ draft.row[i] = ActiveRow(last[i], listing[last[i]])
        /\ last[i] \in Paths
    BY <1>1, <1>3, ResolveListing DEF Rows, Placing
  <2>2. draft.row[i].seen = 0 /\ draft.row[i].path # None
    BY <2>1, ResolveListing DEF ActiveRow
  <2>3. ASSUME draft.ok, ~InScope(row[i], scan.scope)
        PROVE  row[i].status = "none"
    <3>1. i \notin RowsOf(scan.scope)
      BY <2>3 DEF RowsOf
    <3>2. QED
      BY <1>1, <1>3, <2>3, <3>1 DEF Rest, Acceptable
  <2>4. QED
    BY <1>2, <2>2, <2>3 DEF Proper
<1>4. CASE i \notin DOMAIN last /\ draft.row[i] = row[i]
  BY <1>2, <1>4
<1>5. CASE /\ i \notin DOMAIN last /\ draft.row[i] = Observed(row[i])
           /\ i \in Gone(scan.scope, listing)
  <2>1. i \in RowsOf(scan.scope)
    BY <1>5 DEF Gone
  <2>2. InScope(row[i], scan.scope) /\ row[i].status # "none" /\ row[i].path # None
    BY <2>1 DEF RowsOf, Indexed, InScope
  <2>3. Proper(draft.row[i]) /\ draft.row[i].path = row[i].path
    BY <1>2, <1>5, <2>2, ObservedMoves DEF Proper
  <2>4. QED
    BY <2>2, <2>3
<1>6. QED
  BY <1>1, <1>3, <1>4, <1>5 DEF Rows

\* A drafted row that will not be mixed is as the listings say.
LEMMA ResolveMatches ==
    ASSUME NEW listing, NEW allowed, NEW id, NEW first, NEW last, NEW draft,
           Resolving(listing, allowed, id, first, last, draft), NEW i \in Ids,
           draft.row[i].status # "none",
           Shown(draft, i) \/ (i \notin mixed /\ registry'[i].path = draft.row[i].path),
           NEW S, S = ScopeOf[draft.row[i].path],
           NEW known, known = IF S = scan.scope THEN listing ELSE verified[S], known # None
    PROVE  Matches(draft.row[i], known)
<1>1. /\ Placing(listing, id, last) /\ Recorded1(listing, id)
      /\ Rows(listing, id, last, draft, i) /\ RowIs(i)
  BY ResolvePlacing, ResolveRecorded, ResolveRows, ResolveBefore
<1>2. CASE i \in DOMAIN last
  <2>1. /\ draft.row[i] = ActiveRow(last[i], listing[last[i]])
        /\ last[i] \in DOMAIN listing /\ ScopeOf[last[i]] = scan.scope
    BY <1>1, <1>2, ResolveListing DEF Rows, Placing
  <2>2. draft.row[i].path = last[i]
    BY <2>1 DEF ActiveRow
  <2>3. QED
    BY <2>1, <2>2 DEF Matches
<1>3. CASE /\ i \notin DOMAIN last /\ draft.row[i] = Observed(row[i])
           /\ i \in Gone(scan.scope, listing)
  <2>1. i \in RowsOf(scan.scope) /\ row[i].path \notin DOMAIN listing
    BY <1>3 DEF Gone
  <2>2. /\ draft.row[i].path = row[i].path /\ ScopeOf[row[i].path] = scan.scope
        /\ draft.row[i].status # "active"
    <3>1. Observed(row[i]).status # "active" /\ Observed(row[i]).path = row[i].path
      BY <1>1, ObservedMoves, ResolveListing DEF RowIs
    <3>2. QED
      BY <1>1, <1>3, <2>1, <3>1 DEF RowIs
  <2>3. QED
    BY <2>1, <2>2 DEF Matches
<1>4. CASE /\ i \notin DOMAIN last /\ draft.row[i] = row[i]
           /\ i \in Gone(scan.scope, listing) => \E p \in DOMAIN listing : id[p] = i
  <2>1. row[i].status # "none" /\ row[i].path \in Paths
    BY <1>1, <1>4 DEF RowIs
  <2>2. CASE S # scan.scope
    <3>1. ~Shown(draft, i)
      <4>1. SUFFICES ASSUME draft.put[i] = row[i].path PROVE FALSE
        BY <1>4 DEF Shown
      <4>2. draft.put[i] \in DOMAIN listing
        BY <1>1, <2>1, <4>1, ResolveListing DEF Rows
      <4>3. QED
        BY <1>4, <2>2, <4>1, <4>2, ResolveListing
    <3>2. i \notin mixed
      BY <3>1
    <3>3. S \in Scopes /\ verified[S] # None
      BY <1>4, <2>1, <2>2, ResourceAssumption
    <3>4. Matches(row[i], verified[S])
      BY <1>4, <2>1, <3>2, <3>3 DEF Resolving, DiskInv, VerifiedIsShown
    <3>5. QED
      BY <1>4, <2>2, <3>4
  <2>3. CASE S = scan.scope /\ row[i].path \notin DOMAIN listing
    <3>1. SUFFICES ASSUME row[i].status = "active" PROVE FALSE
      BY <1>4, <2>3 DEF Matches
    <3>2. i \in Gone(scan.scope, listing)
      BY <1>1, <1>4, <2>1, <2>3, <3>1 DEF Gone, RowIs
    <3>3. PICK p \in DOMAIN listing : id[p] = i
      BY <1>4, <3>2
    <3>4. PICK q \in DOMAIN listing : registry'[i].path = q
      BY <1>1, <3>3 DEF Recorded1
    <3>5. draft.put[i] # row[i].path
      BY <1>1, <2>1, <2>3, ResolveListing DEF Rows
    <3>6. QED
      BY <1>4, <2>3, <3>4, <3>5 DEF Shown
  <2>4. CASE S = scan.scope /\ row[i].path \in DOMAIN listing
    <3>1. PICK p : p = row[i].path
      OBVIOUS
    <3>2. id[p] = i /\ i # None
      <4>1. CASE Shown(draft, i)
        BY <1>1, <1>4, <2>1, <3>1, <4>1, ResolveListing DEF Shown, Rows
      <4>2. CASE i \notin mixed
        <5>1. registry[i].path = p
          BY <1>1, <2>1, <3>1, <4>2 DEF RowIs
        <5>2. QED
          BY <1>1, <2>4, <3>1, <5>1, ResolveListing DEF Recorded1, Resolved
      <4>3. QED
        BY <4>1, <4>2
    <3>3. PICK k : k = RowFor(scan.scope, id, p)
      OBVIOUS
    <3>4. /\ k \in DOMAIN last
          /\ (k \in RowsOf(scan.scope) /\ row[k].path = p) \/ k = i
      BY <1>1, <2>4, <3>1, <3>2, <3>3 DEF Placing
    <3>5. k # i /\ k \in RowsOf(scan.scope) /\ row[k].path = p
      BY <1>4, <3>4
    <3>6. k \in Ids /\ p # None
      BY <2>1, <3>1, <3>5, ResolveListing DEF RowsOf
    <3>7. QED
      BY <3>1, <3>5, <3>6, ResolveListing DEF Distinct
  <2>5. QED
    BY <2>2, <2>3, <2>4
<1>5. QED
  BY <1>1, <1>2, <1>3, <1>4 DEF Rows

\* The candidates of the draft: each is the only one of its path, and nothing
\* but a mixed resource is there.
LEMMA ResolveCandidates ==
    ASSUME NEW listing, NEW allowed, NEW id, NEW first, NEW last, NEW draft,
           Resolving(listing, allowed, id, first, last, draft),
           NEW c \in draft.candidates
    PROVE  /\ \A d \in draft.candidates : c.path = d.path => c = d
           /\ \/ c \in candidates /\ c.path \notin DOMAIN listing
              \/ c.path \in DOMAIN listing /\ c.content = listing[c.path]
           /\ \A i \in Ids :
                /\ draft.row[i].path = c.path =>
                       i \in mixed /\ ~Shown(draft, i) /\ row[i].path = c.path
                /\ registry'[i].path = c.path => i \in mixed \/ draft.row[i].status = "none"
<1>1. /\ Placing(listing, id, last) /\ Rest(listing, id, last, draft)
      /\ Recorded1(listing, id)
  BY ResolvePlacing, ResolveRest, ResolveRecorded
<1>2. /\ \A p : DeferredAt(listing, id, p).path = p
      /\ \A p : DeferredAt(listing, id, p).content = listing[p]
  BY DEF DeferredAt
<1>3. /\ \A d \in candidates : d.path \in Paths /\ d.path \notin DOMAIN listing
      /\ \A d, e \in candidates : d.path = e.path => d = e
      /\ \A d \in candidates, i \in Ids : row[i].path = d.path => i \in mixed
  BY ResolveListing DEF Resolving, DiskInv, CandidatesAreListed
<1>4. \/ c \in candidates /\ c.path \notin DOMAIN listing
      \/ /\ c = DeferredAt(listing, id, c.path)
         /\ c.path \in DOMAIN listing /\ c.content = listing[c.path] /\ id[c.path] = None
  BY <1>1, <1>2, <1>3 DEF Rest
<1>5. ASSUME NEW d \in draft.candidates, c.path = d.path
      PROVE  c = d
  <2>1. \/ d \in candidates /\ d.path \notin DOMAIN listing
        \/ d = DeferredAt(listing, id, d.path) /\ d.path \in DOMAIN listing
    BY <1>1, <1>2, <1>3 DEF Rest
  <2>2. QED
    BY <1>3, <1>4, <1>5, <2>1
<1>6. c.path \in Paths /\ None \notin Paths /\ None \notin Ids
  BY <1>3, <1>4, ResolveListing
\* No entry with an identity is at the path of a candidate.
<1>7. \A q \in DOMAIN listing : id[q] # None => q # c.path
  BY <1>4
<1>8. ASSUME NEW i \in Ids, i \notin mixed, row[i].path = c.path
      PROVE  FALSE
  <2>1. RowIs(i)
    BY ResolveBefore
  <2>2. registry[i].path = c.path
    BY <1>6, <1>8, <2>1 DEF RowIs
  <2>3. CASE c \in candidates
    BY <1>3, <1>8, <2>3
  <2>4. CASE c.path \in DOMAIN listing
    <3>1. id[c.path] = i
      BY <1>1, <2>2, <2>4 DEF Recorded1, Resolved
    <3>2. QED
      BY <1>6, <1>7, <2>4, <3>1
  <2>5. QED
    BY <1>4, <2>3, <2>4
<1>9. ASSUME NEW i \in Ids, draft.row[i].path = c.path
      PROVE  i \in mixed /\ ~Shown(draft, i) /\ row[i].path = c.path
  <2>1. Rows(listing, id, last, draft, i) /\ RowIs(i)
    BY ResolveRows, ResolveBefore
  <2>2. i \notin DOMAIN last
    <3>1. SUFFICES ASSUME i \in DOMAIN last PROVE FALSE
      OBVIOUS
    <3>2. draft.row[i] = ActiveRow(last[i], listing[last[i]])
      BY <2>1, <3>1 DEF Rows
    <3>3. draft.row[i].path = last[i]
      BY <3>2 DEF ActiveRow
    <3>4. last[i] \in DOMAIN listing /\ id[last[i]] # None
      BY <1>1, <3>1 DEF Placing
    <3>5. QED
      BY <1>7, <1>9, <3>3, <3>4
  <2>3. row[i].path = c.path
    BY <1>9, <2>1, <2>2, ObservedMoves, ResolveListing DEF Rows
  <2>4. draft.put[i] # c.path
    BY <1>6, <1>7, <2>1 DEF Rows
  <2>5. QED
    BY <1>8, <1>9, <2>3, <2>4 DEF Shown
<1>10. ASSUME NEW i \in Ids, registry'[i].path = c.path, i \notin mixed
       PROVE  draft.row[i].status = "none"
  <2>1. Rows(listing, id, last, draft, i) /\ RowIs(i)
    BY ResolveRows, ResolveBefore
  <2>2. registry[i].path = c.path /\ \A q \in DOMAIN listing : id[q] # i
    BY <1>1, <1>6, <1>7, <1>10 DEF Recorded1
  <2>3. row[i].status = "none"
    BY <1>8, <1>10, <2>1, <2>2 DEF RowIs
  <2>4. i \notin RowsOf(scan.scope)
    BY <2>3 DEF RowsOf, Indexed
  <2>5. i \notin DOMAIN last
    <3>1. SUFFICES ASSUME i \in DOMAIN last PROVE FALSE
      OBVIOUS
    <3>2. PICK q \in DOMAIN listing : id[q] # None /\ RowFor(scan.scope, id, q) = i
      BY <1>1, <3>1 DEF Placing
    <3>3. i = id[q]
      BY <1>1, <2>4, <3>2 DEF Placing
    <3>4. QED
      BY <2>2, <3>3
  <2>6. i \notin Gone(scan.scope, listing)
    BY <2>4 DEF Gone
  <2>7. QED
    BY <2>1, <2>3, <2>5, <2>6 DEF Rows
<1>11. QED
  BY <1>4, <1>5, <1>9, <1>10

\* A missing row in the way of an entry, or a mixed resource that is in the folder.
Cause(listing) ==
    \/ \E i \in Ids : row[i].status = "missing" /\ row[i].path \in DOMAIN listing
    \/ \E i \in mixed : \E p \in {row[i].path, registry'[i].path} \ {None} :
           ScopeOf[p] = scan.scope \/ \E c \in candidates : c.path = p

LEMMA ResolveRefused ==
    ASSUME NEW listing, NEW allowed, NEW id, NEW first, NEW last, NEW draft,
           Resolving(listing, allowed, id, first, last, draft), ~draft.ok
    PROVE  Cause(listing)
<1>1. /\ Placing(listing, id, last) /\ Rest(listing, id, last, draft)
      /\ Recorded1(listing, id)
  BY ResolvePlacing, ResolveRest, ResolveRecorded
<1>2. \/ \E i \in DOMAIN last \ RowsOf(scan.scope) : row[i].status # "none"
      \/ ~Distinct(draft.row)
  BY <1>1 DEF Rest, Acceptable
\* A row in the folder that is not indexed, where an entry is, is a missing one.
<1>3. ASSUME NEW i \in Ids, row[i].path \in DOMAIN listing, i \notin RowsOf(scan.scope)
      PROVE  Cause(listing)
  <2>1. RowIs(i) /\ row[i].path \in Paths /\ ScopeOf[row[i].path] = scan.scope
        /\ row[i].path # None
    BY <1>3, ResolveBefore, ResolveListing
  <2>2. row[i].status = "missing"
    BY <1>3, <2>1 DEF RowIs, Row, Statuses
  <2>3. QED
    BY <1>3, <2>2 DEF Cause
<1>4. ASSUME NEW i \in DOMAIN last, i \notin RowsOf(scan.scope), row[i].status # "none"
      PROVE  Cause(listing)
  <2>1. PICK p : p = last[i]
    OBVIOUS
  <2>2. p \in DOMAIN listing /\ id[p] # None /\ RowFor(scan.scope, id, p) = i
    BY <1>1, <1>4, <2>1 DEF Placing
  <2>3. i = id[p] /\ i \in Ids /\ p \in Paths /\ p # None /\ ScopeOf[p] = scan.scope
    BY <1>1, <1>4, <2>2, ResolveListing DEF Placing, Recorded1
  <2>4. registry'[i].path = p
    BY <1>1, <2>2, <2>3 DEF Recorded1, Resolved
  <2>5. CASE i \in mixed
    BY <2>3, <2>4, <2>5 DEF Cause
  <2>6. CASE row[i].path = p
    BY <1>3, <1>4, <2>2, <2>3, <2>6
  <2>7. CASE i \notin mixed /\ row[i].path # p
    <3>1. registry[i].path = row[i].path /\ row[i].path \in Paths
      BY <1>4, <2>3, <2>7, ResolveBefore DEF RowIs
    <3>2. registry[i].path \in allowed
      <4>1. /\ listing \in Listings /\ TypeOK /\ Registered(i)
            /\ id \in Resolutions(listing, DOMAIN listing, allowed, TRUE)
            /\ Recorded(id, listing)[i].path # registry[i].path
        BY <2>4, <2>7, <3>1, ResolveListing DEF Resolving, ResolvedBy, Registered
      <4>2. QED
        BY <2>3, <4>1, RecordedLeaves
    <3>3. PICK k \in Gone(scan.scope, listing) : row[k].path = row[i].path
      BY <3>1, <3>2 DEF Resolving, ResolvedBy
    <3>4. k \in RowsOf(scan.scope) /\ k \in Ids
      BY <3>3 DEF Gone, RowsOf
    <3>5. QED
      BY <1>4, <2>3, <3>1, <3>3, <3>4, ResolveListing DEF Distinct
  <2>8. QED
    BY <2>5, <2>6, <2>7
\* An entry is written to one row while another one has its path.
<1>5. ASSUME NEW i \in DOMAIN last, NEW j \in Ids, j \notin DOMAIN last,
             draft.row[i].path = draft.row[j].path, i \in Ids
      PROVE  Cause(listing)
  <2>1. PICK p : p = last[i]
    OBVIOUS
  <2>2. /\ p \in DOMAIN listing /\ id[p] # None /\ RowFor(scan.scope, id, p) = i
        /\ draft.row[i] = ActiveRow(p, listing[p])
    BY <1>1, <1>5, <2>1, ResolveRows DEF Placing, Rows
  <2>3. draft.row[i].path = p
    BY <2>2 DEF ActiveRow
  <2>4. row[j].path = p
    <3>1. Rows(listing, id, last, draft, j) /\ TypeOK
      BY ResolveRows, ResolveListing
    <3>2. QED
      BY <1>5, <2>3, <3>1, ObservedMoves DEF Rows
  <2>5. j \notin RowsOf(scan.scope)
    BY <1>1, <1>5, <2>2, <2>4 DEF Placing
  <2>6. QED
    BY <1>3, <2>2, <2>4, <2>5
<1>6. ASSUME ~Distinct(draft.row)
      PROVE  Cause(listing)
  <2>1. PICK i \in Ids, j \in Ids : /\ i # j /\ draft.row[i].path # None
                                   /\ draft.row[i].path = draft.row[j].path
    BY <1>6 DEF Distinct
  <2>2. CASE i \in DOMAIN last /\ j \in DOMAIN last
    <3>1. /\ draft.row[i] = ActiveRow(last[i], listing[last[i]])
          /\ draft.row[j] = ActiveRow(last[j], listing[last[j]])
      BY <2>2, ResolveRows DEF Rows
    <3>2. last[i] = last[j]
      BY <2>1, <3>1 DEF ActiveRow
    <3>3. RowFor(scan.scope, id, last[i]) = i /\ RowFor(scan.scope, id, last[j]) = j
      BY <1>1, <2>2 DEF Placing
    <3>4. QED
      BY <2>1, <3>2, <3>3
  <2>3. CASE i \notin DOMAIN last /\ j \notin DOMAIN last
    <3>1. draft.row[i].path = row[i].path /\ draft.row[j].path = row[j].path
      BY <2>3, ResolveRows, ObservedMoves, ResolveListing DEF Rows
    <3>2. QED
      BY <2>1, <3>1, ResolveListing DEF Distinct
  <2>4. QED
    BY <1>5, <2>1, <2>2, <2>3
<1>7. QED
  BY <1>2, <1>4, <1>6

LEMMA ScanResolveDisk ==
    ASSUME BaseInv, SearchInv, DiskInv, ScanResolve
    PROVE  DiskInv'
<1>1. PICK listing, allowed, id, first, last, draft :
        /\ listing \in Listings
        /\ ResolvedBy(listing, allowed, id, first, last, draft)
        /\ scan.at = "listed" /\ scan # NoScan
        /\ scan'.at = "resolved" /\ scan'.draft = draft /\ scan' # NoScan
  BY ResolvePicked
<1>2. Resolving(listing, allowed, id, first, last, draft)
  BY <1>1 DEF Resolving
<1>3. listing = scan.entries /\ scan'.scope = scan.scope /\ scan'.entries = scan.entries
  BY <1>1 DEF ResolvedBy
<1>4. UNCHANGED <<disk, quiet, row, candidates, verified, cycle, todo, mixed, undecided, givenUp>>
  BY DEF ScanResolve, files, index
<1>5. VerifiedIsListing'
  BY <1>1, <1>3, <1>4, ListingFrame DEF DiskInv, VerifiedIsListing
<1>6. ProperRows'
  <2>1. \A i \in Ids : Proper(draft.row[i])
    BY <1>2, ResolveOthers
  <2>2. QED
    BY <1>1, <1>4, <2>1 DEF DiskInv, ProperRows, Proper
<1>7. CandidatesAreListed' /\ VerifiedIsShown'
  BY <1>4 DEF DiskInv, CandidatesAreListed, VerifiedIsShown, Shows, Waits, InScope, Matches
<1>8. DraftedCandidates'
  <2>1. \A c, d \in draft.candidates : c.path = d.path => c = d
    BY <1>2, ResolveCandidates
  <2>2. \A c \in draft.candidates :
          /\ \/ c \in candidates /\ c.path \notin DOMAIN listing
             \/ c.path \in DOMAIN listing /\ c.content = listing[c.path]
          /\ \A i \in Ids :
               /\ draft.row[i].path = c.path =>
                      i \in mixed /\ ~Shown(draft, i) /\ row[i].path = c.path
               /\ registry'[i].path = c.path => i \in mixed \/ draft.row[i].status = "none"
    BY <1>2, ResolveCandidates
  <2>3. candidates \subseteq draft.candidates
    BY <1>2, ResolveRest DEF Rest
  <2>4. QED
    BY <1>1, <1>3, <1>4, <2>1, <2>2, <2>3 DEF DraftedCandidates, Shown, Shows
<1>9. DraftedRows'
  <2>1. \A i \in Ids :
          /\ draft.ok /\ row[i].status # "none" /\ ~InScope(row[i], scan.scope) =>
                 draft.row[i] = row[i]
          /\ draft.row[i].status # "none" /\ draft.row[i].seen = cycle =>
                 row[i].status # "none" /\ draft.row[i].path = row[i].path
    BY <1>2, ResolveOthers
  <2>2. \A p \in DOMAIN listing : \/ p \in draft.left
                                  \/ \E c \in draft.candidates : c.path = p
                                  \/ Shows(draft.row, p, listing[p])
    BY <1>2, ResolveEntries
  <2>3. ASSUME NEW i \in Ids, draft.row[i].status # "none",
               Shown(draft, i) \/ (i \notin mixed /\ registry'[i].path = draft.row[i].path),
               NEW S, S = ScopeOf[draft.row[i].path],
               NEW known, known = IF S = scan.scope THEN listing ELSE verified[S], known # None
        PROVE  Matches(draft.row[i], known)
    BY <1>2, <2>3, ResolveMatches
  <2>4. \A i \in Ids :
          /\ draft.row[i].status # "none"
          /\ Shown(draft, i) \/ (i \notin mixed /\ registry'[i].path = draft.row[i].path)
          => LET S == ScopeOf[draft.row[i].path]
                 known == IF S = scan.scope THEN listing ELSE verified[S]
             IN  known # None => Matches(draft.row[i], known)
    BY <2>3
  <2>5. QED
    BY <1>1, <1>3, <1>4, <2>1, <2>2, <2>4
       DEF DraftedRows, Shown, Shows, TornFrom, Matches, InScope
<1>10. RefusalHasCause'
  <2>1. ~draft.ok => Cause(listing)
    BY <1>2, ResolveRefused
  <2>2. QED
    BY <1>1, <1>3, <1>4, <2>1 DEF RefusalHasCause, Cause
<1>11. QED
  BY <1>5, <1>6, <1>7, <1>8, <1>9, <1>10 DEF DiskInv

-----------------------------------------------------------------------------
(* The files: the candidates *)

\* A candidate of a draft is about to be settled: nobody is recorded elsewhere
\* than before but at its path.
Settling(c) ==
    /\ BaseInv /\ SearchInv /\ DiskInv
    /\ scan.at = "resolved" /\ scan.draft.ok
    /\ c \in Due(scan.draft)
    /\ \A j \in Ids : registry'[j].path \in {registry[j].path, c.path}
    /\ UNCHANGED <<disk, quiet, row, candidates, verified, cycle, todo, mixed, undecided, givenUp>>

\* What the state says of it: the file of its path is as it says, a row there is
\* of a mixed resource, and no other candidate has its path.
Candid(c) ==
    /\ c.path \in Paths /\ c.content \in Contents /\ c.id \in Ids
    /\ \A d \in scan.draft.candidates : d.path = c.path => d = c
    /\ c \in candidates \/ ScopeOf[c.path] = scan.scope
    /\ c.path \in DOMAIN scan.entries => c.content = scan.entries[c.path]
    /\ LET S == ScopeOf[c.path]
           listing == IF S = scan.scope THEN scan.entries ELSE verified[S]
       IN  listing # None => c.path \in DOMAIN listing /\ listing[c.path] = c.content
    /\ \A i \in Ids : scan.draft.row[i].path = c.path =>
           i \in mixed /\ ~Shown(scan.draft, i) /\ row[i].path = c.path
    /\ \A i \in Ids : registry[i].path = c.path => i \in mixed \/ scan.draft.row[i].status = "none"

LEMMA SettlingCandid ==
    ASSUME NEW c, Settling(c)
    PROVE  Candid(c)
<1>1. /\ scan.draft \in Draft /\ scan.entries \in Listings /\ scan.scope \in Scopes
      /\ scan # NoScan /\ scan.at = "resolved" /\ scan.draft.ok /\ c \in scan.draft.candidates
  BY ScanShape DEF Settling, BaseInv, NoScan, Due
<1>2. c.path \in Paths /\ c.content \in Contents /\ c.id \in Ids
  BY <1>1 DEF Draft, Candidate
<1>3. /\ \A p \in DOMAIN scan.entries : ScopeOf[p] = scan.scope
      /\ scan.scope \in todo /\ \A d \in candidates : ScopeOf[d.path] \notin todo
  BY <1>1 DEF Settling, SearchInv, CandidatesAreDone
<1>4. \/ c \in candidates /\ c.path \notin DOMAIN scan.entries
      \/ c.path \in DOMAIN scan.entries /\ c.content = scan.entries[c.path]
  BY <1>1 DEF Settling, DiskInv, DraftedCandidates
<1>5. CASE c \in candidates /\ c.path \notin DOMAIN scan.entries
  <2>1. ScopeOf[c.path] # scan.scope
    BY <1>3, <1>5
  <2>2. /\ c.path \in DOMAIN verified[ScopeOf[c.path]]
        /\ verified[ScopeOf[c.path]][c.path] = c.content
    BY <1>5 DEF Settling, DiskInv, CandidatesAreListed
  <2>3. QED
    BY <1>1, <1>2, <1>5, <2>1, <2>2 DEF Settling, DiskInv, DraftedCandidates, Candid
<1>6. CASE c.path \in DOMAIN scan.entries /\ c.content = scan.entries[c.path]
  <2>1. ScopeOf[c.path] = scan.scope
    BY <1>3, <1>6
  <2>2. QED
    BY <1>1, <1>2, <1>6, <2>1 DEF Settling, DiskInv, DraftedCandidates, Candid
<1>7. QED
  BY <1>4, <1>5, <1>6

\* What does not depend on the draft, and the parts that do.
LEMMA SettlingState ==
    ASSUME NEW c, Settling(c),
           scan'.entries = scan.entries, scan'.scope = scan.scope, scan' # NoScan
    PROVE  VerifiedIsListing' /\ CandidatesAreListed' /\ VerifiedIsShown'
<1>1. scan # NoScan
  BY DEF Settling, NoScan
<1>2. UNCHANGED <<disk, quiet, row, candidates, verified, cycle, todo, mixed, undecided, givenUp>>
  BY DEF Settling
<1>3. VerifiedIsListing'
  BY <1>1, <1>2, ListingFrame DEF Settling, DiskInv, VerifiedIsListing
<1>4. CandidatesAreListed'
  BY <1>2 DEF Settling, DiskInv, CandidatesAreListed
<1>5. VerifiedIsShown'
  BY <1>2 DEF Settling, DiskInv, VerifiedIsShown, Shows, Waits, InScope, Matches
<1>6. QED
  BY <1>3, <1>4, <1>5

LEMMA ClosedDisk ==
    ASSUME NEW c, Settling(c), scan' = [scan EXCEPT !.draft = Closed(scan.draft, c)]
    PROVE  DiskInv'
<1>1. PICK old, new : old = scan.draft /\ new = Closed(scan.draft, c)
  OBVIOUS
<1>2. /\ scan \in [at: {"resolved"}, scope: Scopes, entries: Listings, draft: Draft]
      /\ scan.at = "resolved" /\ old \in Draft /\ old.ok /\ c \in old.candidates
  BY <1>1, ScanShape DEF Settling, BaseInv, Due
<1>3. /\ scan'.at = "resolved" /\ scan' # NoScan /\ scan'.draft = new
      /\ scan'.scope = scan.scope /\ scan'.entries = scan.entries
  BY <1>1, <1>2 DEF NoScan
<1>4. /\ new.row = old.row /\ new.put = old.put /\ new.ok = old.ok
      /\ new.candidates = old.candidates \ {c} /\ new.left = old.left \cup {c.path}
  BY <1>1, <1>2, ClosedShape
<1>5. Candid(c)
  BY SettlingCandid
<1>6. UNCHANGED <<disk, quiet, row, candidates, verified, cycle, todo, mixed, undecided, givenUp>>
      /\ \A j \in Ids : registry'[j].path \in {registry[j].path, c.path}
  BY DEF Settling
<1>7. ProperRows'
  BY <1>1, <1>2, <1>3, <1>4, <1>6 DEF Settling, DiskInv, ProperRows, Proper
<1>8. DraftedCandidates'
  <2>1. DraftedCandidates
    BY DEF Settling, DiskInv
  <2>2. ASSUME NEW d \in new.candidates, NEW j \in Ids
        PROVE  /\ new.row[j].path = d.path =>
                      j \in mixed /\ ~Shown(new, j) /\ row[j].path = d.path
               /\ registry'[j].path = d.path => j \in mixed \/ new.row[j].status = "none"
    <3>1. d \in old.candidates /\ d.path # c.path
      BY <1>1, <1>4, <1>5, <2>2 DEF Candid
    <3>2. registry'[j].path = d.path => registry[j].path = d.path
      BY <1>6, <3>1
    <3>3. QED
      BY <1>1, <1>2, <1>4, <2>1, <3>1, <3>2 DEF DraftedCandidates, Shown
  <2>3. ASSUME NEW d \in candidates
        PROVE  \/ d \in new.candidates \/ d.path \in new.left
               \/ Shows(new.row, d.path, d.content)
    BY <1>1, <1>2, <1>4, <2>1 DEF DraftedCandidates
  <2>4. /\ \A d, e \in new.candidates : d.path = e.path => d = e
        /\ \A d \in new.candidates :
             \/ d \in candidates /\ d.path \notin DOMAIN scan.entries
             \/ d.path \in DOMAIN scan.entries /\ d.content = scan.entries[d.path]
    BY <1>1, <1>2, <1>4, <2>1 DEF DraftedCandidates
  <2>5. QED
    BY <1>3, <1>6, <2>2, <2>3, <2>4 DEF DraftedCandidates, Shown, Shows
<1>9. DraftedRows'
  <2>1. DraftedRows
    BY DEF Settling, DiskInv
  <2>2. \A j \in Ids : /\ row[j].status # "none" /\ ~InScope(row[j], scan.scope) =>
                              new.row[j] = row[j]
                       /\ new.row[j].status # "none" /\ new.row[j].seen = cycle =>
                              row[j].status # "none" /\ new.row[j].path = row[j].path
    BY <1>1, <1>2, <1>4, <2>1 DEF DraftedRows
  <2>3. ASSUME NEW p \in DOMAIN scan.entries
        PROVE  \/ p \in new.left
               \/ \E d \in new.candidates : d.path = p
               \/ Shows(new.row, p, scan.entries[p])
    BY <1>1, <1>2, <1>4, <2>1 DEF DraftedRows
  <2>4. ASSUME NEW j \in Ids, new.row[j].status # "none",
               Shown(new, j) \/ (j \notin mixed /\ registry'[j].path = new.row[j].path)
        PROVE  LET S == ScopeOf[new.row[j].path]
                   listing == IF S = scan.scope THEN scan.entries ELSE verified[S]
               IN  listing # None => Matches(new.row[j], listing)
    <3>1. Shown(old, j) \/ (j \notin mixed /\ ~TornFrom(old.row, j))
      BY <1>1, <1>4, <1>5, <1>6, <2>4 DEF Candid, Shown, TornFrom
    <3>2. QED
      BY <1>1, <1>2, <1>4, <2>1, <2>4, <3>1 DEF DraftedRows
  <2>5. QED
    BY <1>3, <1>6, <2>2, <2>3, <2>4 DEF DraftedRows, Shown, Shows, TornFrom, Matches, InScope
<1>10. RefusalHasCause'
  BY <1>1, <1>2, <1>3, <1>4 DEF RefusalHasCause
<1>11. QED
  BY <1>3, <1>7, <1>8, <1>9, <1>10, SettlingState DEF DiskInv

\* The row a candidate is given to was none, or was observed as missing in the
\* folder; otherwise its identity was recorded at the path before.
Free(i) ==
    \/ scan.draft.row[i].status = "none"
    \/ scan.draft.row[i].seen = cycle /\ InScope(scan.draft.row[i], scan.scope)
Given(c, i, ok) ==
    /\ Settling(c) /\ i \in Ids /\ ok \in BOOLEAN
    /\ registry'[i].path = c.path
    /\ ok => Free(i)
    /\ ~ok => scan.draft.row[i].status # "none" /\ registry[i].path = c.path
    /\ scan' = [scan EXCEPT !.draft = Placed(scan.draft, c, i, ok)]

\* What it makes of the draft.
Gives(c, i, ok, old, new) ==
    /\ old = scan.draft /\ new = Placed(scan.draft, c, i, ok)
    /\ scan.at = "resolved" /\ old \in Draft /\ old.ok /\ c \in old.candidates
    /\ scan'.at = "resolved" /\ scan' # NoScan /\ scan'.draft = new
    /\ scan'.scope = scan.scope /\ scan'.entries = scan.entries
    /\ new.row[i] = ActiveRow(c.path, c.content) /\ new.put[i] = c.path
    /\ \A j \in Ids : j # i => new.row[j] = old.row[j] /\ new.put[j] = old.put[j]
    /\ new.candidates = old.candidates \ {c} /\ new.left = old.left
    /\ new.ok => ok
    /\ ok /\ ~new.ok => ~Distinct(new.row)
    /\ Distinct(old.row)

LEMMA GivenGives ==
    ASSUME NEW c, NEW i, NEW ok, Given(c, i, ok)
    PROVE  \E old, new : Gives(c, i, ok, old, new)
<1>1. PICK old, new : old = scan.draft /\ new = Placed(scan.draft, c, i, ok)
  OBVIOUS
<1>2. /\ scan \in [at: {"resolved"}, scope: Scopes, entries: Listings, draft: Draft]
      /\ scan.at = "resolved" /\ old \in Draft /\ old.ok /\ c \in old.candidates
  BY <1>1, ScanShape DEF Given, Settling, BaseInv, Due
<1>3. /\ scan'.at = "resolved" /\ scan' # NoScan /\ scan'.draft = new
      /\ scan'.scope = scan.scope /\ scan'.entries = scan.entries
  BY <1>1, <1>2 DEF Given, NoScan
<1>4. IsPlaced(new, old, c, i)
  BY <1>1, <1>2, PlacedRest DEF Given
<1>5. old.row \in [Ids -> Row] /\ old.put \in [Ids -> Paths \cup {None}] /\ i \in Ids
  BY <1>2 DEF Draft, Given
<1>6. /\ new.row[i] = ActiveRow(c.path, c.content) /\ new.put[i] = c.path
      /\ \A j \in Ids : j # i => new.row[j] = old.row[j] /\ new.put[j] = old.put[j]
      /\ new.candidates = old.candidates \ {c} /\ new.left = old.left
  BY <1>4, <1>5 DEF IsPlaced
<1>7. new.ok = (ok /\ Acceptable([old.row EXCEPT ![i] = ActiveRow(c.path, c.content)], {}))
  BY <1>1 DEF Placed
<1>8. new.row = [old.row EXCEPT ![i] = ActiveRow(c.path, c.content)]
  BY <1>4 DEF IsPlaced
<1>9. new.ok = (ok /\ Acceptable(new.row, {}))
  BY <1>7, <1>8
<1>10. (new.ok => ok) /\ (ok /\ ~new.ok => ~Distinct(new.row))
  BY <1>9 DEF Acceptable
<1>11. Distinct(old.row)
  BY <1>1, <1>2 DEF Given, Settling, SearchInv, RowsDistinct
<1>12. QED
  BY <1>1, <1>2, <1>3, <1>6, <1>10, <1>11 DEF Gives

\* A row that was shown is not one that is free.
LEMMA FreeNotShown ==
    ASSUME NEW c, NEW i, NEW ok, Given(c, i, ok), NEW old, NEW new,
           Gives(c, i, ok, old, new), Free(i)
    PROVE  \A p, content : Shows(old.row, p, content) => Shows(new.row, p, content)
<1> SUFFICES ASSUME NEW p, NEW content, Shows(old.row, p, content)
             PROVE  Shows(new.row, p, content)
  OBVIOUS
<1>1. PICK j \in Ids : old.row[j] = ActiveRow(p, content)
  BY DEF Shows
<1>2. old.row[j].status = "active" /\ old.row[j].seen = 0
  BY <1>1 DEF ActiveRow
<1>3. cycle \in Nat /\ cycle > 0
  BY DEF Given, Settling, BaseInv, TypeOK, ObservedIsAway
<1>4. j # i
  BY <1>2, <1>3 DEF Given, Free, Gives
<1>5. QED
  BY <1>1, <1>4 DEF Gives, Shows

LEMMA PlacedCandidates ==
    ASSUME NEW c, NEW i, NEW ok, Given(c, i, ok)
    PROVE  DraftedCandidates'
<1>1. PICK old, new : Gives(c, i, ok, old, new)
  BY GivenGives
<1>2. SUFFICES ASSUME new.ok PROVE DraftedCandidates'
  BY <1>1 DEF Gives, DraftedCandidates
<1>3. /\ Candid(c) /\ Free(i) /\ DraftedCandidates
      /\ scan.at = "resolved" /\ old.ok /\ old = scan.draft
      /\ scan'.at = "resolved" /\ scan'.draft = new
      /\ scan'.scope = scan.scope /\ scan'.entries = scan.entries
  BY <1>1, <1>2, SettlingCandid DEF Given, Settling, DiskInv, Gives
<1>4. /\ UNCHANGED <<row, candidates, mixed>>
      /\ \A j \in Ids : registry'[j].path \in {registry[j].path, c.path}
      /\ i \in Ids /\ registry'[i].path = c.path
  BY DEF Given, Settling
<1>5. ASSUME NEW d \in new.candidates, NEW j \in Ids
      PROVE  /\ new.row[j].path = d.path =>
                    j \in mixed /\ ~Shown(new, j) /\ row[j].path = d.path
             /\ registry'[j].path = d.path => j \in mixed \/ new.row[j].status = "none"
  <2>1. d \in old.candidates /\ d.path # c.path
    BY <1>1, <1>3, <1>5 DEF Candid, Gives
  <2>2. CASE j = i
    <3>1. new.row[j].path = c.path
      BY <1>1, <2>2 DEF Gives, ActiveRow
    <3>2. QED
      BY <1>4, <2>1, <2>2, <3>1
  <2>3. CASE j # i
    <3>1. new.row[j] = old.row[j] /\ new.put[j] = old.put[j]
      BY <1>1, <2>3 DEF Gives
    <3>2. registry'[j].path = d.path => registry[j].path = d.path
      BY <1>4, <2>1
    <3>3. QED
      BY <1>3, <2>1, <3>1, <3>2 DEF DraftedCandidates, Shown
  <2>4. QED
    BY <2>2, <2>3
<1>6. ASSUME NEW d \in candidates
      PROVE  \/ d \in new.candidates \/ d.path \in new.left
             \/ Shows(new.row, d.path, d.content)
  <2>1. CASE d = c
    BY <1>1, <1>4, <2>1 DEF Gives, Shows
  <2>2. CASE d # c
    <3>1. \/ d \in old.candidates \/ d.path \in old.left
          \/ Shows(old.row, d.path, d.content)
      BY <1>1, <1>3, <1>6 DEF DraftedCandidates, Gives
    <3>2. Shows(old.row, d.path, d.content) => Shows(new.row, d.path, d.content)
      BY <1>1, <1>3, FreeNotShown
    <3>3. QED
      BY <1>1, <2>2, <3>1, <3>2 DEF Gives
  <2>3. QED
    BY <2>1, <2>2
<1>7. /\ \A d, e \in new.candidates : d.path = e.path => d = e
      /\ \A d \in new.candidates :
           \/ d \in candidates /\ d.path \notin DOMAIN scan.entries
           \/ d.path \in DOMAIN scan.entries /\ d.content = scan.entries[d.path]
  BY <1>1, <1>3 DEF DraftedCandidates, Gives
<1>8. QED
  BY <1>3, <1>4, <1>5, <1>6, <1>7 DEF DraftedCandidates, Shown, Shows

LEMMA PlacedRows ==
    ASSUME NEW c, NEW i, NEW ok, Given(c, i, ok)
    PROVE  DraftedRows'
<1>1. PICK old, new : Gives(c, i, ok, old, new)
  BY GivenGives
<1>2. SUFFICES ASSUME new.ok PROVE DraftedRows'
  BY <1>1 DEF Gives, DraftedRows
<1>3. /\ Candid(c) /\ Free(i) /\ DraftedRows
      /\ scan.at = "resolved" /\ old.ok /\ old = scan.draft
      /\ scan'.at = "resolved" /\ scan'.draft = new
      /\ scan'.scope = scan.scope /\ scan'.entries = scan.entries
  BY <1>1, <1>2, SettlingCandid DEF Given, Settling, DiskInv, Gives
<1>4. /\ UNCHANGED <<row, verified, cycle, mixed>> /\ i \in Ids
      /\ \A j \in Ids : registry'[j].path \in {registry[j].path, c.path}
  BY DEF Given, Settling
<1>5. cycle \in Nat /\ cycle > 0
  BY DEF Given, Settling, BaseInv, TypeOK, ObservedIsAway
<1>6. new.row[i].path = c.path /\ new.row[i].seen = 0 /\ new.row[i] = ActiveRow(c.path, c.content)
  BY <1>1 DEF Gives, ActiveRow
<1>7. ASSUME NEW j \in Ids
      PROVE  /\ row[j].status # "none" /\ ~InScope(row[j], scan.scope) => new.row[j] = row[j]
             /\ new.row[j].status # "none" /\ new.row[j].seen = cycle =>
                    row[j].status # "none" /\ new.row[j].path = row[j].path
  <2>1. /\ row[j].status # "none" /\ ~InScope(row[j], scan.scope) => old.row[j] = row[j]
        /\ old.row[j].status # "none" /\ old.row[j].seen = cycle =>
               row[j].status # "none" /\ old.row[j].path = row[j].path
    BY <1>1, <1>3 DEF DraftedRows, Gives
  <2>2. CASE j = i
    <3>1. row[i].status # "none" => InScope(row[i], scan.scope)
      BY <1>3, <2>1, <2>2 DEF Free
    <3>2. QED
      BY <1>5, <1>6, <2>2, <3>1
  <2>3. CASE j # i
    BY <1>1, <2>1, <2>3 DEF Gives
  <2>4. QED
    BY <2>2, <2>3
<1>8. ASSUME NEW p \in DOMAIN scan.entries
      PROVE  \/ p \in new.left
             \/ \E d \in new.candidates : d.path = p
             \/ Shows(new.row, p, scan.entries[p])
  <2>1. \/ p \in old.left
        \/ \E d \in old.candidates : d.path = p
        \/ Shows(old.row, p, scan.entries[p])
    BY <1>1, <1>3, <1>8 DEF DraftedRows, Gives
  <2>2. CASE p = c.path
    BY <1>3, <1>4, <1>6, <1>8, <2>2 DEF Candid, Shows
  <2>3. Shows(old.row, p, scan.entries[p]) => Shows(new.row, p, scan.entries[p])
    BY <1>1, <1>3, FreeNotShown
  <2>4. new.left = old.left /\ new.candidates = old.candidates \ {c}
    BY <1>1 DEF Gives
  <2>5. QED
    BY <2>1, <2>2, <2>3, <2>4
<1>9. ASSUME NEW j \in Ids, new.row[j].status # "none",
             Shown(new, j) \/ (j \notin mixed /\ registry'[j].path = new.row[j].path)
      PROVE  LET S == ScopeOf[new.row[j].path]
                 listing == IF S = scan.scope THEN scan.entries ELSE verified[S]
             IN  listing # None => Matches(new.row[j], listing)
  <2>1. CASE j = i
    BY <1>3, <1>6, <2>1 DEF Candid, Matches
  <2>2. CASE j # i
    <3>1. new.row[j] = old.row[j] /\ new.put[j] = old.put[j]
      BY <1>1, <2>2 DEF Gives
    <3>2. Shown(old, j) \/ (j \notin mixed /\ ~TornFrom(old.row, j))
      BY <1>3, <1>4, <1>9, <3>1 DEF Candid, Shown, TornFrom
    <3>3. QED
      BY <1>3, <1>9, <3>1, <3>2 DEF DraftedRows
  <2>3. QED
    BY <2>1, <2>2
<1>10. QED
  BY <1>3, <1>4, <1>7, <1>8, <1>9
     DEF DraftedRows, Shown, Shows, TornFrom, Matches, InScope

LEMMA PlacedRefused ==
    ASSUME NEW c, NEW i, NEW ok, Given(c, i, ok)
    PROVE  RefusalHasCause'
<1>1. PICK old, new : Gives(c, i, ok, old, new)
  BY GivenGives
<1>2. SUFFICES ASSUME ~new.ok
               PROVE  \E j \in mixed : c.path \in {row[j].path, registry'[j].path}
  <2>1. c.path # None /\ (c \in candidates \/ ScopeOf[c.path] = scan.scope)
    BY SettlingCandid, ResourceAssumption DEF Given, Candid
  <2>2. UNCHANGED <<row, candidates, mixed>>
    BY DEF Given, Settling
  <2>3. QED
    BY <1>1, <2>1, <2>2 DEF RefusalHasCause, Gives
<1>3. Candid(c) /\ i \in Ids /\ registry'[i].path = c.path /\ old = scan.draft
  BY <1>1, SettlingCandid DEF Given, Gives
<1>4. CASE ~ok
  BY <1>3, <1>4 DEF Given, Candid
<1>5. CASE ok
  <2>1. PICK j \in Ids, k \in Ids : /\ j # k /\ new.row[j].path # None
                                   /\ new.row[j].path = new.row[k].path
    BY <1>1, <1>2, <1>5 DEF Gives, Distinct
  <2>2. new.row[i].path = c.path
    BY <1>1 DEF Gives, ActiveRow
  <2>3. PICK l \in Ids : l # i /\ new.row[l].path = c.path
    <3>1. CASE j = i \/ k = i
      BY <2>1, <2>2, <3>1
    <3>2. CASE j # i /\ k # i
      BY <1>1, <2>1, <3>2 DEF Gives, Distinct
    <3>3. QED
      BY <3>1, <3>2
  <2>4. scan.draft.row[l].path = c.path
    BY <1>1, <1>3, <2>3 DEF Gives
  <2>5. QED
    BY <1>3, <2>4 DEF Candid
<1>6. QED
  BY <1>4, <1>5 DEF Given

LEMMA PlacedDisk ==
    ASSUME NEW c, NEW i, NEW ok, Given(c, i, ok)
    PROVE  DiskInv'
<1>1. PICK old, new : Gives(c, i, ok, old, new)
  BY GivenGives
<1>2. Settling(c) /\ Candid(c) /\ i \in Ids /\ UNCHANGED row
  BY SettlingCandid DEF Given, Settling
<1>3. VerifiedIsListing' /\ CandidatesAreListed' /\ VerifiedIsShown'
  BY <1>1, <1>2, SettlingState DEF Gives
<1>4. ASSUME NEW j \in Ids PROVE Proper(new.row[j])
  <2>1. CASE j = i
    <3>1. c.path # None
      BY <1>2, ResourceAssumption DEF Candid
    <3>2. QED
      BY <1>1, <2>1, <3>1 DEF Gives, ActiveRow, Proper
  <2>2. CASE j # i
    BY <1>1, <1>2, <2>2 DEF Gives, Settling, DiskInv, ProperRows
  <2>3. QED
    BY <2>1, <2>2
<1>5. ProperRows'
  BY <1>1, <1>2, <1>4 DEF Gives, Settling, DiskInv, ProperRows, Proper
<1>6. QED
  BY <1>3, <1>5, PlacedCandidates, PlacedRows, PlacedRefused DEF DiskInv

LEMMA ScanSettleDisk ==
    ASSUME BaseInv, SearchInv, DiskInv, ScanSettle
    PROVE  DiskInv'
<1>1. /\ scan.at = "resolved" /\ scan.draft \in Draft /\ scan.draft.ok
      /\ UNCHANGED <<disk, quiet, row, candidates, verified, cycle, todo, mixed, undecided,
                     givenUp>>
  BY ScanShape DEF BaseInv, ScanSettle, files, index
<1>2. PICK c \in Due(scan.draft) : CancelCandidate(c) \/ ResolveMove(c) \/ ResolveCopy(c)
  BY DEF ScanSettle
<1>3. c.path \in Paths /\ c.content \in Contents /\ c.id \in Ids
  BY <1>1 DEF Draft, Candidate, Due
<1>4. (\A j \in Ids : registry'[j].path \in {registry[j].path, c.path}) => Settling(c)
  BY <1>1 DEF Settling
<1>5. CASE CancelCandidate(c)
  BY <1>4, <1>5, ClosedDisk DEF CancelCandidate
<1>6. CASE ResolveMove(c)
  <2>1. PICK id \in Resolutions([p \in {c.path} |-> c.content], {c.path},
                                {scan.draft.row[c.id].path}, FALSE) :
          /\ registry' = Recorded(id, [p \in {c.path} |-> c.content])
          /\ scan' = [scan EXCEPT !.draft = IF id[c.path] = c.id
                                            THEN Placed(scan.draft, c, c.id, TRUE)
                                            ELSE Closed(scan.draft, c)]
    BY <1>6 DEF ResolveMove
  <2>2. PICK i : i = id[c.path]
    OBVIOUS
  <2>3. Takes(i, c.path, {scan.draft.row[c.id].path})
    BY <1>3, <2>1, <2>2, CandidateRecorded
  <2>4. Settling(c) /\ i \in Ids /\ registry'[i].path = c.path
    <3>1. /\ i \in Ids /\ registry'[i].path = c.path
          /\ \A j \in Ids : j # i => registry'[j] = registry[j]
      BY <2>3 DEF Takes
    <3>2. \A j \in Ids : registry'[j].path \in {registry[j].path, c.path}
      BY <3>1
    <3>3. QED
      BY <1>4, <3>1, <3>2
  <2>5. CASE i = c.id
    <3>1. scan' = [scan EXCEPT !.draft = Placed(scan.draft, c, i, TRUE)]
      BY <2>1, <2>2, <2>5
    <3>2. Free(i)
      BY <1>6, <2>5 DEF ResolveMove, Due, Free
    <3>3. Given(c, i, TRUE)
      BY <2>4, <3>1, <3>2 DEF Given
    <3>4. QED
      BY <3>3, PlacedDisk
  <2>6. CASE i # c.id
    <3>1. scan' = [scan EXCEPT !.draft = Closed(scan.draft, c)]
      BY <2>1, <2>2, <2>6
    <3>2. QED
      BY <2>4, <3>1, ClosedDisk
  <2>7. QED
    BY <2>5, <2>6
<1>7. CASE ResolveCopy(c)
  <2>1. PICK id \in Resolutions([p \in {c.path} |-> c.content],
                                {scan.draft.row[c.id].path, c.path}, {}, FALSE) :
          /\ registry' = Recorded(id, [p \in {c.path} |-> c.content])
          /\ scan' = [scan EXCEPT !.draft =
               Placed(scan.draft, c, id[c.path], scan.draft.row[id[c.path]].status = "none")]
    BY <1>7 DEF ResolveCopy
  <2>2. PICK i, ok : i = id[c.path] /\ ok = (scan.draft.row[id[c.path]].status = "none")
    OBVIOUS
  <2>3. Takes(i, c.path, {})
    BY <1>3, <2>1, <2>2, CandidateRecorded
  <2>4. Settling(c) /\ i \in Ids /\ registry'[i].path = c.path /\ registry[i].path \in {c.path, None}
    <3>1. /\ i \in Ids /\ registry'[i].path = c.path
          /\ \A j \in Ids : j # i => registry'[j] = registry[j]
          /\ registry[i].path \in {c.path, None}
      BY <2>3 DEF Takes
    <3>2. \A j \in Ids : registry'[j].path \in {registry[j].path, c.path}
      BY <3>1
    <3>3. QED
      BY <1>4, <3>1, <3>2
  <2>5. ok \in BOOLEAN /\ scan' = [scan EXCEPT !.draft = Placed(scan.draft, c, i, ok)]
    BY <2>1, <2>2
  <2>6. /\ ok => Free(i)
        /\ ~ok => scan.draft.row[i].status # "none" /\ registry[i].path = c.path
    <3>1. scan.draft.row[i].status # "none" => registry[i].path # None
      BY <1>1, <2>4 DEF BaseInv, DraftedIsRegistered, Registered
    <3>2. QED
      BY <2>2, <2>4, <3>1 DEF Free
  <2>7. Given(c, i, ok)
    BY <2>4, <2>5, <2>6 DEF Given
  <2>8. QED
    BY <2>7, PlacedDisk
<1>8. QED
  BY <1>2, <1>5, <1>6, <1>7

-----------------------------------------------------------------------------
(* The files: the commit *)

\* What the commit of a draft does.
Commits(draft, S, entries) ==
    /\ draft \in Draft /\ S \in Scopes /\ entries \in Listings /\ None \notin Listings
    /\ draft.ok /\ S \in todo
    /\ row' = draft.row /\ candidates' = draft.candidates
    /\ verified \in [Scopes -> Listings \cup {None}]
    /\ verified' = [verified EXCEPT ![S] = entries]
    /\ todo' = todo \ {S} /\ scan' = NoScan /\ scan'.at = "idle"
    /\ mixed' = {i \in Ids : TornFrom(draft.row, i) \/ (i \in mixed /\ ~Shown(draft, i))}
    /\ undecided' = (undecided \ DOMAIN entries) \cup LeftOut(draft)
    /\ \A p \in DOMAIN entries : ScopeOf[p] = S
    /\ \A c \in candidates : ScopeOf[c.path] # S /\ ScopeOf[c.path] \in Scopes

LEMMA CommitCommits ==
    ASSUME BaseInv, SearchInv, ScanCommit
    PROVE  Commits(scan.draft, scan.scope, scan.entries)
<1>1. /\ scan.at = "resolved" /\ scan.draft \in Draft /\ scan.draft.ok /\ scan # NoScan
      /\ scan.scope \in Scopes /\ scan.entries \in Listings
      /\ verified \in [Scopes -> Listings \cup {None}]
  BY ScanShape DEF BaseInv, ScanCommit, TypeOK, NoScan
<1>2. /\ row' = scan.draft.row /\ candidates' = scan.draft.candidates
      /\ verified' = [verified EXCEPT ![scan.scope] = scan.entries]
      /\ todo' = todo \ {scan.scope} /\ scan' = NoScan /\ scan'.at = "idle"
      /\ mixed' = {i \in Ids : \/ TornFrom(scan.draft.row, i)
                               \/ i \in mixed /\ ~Shown(scan.draft, i)}
      /\ undecided' = (undecided \ DOMAIN scan.entries) \cup LeftOut(scan.draft)
  BY DEF ScanCommit, NoScan
<1>3. /\ scan.scope \in todo
      /\ \A p \in DOMAIN scan.entries : ScopeOf[p] = scan.scope
      /\ \A c \in candidates : ScopeOf[c.path] \notin todo
  BY <1>1 DEF SearchInv, CandidatesAreDone
<1>4. \A c \in candidates : ScopeOf[c.path] \in Scopes
  BY ResourceAssumption DEF BaseInv, TypeOK, Candidate
<1>5. QED
  BY <1>1, <1>2, <1>3, <1>4, ResourceAssumption DEF Commits

\* A candidate waits for a folder that is still to do, or is left out.
LEMMA WaitsOrLeft ==
    ASSUME NEW draft, NEW S, NEW entries, Commits(draft, S, entries), S = scan.scope
    PROVE  /\ draft.left \subseteq undecided'
           /\ \A c \in draft.candidates : Waits(c.path)' \/ c.path \in undecided'
<1>1. draft.left \subseteq LeftOut(draft)
  BY DEF LeftOut
<1>2. ASSUME NEW c \in draft.candidates, c.path \notin LeftOut(draft)
      PROVE  \E T \in todo \ {S} : InScope(draft.row[c.id], T)
  BY <1>2 DEF LeftOut
<1>3. ASSUME NEW c \in draft.candidates, NEW T \in todo \ {S}, InScope(draft.row[c.id], T)
      PROVE  Waits(c.path)'
  BY <1>3 DEF Waits, InScope, Commits
<1>4. QED
  BY <1>1, <1>2, <1>3 DEF Commits

LEMMA CommitCandidates ==
    ASSUME DiskInv, NEW draft, draft = scan.draft, NEW S, S = scan.scope,
           NEW entries, entries = scan.entries, Commits(draft, S, entries), scan.at = "resolved"
    PROVE  CandidatesAreListed'
<1>1. DraftedCandidates /\ CandidatesAreListed /\ draft.ok
  BY DEF DiskInv, Commits
<1>2. \A c, d \in candidates' : c.path = d.path => c = d
  BY <1>1 DEF DraftedCandidates, Commits
<1>3. ASSUME NEW c \in draft.candidates
      PROVE  LET listing == verified'[ScopeOf[c.path]]
             IN  listing # None /\ c.path \in DOMAIN listing /\ listing[c.path] = c.content
  <2>1. \/ c \in candidates
        \/ c.path \in DOMAIN entries /\ c.content = entries[c.path]
    BY <1>1, <1>3 DEF DraftedCandidates
  <2>2. CASE c \in candidates
    <3>1. verified'[ScopeOf[c.path]] = verified[ScopeOf[c.path]]
      BY <2>2 DEF Commits
    <3>2. QED
      BY <1>1, <2>2, <3>1 DEF CandidatesAreListed
  <2>3. CASE c.path \in DOMAIN entries /\ c.content = entries[c.path]
    <3>1. verified'[ScopeOf[c.path]] = entries /\ entries # None
      BY <2>3 DEF Commits
    <3>2. QED
      BY <2>3, <3>1
  <2>4. QED
    BY <2>1, <2>2, <2>3
<1>4. ASSUME NEW c \in draft.candidates, NEW i \in Ids, draft.row[i].path = c.path
      PROVE  i \in mixed'
  BY <1>1, <1>4 DEF DraftedCandidates, Commits
<1>5. candidates' = draft.candidates /\ row' = draft.row
  BY DEF Commits
<1>6. QED
  BY <1>2, <1>3, <1>4, <1>5 DEF CandidatesAreListed

LEMMA CommitShown ==
    ASSUME DiskInv, NEW draft, draft = scan.draft, NEW S, S = scan.scope,
           NEW entries, entries = scan.entries, Commits(draft, S, entries), scan.at = "resolved"
    PROVE  VerifiedIsShown'
<1>1. /\ DraftedCandidates /\ DraftedRows /\ CandidatesAreListed /\ VerifiedIsShown
      /\ draft.ok
  BY DEF DiskInv, Commits
<1>2. /\ draft.left \subseteq undecided'
      /\ \A c \in draft.candidates : Waits(c.path)' \/ c.path \in undecided'
  BY WaitsOrLeft
<1>3. row' = draft.row
  BY DEF Commits
<1>4. ASSUME NEW T \in Scopes, verified'[T] # None
      PROVE  /\ \A p \in DOMAIN verified'[T] : ScopeOf[p] = T
             /\ \A p \in DOMAIN verified'[T] \ undecided' :
                    Shows(row', p, verified'[T][p]) \/ Waits(p)'
  <2>1. CASE T = S
    <3>1. verified'[T] = entries /\ \A p \in DOMAIN entries : ScopeOf[p] = S
      BY <2>1 DEF Commits
    <3>2. ASSUME NEW p \in DOMAIN entries, p \notin undecided'
          PROVE  Shows(draft.row, p, entries[p]) \/ Waits(p)'
      <4>1. \/ p \in draft.left \/ \E c \in draft.candidates : c.path = p
            \/ Shows(draft.row, p, entries[p])
        BY <1>1, <3>2 DEF DraftedRows
      <4>2. QED
        BY <1>2, <3>2, <4>1
    <3>3. QED
      BY <1>3, <2>1, <3>1, <3>2
  <2>2. CASE T # S
    <3>1. verified'[T] = verified[T]
      BY <2>2 DEF Commits
    <3>2. /\ \A p \in DOMAIN verified[T] : ScopeOf[p] = T
          /\ \A p \in DOMAIN verified[T] \ undecided : Shows(row, p, verified[T][p]) \/ Waits(p)
      BY <1>1, <1>4, <3>1 DEF VerifiedIsShown
    <3>3. ASSUME NEW p \in DOMAIN verified[T], p \notin undecided'
          PROVE  Shows(draft.row, p, verified[T][p]) \/ Waits(p)'
      <4>1. ScopeOf[p] = T /\ p \notin undecided
        BY <2>2, <3>2, <3>3 DEF Commits
      <4>2. CASE Shows(row, p, verified[T][p])
        <5>1. PICK i \in Ids : row[i] = ActiveRow(p, verified[T][p])
          BY <4>2 DEF Shows
        <5>2. row[i].status # "none" /\ row[i].path = p
          BY <5>1 DEF ActiveRow
        <5>3. draft.row[i] = row[i]
          BY <1>1, <2>2, <4>1, <5>2 DEF DraftedRows, InScope
        <5>4. QED
          BY <5>1, <5>3 DEF Shows
      <4>3. CASE Waits(p)
        <5>1. PICK c \in candidates : c.path = p
          BY <4>3 DEF Waits
        <5>2. verified[T][p] = c.content
          BY <1>1, <4>1, <5>1 DEF CandidatesAreListed
        <5>3. \/ c \in draft.candidates \/ p \in draft.left
              \/ Shows(draft.row, p, c.content)
          BY <1>1, <5>1 DEF DraftedCandidates
        <5>4. QED
          BY <1>2, <3>3, <5>1, <5>2, <5>3
      <4>4. QED
        BY <3>2, <3>3, <4>1, <4>2, <4>3
    <3>4. QED
      BY <1>3, <3>1, <3>2, <3>3
  <2>3. QED
    BY <2>1, <2>2
<1>5. ASSUME NEW T \in Scopes, verified'[T] # None, NEW i \in Ids \ mixed',
             row'[i].status # "none", ScopeOf[row'[i].path] = T
      PROVE  Matches(row'[i], verified'[T])
  <2>1. ~TornFrom(draft.row, i) /\ (i \notin mixed \/ Shown(draft, i)) /\ i \in Ids
    BY <1>5 DEF Commits
  <2>2. verified'[T] = IF T = S THEN entries ELSE verified[T]
    BY <1>5 DEF Commits
  <2>3. QED
    BY <1>1, <1>3, <1>5, <2>1, <2>2 DEF DraftedRows
<1>6. QED
  BY <1>4, <1>5 DEF VerifiedIsShown, Shows, Matches

LEMMA ScanCommitDisk ==
    ASSUME BaseInv, SearchInv, DiskInv, ScanCommit
    PROVE  DiskInv'
<1>1. PICK draft, S, entries : draft = scan.draft /\ S = scan.scope /\ entries = scan.entries
  OBVIOUS
<1>2. Commits(draft, S, entries) /\ scan.at = "resolved" /\ scan # NoScan
  BY <1>1, CommitCommits DEF ScanCommit, NoScan
<1>3. UNCHANGED <<disk, quiet, givenUp>>
  BY DEF ScanCommit, files
<1>4. VerifiedIsListing'
  <2>1. SUFFICES ASSUME quiet, NEW T \in Scopes \ (todo' \cup givenUp)
                 PROVE  verified'[T] = Listing(T)
    BY <1>2, <1>3, ListingFrame DEF Commits, VerifiedIsListing
  <2>2. entries = Listing(S)
    BY <1>1, <1>2, <2>1 DEF DiskInv, VerifiedIsListing
  <2>3. T # S => T \notin todo /\ verified[T] = Listing(T)
    BY <1>2, <2>1 DEF Commits, DiskInv, VerifiedIsListing
  <2>4. QED
    BY <1>2, <2>1, <2>2, <2>3 DEF Commits
<1>5. ProperRows'
  BY <1>1, <1>2 DEF Commits, DiskInv, ProperRows, Proper
<1>6. CandidatesAreListed' /\ VerifiedIsShown'
  BY <1>1, <1>2, CommitCandidates, CommitShown
<1>7. scan'.at # "resolved"
  BY <1>2 DEF Commits
<1>8. QED
  BY <1>4, <1>5, <1>6, <1>7, DiskParts, NoDraftDisk DEF StateDisk

LEMMA NextDisk ==
    ASSUME BaseInv, SearchInv, DiskInv, [Next]_vars
    PROVE  DiskInv'
<1>1. CASE \/ \E p \in Paths, c \in Contents : WriteFile(p, c)
           \/ \E p \in Paths : RemoveFile(p)
           \/ \E p, q \in Paths : MoveFile(p, q)
  BY <1>1, FilesDisk
<1>2. ASSUME NEW S \in Scopes, ScanUnchanged(S) \/ ScanList(S)
      PROVE  DiskInv'
  BY <1>2, ScanUnchangedDisk, ScanListDisk
<1>3. CASE ScanResolve
  BY <1>3, ScanResolveDisk
<1>4. CASE ScanSettle
  BY <1>4, ScanSettleDisk
<1>5. CASE ScanCommit
  BY <1>5, ScanCommitDisk
<1>6. CASE ScanFail
  BY <1>6, ScanFailDisk
<1>7. CASE Crash
  BY <1>7, CrashDisk
<1>8. CASE NewCycle
  BY <1>8, NewCycleDisk
<1>9. CASE RebuildRead \/ RebuildWrite \/ RebuildClear
  BY <1>9, RebuildDisk
<1>10. CASE UNCHANGED vars
  <2>1. UNCHANGED <<disk, quiet, registry, row, candidates, verified, cycle, todo, scan, mixed,
                    undecided, givenUp>>
    BY <1>10 DEF vars
  <2>2. VerifiedIsListing'
    BY <2>1, ListingFrame DEF DiskInv, VerifiedIsListing
  <2>3. QED
    BY <2>1, <2>2, DiskParts, DiskFrame
<1>11. QED
  BY <1>1, <1>2, <1>3, <1>4, <1>5, <1>6, <1>7, <1>8, <1>9, <1>10 DEF Next

\* The inductive invariant holds in every reachable state.
THEOREM Invariance == Spec => []IInv
<1>1. Init => IInv
  BY InitInv, InitSearch, InitDisk DEF IInv
<1>2. IInv /\ [Next]_vars => IInv'
  BY NextInv, NextSearch, NextDisk DEF IInv
<1>3. QED
  BY <1>1, <1>2, PTL DEF Spec

\* apply_search_fts_delta, rebuild_public_search_index and the rebuild at the
\* start keep the search entry of each resource at the path of its row, whatever
\* fails or crashes: unless the table is marked dirty, a scan was committed while
\* a rebuild held old rows, or a scan recorded the resource elsewhere and ended.
THEOREM SearchFollows == Spec => []SearchFollowsIndex
<1>1. IInv => SearchFollowsIndex
  BY DEF IInv, SearchInv
<1>2. QED
  BY <1>1, Invariance, PTL

\* A cycle of _scan_cycle_item and _commit_scope that began after the last change
\* of the files and the last fault leaves the index as the files are, in every
\* folder not given up: a file without a row is one whose path no scan of the
\* cycle was left to decide about, and a row shown without its file is one that
\* an ended scan had recorded elsewhere.
THEOREM IndexFollows == Spec => []IndexFollowsDisk
<1>1. ASSUME IInv, Settled, NEW p \in Paths, ScopeOf[p] \notin givenUp
      PROVE  /\ disk[p] # None /\ p \notin undecided =>
                    \E i \in Ids : row[i] = ActiveRow(p, disk[p])
             /\ \A i \in Ids \ mixed : Active(i) /\ row[i].path = p =>
                    disk[p] # None /\ row[i].content = disk[p]
  <2>1. PICK T \in Scopes : T = ScopeOf[p]
    BY ResourceAssumption
  <2>2. verified[T] = Listing(T) /\ todo = {}
    BY <1>1, <2>1 DEF IInv, DiskInv, VerifiedIsListing, Settled
  <2>3. Listing(T) \in Listings
    <3>1. Listing(T) \in [Files(T) -> Contents] /\ Files(T) \in SUBSET Paths
      BY <1>1 DEF IInv, BaseInv, TypeOK, Listing, Files
    <3>2. QED
      BY <3>1 DEF Listings
  <2>4. /\ DOMAIN Listing(T) = Files(T)
        /\ p \in Files(T) <=> disk[p] # None
        /\ p \in Files(T) => Listing(T)[p] = disk[p]
    BY <2>1 DEF Listing, Files
  <2>5. verified[T] # None
    BY <2>2, <2>3, ResourceAssumption
  <2>6. /\ \A q \in DOMAIN verified[T] \ undecided : Shows(row, q, verified[T][q]) \/ Waits(q)
        /\ \A i \in Ids \ mixed : row[i].status # "none" /\ ScopeOf[row[i].path] = T =>
               Matches(row[i], verified[T])
    BY <1>1, <2>5 DEF IInv, DiskInv, VerifiedIsShown
  <2>7. ASSUME disk[p] # None, p \notin undecided
        PROVE  \E i \in Ids : row[i] = ActiveRow(p, disk[p])
    <3>1. ~Waits(p)
      BY <2>2 DEF Waits
    <3>2. QED
      BY <2>2, <2>4, <2>6, <2>7, <3>1 DEF Shows
  <2>8. ASSUME NEW i \in Ids \ mixed, Active(i), row[i].path = p
        PROVE  disk[p] # None /\ row[i].content = disk[p]
    <3>1. Matches(row[i], Listing(T)) /\ row[i].status = "active"
      BY <2>1, <2>2, <2>6, <2>8 DEF Active
    <3>2. p \in Files(T) /\ row[i] = ActiveRow(p, disk[p])
      BY <2>4, <2>8, <3>1 DEF Matches
    <3>3. QED
      BY <2>4, <3>2 DEF ActiveRow
  <2>9. QED
    BY <2>7, <2>8
<1>2. IInv => IndexFollowsDisk
  BY <1>1 DEF IndexFollowsDisk
<1>3. QED
  BY <1>2, Invariance, PTL

\* The database refuses what a scan is about to commit, and with it the folder,
\* only for a file that is back at the path of a missing row, which the lookup of
\* existing rows in _commit_scope does not return, or for a resource that an ended
\* scan recorded elsewhere.
THEOREM RefusalsHaveCause == Spec => []RefusalHasCause
<1>1. IInv => RefusalHasCause
  BY DEF IInv, DiskInv
<1>2. QED
  BY <1>1, Invariance, PTL

=============================================================================
