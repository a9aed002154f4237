---------------------------- MODULE SharesProofs ----------------------------
(***************************************************************************)
(* Theorems about Shares, for every set of shares and requests and every   *)
(* bound.  CountInv carries the counts and the refinement of ShareQuota;   *)
(* EditInv, for one editor at a time, carries what tickets and             *)
(* cancellations promise.                                                  *)
(***************************************************************************)
EXTENDS Shares, TLAPS

-----------------------------------------------------------------------------
(* Types of the rows the requests write *)

LEMMA LegacyRowType == LegacyRow \in Row
  BY DEF LegacyRow, Row, Never, NoCode

\* The edits of a row are rows.
LEMMA EditTypes ==
    ASSUME NEW r \in Row, NEW c \in Nat, now \in Nat
    PROVE  /\ Cancelled(r) \in Row /\ Reopened(r) \in Row /\ WithCode(r, c) \in Row
           /\ \A d \in Durations : Extended(r, d) \in Row
  <1>1. \A d \in Durations : ExpiresAt(d) \in Nat \cup {Never}
    BY SharesAssumption DEF ExpiresAt, Durations, Permanent
  <1>2. r.version + 1 \in Nat
    BY DEF Row
  <1>3. QED
    BY <1>1, <1>2 DEF Cancelled, Reopened, WithCode, Extended, Row

\* A flush writes a row and leaves the count alone.
LEMMA FlushTypes ==
    ASSUME NEW a \in Row, NEW b \in Row, NEW c \in Row
    PROVE  Flushed(a, b, c) \in Row /\ Flushed(a, b, c).downloads = a.downloads
  BY DEF Flushed, Column, Row

LEMMA FinishTypes ==
    ASSUME TypeOK, NEW p \in Requests, Finish(p)
    PROVE  /\ pc' \in [Requests -> {"idle", "editing", "verifying", "resolving"}]
           /\ held' \in [Requests -> [token: Tokens, row: Row]]
  <1>1. [token |-> held[p].token, row |-> LegacyRow] \in [token: Tokens, row: Row]
    BY LegacyRowType DEF TypeOK
  <1>2. QED
    BY <1>1 DEF TypeOK, Finish

LEMMA LoadTypes ==
    ASSUME TypeOK, NEW p \in Requests, NEW s \in Tokens,
           NEW point \in {"editing", "verifying", "resolving"}, Load(p, s, point)
    PROVE  TypeOK'
  <1>1. [token |-> s, row |-> share[s]] \in [token: Tokens, row: Row]
    BY DEF TypeOK
  <1>2. QED
    BY <1>1 DEF TypeOK, Load

-----------------------------------------------------------------------------
(* The counts *)

\* Committing an edit keeps the counts.
LEMMA SaveCounts ==
    ASSUME CountInv, NEW e \in Requests, NEW edited \in Row, Save(e, edited), codes' \in Nat
    PROVE  CountInv'
  <1>. DEFINE s == held[e].token
  <1>1. s \in Tokens /\ held[e].row \in Row /\ share[s] \in Row
    BY DEF CountInv, TypeOK
  <1>2. share' \in [Tokens -> Row]
    BY <1>1, FlushTypes DEF Save, CountInv, TypeOK
  <1>3. \A x \in Tokens : share'[x].downloads = share[x].downloads
    BY <1>1, FlushTypes DEF Save, CountInv, TypeOK
  <1>4. TypeOK'
    BY <1>2, FinishTypes DEF Save, CountInv, TypeOK
  <1>5. QED
    BY <1>3, <1>4 DEF Save, CountInv, TypeOK, DownloadsCounted

LEMMA EditCounts ==
    ASSUME CountInv, NEW e \in Editors,
           Cancel(e) \/ Restore(e) \/ ResetCode(e) \/ ChangeDuration(e)
    PROVE  CountInv'
  <1>. DEFINE r == held[e].row
  <1>1. e \in Requests /\ r \in Row /\ now \in Nat /\ codes \in Nat
    BY SharesAssumption DEF CountInv, TypeOK, Requests
  <1>2. \E edited \in Row : Save(e, edited)
    <2>1. /\ Cancelled(r) \in Row
          /\ \A d \in Durations : Extended(Cancelled(r), d) \in Row
      BY <1>1, EditTypes
    <2>2. /\ Reopened(r) \in Row
          /\ \A d \in Durations : Extended(Reopened(r), d) \in Row
      BY <1>1, EditTypes
    <2>3. /\ WithCode(r, codes + 1) \in Row
          /\ \A d \in Durations : Extended(r, d) \in Row
      <3>1. codes + 1 \in Nat
        BY <1>1
      <3>2. \A c \in Nat : WithCode(r, c) \in Row
        BY <1>1, EditTypes
      <3>3. \A d \in Durations : Extended(r, d) \in Row
        BY <1>1, EditTypes
      <3>4. QED
        BY <3>1, <3>2, <3>3
    <2>4. CASE Cancel(e)
      BY <2>1, <2>4 DEF Cancel
    <2>5. CASE Restore(e)
      BY <2>2, <2>5 DEF Restore
    <2>6. CASE ResetCode(e)
      BY <2>3, <2>6 DEF ResetCode
    <2>7. CASE ChangeDuration(e)
      BY <2>3, <2>7 DEF ChangeDuration
    <2>8. QED
      BY <2>4, <2>5, <2>6, <2>7
  <1>3. codes' \in Nat
    BY <1>1 DEF Cancel, Restore, ResetCode, ChangeDuration
  <1>4. QED
    BY <1>1, <1>2, <1>3, SaveCounts

\* A granted download adds one to both counts, below the limit.
LEMMA GrantCounts ==
    ASSUME CountInv, NEW v \in Visitors, DownloadGrant(v)
    PROVE  CountInv'
  <1>. DEFINE s == held[v].token
  <1>1. v \in Requests /\ s \in Tokens /\ s \in rows /\ share[s] \in Row
    BY DEF CountInv, TypeOK, Requests, DownloadGrant, CanReserve
  <1>2. share[s].downloads < MaxDownloads /\ share[s].downloads + 1 \in Nat
    BY <1>1 DEF DownloadGrant, CanReserve, Row
  <1>3. Reserved(v) \in Row /\ Reserved(v).downloads = share[s].downloads + 1
    <2>1. now \in Nat /\ (share[s].downloads + 1 >= MaxDownloads) \in BOOLEAN
      BY SharesAssumption DEF CountInv, TypeOK
    <2>2. Reserved(v).downloads = share[s].downloads + 1
      BY <1>1 DEF Reserved, Row
    <2>3. QED
      BY <1>1, <1>2, <2>1, <2>2 DEF Reserved, Row
  <1>4. granted[s] = share[s].downloads /\ granted' = [granted EXCEPT ![s] = @ + 1]
    BY <1>1 DEF CountInv, DownloadsCounted, DownloadGrant
  <1>5. share' = [share EXCEPT ![s] = Reserved(v)]
    BY DEF DownloadGrant
  <1>6. TypeOK'
    BY <1>1, <1>3, <1>4, <1>5, FinishTypes DEF DownloadGrant, CountInv, TypeOK
  <1>7. DownloadsCounted'
    <2>1. share'[s].downloads = granted'[s] /\ granted'[s] <= MaxDownloads
      BY <1>1, <1>2, <1>3, <1>4, <1>5, SharesAssumption DEF CountInv, TypeOK
    <2>2. \A x \in rows : x # s => share'[x] = share[x] /\ granted'[x] = granted[x]
      BY <1>1, <1>4, <1>5 DEF CountInv, TypeOK
    <2>3. QED
      BY <2>1, <2>2 DEF DownloadsCounted, CountInv, DownloadGrant
  <1>8. \A x \in Tokens \ born' : granted'[x] = 0
    BY <1>1, <1>4 DEF CountInv, TypeOK, DownloadGrant
  <1>9. QED
    BY <1>6, <1>7, <1>8 DEF CountInv

LEMMA CreateCounts ==
    ASSUME CountInv, NEW s \in Tokens, NEW mode \in {"code", "direct"}, NEW d \in Durations,
           Create(s, mode, d)
    PROVE  CountInv'
  <1>1. ExpiresAt(d) \in Nat \cup {Never} /\ codes + 1 \in Nat
    BY SharesAssumption DEF ExpiresAt, Durations, Permanent, CountInv, TypeOK
  <1>2. share' \in [Tokens -> Row] /\ share'[s].downloads = 0
    BY <1>1 DEF Create, CountInv, TypeOK, Row, NoCode, Never
  <1>3. TypeOK'
    BY <1>1, <1>2 DEF Create, CountInv, TypeOK
  <1>4. granted[s] = 0 /\ \A x \in rows : x # s => share'[x] = share[x]
    BY DEF Create, CountInv, TypeOK
  <1>5. QED
    BY <1>2, <1>3, <1>4, SharesAssumption DEF Create, CountInv, DownloadsCounted, TypeOK

\* The ticket of a verification is well-typed.
LEMMA PassTypes ==
    ASSUME TypeOK, NEW v \in Visitors, VerifyPass(v)
    PROVE  tickets' \subseteq Ticket
  <1>1. held[v].token \in Tokens /\ held[v].row \in Row /\ now + TicketTTL \in Nat
    BY SharesAssumption DEF TypeOK, Requests
  <1>2. held[v].row.expires # Never =>
           Earlier(now + TicketTTL, held[v].row.expires) \in Nat
    BY <1>1 DEF Earlier, Row
  <1>3. QED
    BY <1>1, <1>2 DEF VerifyPass, TypeOK, Ticket, Row

\* Every other step leaves the counts and the rows' columns alone.
LEMMA QuietCounts ==
    ASSUME CountInv, TypeOK', UNCHANGED <<born, share, granted>>, rows' \subseteq rows
    PROVE  CountInv'
  BY DEF CountInv, DownloadsCounted

\* CountInv is inductive.
LEMMA CountStep == CountInv /\ [Next]_vars => CountInv'
  <1>. SUFFICES ASSUME CountInv, [Next]_vars PROVE CountInv'
    OBVIOUS
  <1>. USE DEF CountInv
  <1>1. CASE Tick
    BY <1>1, QuietCounts, SharesAssumption DEF Tick, TypeOK
  <1>2. CASE CleanupSelect
    BY <1>2, QuietCounts DEF CleanupSelect, TypeOK
  <1>3. CASE CleanupDelete
    BY <1>3, QuietCounts DEF CleanupDelete, TypeOK
  <1>4. ASSUME NEW s \in Tokens, TargetChanges(s) PROVE CountInv'
    BY <1>4, QuietCounts DEF TargetChanges, TypeOK
  <1>5. ASSUME NEW p \in Requests, NEW s \in Tokens,
               EditStart(p, s) \/ VerifyStart(p, s) \/ DownloadStart(p, s)
        PROVE  CountInv'
    <2>1. Load(p, s, "editing") \/ Load(p, s, "verifying") \/ Load(p, s, "resolving")
      BY <1>5 DEF EditStart, VerifyStart, DownloadStart
    <2>2. TypeOK'
      BY <2>1, LoadTypes
    <2>3. QED
      BY <2>1, <2>2, QuietCounts DEF Load
  <1>6. ASSUME NEW e \in Editors, Delete(e) PROVE CountInv'
    <2>1. TypeOK'
      BY <1>6, FinishTypes DEF Delete, TypeOK, Requests
    <2>2. QED
      BY <1>6, <2>1, QuietCounts DEF Delete
  <1>7. ASSUME NEW v \in Visitors, VerifyPass(v) PROVE CountInv'
    <2>1. TypeOK'
      BY <1>7, PassTypes, FinishTypes DEF VerifyPass, TypeOK, Requests
    <2>2. QED
      BY <1>7, <2>1, QuietCounts DEF VerifyPass
  <1>8. ASSUME NEW p \in Requests, Fail(p) PROVE CountInv'
    <2>1. TypeOK'
      BY <1>8, FinishTypes DEF Fail, TypeOK
    <2>2. QED
      BY <1>8, <2>1, QuietCounts DEF Fail
  <1>9. CASE UNCHANGED vars
    BY <1>9, QuietCounts DEF vars, TypeOK
  <1>10. QED
    BY <1>1, <1>2, <1>3, <1>4, <1>5, <1>6, <1>7, <1>8, <1>9,
       CreateCounts, EditCounts, GrantCounts DEF Next, Requests

LEMMA CountInit == Init => CountInv
  <1>. SUFFICES ASSUME Init PROVE CountInv
    OBVIOUS
  <1>1. held \in [Requests -> [token: Tokens, row: Row]]
    BY LegacyRowType DEF Init
  <1>2. TypeOK
    BY <1>1, SharesAssumption, LegacyRowType DEF Init, TypeOK
  <1>3. DownloadsCounted
    <2>1. \A s \in Tokens : share[s].downloads = 0 /\ granted[s] = 0
      BY DEF Init, LegacyRow
    <2>2. rows \subseteq Tokens /\ 0 <= MaxDownloads
      BY SharesAssumption DEF Init
    <2>3. QED
      BY <2>1, <2>2 DEF DownloadsCounted
  <1>4. QED
    BY <1>2, <1>3 DEF Init, CountInv

THEOREM CountsInvariant == Spec => []CountInv
  BY CountInit, CountStep, PTL DEF Spec

\* Every redirect is counted exactly once and the count never passes the limit,
\* for any number of editors and visitors (DownloadsCounted).
THEOREM EveryDownloadCounted == Spec => []DownloadsCounted
  <1>1. CountInv => DownloadsCounted
    BY DEF CountInv
  <1>2. QED
    BY <1>1, CountsInvariant, PTL

-----------------------------------------------------------------------------
(* Shares implements ShareQuota *)

LEMMA GrantRefines ==
    ASSUME CountInv, NEW v \in Visitors, DownloadGrant(v)
    PROVE  \E s \in Tokens : Quota!Grant(s)
  <1>. DEFINE s == held[v].token
  <1>1. s \in Tokens /\ s \in rows /\ rows' = rows /\ share[s] \in Row
    BY DEF CountInv, TypeOK, Requests, DownloadGrant, CanReserve
  <1>2. share[s].enabled /\ granted[s] = share[s].downloads /\ granted[s] < MaxDownloads
    BY <1>1 DEF CountInv, DownloadsCounted, DownloadGrant, CanReserve
  <1>3. granted' = [granted EXCEPT ![s] = @ + 1]
    BY DEF DownloadGrant
  <1>4. share' = [share EXCEPT ![s] = Reserved(v)]
    BY DEF DownloadGrant
  <1>5. Reserved(v).enabled = (granted[s] + 1 < MaxDownloads)
    BY <1>1, <1>2, SharesAssumption DEF Reserved, Row
  <1>6. (s \in {x \in rows : share[x].enabled}') <=> granted[s] + 1 # MaxDownloads
    <2>1. share'[s] = Reserved(v)
      BY <1>1, <1>4 DEF CountInv, TypeOK
    <2>2. share[s].downloads + 1 <= MaxDownloads /\ granted[s] \in Nat
      BY <1>1, <1>2, SharesAssumption DEF Row, CountInv, TypeOK
    <2>3. (granted[s] + 1 < MaxDownloads) <=> granted[s] + 1 # MaxDownloads
      BY <1>2, <2>2, SharesAssumption
    <2>4. (s \in {x \in rows : share[x].enabled}') <=> share'[s].enabled
      BY <1>1
    <2>5. QED
      BY <1>5, <2>1, <2>3, <2>4
  <1>7. \A x \in rows : x # s => share'[x] = share[x]
    BY <1>1, <1>4 DEF CountInv, TypeOK
  <1>8. {x \in rows : share[x].enabled}' =
           IF granted[s] + 1 = MaxDownloads THEN {x \in rows : share[x].enabled} \ {s}
           ELSE {x \in rows : share[x].enabled}
    BY <1>1, <1>2, <1>6, <1>7
  <1>9. QED
    BY <1>1, <1>2, <1>3, <1>8 DEF Quota!Grant

\* Shares implements the download quota: at most MaxDownloads redirects, each
\* through an enabled share, and the last one closes it (QuotaKept).
THEOREM QuotaRefinement == Spec => QuotaKept
  <1>1. Init => Quota!Init
    BY SharesAssumption DEF Init, Quota!Init
  <1>2. ASSUME CountInv, CountInv', [Next]_vars
        PROVE  [Quota!Next]_<<{s \in rows : share[s].enabled}, granted>>
    <2>1. CASE \E v \in Visitors : DownloadGrant(v)
      BY <1>2, <2>1, GrantRefines DEF Quota!Next
    <2>2. CASE UNCHANGED granted
      <3>1. {s \in rows : share[s].enabled}' \in SUBSET Tokens
        BY <1>2 DEF CountInv, TypeOK
      <3>2. QED
        BY <2>2, <3>1 DEF Quota!Next, Quota!Manage
    <2>3. QED
      BY <1>2, <2>1, <2>2
         DEF Next, vars, Tick, CleanupSelect, CleanupDelete, TargetChanges, Create,
             EditStart, VerifyStart, DownloadStart, Load, Cancel, Restore, ResetCode,
             ChangeDuration, Save, Delete, VerifyPass, Fail
  <1>3. QED
    BY <1>1, <1>2, CountsInvariant, PTL DEF Spec, QuotaKept, Quota!Spec

-----------------------------------------------------------------------------
(* One editor at a time: tickets and cancellations *)

OneEditor == \A d, e \in Editors : d = e

LEMMA CancelledFacts ==
    ASSUME NEW r \in Row, now \in Nat
    PROVE  /\ Cancelled(r).version = r.version /\ Cancelled(r).code = r.code
           /\ Cancelled(r).enabled = FALSE
  BY DEF Cancelled, Row

\* A step that writes no row: requests end, go on or load a row as it is.
LEMMA QuietEdits ==
    ASSUME EditInv, CountInv', UNCHANGED <<born, share>>, rows' \subseteq rows,
           \A t \in tickets' : t \in tickets \/ NotNewer(t.token, t.version, t.code),
           \A p \in Requests :
              \/ pc'[p] = "idle"
              \/ pc'[p] = pc[p] /\ held'[p] = held[p]
              \/ held'[p].token \in rows /\ held'[p].row = share[held'[p].token]
    PROVE  EditInv'
  <1>1. rows \subseteq born
    BY DEF EditInv, CountInv, TypeOK
  <1>2. CancelledIsClosed'
    BY DEF EditInv, CancelledIsClosed
  <1>3. \A t \in tickets' : NotNewer(t.token, t.version, t.code)'
    BY DEF EditInv, NotNewer
  <1>4. ASSUME NEW p \in Requests, pc'[p] # "idle" PROVE held'[p].token \in born'
    BY <1>1, <1>4 DEF EditInv
  <1>5. ASSUME NEW e \in Editors, pc'[e] = "editing", held'[e].token \in rows'
        PROVE  EditOK(e)'
    <2>1. CASE pc'[e] = pc[e] /\ held'[e] = held[e]
      BY <1>5, <2>1 DEF EditInv, EditOK
    <2>2. CASE held'[e].token \in rows /\ held'[e].row = share[held'[e].token]
      BY <1>5, <2>2 DEF EditInv, EditOK, CancelledIsClosed
    <2>3. QED
      BY <1>5, <2>1, <2>2 DEF Requests
  <1>6. ASSUME NEW p \in Requests, pc'[p] = "verifying"
        PROVE  NotNewer(held[p].token, held[p].row.version, held[p].row.code)'
    <2>1. CASE pc'[p] = pc[p] /\ held'[p] = held[p]
      BY <1>6, <2>1 DEF EditInv, NotNewer
    <2>2. CASE held'[p].token \in rows /\ held'[p].row = share[held'[p].token]
      <3>1. share[held'[p].token].version \in Nat
        BY <1>1, <2>2 DEF EditInv, CountInv, TypeOK, Row
      <3>2. QED
        BY <1>1, <2>2, <3>1 DEF NotNewer
    <2>3. QED
      BY <1>6, <2>1, <2>2
  <1>7. QED
    BY <1>2, <1>3, <1>4, <1>5, <1>6 DEF EditInv

\* What a commit leaves in the row, given what the editor held.
LEMMA SavedRow ==
    ASSUME EditInv, NEW e \in Editors, pc[e] = "editing", held[e].token \in rows,
           NEW edited \in Row,
           LET r == held[e].row IN
             /\ \/ edited.version = r.version /\ edited.code = r.code
                \/ edited.version = r.version + 1
             /\ \/ edited.enabled = r.enabled /\ edited.cancelled = r.cancelled
                \/ edited.enabled = FALSE
                \/ edited.enabled = TRUE /\ edited.cancelled = Never
    PROVE  LET c == share[held[e].token]
               n == Flushed(c, held[e].row, edited)
           IN  /\ (n.version = c.version /\ n.code = c.code) \/ n.version = c.version + 1
               /\ n.cancelled # Never => ~n.enabled
  <1>. DEFINE r == held[e].row
              c == share[held[e].token]
              n == Flushed(c, r, edited)
  <1>1. r \in Row /\ c \in Row /\ EditOK(e) /\ e \in Requests
    BY DEF EditInv, CountInv, TypeOK, Requests
  <1>2. c.cancelled # Never => ~c.enabled
    BY DEF EditInv, CancelledIsClosed
  <1>3. n.version = edited.version /\ n.code = edited.code
    BY <1>1 DEF EditOK, Flushed, Column
  <1>4. (n.version = c.version /\ n.code = c.code) \/ n.version = c.version + 1
    BY <1>1, <1>3 DEF EditOK
  <1>5. /\ n.enabled = IF edited.enabled # r.enabled THEN edited.enabled ELSE c.enabled
        /\ n.cancelled = IF edited.cancelled # r.cancelled THEN edited.cancelled ELSE c.cancelled
    BY DEF Flushed, Column
  <1>6. /\ r.enabled \in BOOLEAN /\ c.enabled \in BOOLEAN
        /\ r.cancelled # Never => ~r.enabled
        /\ \/ c.enabled = r.enabled /\ c.cancelled = r.cancelled
           \/ r.enabled /\ r.cancelled = Never /\ ~c.enabled
    BY <1>1 DEF EditOK, Row
  <1>7. n.cancelled # Never => ~n.enabled
    BY <1>2, <1>5, <1>6
  <1>8. QED
    BY <1>4, <1>7

LEMMA SaveEdits ==
    ASSUME EditInv, OneEditor, NEW e \in Editors, pc[e] = "editing", CountInv',
           NEW edited \in Row, Save(e, edited),
           LET r == held[e].row IN
             /\ \/ edited.version = r.version /\ edited.code = r.code
                \/ edited.version = r.version + 1
             /\ \/ edited.enabled = r.enabled /\ edited.cancelled = r.cancelled
                \/ edited.enabled = FALSE
                \/ edited.enabled = TRUE /\ edited.cancelled = Never
    PROVE  EditInv'
  <1>. DEFINE s == held[e].token
  <1>1. /\ e \in Requests /\ s \in Tokens /\ UNCHANGED <<born, rows, tickets>>
        /\ pc' = [pc EXCEPT ![e] = "idle"]
        /\ \A p \in Requests : p # e => held'[p] = held[p]
    BY DEF Requests, Save, Finish, EditInv, CountInv, TypeOK
  <1>2. \A p \in Requests : p # e => pc'[p] = pc[p]
    BY <1>1
  <1>3. pc'[e] = "idle"
    BY <1>1 DEF EditInv, CountInv, TypeOK
  <1>4. CASE s \notin rows
    <2>1. share' = share
      BY <1>4 DEF Save
    <2>2. QED
      BY <1>1, <1>2, <1>3, <2>1, QuietEdits
  <1>5. CASE s \in rows
    <2>. DEFINE c == share[s]
                n == Flushed(c, held[e].row, edited)
    <2>1. /\ (n.version = c.version /\ n.code = c.code) \/ n.version = c.version + 1
          /\ n.cancelled # Never => ~n.enabled
      BY <1>5, SavedRow
    <2>2. share' = [share EXCEPT ![s] = n]
      BY <1>5 DEF Save
    <2>. HIDE DEF n
    <2>3. c.version \in Nat /\ share'[s] = n
      BY <1>1, <2>2 DEF EditInv, CountInv, TypeOK, Row
    <2>4. \A x \in Tokens : x # s => share'[x] = share[x]
      BY <2>2 DEF EditInv, CountInv, TypeOK
    <2>5. CancelledIsClosed'
      BY <1>1, <2>1, <2>3, <2>4 DEF EditInv, CancelledIsClosed, CountInv, TypeOK
    <2>6. ASSUME NEW x, NEW v \in Nat, NEW k, NotNewer(x, v, k) PROVE NotNewer(x, v, k)'
      <3>1. x \in Tokens
        BY <2>6 DEF NotNewer, EditInv, CountInv, TypeOK
      <3>2. CASE x = s
        BY <1>1, <2>1, <2>3, <2>6, <3>2 DEF NotNewer
      <3>3. CASE x # s
        BY <1>1, <2>4, <2>6, <3>1, <3>3 DEF NotNewer
      <3>4. QED
        BY <3>2, <3>3
    <2>7. \A t \in tickets' : NotNewer(t.token, t.version, t.code)'
      <3>1. \A t \in tickets : t.version \in Nat
        BY DEF EditInv, CountInv, TypeOK, Ticket
      <3>2. QED
        BY <1>1, <2>6, <3>1 DEF EditInv
    <2>8. ASSUME NEW p \in Requests, pc'[p] = "verifying"
          PROVE  NotNewer(held[p].token, held[p].row.version, held[p].row.code)'
      <3>1. p # e /\ pc[p] = "verifying" /\ held'[p] = held[p]
        BY <1>1, <1>2, <1>3, <2>8
      <3>2. held[p].row.version \in Nat
        BY DEF EditInv, CountInv, TypeOK, Row
      <3>3. NotNewer(held[p].token, held[p].row.version, held[p].row.code)
        BY <3>1 DEF EditInv
      <3>4. PICK x : x = held[p].token
        OBVIOUS
      <3>5. PICK v \in Nat : v = held[p].row.version
        BY <3>2
      <3>6. PICK k : k = held[p].row.code
        OBVIOUS
      <3>7. NotNewer(x, v, k)
        BY <3>3, <3>4, <3>5, <3>6
      <3>8. NotNewer(x, v, k)'
        BY <2>6, <3>7
      <3>9. QED
        BY <3>1, <3>4, <3>5, <3>6, <3>8 DEF NotNewer
    <2>9. \A p \in Requests : pc'[p] # "idle" => held'[p].token \in born'
      BY <1>1, <1>2, <1>3 DEF EditInv
    <2>10. \A d \in Editors : pc'[d] # "editing"
      BY <1>3 DEF OneEditor
    <2>11. QED
      BY <2>5, <2>7, <2>8, <2>9, <2>10 DEF EditInv
  <1>6. QED
    BY <1>4, <1>5

\* What each edit may change of the version, the code and the closing.
LEMMA EditShapes ==
    ASSUME EditInv, OneEditor, NEW e \in Editors, CountInv',
           Cancel(e) \/ Restore(e) \/ ResetCode(e) \/ ChangeDuration(e)
    PROVE  EditInv'
  <1>. DEFINE r == held[e].row
  <1>1. r \in Row /\ now \in Nat /\ codes + 1 \in Nat
    BY SharesAssumption DEF EditInv, CountInv, TypeOK, Requests
  <1>2. pc[e] = "editing"
    BY DEF Cancel, Restore, ResetCode, ChangeDuration
  <1>. DEFINE Mild(x) == /\ x \in Row
                         /\ \/ x.version = r.version /\ x.code = r.code
                            \/ x.version = r.version + 1
                         /\ \/ x.enabled = r.enabled /\ x.cancelled = r.cancelled
                            \/ x.enabled = FALSE
                            \/ x.enabled = TRUE /\ x.cancelled = Never
  <1>3. Mild(Cancelled(r)) /\ \A d \in Durations : Mild(Extended(Cancelled(r), d))
    BY <1>1, EditTypes DEF Cancelled, Extended, Row
  <1>4. Mild(Reopened(r)) /\ \A d \in Durations : Mild(Extended(Reopened(r), d))
    BY <1>1, EditTypes DEF Reopened, Extended, Row
  <1>5. Mild(WithCode(r, codes + 1)) /\ \A d \in Durations : Mild(Extended(r, d))
    BY <1>1, EditTypes DEF WithCode, Extended, Row
  <1>6. \E x : Mild(x) /\ Save(e, x)
    <2>. HIDE DEF Mild
    <2>1. CASE Cancel(e)
      BY <1>3, <2>1 DEF Cancel
    <2>2. CASE Restore(e)
      BY <1>4, <2>2 DEF Restore
    <2>3. CASE ResetCode(e)
      BY <1>5, <2>3 DEF ResetCode
    <2>4. CASE ChangeDuration(e)
      BY <1>5, <2>4 DEF ChangeDuration
    <2>5. QED
      BY <2>1, <2>2, <2>3, <2>4
  <1>7. QED
    BY <1>2, <1>6, SaveEdits

\* A granted download closes the share with its last grant and leaves the code.
LEMMA GrantEdits ==
    ASSUME EditInv, NEW v \in Visitors, DownloadGrant(v), CountInv'
    PROVE  EditInv'
  <1>. DEFINE s == held[v].token
              c == share[s]
              n == Reserved(v)
  <1>1. /\ v \in Requests /\ s \in Tokens /\ s \in rows /\ c \in Row /\ c.enabled
        /\ UNCHANGED <<born, rows, tickets>>
        /\ share' = [share EXCEPT ![s] = n]
    BY DEF EditInv, CountInv, TypeOK, Requests, DownloadGrant, CanReserve
  <1>2. /\ n.version = c.version /\ n.code = c.code
        /\ n.cancelled # Never => ~n.enabled
        /\ \/ n.enabled = c.enabled /\ n.cancelled = c.cancelled
           \/ ~n.enabled
    <2>1. c.cancelled = Never
      BY <1>1 DEF EditInv, CancelledIsClosed
    <2>2. QED
      BY <1>1, <2>1 DEF Reserved, Row
  <1>. HIDE DEF n
  <1>3. /\ pc'[v] = "idle"
        /\ \A p \in Requests : p # v => pc'[p] = pc[p] /\ held'[p] = held[p]
    BY <1>1 DEF DownloadGrant, Finish, EditInv, CountInv, TypeOK
  <1>4. share'[s] = n /\ \A x \in Tokens : x # s => share'[x] = share[x]
    BY <1>1 DEF EditInv, CountInv, TypeOK
  <1>5. CancelledIsClosed'
    BY <1>1, <1>2, <1>4 DEF EditInv, CancelledIsClosed, CountInv, TypeOK
  <1>6. \A x \in Tokens : share'[x].version = share[x].version /\ share'[x].code = share[x].code
    BY <1>2, <1>4
  <1>7. \A t \in tickets' : NotNewer(t.token, t.version, t.code)'
    BY <1>1, <1>6 DEF EditInv, NotNewer, CountInv, TypeOK, Ticket
  <1>8. ASSUME NEW p \in Requests, pc'[p] = "verifying"
        PROVE  NotNewer(held[p].token, held[p].row.version, held[p].row.code)'
    BY <1>1, <1>3, <1>6, <1>8 DEF EditInv, NotNewer, CountInv, TypeOK
  <1>9. ASSUME NEW e \in Editors, pc'[e] = "editing", held'[e].token \in rows'
        PROVE  EditOK(e)'
    <2>1. e \in Requests /\ e # v /\ pc[e] = "editing" /\ held'[e] = held[e]
      BY <1>3, <1>9 DEF Requests
    <2>2. EditOK(e) /\ held[e].token \in Tokens
      BY <1>1, <1>9, <2>1 DEF EditInv, CountInv, TypeOK
    <2>3. CASE held[e].token # s
      BY <1>4, <2>1, <2>2, <2>3 DEF EditOK
    <2>4. CASE held[e].token = s
      <3>1. /\ held[e].row.enabled = c.enabled /\ held[e].row.enabled
            /\ held[e].row.cancelled = c.cancelled
        BY <1>1, <2>2, <2>4 DEF EditOK
      <3>2. c.cancelled = Never
        BY <1>1 DEF EditInv, CancelledIsClosed
      <3>3. QED
        <4>1. n.version = c.version /\ n.code = c.code
          BY <1>2
        <4>2. held[e].row.version = c.version /\ held[e].row.code = c.code
          BY <2>2, <2>4 DEF EditOK
        <4>3. \/ n.enabled = held[e].row.enabled /\ n.cancelled = held[e].row.cancelled
              \/ held[e].row.enabled /\ held[e].row.cancelled = Never /\ ~n.enabled
          BY <1>2, <3>1, <3>2
        <4>4. held'[e].row = held[e].row /\ share'[held'[e].token] = n
          BY <1>4, <2>1, <2>4
        <4>5. held[e].row.cancelled # Never => ~held[e].row.enabled
          BY <3>1, <3>2
        <4>6. QED
          BY <4>1, <4>2, <4>3, <4>4, <4>5 DEF EditOK
    <2>5. QED
      BY <2>3, <2>4
  <1>10. \A p \in Requests : pc'[p] # "idle" => held'[p].token \in born'
    BY <1>1, <1>3 DEF EditInv
  <1>11. QED
    BY <1>5, <1>7, <1>8, <1>9, <1>10 DEF EditInv

\* A new share is known to no ticket and no request.
LEMMA CreateEdits ==
    ASSUME EditInv, NEW s \in Tokens, NEW mode \in {"code", "direct"}, NEW d \in Durations,
           Create(s, mode, d), CountInv'
    PROVE  EditInv'
  <1>1. /\ s \notin born /\ s \notin rows /\ born \subseteq born'
        /\ rows' = rows \cup {s} /\ UNCHANGED <<tickets, pc, held>>
        /\ share'[s].cancelled = Never
        /\ \A x \in Tokens : x # s => share'[x] = share[x]
    BY DEF Create, EditInv, CountInv, TypeOK
  <1>2. CancelledIsClosed'
    BY <1>1 DEF EditInv, CancelledIsClosed, CountInv, TypeOK
  <1>3. \A t \in tickets' : NotNewer(t.token, t.version, t.code)'
    BY <1>1 DEF EditInv, NotNewer, CountInv, TypeOK, Ticket
  <1>4. ASSUME NEW p \in Requests, pc'[p] # "idle" PROVE held[p].token \in born
    BY <1>1, <1>4 DEF EditInv
  <1>5. ASSUME NEW e \in Editors, pc'[e] = "editing", held'[e].token \in rows'
        PROVE  EditOK(e)'
    BY <1>1, <1>4, <1>5 DEF EditInv, EditOK, CountInv, TypeOK, Requests
  <1>6. ASSUME NEW p \in Requests, pc'[p] = "verifying"
        PROVE  NotNewer(held[p].token, held[p].row.version, held[p].row.code)'
    BY <1>1, <1>4, <1>6 DEF EditInv, NotNewer, CountInv, TypeOK
  <1>7. QED
    BY <1>1, <1>2, <1>3, <1>4, <1>5, <1>6 DEF EditInv

\* EditInv is inductive when there is one editor.
LEMMA EditStep == OneEditor /\ EditInv /\ [Next]_vars => EditInv'
  <1>. SUFFICES ASSUME OneEditor, EditInv, [Next]_vars PROVE EditInv'
    OBVIOUS
  <1>1. CountInv'
    BY CountStep DEF EditInv
  <1>2. pc \in [Requests -> {"idle", "editing", "verifying", "resolving"}]
    BY DEF EditInv, CountInv, TypeOK
  <1>3. CASE UNCHANGED <<born, share, pc, held>> /\ rows' \subseteq rows /\ tickets' \subseteq tickets
    BY <1>1, <1>3, QuietEdits
  <1>4. ASSUME NEW p \in Requests, NEW s \in Tokens, NEW point, Load(p, s, point)
        PROVE  EditInv'
    <2>1. /\ UNCHANGED <<born, rows, share, tickets>>
          /\ held'[p].token \in rows /\ held'[p].row = share[held'[p].token]
          /\ \A q \in Requests : q # p => pc'[q] = pc[q] /\ held'[q] = held[q]
      BY <1>2, <1>4 DEF Load, EditInv, CountInv, TypeOK
    <2>2. QED
      BY <1>1, <2>1, QuietEdits
  <1>5. ASSUME NEW p \in Requests, Finish(p), UNCHANGED <<born, share>>,
               rows' \subseteq rows,
               \A t \in tickets' : t \in tickets \/ NotNewer(t.token, t.version, t.code)
        PROVE  EditInv'
    <2>1. /\ pc'[p] = "idle"
          /\ \A q \in Requests : q # p => pc'[q] = pc[q] /\ held'[q] = held[q]
      BY <1>2, <1>5 DEF Finish, EditInv, CountInv, TypeOK
    <2>2. QED
      BY <1>1, <1>5, <2>1, QuietEdits
  <1>6. ASSUME NEW v \in Visitors, VerifyPass(v) PROVE EditInv'
    <2>1. NotNewer(held[v].token, held[v].row.version, held[v].row.code)
      BY <1>6 DEF VerifyPass, EditInv, Requests
    <2>2. \A t \in tickets' : t \in tickets \/ NotNewer(t.token, t.version, t.code)
      BY <1>6, <2>1 DEF VerifyPass
    <2>3. QED
      BY <1>5, <1>6, <2>2 DEF VerifyPass, Requests
  <1>7. ASSUME NEW p \in Requests, Fail(p) PROVE EditInv'
    BY <1>5, <1>7 DEF Fail
  <1>8. ASSUME NEW e \in Editors, Delete(e) PROVE EditInv'
    BY <1>5, <1>8 DEF Delete, Requests
  <1>9. ASSUME NEW p \in Requests, NEW s \in Tokens,
               EditStart(p, s) \/ VerifyStart(p, s) \/ DownloadStart(p, s)
        PROVE  EditInv'
    BY <1>4, <1>9 DEF EditStart, VerifyStart, DownloadStart
  <1>10. QED
    BY <1>1, <1>3, <1>6, <1>7, <1>8, <1>9, EditShapes, GrantEdits, CreateEdits
       DEF Next, vars, Requests, Tick, CleanupSelect, CleanupDelete, TargetChanges

LEMMA EditInit == Init => EditInv
  <1>. SUFFICES ASSUME Init PROVE EditInv
    OBVIOUS
  <1>1. CancelledIsClosed
    BY SharesAssumption DEF Init, CancelledIsClosed, LegacyRow
  <1>2. tickets = {} /\ \A p \in Requests : pc[p] = "idle"
    BY DEF Init
  <1>3. QED
    BY <1>1, <1>2, CountInit DEF EditInv, Requests

THEOREM EditsInvariant == ASSUME OneEditor PROVE Spec => []EditInv
  <1>1. EditInv /\ [Next]_vars => EditInv'
    BY EditStep
  <1>2. QED
    BY <1>1, EditInit, PTL DEF Spec

\* With one editor at a time, a cancelled share is never open
\* (CancelledIsClosed), although downloads cancel shares under an edit.
THEOREM CancelledSharesStayClosed == ASSUME OneEditor PROVE Spec => []CancelledIsClosed
  <1>1. EditInv => CancelledIsClosed
    BY DEF EditInv
  <1>2. QED
    BY <1>1, EditsInvariant, PTL

\* With one editor at a time, an accepted ticket was obtained with the code in
\* force (TicketOpensCurrentCode).
THEOREM TicketsOfCurrentCode == ASSUME OneEditor PROVE Spec => []TicketOpensCurrentCode
  <1>1. EditInv => TicketOpensCurrentCode
    BY DEF EditInv, TicketOpensCurrentCode, NotNewer, Accepts
  <1>2. QED
    BY <1>1, EditsInvariant, PTL
=============================================================================
