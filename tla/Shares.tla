------------------------------- MODULE Shares -------------------------------
(***************************************************************************)
(* Share links of CloudSite (shares/service.py, shares/ticket.py and the   *)
(* handlers of routers/shares.py and routers/admin/shares.py).             *)
(*                                                                         *)
(* Every handler loads the share in one statement and writes it in a later *)
(* one; the API process runs other handlers in between.  An edit writes    *)
(* the columns whose value differs from the one that was loaded, which is  *)
(* how the ORM flushes a row; a download is counted by one conditional     *)
(* UPDATE.  Both are single SQLite transactions.                           *)
(***************************************************************************)
EXTENDS Integers

CONSTANTS
    Tokens,        \* share tokens that can be generated
    Legacy,        \* shares from before codes were hashed: no code_hash
    Editors,       \* requests of an owner or administrator
    Visitors,      \* requests of anonymous visitors
    Lifetimes,     \* DURATION_OPTIONS other than "permanent", in ticks
    TicketTTL,     \* SHARE_TICKET_TTL_SECONDS, in ticks
    Retention,     \* the 48 hours of cleanup_terminal_shares, in ticks
    MaxDownloads,  \* MAX_SHARE_DOWNLOADS; 404 in the code
    MaxCodes,      \* bound: codes generated in a behaviour
    MaxTime        \* bound: the clock stops here

ASSUME SharesAssumption ==
    /\ Legacy \subseteq Tokens
    /\ Editors \cap Visitors = {}
    /\ Lifetimes \subseteq Nat \ {0}
    /\ TicketTTL \in Nat
    /\ Retention \in Nat
    /\ MaxDownloads \in Nat \ {0}
    /\ MaxCodes \in Nat
    /\ MaxTime \in Nat

Requests == Editors \cup Visitors

VARIABLES
    now,      \* the clock
    born,     \* tokens ever generated
    rows,     \* state.db: the tokens with a row in shares
    share,    \* state.db: the columns of the rows
    valid,    \* target_valid_for_share: the shared object is published
    codes,    \* codes generated so far; code n is the n-th one
    tickets,  \* ticket cookies that browsers hold
    pc,       \* where each request is
    held,     \* the row each request has loaded
    doomed,   \* the rows selected by a running cleanup_terminal_shares
    granted   \* history: redirects handed out, per share

vars == <<now, born, rows, share, valid, codes, tickets, pc, held, doomed, granted>>

-----------------------------------------------------------------------------
(* Rows, tickets and the state of a request *)

Never == -1       \* NULL in expires_at and cancelled_at
NoCode == 0       \* NULL in code_hash

Row == [mode: {"code", "direct"},
        enabled: BOOLEAN,
        version: Nat,               \* code_version
        code: Nat,                  \* code_hash, by the code it was made of
        expires: Nat \cup {Never},
        cancelled: Nat \cup {Never},
        downloads: Nat]
LegacyRow == [mode |-> "code", enabled |-> TRUE, version |-> 0, code |-> NoCode,
              expires |-> Never, cancelled |-> Never, downloads |-> 0]
Ticket == [token: Tokens, version: Nat, code: Nat, expires: Nat]

\* Type correctness of every variable.
TypeOK ==
    /\ now \in 0..MaxTime
    /\ born \subseteq Tokens
    /\ rows \subseteq born
    /\ share \in [Tokens -> Row]
    /\ valid \in [Tokens -> BOOLEAN]
    /\ codes \in Nat
    /\ tickets \subseteq Ticket
    /\ pc \in [Requests -> {"idle", "editing", "verifying", "resolving"}]
    /\ held \in [Requests -> [token: Tokens, row: Row]]
    /\ doomed \subseteq Tokens
    /\ granted \in [Tokens -> Nat]

Expired(r) == r.expires # Never /\ r.expires <= now

\* The status that lets a visitor in; every other one is answered with an error.
Active(s) ==
    /\ share[s].mode = "code" => share[s].code # NoCode
    /\ share[s].enabled
    /\ ~Expired(share[s])
    /\ valid[s]

Accepts(s, t) == t.token = s /\ t.version = share[s].version /\ t.expires > now

\* Mutant: only expired shares are removed.
ExpiredLongAgo(r) == r.expires # Never /\ r.expires + Retention <= now

\* Past its retention: removed by the next clean-up.
Terminal(r) ==
    \/ r.expires # Never /\ r.expires + Retention <= now
    \/ r.cancelled # Never /\ r.cancelled + Retention <= now

-----------------------------------------------------------------------------
Init ==
    /\ now = 0
    /\ born = Legacy
    /\ rows = Legacy
    /\ share = [s \in Tokens |-> LegacyRow]
    /\ valid \in [Tokens -> BOOLEAN]
    /\ codes = 0
    /\ tickets = {}
    /\ pc = [p \in Requests |-> "idle"]
    /\ \E s \in Tokens : held = [p \in Requests |-> [token |-> s, row |-> LegacyRow]]
    /\ doomed = {}
    /\ granted = [s \in Tokens |-> 0]

-----------------------------------------------------------------------------
(* Environment: time passes, objects enter and leave the publication scope *)

\* Browsers drop a ticket cookie when its max_age is over.
Tick ==
    /\ now < MaxTime
    /\ now' = now + 1
    /\ tickets' = {t \in tickets : t.expires > now + 1}
    /\ UNCHANGED <<born, rows, share, valid, codes, pc, held, doomed, granted>>

TargetChanges(s) ==
    /\ valid' = [valid EXCEPT ![s] = ~@]
    /\ UNCHANGED <<now, born, rows, share, codes, tickets, pc, held, doomed, granted>>

-----------------------------------------------------------------------------
(* Creating, editing and deleting: the owner's and administrator's requests *)

Permanent == 0
Durations == Lifetimes \cup {Permanent}
ExpiresAt(d) == IF d = Permanent THEN Never ELSE now + d

Create(s, mode, d) ==
    /\ s \notin born
    /\ valid[s]
    /\ codes < MaxCodes
    /\ born' = born \cup {s}
    /\ rows' = rows \cup {s}
    /\ codes' = IF mode = "code" THEN codes + 1 ELSE codes
    /\ share' = [share EXCEPT ![s] =
            [mode |-> mode, enabled |-> TRUE,
             version |-> IF mode = "code" THEN 1 ELSE 0,
             code |-> IF mode = "code" THEN codes + 1 ELSE NoCode,
             expires |-> ExpiresAt(d), cancelled |-> Never, downloads |-> 0]]
    /\ UNCHANGED <<now, valid, tickets, pc, held, doomed, granted>>

\* A request loads the row it is about and goes on with that copy.
Load(p, s, point) ==
    /\ pc[p] = "idle"
    /\ s \in rows
    /\ pc' = [pc EXCEPT ![p] = point]
    /\ held' = [held EXCEPT ![p] = [token |-> s, row |-> share[s]]]
    /\ UNCHANGED <<now, born, rows, share, valid, codes, tickets, doomed, granted>>

EditStart(e, s) == Load(e, s, "editing")

\* The column as the ORM leaves it: written only if the request changed it.
\* (Time stamps of one tick are equal here, so that cancelling twice within a
\* tick writes cancelled_at once; the code would write it again.)
Column(current, loaded, edited) == IF edited # loaded THEN edited ELSE current

Flushed(current, loaded, edited) ==
    [mode |-> current.mode,
     enabled |-> Column(current.enabled, loaded.enabled, edited.enabled),
     version |-> Column(current.version, loaded.version, edited.version),
     code |-> Column(current.code, loaded.code, edited.code),
     expires |-> Column(current.expires, loaded.expires, edited.expires),
     cancelled |-> Column(current.cancelled, loaded.cancelled, edited.cancelled),
     downloads |-> current.downloads]

\* A request ends and drops its copy of the row.
Finish(p) ==
    /\ pc' = [pc EXCEPT ![p] = "idle"]
    /\ held' = [held EXCEPT ![p] = [token |-> held[p].token, row |-> LegacyRow]]

\* Commits the edited copy; the commit fails if the row is gone.
Save(e, edited) ==
    LET s == held[e].token
    IN  /\ share' = IF s \in rows
                    THEN [share EXCEPT ![s] = Flushed(@, held[e].row, edited)]
                    ELSE share
        /\ Finish(e)
        /\ UNCHANGED <<now, born, rows, valid, tickets, doomed, granted>>

\* Mutants: the reset keeps the version, and the restore keeps cancelled_at.
WithSameVersion(r, c) == [r EXCEPT !.enabled = TRUE, !.cancelled = Never, !.code = c]
EnabledAgain(r) == [r EXCEPT !.enabled = TRUE]

Cancelled(r) == [r EXCEPT !.enabled = FALSE, !.cancelled = now]
Reopened(r) == [r EXCEPT !.enabled = TRUE, !.cancelled = Never]
Extended(r, d) == [r EXCEPT !.expires = ExpiresAt(d)]
WithCode(r, c) == [r EXCEPT !.enabled = TRUE, !.cancelled = Never,
                            !.version = @ + 1, !.code = c]

\* PATCH with action "cancel" or enabled = false, with or without a duration.
Cancel(e) ==
    /\ pc[e] = "editing"
    /\ \/ Save(e, Cancelled(held[e].row))
       \/ \E d \in Durations : Save(e, Extended(Cancelled(held[e].row), d))
    /\ UNCHANGED codes

\* PATCH with action "restore" or enabled = true.  An expired share needs a
\* duration; the administrator's handler and enabled = true apply any duration.
Restore(e) ==
    /\ pc[e] = "editing"
    /\ held[e].row.downloads < MaxDownloads
    /\ \/ ~Expired(held[e].row) /\ Save(e, Reopened(held[e].row))
       \/ \E d \in Durations : Save(e, Extended(Reopened(held[e].row), d))
    /\ UNCHANGED codes

\* PATCH with action "reset_code", or "upgrade" by the administrator.
ResetCode(e) ==
    /\ pc[e] = "editing"
    /\ held[e].row.mode = "code"
    /\ codes < MaxCodes
    /\ codes' = codes + 1
    /\ Save(e, WithCode(held[e].row, codes + 1))

\* PATCH with a duration only.
ChangeDuration(e) ==
    /\ pc[e] = "editing"
    /\ \E d \in Durations : Save(e, Extended(held[e].row, d))
    /\ UNCHANGED codes

Delete(e) ==
    /\ pc[e] = "editing"
    /\ rows' = rows \ {held[e].token}
    /\ Finish(e)
    /\ UNCHANGED <<now, born, share, valid, codes, tickets, doomed, granted>>

-----------------------------------------------------------------------------
(* Visitors: verifying a code and downloading *)

VerifyStart(v, s) ==
    /\ Active(s)
    /\ share[s].mode = "code"
    /\ Load(v, s, "verifying")

Earlier(a, b) == IF a < b THEN a ELSE b

\* The code was the one of the loaded row: the view is counted, which fails
\* if the row is gone, and the ticket is made from the loaded row.
VerifyPass(v) ==
    LET r == held[v].row
    IN  /\ pc[v] = "verifying"
        /\ held[v].token \in rows
        /\ tickets' = tickets \cup
             {[token |-> held[v].token, version |-> r.version, code |-> r.code,
               expires |-> IF r.expires = Never THEN now + TicketTTL
                           ELSE Earlier(now + TicketTTL, r.expires)]}
        /\ Finish(v)
        /\ UNCHANGED <<now, born, rows, share, valid, codes, doomed, granted>>

\* The checks of _share_download_response, before AList resolves the link.
DownloadStart(v, s) ==
    /\ Active(s)
    /\ share[s].downloads < MaxDownloads
    /\ share[s].mode = "code" => \E t \in tickets : Accepts(s, t)
    /\ Load(v, s, "resolving")

\* Mutants: the UPDATE does not test the count, or adds to the loaded count.
ReserveWhileEnabled(v) == held[v].token \in rows /\ share[held[v].token].enabled
ReservedFromCopy(v) ==
    LET n == held[v].row.downloads + 1
    IN  [share[held[v].token] EXCEPT
            !.downloads = n, !.enabled = n < MaxDownloads,
            !.cancelled = IF n >= MaxDownloads THEN now ELSE @]

\* The WHERE clause and the SET clause of reserve_share_download.
CanReserve(v) ==
    LET s == held[v].token
    IN  s \in rows /\ share[s].enabled /\ share[s].downloads < MaxDownloads

Reserved(v) ==
    LET r == share[held[v].token]
        last == r.downloads + 1 >= MaxDownloads
    IN  [r EXCEPT !.downloads = r.downloads + 1,
                  !.enabled = r.enabled /\ ~last,
                  !.cancelled = IF last THEN now ELSE r.cancelled]

\* The link is resolved: the download is counted and the redirect handed out.
DownloadGrant(v) ==
    /\ pc[v] = "resolving"
    /\ CanReserve(v)
    /\ share' = [share EXCEPT ![held[v].token] = Reserved(v)]
    /\ granted' = [granted EXCEPT ![held[v].token] = @ + 1]
    /\ Finish(v)
    /\ UNCHANGED <<now, born, rows, valid, codes, tickets, doomed>>

\* A request ends without an effect: a refused edit, a wrong code, the rate
\* limit, an error of AList, a reservation that matched no row, a crash.
Fail(p) ==
    /\ pc[p] # "idle"
    /\ Finish(p)
    /\ UNCHANGED <<now, born, rows, share, valid, codes, tickets, doomed, granted>>

-----------------------------------------------------------------------------
(* cleanup_terminal_shares, which scheduler_loop runs every hour *)

CleanupSelect ==
    /\ doomed = {}
    /\ doomed' = {s \in rows : Terminal(share[s])}
    /\ doomed' # {}
    /\ UNCHANGED <<now, born, rows, share, valid, codes, tickets, pc, held, granted>>

CleanupDelete ==
    /\ doomed # {}
    /\ rows' = rows \ doomed
    /\ doomed' = {}
    /\ UNCHANGED <<now, born, share, valid, codes, tickets, pc, held, granted>>

Next ==
    \/ Tick
    \/ CleanupSelect
    \/ CleanupDelete
    \/ \E s \in Tokens : TargetChanges(s)
    \/ \E s \in Tokens, mode \in {"code", "direct"}, d \in Durations : Create(s, mode, d)
    \/ \E e \in Editors, s \in Tokens : EditStart(e, s)
    \/ \E e \in Editors :
          Cancel(e) \/ Restore(e) \/ ResetCode(e) \/ ChangeDuration(e) \/ Delete(e)
    \/ \E v \in Visitors, s \in Tokens : VerifyStart(v, s) \/ DownloadStart(v, s)
    \/ \E v \in Visitors : VerifyPass(v) \/ DownloadGrant(v)
    \/ \E p \in Requests : Fail(p)

Spec == Init /\ [][Next]_vars

\* The event loop runs a clean-up that was due and lets it finish.
FairSpec == Spec /\ WF_vars(CleanupSelect) /\ WF_vars(CleanupDelete)

-----------------------------------------------------------------------------
(* Correctness *)

\* Every redirect is counted exactly once, whatever edits and other downloads
\* run meanwhile: no flush of a stale copy takes a count back, and no two
\* reservations share one.  (reserve_share_download, the ORM's flushes)
DownloadsCounted ==
    \A s \in rows : granted[s] = share[s].downloads /\ granted[s] <= MaxDownloads

\* The download quota: an abstract share hands out at most MaxDownloads
\* redirects, only while open, and closes with the last one.
Quota == INSTANCE ShareQuota WITH open <- {s \in rows : share[s].enabled}
QuotaKept == Quota!Spec

\* A cancelled share is not open: cancelled_at and enabled never contradict
\* each other, although edits write columns one by one and a download may
\* cancel the share while an edit is under way.
CancelledIsClosed ==
    \A s \in rows : share[s].cancelled # Never => ~share[s].enabled

\* A ticket that the download and content handlers accept was obtained with
\* the code that is in force: resetting the code ends every older ticket, those
\* of verifications that were under way included.
TicketOpensCurrentCode ==
    \A t \in tickets :
        (t.token \in rows /\ Accepts(t.token, t)) => t.code = share[t.token].code

\* A share that stays cancelled beyond its retention is removed.
CancelledIsRemoved ==
    \A s \in Tokens :
        LET due == /\ s \in rows
                   /\ share[s].cancelled # Never
                   /\ share[s].cancelled + Retention <= now
        IN  due ~> ~due

-----------------------------------------------------------------------------
(* The inductive invariants behind the theorems of SharesProofs *)

\* For any editors: what the counts rest on.
CountInv ==
    /\ TypeOK
    /\ DownloadsCounted
    /\ \A s \in Tokens \ born : granted[s] = 0

\* A copy (version, code) of token s is no newer than the row, and a copy of
\* the row's version is a copy of its code.
NotNewer(s, version, code) ==
    /\ s \in born
    /\ s \in rows => /\ version <= share[s].version
                     /\ version = share[s].version => code = share[s].code

\* What an editor holds is the row, except that a download may have closed it.
EditOK(e) ==
    LET r == held[e].row
        c == share[held[e].token]
    IN  /\ r.version = c.version /\ r.code = c.code
        /\ r.cancelled # Never => ~r.enabled
        /\ \/ c.enabled = r.enabled /\ c.cancelled = r.cancelled
           \/ r.enabled /\ r.cancelled = Never /\ ~c.enabled

\* With one editor at a time.
EditInv ==
    /\ CountInv
    /\ CancelledIsClosed
    /\ \A t \in tickets : NotNewer(t.token, t.version, t.code)
    /\ \A p \in Requests : pc[p] # "idle" => held[p].token \in born
    /\ \A e \in Editors : pc[e] = "editing" /\ held[e].token \in rows => EditOK(e)
    /\ \A p \in Requests :
          pc[p] = "verifying" =>
              NotNewer(held[p].token, held[p].row.version, held[p].row.code)
=============================================================================
