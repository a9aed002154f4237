------------------------------ MODULE Accounts ------------------------------
(***************************************************************************)
(* Accounts and sessions of the members: auth.py, users.py, sessions.py and *)
(* the session check of infrastructure/middleware.py.                       *)
(*                                                                         *)
(* A request reads the account it is about outside of any transaction, and  *)
(* commits later: other requests commit in between.  What it then writes    *)
(* are the columns it changed in the row it has read, the revocation of     *)
(* sessions that are there by now, and sessions of its own.  The scheduler  *)
(* deletes the rows of dead sessions.                                       *)
(***************************************************************************)
EXTENDS Integers

CONSTANTS
    MaxUsers,   \* bound: accounts
    Names,      \* normalised user names
    Passwords,
    Sessions,   \* rows for sessions
    Requests,   \* requests under way
    None,       \* no account, no session
    Life,       \* USER_SESSION_MAX_AGE, in days
    Retention,  \* SESSION_RETENTION_DAYS
    MaxRequests \* bound: requests that read

Users == 1..MaxUsers   \* identifiers of accounts, given out in order

ASSUME AccountsAssumption ==
    /\ None \notin Users \cup Names \cup Passwords
    /\ {Life, Retention, MaxUsers, MaxRequests} \subseteq Nat /\ Life > 0

VARIABLES
    users,      \* state.db: users
    sessions,   \* state.db: user_sessions
    request,    \* memory: what each request has read and is about to write
    spent       \* how much of the bound is used

vars == <<users, sessions, request, spent>>

-----------------------------------------------------------------------------
(* State *)

Account == [name: Names, pass: Passwords, active: BOOLEAN, deleted: BOOLEAN]

\* Days since a session was created and since it was revoked, as far as they
\* matter, the password that was proved for it, and whether the account had
\* changed between that proof and the commit (history).
Eternity == Life + Retention + 1
NotRevoked == -1
Session == [user: Users, pass: Passwords, late: BOOLEAN, age: 0..Eternity,
            revoked: NotRevoked..Retention + 1]

Kinds == {"register", "create", "login", "change", "enable", "disable", "reset",
          "delete", "rename"}
Request == [kind: Kinds, user: Users \cup {None}, row: Account, pass: Passwords \cup {None},
            name: Names \cup {None}]

\* None is not the row of anything.
ASSUME NoneIsNoRow == None \notin Account /\ None \notin Session

\* Type correctness; a name belongs to one account, deleted ones included.
TypeOK ==
    /\ users \in [Users -> Account \cup {None}]
    /\ sessions \in [Sessions -> Session \cup {None}]
    /\ request \in [Requests -> Request \cup {None}]
    /\ spent \in 0..MaxRequests
    /\ \A s \in Sessions : sessions[s] # None => users[sessions[s].user] # None
    /\ \A u, v \in Users :
          users[u] # None /\ users[v] # None /\ users[u].name = users[v].name => u = v

\* No account, or one of some name.
Init ==
    /\ users \in {[u \in Users |-> None]} \cup
                 {[u \in Users |-> IF u = 1 THEN [name |-> n, pass |-> p, active |-> TRUE,
                                                 deleted |-> FALSE] ELSE None] :
                     n \in Names, p \in Passwords}
    /\ sessions = [s \in Sessions |-> None]
    /\ request = [q \in Requests |-> None]
    /\ spent = 0

Taken(n, others) == \E u \in others : users[u] # None /\ users[u].name = n

Live(s) == sessions[s] # None /\ sessions[s].revoked = NotRevoked

\* validate_user_session.
Usable(s) ==
    /\ Live(s) /\ sessions[s].age < Life
    /\ users[sessions[s].user].active /\ ~users[sessions[s].user].deleted

-----------------------------------------------------------------------------
(* Reading: the conditions each request checks first *)

Reads(q, kind, u, row, p, n) ==
    /\ request[q] = None /\ spent < MaxRequests
    /\ spent' = spent + 1
    /\ request' = [request EXCEPT ![q] =
                      [kind |-> kind, user |-> u, row |-> row, pass |-> p, name |-> n]]
    /\ UNCHANGED <<users, sessions>>

\* register and create_user: the name is free.
ReadNew(q, kind, p, n) ==
    /\ kind \in {"register", "create"} /\ ~Taken(n, Users)
    /\ Reads(q, kind, None, [name |-> n, pass |-> p, active |-> TRUE, deleted |-> FALSE], p, n)

Exists(u) == users[u] # None /\ ~users[u].deleted

\* login: the password is the account's.
ReadLogin(q, u) ==
    /\ Exists(u) /\ users[u].active
    /\ Reads(q, "login", u, users[u], users[u].pass, None)

\* change_password: the session is good and the current password is given.
ReadChange(q, s, p) ==
    /\ sessions[s] # None /\ Usable(s)
    /\ Reads(q, "change", sessions[s].user, users[sessions[s].user], p, None)

\* reset_user_password, update_user_status and delete_user, update_user.
ReadReset(q, u, p) == Exists(u) /\ Reads(q, "reset", u, users[u], p, None)
ReadStatus(q, kind, u) ==
    /\ kind \in {"enable", "disable", "delete"}
    /\ Exists(u) /\ Reads(q, kind, u, users[u], None, None)
ReadName(q, u, n) ==
    /\ Exists(u) /\ ~Taken(n, Users \ {u})
    /\ Reads(q, "rename", u, users[u], None, n)

-----------------------------------------------------------------------------
(* Writing *)

Done(q) == request' = [request EXCEPT ![q] = None] /\ UNCHANGED spent

\* revoke_user_sessions: the sessions of an account that are there now.
RevokedAll(u) ==
    [s \in Sessions |-> IF Live(s) THEN [sessions[s] EXCEPT !.revoked = 0] ELSE sessions[s]]
Revoked(u) ==
    [s \in Sessions |->
        IF Live(s) /\ sessions[s].user = u
        THEN [sessions[s] EXCEPT !.revoked = 0] ELSE sessions[s]]

\* create_user_session, into a free row of what is left.
NewSession(u, p, late) ==
    [user |-> u, pass |-> p, late |-> late, age |-> 0, revoked |-> NotRevoked]
Creates(rows, u, p, late) ==
    /\ \E s \in Sessions : rows[s] = None
    /\ sessions' = [rows EXCEPT ![CHOOSE s \in Sessions : rows[s] = None] =
                       NewSession(u, p, late)]

\* Whether the account is no longer what the request has read.
Changed(r) ==
    \/ users[r.user].pass # r.row.pass
    \/ users[r.user].active # r.row.active
    \/ users[r.user].deleted # r.row.deleted

\* The name is unique in the database: of two requests one fails.
WriteNew(q) ==
    /\ request[q] # None /\ request[q].kind \in {"register", "create"}
    /\ LET r == request[q]
       IN  \/ Taken(r.name, Users) /\ UNCHANGED <<users, sessions>>
           \/ /\ ~Taken(r.name, Users)
              /\ \E u \in Users :
                    /\ users[u] = None /\ \A v \in Users : users[v] = None => u <= v
                    /\ users' = [users EXCEPT ![u] = r.row]
                    /\ IF r.kind = "register" THEN Creates(sessions, u, r.pass, FALSE)
                       ELSE UNCHANGED sessions
    /\ Done(q)

WriteLogin(q) ==
    /\ request[q] # None /\ request[q].kind = "login"
    /\ LET r == request[q] IN Creates(sessions, r.user, r.pass, Changed(r))
    /\ Done(q)
    /\ UNCHANGED users

WriteChange(q) ==
    /\ request[q] # None /\ request[q].kind = "change"
    /\ LET r == request[q] IN
       /\ users' = [users EXCEPT ![r.user].pass = r.pass]
       /\ Creates(Revoked(r.user), r.user, r.pass, Changed(r))
    /\ Done(q)

WriteResetKeeping(q) ==
    /\ request[q] # None /\ request[q].kind = "reset"
    /\ LET r == request[q] IN users' = [users EXCEPT ![r.user].pass = r.pass]
    /\ Done(q)
    /\ UNCHANGED sessions
WriteReset(q) ==
    /\ request[q] # None /\ request[q].kind = "reset"
    /\ LET r == request[q] IN
       /\ users' = [users EXCEPT ![r.user].pass = r.pass]
       /\ sessions' = Revoked(r.user)
    /\ Done(q)

\* A status is written only if it differs from the one that was read.
WriteStatus(q) ==
    /\ request[q] # None /\ request[q].kind \in {"enable", "disable"}
    /\ LET r == request[q]
           enable == r.kind = "enable"
       IN  /\ users' = [users EXCEPT ![r.user].active =
                           IF r.row.active = enable THEN users[r.user].active ELSE enable]
           /\ sessions' = IF enable THEN sessions ELSE Revoked(r.user)
    /\ Done(q)

WriteDelete(q) ==
    /\ request[q] # None /\ request[q].kind = "delete"
    /\ LET r == request[q] IN
       /\ users' = [users EXCEPT ![r.user].deleted = TRUE,
                                 ![r.user].active = users[r.user].active /\ ~r.row.active]
       /\ sessions' = Revoked(r.user)
    /\ Done(q)

\* A name is written only if it differs from the one that was read.
WriteNameTwice(q) ==
    /\ request[q] # None /\ request[q].kind = "rename"
    /\ LET r == request[q] IN users' = [users EXCEPT ![r.user].name = r.name]
    /\ Done(q)
    /\ UNCHANGED sessions
WriteName(q) ==
    /\ request[q] # None /\ request[q].kind = "rename"
    /\ LET r == request[q] IN
       users' = IF r.name = r.row.name \/ Taken(r.name, Users \ {r.user}) THEN users
                ELSE [users EXCEPT ![r.user].name = r.name]
    /\ Done(q)
    /\ UNCHANGED sessions

Logout(s) ==
    /\ Live(s)
    /\ sessions' = [sessions EXCEPT ![s].revoked = 0]
    /\ UNCHANGED <<users, request, spent>>

\* The middleware ends a session that is presented and not good; it does not
\* prolong one that is.
PresentProlongs(s) ==
    /\ Live(s)
    /\ sessions' = IF Usable(s) THEN [sessions EXCEPT ![s].age = 0]
                   ELSE [sessions EXCEPT ![s].revoked = 0]
    /\ UNCHANGED <<users, request, spent>>
Present(s) ==
    /\ Live(s) /\ ~Usable(s)
    /\ sessions' = [sessions EXCEPT ![s].revoked = 0]
    /\ UNCHANGED <<users, request, spent>>

-----------------------------------------------------------------------------
(* Time: a day passes; a request does not take that long *)

Older(s) ==
    IF sessions[s] = None THEN None
    ELSE [sessions[s] EXCEPT
             !.age = IF sessions[s].age < Eternity THEN sessions[s].age + 1 ELSE Eternity,
             !.revoked = IF sessions[s].revoked \in 0..Retention THEN sessions[s].revoked + 1
                         ELSE sessions[s].revoked]
Tick ==
    /\ \A q \in Requests : request[q] = None
    /\ sessions' = [s \in Sessions |-> Older(s)]
    /\ UNCHANGED <<users, request, spent>>

\* cleanup_expired_user_sessions, from the scheduler.
Forgotten(s) ==
    /\ sessions[s] # None
    /\ sessions[s].age > Life + Retention \/ sessions[s].revoked > Retention
Cleanup ==
    /\ sessions' = [s \in Sessions |-> IF Forgotten(s) THEN None ELSE sessions[s]]
    /\ UNCHANGED <<users, request, spent>>

-----------------------------------------------------------------------------
Read(q) ==
    \/ \E kind \in Kinds, p \in Passwords, n \in Names : ReadNew(q, kind, p, n)
    \/ \E u \in Users : ReadLogin(q, u)
    \/ \E u \in Users, p \in Passwords : ReadReset(q, u, p)
    \/ \E u \in Users, n \in Names : ReadName(q, u, n)
    \/ \E u \in Users, kind \in Kinds : ReadStatus(q, kind, u)
    \/ \E s \in Sessions, p \in Passwords : ReadChange(q, s, p)

Write(q) ==
    \/ WriteNew(q) \/ WriteLogin(q) \/ WriteChange(q) \/ WriteReset(q)
    \/ WriteStatus(q) \/ WriteDelete(q) \/ WriteName(q)

\* A request that is interrupted writes nothing.
Drop(q) ==
    /\ request[q] # None
    /\ Done(q)
    /\ UNCHANGED <<users, sessions>>

Next ==
    \/ \E q \in Requests : Read(q) \/ Write(q) \/ Drop(q)
    \/ \E s \in Sessions : Logout(s) \/ Present(s)
    \/ Tick
    \/ Cleanup

Spec == Init /\ [][Next]_vars

\* Requests end, days pass, and the scheduler cleans up.
FairSpec ==
    /\ Spec
    /\ \A q \in Requests : WF_vars(Write(q) \/ Drop(q))
    /\ SF_vars(Tick) /\ WF_vars(Cleanup)
-----------------------------------------------------------------------------
(* Properties *)

\* A session that is not revoked belongs to an active account whose password is
\* the one that was proved for it, except when the account changed while the
\* request that created it was under way: a change or reset of the password, a
\* deactivation and a deletion end all others, in whatever order they commit
\* (revoke_user_sessions).
SessionsFollowAccount ==
    \A s \in Sessions :
        Live(s) /\ ~sessions[s].late =>
            /\ users[sessions[s].user].pass = sessions[s].pass
            /\ users[sessions[s].user].active /\ ~users[sessions[s].user].deleted

\* A request commits that ends the sessions of an account.
Ends(u) ==
    \E q \in Requests :
        /\ request[q] # None /\ request'[q] = None
        /\ request[q].user = u /\ request[q].kind \in {"change", "reset", "disable", "delete"}

\* A session that is good stays so until it is as old as it may become, its
\* owner logs out, or a change or reset of the password, a deactivation or a
\* deletion of its own account commits: neither requests about other accounts
\* nor the clean-up, which deletes by age and by date of revocation, end it
\* (revoke_user_sessions, cleanup_expired_user_sessions).  One that is no longer
\* good does not come back, whatever is enabled or presented later
\* (validate_user_session), but those created late.
SessionsEndForCause ==
    [][\A s \in Sessions : sessions[s] # None =>
          /\ Usable(s) /\ ~Usable(s)' =>
                \/ Logout(s) \/ Ends(sessions[s].user)
                \/ sessions'[s] # None /\ sessions'[s].age >= Life
          /\ ~Usable(s) /\ ~sessions[s].late => ~Usable(s)']_vars

\* Every session ends, however often it is used, and its row is deleted.
SessionsEnd == \A s \in Sessions : []<>(sessions[s] = None)

-----------------------------------------------------------------------------
(* The inductive invariant behind the theorems of AccountsProofs *)

\* What a request holds: a new account, or an existing one as it was when the
\* request read it, active if the request is to open a session for it.
RequestOK(r) ==
    IF r.kind \in {"register", "create"}
    THEN /\ r.row.active /\ ~r.row.deleted
         /\ r.row.name = r.name /\ r.row.pass = r.pass /\ r.pass \in Passwords
    ELSE /\ r.user \in Users /\ users[r.user] # None
         /\ r.kind \in {"login", "change"} => r.row.active /\ ~r.row.deleted
         /\ r.kind = "login" => r.row.pass = r.pass
         /\ r.kind \in {"login", "change", "reset"} => r.pass \in Passwords
         /\ r.kind = "rename" => r.name \in Names
RequestsOK == \A q \in Requests : request[q] # None => RequestOK(request[q])

IInv == TypeOK /\ RequestsOK /\ SessionsFollowAccount
=============================================================================
