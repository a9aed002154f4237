--------------------------- MODULE AccountsProofs ---------------------------
(***************************************************************************)
(* Theorems about Accounts, for any number of accounts, sessions, requests  *)
(* and days.                                                                *)
(*                                                                         *)
(* A step leaves a session alone, ends it, or opens one.  Kept and Fresh    *)
(* say what such a session has to do with the accounts after the step; one  *)
(* lemma concludes the invariant from them, and every action has a lemma    *)
(* that establishes them.                                                   *)
(***************************************************************************)
EXTENDS Accounts, TLAPS

\* The types of the variables, without the conditions that relate them.
Typed ==
    /\ users \in [Users -> Account \cup {None}]
    /\ sessions \in [Sessions -> Session \cup {None}]
    /\ request \in [Requests -> Request \cup {None}]
    /\ spent \in 0..MaxRequests
OwnersExist == \A s \in Sessions : sessions[s] # None => users[sessions[s].user] # None
NamesUnique ==
    \A u, v \in Users :
        users[u] # None /\ users[v] # None /\ users[u].name = users[v].name => u = v

\* An account that exists goes on existing, and so does the row of a session.
AccountsStay == \A u \in Users : users[u] # None => users'[u] # None
SessionsStay == \A s \in Sessions : sessions[s] # None => sessions'[s] # None

\* A session after a step that was there before it: if it is still live, the
\* account is no less good for it.
Kept(s) ==
    /\ sessions[s] # None
    /\ sessions'[s].user = sessions[s].user
    /\ sessions'[s].pass = sessions[s].pass
    /\ sessions'[s].late = sessions[s].late
    /\ sessions'[s].revoked = NotRevoked =>
          /\ sessions[s].revoked = NotRevoked
          /\ LET u == sessions[s].user
             IN  /\ users'[u].pass = users[u].pass
                 /\ users[u].active => users'[u].active
                 /\ users'[u].deleted = users[u].deleted

\* A session that the step opens.
Fresh(s) ==
    /\ users'[sessions'[s].user] # None
    /\ ~sessions'[s].late =>
          /\ users'[sessions'[s].user].pass = sessions'[s].pass
          /\ users'[sessions'[s].user].active /\ ~users'[sessions'[s].user].deleted

\* What every action that writes establishes about sessions.
SessionsMove == \A s \in Sessions : sessions'[s] # None => Kept(s) \/ Fresh(s)

-----------------------------------------------------------------------------
(* What the invariant rests on *)

LEMMA TypeParts == TypeOK <=> Typed /\ OwnersExist /\ NamesUnique
BY DEF TypeOK, Typed, OwnersExist, NamesUnique

LEMMA TypePartsPrimed == TypeOK' <=> Typed' /\ OwnersExist' /\ NamesUnique'
BY DEF TypeOK, Typed, OwnersExist, NamesUnique

\* The sessions of an account that exists, and is good for the ones that are
\* live, are so after the step.
LEMMA OwnersAndSessions ==
    ASSUME Typed, OwnersExist, SessionsFollowAccount, Typed', AccountsStay, SessionsMove
    PROVE  OwnersExist' /\ SessionsFollowAccount'
<1>1. ASSUME NEW s \in Sessions, sessions'[s] # None
      PROVE  users'[sessions'[s].user] # None
  <2>1. CASE Fresh(s)
    BY <2>1 DEF Fresh
  <2>2. CASE Kept(s)
    <3>1. sessions[s] \in Session /\ sessions[s].user \in Users
      BY <2>2 DEF Kept, Typed, Session
    <3> QED
      BY <2>2, <3>1 DEF Kept, OwnersExist, AccountsStay
  <2> QED
    BY <1>1, <2>1, <2>2 DEF SessionsMove
<1>2. ASSUME NEW s \in Sessions, sessions'[s] # None,
             sessions'[s].revoked = NotRevoked, ~sessions'[s].late
      PROVE  /\ users'[sessions'[s].user].pass = sessions'[s].pass
             /\ users'[sessions'[s].user].active /\ ~users'[sessions'[s].user].deleted
  <2>1. CASE Fresh(s)
    BY <2>1, <1>2 DEF Fresh
  <2>2. CASE Kept(s)
    BY <2>2, <1>2 DEF Kept, SessionsFollowAccount, Live
  <2> QED
    BY <1>2, <2>1, <2>2 DEF SessionsMove
<1>3. OwnersExist'
  BY <1>1 DEF OwnersExist
<1>4. SessionsFollowAccount'
  BY <1>2 DEF SessionsFollowAccount, Live
<1> QED
  BY <1>3, <1>4

\* A request that ends leaves what the others have read as it was.
LEMMA OthersRead ==
    ASSUME Typed, RequestsOK, NEW q \in Requests, Done(q), AccountsStay
    PROVE  RequestsOK'
<1>1. ASSUME NEW o \in Requests, request'[o] # None
      PROVE  RequestOK(request[o])'
  <2>1. request'[o] = request[o] /\ request[o] # None
    BY <1>1 DEF Done, Typed
  <2>2. RequestOK(request[o])
    BY <2>1 DEF RequestsOK
  <2> QED
    BY <2>1, <2>2 DEF RequestOK, AccountsStay
<1> QED
  BY <1>1 DEF RequestsOK

LEMMA DoneTyped ==
    ASSUME Typed, NEW q \in Requests, Done(q)
    PROVE  request' \in [Requests -> Request \cup {None}] /\ spent' \in 0..MaxRequests
BY DEF Typed, Done

\* The fields of a request, by their types.
LEMMA RequestFields ==
    ASSUME Typed, NEW q \in Requests, request[q] # None
    PROVE  /\ request[q] \in Request
           /\ request[q].kind \in Kinds
           /\ request[q].row \in Account
           /\ request[q].row.active \in BOOLEAN /\ request[q].row.deleted \in BOOLEAN
BY DEF Typed, Request, Account

\* A step of a request that satisfies these keeps the invariant.
LEMMA WriteKeeps ==
    ASSUME IInv, NEW q \in Requests, Done(q),
           users' \in [Users -> Account \cup {None}],
           sessions' \in [Sessions -> Session \cup {None}],
           AccountsStay, SessionsMove, NamesUnique'
    PROVE  IInv'
<1>1. Typed /\ OwnersExist /\ RequestsOK /\ SessionsFollowAccount
  BY TypeParts DEF IInv
<1>2. Typed'
  BY <1>1, DoneTyped DEF Typed
<1>3. OwnersExist' /\ SessionsFollowAccount'
  BY <1>1, <1>2, OwnersAndSessions
<1>4. RequestsOK'
  BY <1>1, OthersRead
<1> QED
  BY <1>2, <1>3, <1>4, TypePartsPrimed DEF IInv

-----------------------------------------------------------------------------
(* Revoking and opening sessions *)

LEMMA Numbers ==
    /\ Life \in Nat /\ Retention \in Nat /\ Life > 0 /\ Eternity \in Nat
    /\ 0 \in 0..Eternity /\ NotRevoked \in NotRevoked..Retention + 1
    /\ 0 \in NotRevoked..Retention + 1 /\ 0 # NotRevoked
BY AccountsAssumption DEF Eternity, NotRevoked

LEMMA EndedSession ==
    ASSUME NEW x \in Session
    PROVE  /\ [x EXCEPT !.revoked = 0] \in Session
           /\ [x EXCEPT !.revoked = 0].user = x.user
           /\ [x EXCEPT !.revoked = 0].pass = x.pass
           /\ [x EXCEPT !.revoked = 0].late = x.late
           /\ [x EXCEPT !.revoked = 0].revoked # NotRevoked
           /\ [x EXCEPT !.revoked = 0] # None
<1>1. [x EXCEPT !.revoked = 0] \in Session
  BY Numbers DEF Session
<1> QED
  BY <1>1, Numbers, NoneIsNoRow DEF Session

\* revoke_user_sessions leaves no session of the account live and changes
\* nothing else.
LEMMA RevokedSessions ==
    ASSUME Typed, NEW u \in Users
    PROVE  /\ Revoked(u) \in [Sessions -> Session \cup {None}]
           /\ \A s \in Sessions :
                 /\ sessions[s] = None => Revoked(u)[s] = None
                 /\ sessions[s] # None =>
                       /\ Revoked(u)[s] # None
                       /\ Revoked(u)[s].user = sessions[s].user
                       /\ Revoked(u)[s].pass = sessions[s].pass
                       /\ Revoked(u)[s].late = sessions[s].late
                       /\ Revoked(u)[s].revoked = NotRevoked =>
                             sessions[s].revoked = NotRevoked /\ sessions[s].user # u
<1>1. ASSUME NEW s \in Sessions
      PROVE  /\ Revoked(u)[s] \in Session \cup {None}
             /\ sessions[s] = None => Revoked(u)[s] = None
             /\ sessions[s] # None =>
                   /\ Revoked(u)[s] # None
                   /\ Revoked(u)[s].user = sessions[s].user
                   /\ Revoked(u)[s].pass = sessions[s].pass
                   /\ Revoked(u)[s].late = sessions[s].late
                   /\ Revoked(u)[s].revoked = NotRevoked =>
                         sessions[s].revoked = NotRevoked /\ sessions[s].user # u
  <2>1. CASE Live(s) /\ sessions[s].user = u
    <3>1. sessions[s] \in Session
      BY <2>1 DEF Live, Typed
    <3>2. Revoked(u)[s] = [sessions[s] EXCEPT !.revoked = 0]
      BY <2>1 DEF Revoked
    <3> QED
      BY <2>1, <3>1, <3>2, EndedSession DEF Live
  <2>2. CASE ~(Live(s) /\ sessions[s].user = u)
    <3>1. Revoked(u)[s] = sessions[s]
      BY <2>2 DEF Revoked
    <3> QED
      BY <2>2, <3>1 DEF Live, Typed
  <2> QED
    BY <2>1, <2>2
<1> QED
  BY <1>1 DEF Revoked

\* create_user_session puts one session into a free row.
LEMMA OneCreated ==
    ASSUME NEW rows \in [Sessions -> Session \cup {None}],
           NEW u \in Users, NEW p \in Passwords, NEW late \in BOOLEAN,
           Creates(rows, u, p, late)
    PROVE  /\ sessions' \in [Sessions -> Session \cup {None}]
           /\ \A s \in Sessions :
                 \/ sessions'[s] = rows[s]
                 \/ /\ rows[s] = None /\ sessions'[s] # None
                    /\ sessions'[s].user = u /\ sessions'[s].pass = p
                    /\ sessions'[s].late = late
<1>1. PICK f \in Sessions : rows[f] = None /\ sessions' = [rows EXCEPT ![f] = NewSession(u, p, late)]
  <2>1. (CHOOSE s \in Sessions : rows[s] = None) \in Sessions
        /\ rows[CHOOSE s \in Sessions : rows[s] = None] = None
    BY DEF Creates
  <2> QED
    BY <2>1 DEF Creates
<1>2. NewSession(u, p, late) \in Session
  BY Numbers DEF NewSession, Session
<1>3. /\ NewSession(u, p, late).user = u /\ NewSession(u, p, late).pass = p
      /\ NewSession(u, p, late).late = late /\ NewSession(u, p, late) # None
  BY <1>2, NoneIsNoRow DEF NewSession
<1> HIDE DEF NewSession
<1> QED
  BY <1>1, <1>2, <1>3

\* One field of one account that changes.
LEMMA AccountFields ==
    ASSUME NEW a \in Account
    PROVE  /\ a # None
           /\ a.name \in Names /\ a.pass \in Passwords
           /\ a.active \in BOOLEAN /\ a.deleted \in BOOLEAN
BY NoneIsNoRow DEF Account

-----------------------------------------------------------------------------
(* Sessions that nobody touches *)

\* A step that leaves the sessions and opens none: every account is no less
\* good for the live ones.
LEMMA SessionsUntouched ==
    ASSUME Typed, UNCHANGED sessions,
           \A s \in Sessions : sessions[s] # None /\ sessions[s].revoked = NotRevoked =>
              LET u == sessions[s].user
              IN  /\ users'[u].pass = users[u].pass
                  /\ users[u].active => users'[u].active
                  /\ users'[u].deleted = users[u].deleted
    PROVE  SessionsMove /\ SessionsStay /\ sessions' \in [Sessions -> Session \cup {None}]
BY DEF SessionsMove, SessionsStay, Kept, Typed

-----------------------------------------------------------------------------
(* Accounts: one of them changes *)

LEMMA OneAccount ==
    ASSUME Typed, NamesUnique, NEW u \in Users, NEW a \in Account,
           users' = [users EXCEPT ![u] = a],
           \A v \in Users : v # u /\ users[v] # None => users[v].name # a.name
    PROVE  /\ users' \in [Users -> Account \cup {None}]
           /\ AccountsStay /\ NamesUnique'
           /\ users'[u] = a /\ \A v \in Users : v # u => users'[v] = users[v]
<1>1. users' \in [Users -> Account \cup {None}]
  BY DEF Typed
<1>2. users'[u] = a /\ \A v \in Users : v # u => users'[v] = users[v]
  BY DEF Typed
<1>3. AccountsStay
  BY <1>2, NoneIsNoRow DEF AccountsStay
<1>4. NamesUnique'
  BY <1>2 DEF NamesUnique
<1> QED
  BY <1>1, <1>2, <1>3, <1>4

\* The row that a request has read, with other columns.
LEMMA SetPass ==
    ASSUME NEW a \in Account, NEW p \in Passwords
    PROVE  /\ [a EXCEPT !.pass = p] \in Account
           /\ [a EXCEPT !.pass = p].name = a.name /\ [a EXCEPT !.pass = p].pass = p
           /\ [a EXCEPT !.pass = p].active = a.active
           /\ [a EXCEPT !.pass = p].deleted = a.deleted
BY DEF Account

LEMMA SetActive ==
    ASSUME NEW a \in Account, NEW b \in BOOLEAN
    PROVE  /\ [a EXCEPT !.active = b] \in Account
           /\ [a EXCEPT !.active = b].name = a.name /\ [a EXCEPT !.active = b].pass = a.pass
           /\ [a EXCEPT !.active = b].active = b
           /\ [a EXCEPT !.active = b].deleted = a.deleted
BY DEF Account

LEMMA SetDeleted ==
    ASSUME NEW a \in Account, NEW b \in BOOLEAN
    PROVE  /\ [a EXCEPT !.deleted = TRUE, !.active = b] \in Account
           /\ [a EXCEPT !.deleted = TRUE, !.active = b].name = a.name
BY DEF Account

LEMMA SetName ==
    ASSUME NEW a \in Account, NEW n \in Names
    PROVE  /\ [a EXCEPT !.name = n] \in Account
           /\ [a EXCEPT !.name = n].name = n /\ [a EXCEPT !.name = n].pass = a.pass
           /\ [a EXCEPT !.name = n].active = a.active
           /\ [a EXCEPT !.name = n].deleted = a.deleted
BY DEF Account

\* An account that keeps its name collides with no other.
LEMMA SameName ==
    ASSUME Typed, NamesUnique, NEW u \in Users, users[u] # None,
           NEW a \in Account, a.name = users[u].name
    PROVE  \A v \in Users : v # u /\ users[v] # None => users[v].name # a.name
BY DEF NamesUnique

-----------------------------------------------------------------------------
(* The actions that write *)

LEMMA WriteNewKeeps ==
    ASSUME IInv, NEW q \in Requests, WriteNew(q)
    PROVE  IInv' /\ SessionsStay
<1> DEFINE r == request[q]
<1>0. Typed /\ OwnersExist /\ NamesUnique /\ RequestsOK
  BY TypeParts DEF IInv
<1>1. r # None /\ r.kind \in {"register", "create"} /\ Done(q)
  BY DEF WriteNew
<1>2. /\ r.row \in Account /\ r.row.active /\ ~r.row.deleted
      /\ r.row.name = r.name /\ r.row.pass = r.pass /\ r.pass \in Passwords
  BY <1>0, <1>1, RequestFields DEF RequestsOK, RequestOK
<1>3. CASE UNCHANGED <<users, sessions>>
  <2>1. AccountsStay /\ NamesUnique' /\ users' \in [Users -> Account \cup {None}]
    BY <1>0, <1>3 DEF AccountsStay, NamesUnique, Typed
  <2>2. SessionsMove /\ SessionsStay /\ sessions' \in [Sessions -> Session \cup {None}]
    BY <1>0, <1>3, SessionsUntouched
  <2> QED
    BY <1>1, <2>1, <2>2, WriteKeeps
<1>4. ASSUME ~Taken(r.name, Users), NEW u \in Users, users[u] = None,
             users' = [users EXCEPT ![u] = r.row],
             IF r.kind = "register" THEN Creates(sessions, u, r.pass, FALSE)
             ELSE UNCHANGED sessions
      PROVE  IInv' /\ SessionsStay
  <2>1. /\ users' \in [Users -> Account \cup {None}] /\ AccountsStay /\ NamesUnique'
        /\ users'[u] = r.row /\ \A v \in Users : v # u => users'[v] = users[v]
    <3>1. \A v \in Users : v # u /\ users[v] # None => users[v].name # r.row.name
      BY <1>2, <1>4 DEF Taken
    <3> QED
      BY <1>0, <1>2, <1>4, <3>1, OneAccount
  <2>2. ASSUME NEW s \in Sessions, sessions[s] # None
        PROVE  sessions[s].user \in Users /\ sessions[s].user # u
               /\ users'[sessions[s].user] = users[sessions[s].user]
    <3>1. sessions[s].user \in Users
      BY <1>0, <2>2 DEF Typed, Session
    <3> QED
      BY <1>0, <1>4, <2>1, <2>2, <3>1 DEF OwnersExist
  <2>3. CASE UNCHANGED sessions
    <3>1. SessionsMove /\ SessionsStay /\ sessions' \in [Sessions -> Session \cup {None}]
      BY <1>0, <2>2, <2>3, SessionsUntouched
    <3> QED
      BY <1>1, <2>1, <3>1, WriteKeeps
  <2>4. CASE Creates(sessions, u, r.pass, FALSE)
    <3>1. /\ sessions' \in [Sessions -> Session \cup {None}]
          /\ \A s \in Sessions :
                \/ sessions'[s] = sessions[s]
                \/ /\ sessions[s] = None /\ sessions'[s] # None
                   /\ sessions'[s].user = u /\ sessions'[s].pass = r.pass
      <4> DEFINE late == FALSE
      <4>1. sessions \in [Sessions -> Session \cup {None}] /\ late \in BOOLEAN
            /\ Creates(sessions, u, r.pass, late)
        BY <1>0, <2>4 DEF Typed
      <4> HIDE DEF late
      <4> QED
        BY <1>2, <2>4, <4>1, OneCreated
    <3>2. SessionsStay
      BY <3>1 DEF SessionsStay
    <3>3. ASSUME NEW s \in Sessions, sessions'[s] # None
          PROVE  Kept(s) \/ Fresh(s)
      <4>1. CASE sessions'[s] = sessions[s]
        BY <2>2, <3>3, <4>1 DEF Kept
      <4>2. CASE sessions'[s].user = u /\ sessions'[s].pass = r.pass
        BY <1>2, <2>1, <4>2, AccountFields DEF Fresh
      <4> QED
        BY <3>1, <4>1, <4>2
    <3> QED
      BY <1>1, <2>1, <3>1, <3>2, <3>3, WriteKeeps DEF SessionsMove
  <2> QED
    BY <1>4, <2>3, <2>4
<1> QED
  BY <1>3, <1>4 DEF WriteNew

\* What every request but the ones for a new account holds.
LEMMA ReadAccount ==
    ASSUME IInv, NEW q \in Requests, request[q] # None,
           request[q].kind \notin {"register", "create"}
    PROVE  /\ request[q].user \in Users /\ users[request[q].user] # None
           /\ users[request[q].user] \in Account
           /\ Changed(request[q]) \in BOOLEAN
           /\ request[q].kind \in {"login", "change"} =>
                 request[q].row.active /\ ~request[q].row.deleted
           /\ request[q].kind = "login" => request[q].row.pass = request[q].pass
           /\ request[q].kind \in {"login", "change", "reset"} => request[q].pass \in Passwords
           /\ request[q].kind = "rename" => request[q].name \in Names
<1>1. Typed /\ RequestsOK
  BY TypeParts DEF IInv
<1>2. RequestOK(request[q])
  BY <1>1 DEF RequestsOK
<1>3. request[q].user \in Users /\ users[request[q].user] # None
  BY <1>2 DEF RequestOK
<1>4. users[request[q].user] \in Account
  BY <1>1, <1>3 DEF Typed
<1>5. Changed(request[q]) \in BOOLEAN
  BY DEF Changed
<1> QED
  BY <1>2, <1>3, <1>4, <1>5 DEF RequestOK

LEMMA WriteLoginKeeps ==
    ASSUME IInv, NEW q \in Requests, WriteLogin(q)
    PROVE  IInv' /\ SessionsStay
<1> DEFINE r == request[q]
<1>0. Typed /\ OwnersExist /\ NamesUnique
  BY TypeParts DEF IInv
<1>1. r # None /\ r.kind = "login" /\ Done(q) /\ UNCHANGED users
      /\ Creates(sessions, r.user, r.pass, Changed(r))
  BY DEF WriteLogin
<1>2. /\ r.user \in Users /\ users[r.user] # None /\ Changed(r) \in BOOLEAN
      /\ r.row.active /\ ~r.row.deleted /\ r.row.pass = r.pass /\ r.pass \in Passwords
  BY <1>1, ReadAccount
<1>3. /\ sessions' \in [Sessions -> Session \cup {None}]
      /\ \A s \in Sessions :
            \/ sessions'[s] = sessions[s]
            \/ /\ sessions[s] = None /\ sessions'[s] # None
               /\ sessions'[s].user = r.user /\ sessions'[s].pass = r.pass
               /\ sessions'[s].late = Changed(r)
  BY <1>0, <1>1, <1>2, OneCreated DEF Typed
<1>4. SessionsStay /\ AccountsStay /\ NamesUnique' /\ users' \in [Users -> Account \cup {None}]
  BY <1>0, <1>1, <1>3 DEF SessionsStay, AccountsStay, NamesUnique, Typed
<1>5. ASSUME NEW s \in Sessions, sessions'[s] # None
      PROVE  Kept(s) \/ Fresh(s)
  <2>1. CASE sessions'[s] = sessions[s]
    BY <1>1, <1>5, <2>1 DEF Kept
  <2>2. CASE sessions'[s].user = r.user /\ sessions'[s].pass = r.pass
             /\ sessions'[s].late = Changed(r)
    BY <1>1, <1>2, <2>2 DEF Fresh, Changed
  <2> QED
    BY <1>3, <2>1, <2>2
<1> QED
  BY <1>1, <1>3, <1>4, <1>5, WriteKeeps DEF SessionsMove

LEMMA WriteChangeKeeps ==
    ASSUME IInv, NEW q \in Requests, WriteChange(q)
    PROVE  IInv' /\ SessionsStay
<1> DEFINE r == request[q]
           a == [users[r.user] EXCEPT !.pass = r.pass]
<1>0. Typed /\ OwnersExist /\ NamesUnique
  BY TypeParts DEF IInv
<1>1. r # None /\ r.kind = "change" /\ Done(q)
      /\ users' = [users EXCEPT ![r.user] = a]
      /\ Creates(Revoked(r.user), r.user, r.pass, Changed(r))
  BY DEF WriteChange
<1>2. /\ r.user \in Users /\ users[r.user] \in Account /\ users[r.user] # None
      /\ Changed(r) \in BOOLEAN
      /\ r.row.active /\ ~r.row.deleted /\ r.pass \in Passwords
  BY <1>1, ReadAccount
<1>3. /\ a \in Account /\ a # None /\ a.name = users[r.user].name /\ a.pass = r.pass
      /\ a.active = users[r.user].active /\ a.deleted = users[r.user].deleted
  BY <1>2, SetPass, AccountFields
<1> HIDE DEF a
<1>4. /\ users' \in [Users -> Account \cup {None}] /\ AccountsStay /\ NamesUnique'
      /\ users'[r.user] = a /\ \A v \in Users : v # r.user => users'[v] = users[v]
  <2>1. \A v \in Users : v # r.user /\ users[v] # None => users[v].name # a.name
    BY <1>0, <1>2, <1>3, SameName
  <2> QED
    BY <1>0, <1>1, <1>2, <1>3, <2>1, OneAccount
<1>5. /\ sessions' \in [Sessions -> Session \cup {None}]
      /\ \A s \in Sessions :
            \/ sessions'[s] = Revoked(r.user)[s]
            \/ /\ Revoked(r.user)[s] = None /\ sessions'[s] # None
               /\ sessions'[s].user = r.user /\ sessions'[s].pass = r.pass
               /\ sessions'[s].late = Changed(r)
  BY <1>0, <1>1, <1>2, OneCreated, RevokedSessions
<1>6. SessionsStay
  BY <1>0, <1>2, <1>5, RevokedSessions DEF SessionsStay
<1>7. ASSUME NEW s \in Sessions, sessions'[s] # None
      PROVE  Kept(s) \/ Fresh(s)
  <2>1. CASE sessions'[s] = Revoked(r.user)[s]
    <3>1. sessions[s] # None /\ sessions[s].user \in Users
      BY <1>0, <1>2, <1>7, <2>1, RevokedSessions DEF Typed, Session
    <3>2. /\ sessions'[s].user = sessions[s].user /\ sessions'[s].pass = sessions[s].pass
          /\ sessions'[s].late = sessions[s].late
          /\ sessions'[s].revoked = NotRevoked =>
                sessions[s].revoked = NotRevoked /\ sessions[s].user # r.user
      BY <1>0, <1>2, <2>1, <3>1, RevokedSessions
    <3>3. sessions[s].user # r.user => users'[sessions[s].user] = users[sessions[s].user]
      BY <1>4, <3>1
    <3> QED
      BY <3>1, <3>2, <3>3 DEF Kept
  <2>2. CASE sessions'[s].user = r.user /\ sessions'[s].pass = r.pass
             /\ sessions'[s].late = Changed(r)
    BY <1>2, <1>3, <1>4, <2>2 DEF Fresh, Changed
  <2> QED
    BY <1>5, <2>1, <2>2
<1> QED
  BY <1>1, <1>4, <1>5, <1>6, <1>7, WriteKeeps DEF SessionsMove

\* A change of one account that revokes its sessions, or none that would be the
\* worse for it, and opens none.
LEMMA AccountSteps ==
    ASSUME IInv, NEW q \in Requests, Done(q),
           NEW u \in Users, users[u] # None, NEW a \in Account,
           users' = [users EXCEPT ![u] = a],
           \A v \in Users : v # u /\ users[v] # None => users[v].name # a.name,
           \/ sessions' = Revoked(u)
           \/ /\ UNCHANGED sessions
              /\ a.pass = users[u].pass /\ a.deleted = users[u].deleted
              /\ users[u].active => a.active
    PROVE  IInv' /\ SessionsStay
<1>0. Typed /\ OwnersExist /\ NamesUnique
  BY TypeParts DEF IInv
<1>1. /\ users' \in [Users -> Account \cup {None}] /\ AccountsStay /\ NamesUnique'
      /\ users'[u] = a /\ \A v \in Users : v # u => users'[v] = users[v]
  BY <1>0, OneAccount
<1>2. ASSUME NEW s \in Sessions, sessions[s] # None
      PROVE  sessions[s].user \in Users
  BY <1>0, <1>2 DEF Typed, Session
<1>3. CASE sessions' = Revoked(u)
  <2>1. sessions' \in [Sessions -> Session \cup {None}] /\ SessionsStay
    BY <1>0, <1>3, RevokedSessions DEF SessionsStay
  <2>2. ASSUME NEW s \in Sessions, sessions'[s] # None
        PROVE  Kept(s)
    <3>1. sessions[s] # None
      BY <1>0, <1>3, <2>2, RevokedSessions
    <3>2. /\ sessions'[s].user = sessions[s].user /\ sessions'[s].pass = sessions[s].pass
          /\ sessions'[s].late = sessions[s].late
          /\ sessions'[s].revoked = NotRevoked =>
                sessions[s].revoked = NotRevoked /\ sessions[s].user # u
      BY <1>0, <1>3, <3>1, RevokedSessions
    <3>3. sessions[s].user # u => users'[sessions[s].user] = users[sessions[s].user]
      BY <1>1, <1>2, <3>1
    <3> QED
      BY <3>1, <3>2, <3>3 DEF Kept
  <2> QED
    BY <1>1, <2>1, <2>2, WriteKeeps DEF SessionsMove
<1>4. CASE /\ UNCHANGED sessions
           /\ a.pass = users[u].pass /\ a.deleted = users[u].deleted
           /\ users[u].active => a.active
  <2>1. SessionsMove /\ SessionsStay /\ sessions' \in [Sessions -> Session \cup {None}]
    BY <1>0, <1>1, <1>2, <1>4, SessionsUntouched
  <2> QED
    BY <1>1, <2>1, WriteKeeps
<1> QED
  BY <1>3, <1>4

LEMMA WriteResetKeeps ==
    ASSUME IInv, NEW q \in Requests, WriteReset(q)
    PROVE  IInv' /\ SessionsStay
<1> DEFINE r == request[q]
           a == [users[r.user] EXCEPT !.pass = r.pass]
<1>0. Typed /\ NamesUnique
  BY TypeParts DEF IInv
<1>1. r # None /\ r.kind = "reset" /\ Done(q)
      /\ users' = [users EXCEPT ![r.user] = a] /\ sessions' = Revoked(r.user)
  BY DEF WriteReset
<1>2. r.user \in Users /\ users[r.user] \in Account /\ users[r.user] # None /\ r.pass \in Passwords
  BY <1>1, ReadAccount
<1>3. a \in Account /\ a.name = users[r.user].name
  BY <1>2, SetPass
<1> HIDE DEF a
<1>4. \A v \in Users : v # r.user /\ users[v] # None => users[v].name # a.name
  BY <1>0, <1>2, <1>3, SameName
<1> QED
  BY <1>1, <1>2, <1>3, <1>4, AccountSteps

LEMMA WriteStatusKeeps ==
    ASSUME IInv, NEW q \in Requests, WriteStatus(q)
    PROVE  IInv' /\ SessionsStay
<1> DEFINE r == request[q]
           enable == r.kind = "enable"
           b == IF r.row.active = enable THEN users[r.user].active ELSE enable
           a == [users[r.user] EXCEPT !.active = b]
<1>0. Typed /\ NamesUnique
  BY TypeParts DEF IInv
<1>1. r # None /\ r.kind \in {"enable", "disable"} /\ Done(q)
      /\ users' = [users EXCEPT ![r.user] = a]
      /\ sessions' = IF enable THEN sessions ELSE Revoked(r.user)
  BY DEF WriteStatus
<1>2. r.user \in Users /\ users[r.user] \in Account /\ users[r.user] # None
  BY <1>1, ReadAccount
<1>3. b \in BOOLEAN /\ (enable /\ users[r.user].active => b)
  BY <1>2, AccountFields
<1> HIDE DEF b
<1>4. /\ a \in Account /\ a.name = users[r.user].name /\ a.pass = users[r.user].pass
      /\ a.active = b /\ a.deleted = users[r.user].deleted
  BY <1>2, <1>3, SetActive
<1> HIDE DEF a
<1>5. \A v \in Users : v # r.user /\ users[v] # None => users[v].name # a.name
  BY <1>0, <1>2, <1>4, SameName
<1> QED
  BY <1>1, <1>2, <1>3, <1>4, <1>5, AccountSteps

LEMMA WriteDeleteKeeps ==
    ASSUME IInv, NEW q \in Requests, WriteDelete(q)
    PROVE  IInv' /\ SessionsStay
<1> DEFINE r == request[q]
           b == users[r.user].active /\ ~r.row.active
           a == [users[r.user] EXCEPT !.deleted = TRUE, !.active = b]
<1>0. Typed /\ NamesUnique
  BY TypeParts DEF IInv
<1>1. r # None /\ r.kind = "delete" /\ Done(q) /\ sessions' = Revoked(r.user)
  BY DEF WriteDelete
<1>2. r.user \in Users /\ users[r.user] \in Account /\ users[r.user] # None
  BY <1>1, ReadAccount
<1>3. users' = [users EXCEPT ![r.user] = a]
  BY <1>0, <1>2 DEF WriteDelete, Typed, Account
<1>4. b \in BOOLEAN
  OBVIOUS
<1> HIDE DEF b
<1>5. a \in Account /\ a.name = users[r.user].name
  BY <1>2, <1>4, SetDeleted
<1> HIDE DEF a
<1>6. \A v \in Users : v # r.user /\ users[v] # None => users[v].name # a.name
  BY <1>0, <1>2, <1>5, SameName
<1> QED
  BY <1>1, <1>2, <1>3, <1>5, <1>6, AccountSteps

LEMMA WriteNameKeeps ==
    ASSUME IInv, NEW q \in Requests, WriteName(q)
    PROVE  IInv' /\ SessionsStay
<1> DEFINE r == request[q]
           a == [users[r.user] EXCEPT !.name = r.name]
<1>0. Typed /\ NamesUnique
  BY TypeParts DEF IInv
<1>1. r # None /\ r.kind = "rename" /\ Done(q) /\ UNCHANGED sessions
  BY DEF WriteName
<1>2. r.user \in Users /\ users[r.user] \in Account /\ users[r.user] # None /\ r.name \in Names
  BY <1>1, ReadAccount
<1>3. CASE UNCHANGED users
  <2>1. AccountsStay /\ NamesUnique' /\ users' \in [Users -> Account \cup {None}]
    BY <1>0, <1>3 DEF AccountsStay, NamesUnique, Typed
  <2>2. SessionsMove /\ SessionsStay /\ sessions' \in [Sessions -> Session \cup {None}]
    BY <1>0, <1>1, <1>3, SessionsUntouched
  <2> QED
    BY <1>1, <2>1, <2>2, WriteKeeps
<1>4. CASE ~Taken(r.name, Users \ {r.user}) /\ users' = [users EXCEPT ![r.user] = a]
  <2>1. /\ a \in Account /\ a.name = r.name /\ a.pass = users[r.user].pass
        /\ a.active = users[r.user].active /\ a.deleted = users[r.user].deleted
    BY <1>2, SetName
  <2> HIDE DEF a
  <2>2. \A v \in Users : v # r.user /\ users[v] # None => users[v].name # a.name
    <3>1. \A v \in Users \ {r.user} : ~(users[v] # None /\ users[v].name = r.name)
      BY <1>4 DEF Taken
    <3> QED
      BY <2>1, <3>1
  <2>3. users' = [users EXCEPT ![r.user] = a]
    BY <1>4
  <2>4. users[r.user].active => a.active
    BY <2>1
  <2> QED
    BY <1>1, <1>2, <2>1, <2>2, <2>3, <2>4, AccountSteps
<1> QED
  BY <1>3, <1>4 DEF WriteName

-----------------------------------------------------------------------------
(* The actions that read *)

\* What a request has just read is what the invariant asks of it.
LEMMA ReadsKeep ==
    ASSUME IInv, NEW q \in Requests, NEW kind \in Kinds, NEW u \in Users \cup {None},
           NEW row \in Account, NEW p \in Passwords \cup {None}, NEW n \in Names \cup {None},
           Reads(q, kind, u, row, p, n),
           RequestOK([kind |-> kind, user |-> u, row |-> row, pass |-> p, name |-> n])
    PROVE  IInv' /\ SessionsStay
<1> DEFINE new == [kind |-> kind, user |-> u, row |-> row, pass |-> p, name |-> n]
<1>0. Typed /\ OwnersExist /\ NamesUnique /\ RequestsOK /\ SessionsFollowAccount
  BY TypeParts DEF IInv
<1>1. /\ request' = [request EXCEPT ![q] = new] /\ UNCHANGED <<users, sessions>>
      /\ spent < MaxRequests /\ spent' = spent + 1
  BY DEF Reads
<1>2. new \in Request
  BY DEF Request
<1>3. RequestOK(new)
  OBVIOUS
<1> HIDE DEF new
<1>4. spent' \in 0..MaxRequests
  BY <1>0, <1>1, AccountsAssumption DEF Typed
<1>5. Typed'
  BY <1>0, <1>1, <1>2, <1>4 DEF Typed
<1>6. OwnersExist' /\ NamesUnique' /\ SessionsStay
  BY <1>0, <1>1 DEF OwnersExist, NamesUnique, SessionsStay
<1>7. SessionsFollowAccount'
  BY <1>0, <1>1 DEF SessionsFollowAccount, Live
<1>8. ASSUME NEW o \in Requests, request'[o] # None
      PROVE  RequestOK(request[o])'
  <2>1. request'[o] = new \/ (request[o] # None /\ request'[o] = request[o])
    BY <1>0, <1>1, <1>8 DEF Typed
  <2>2. RequestOK(request'[o])
    BY <1>0, <1>3, <2>1 DEF RequestsOK
  <2> QED
    BY <1>1, <2>2 DEF RequestOK
<1> QED
  BY <1>5, <1>6, <1>7, <1>8, TypePartsPrimed DEF IInv, RequestsOK

\* An account that exists is a row.
LEMMA ExistingAccount ==
    ASSUME IInv, NEW u \in Users, users[u] # None
    PROVE  users[u] \in Account
BY TypeParts DEF IInv, Typed

LEMMA ReadKeeps ==
    ASSUME IInv, NEW q \in Requests, Read(q)
    PROVE  IInv' /\ SessionsStay
<1>1. ASSUME NEW kind \in Kinds, NEW p \in Passwords, NEW n \in Names, ReadNew(q, kind, p, n)
      PROVE  IInv' /\ SessionsStay
  <2> DEFINE row == [name |-> n, pass |-> p, active |-> TRUE, deleted |-> FALSE]
  <2>1. row \in Account /\ row.active /\ ~row.deleted /\ row.name = n /\ row.pass = p
    BY DEF Account
  <2>2. kind \in {"register", "create"} /\ Reads(q, kind, None, row, p, n)
    BY <1>1 DEF ReadNew
  <2> HIDE DEF row
  <2>3. RequestOK([kind |-> kind, user |-> None, row |-> row, pass |-> p, name |-> n])
    BY <2>1, <2>2 DEF RequestOK
  <2> QED
    BY <2>1, <2>2, <2>3, ReadsKeep
<1>2. ASSUME NEW u \in Users, ReadLogin(q, u)
      PROVE  IInv' /\ SessionsStay
  <2>1. users[u] # None /\ users[u].active /\ ~users[u].deleted
        /\ Reads(q, "login", u, users[u], users[u].pass, None)
    BY <1>2 DEF ReadLogin, Exists
  <2>2. users[u] \in Account /\ users[u].pass \in Passwords
    BY <2>1, ExistingAccount, AccountFields
  <2>3. RequestOK([kind |-> "login", user |-> u, row |-> users[u], pass |-> users[u].pass,
                   name |-> None])
    BY <2>1, <2>2 DEF RequestOK
  <2>4. "login" \in Kinds
    BY DEF Kinds
  <2> QED
    BY <2>1, <2>2, <2>3, <2>4, ReadsKeep
<1>3. ASSUME NEW u \in Users, NEW p \in Passwords, ReadReset(q, u, p)
      PROVE  IInv' /\ SessionsStay
  <2>1. users[u] # None /\ users[u] \in Account /\ Reads(q, "reset", u, users[u], p, None)
    BY <1>3, ExistingAccount DEF ReadReset, Exists
  <2>2. RequestOK([kind |-> "reset", user |-> u, row |-> users[u], pass |-> p, name |-> None])
    BY <2>1 DEF RequestOK
  <2>3. "reset" \in Kinds
    BY DEF Kinds
  <2> QED
    BY <2>1, <2>2, <2>3, ReadsKeep
<1>4. ASSUME NEW u \in Users, NEW n \in Names, ReadName(q, u, n)
      PROVE  IInv' /\ SessionsStay
  <2>1. users[u] # None /\ users[u] \in Account /\ Reads(q, "rename", u, users[u], None, n)
    BY <1>4, ExistingAccount DEF ReadName, Exists
  <2>2. RequestOK([kind |-> "rename", user |-> u, row |-> users[u], pass |-> None, name |-> n])
    BY <2>1 DEF RequestOK
  <2>3. "rename" \in Kinds
    BY DEF Kinds
  <2> QED
    BY <2>1, <2>2, <2>3, ReadsKeep
<1>5. ASSUME NEW u \in Users, NEW kind \in Kinds, ReadStatus(q, kind, u)
      PROVE  IInv' /\ SessionsStay
  <2>1. users[u] # None /\ users[u] \in Account /\ kind \in {"enable", "disable", "delete"}
        /\ Reads(q, kind, u, users[u], None, None)
    BY <1>5, ExistingAccount DEF ReadStatus, Exists
  <2>2. RequestOK([kind |-> kind, user |-> u, row |-> users[u], pass |-> None, name |-> None])
    BY <2>1 DEF RequestOK
  <2> QED
    BY <2>1, <2>2, ReadsKeep
<1>6. ASSUME NEW s \in Sessions, NEW p \in Passwords, ReadChange(q, s, p)
      PROVE  IInv' /\ SessionsStay
  <2> DEFINE u == sessions[s].user
  <2>1. sessions[s] # None /\ users[u].active /\ ~users[u].deleted
        /\ Reads(q, "change", u, users[u], p, None)
    BY <1>6 DEF ReadChange, Usable
  <2>2. u \in Users /\ users[u] # None
    BY <2>1, TypeParts DEF IInv, Typed, Session, OwnersExist
  <2> HIDE DEF u
  <2>3. users[u] \in Account
    BY <2>2, ExistingAccount
  <2>4. RequestOK([kind |-> "change", user |-> u, row |-> users[u], pass |-> p, name |-> None])
    BY <2>1, <2>2 DEF RequestOK
  <2>5. "change" \in Kinds
    BY DEF Kinds
  <2> QED
    BY <2>1, <2>2, <2>3, <2>4, <2>5, ReadsKeep
<1> QED
  BY <1>1, <1>2, <1>3, <1>4, <1>5, <1>6 DEF Read

-----------------------------------------------------------------------------
(* Steps of sessions alone *)

\* A step that ends sessions, ages them or deletes their rows.
LEMMA SessionSteps ==
    ASSUME IInv, UNCHANGED <<users, request, spent>>,
           sessions' \in [Sessions -> Session \cup {None}],
           \A s \in Sessions : sessions'[s] # None =>
              /\ sessions[s] # None
              /\ sessions'[s].user = sessions[s].user
              /\ sessions'[s].pass = sessions[s].pass
              /\ sessions'[s].late = sessions[s].late
              /\ sessions'[s].revoked = NotRevoked => sessions[s].revoked = NotRevoked
    PROVE  IInv'
<1>0. Typed /\ OwnersExist /\ NamesUnique /\ RequestsOK /\ SessionsFollowAccount
  BY TypeParts DEF IInv
<1>1. Typed' /\ AccountsStay /\ NamesUnique'
  BY <1>0 DEF Typed, AccountsStay, NamesUnique
<1>2. SessionsMove
  BY DEF SessionsMove, Kept
<1>3. OwnersExist' /\ SessionsFollowAccount'
  BY <1>0, <1>1, <1>2, OwnersAndSessions
<1>4. RequestsOK'
  BY <1>0 DEF RequestsOK, RequestOK
<1> QED
  BY <1>1, <1>3, <1>4, TypePartsPrimed DEF IInv

LEMMA EndKeeps ==
    ASSUME IInv, NEW s \in Sessions, Live(s),
           sessions' = [sessions EXCEPT ![s].revoked = 0], UNCHANGED <<users, request, spent>>
    PROVE  IInv' /\ SessionsStay
<1>0. Typed
  BY TypeParts DEF IInv
<1>1. sessions[s] \in Session
  BY <1>0 DEF Live, Typed
<1>2. \A t \in Sessions : sessions'[t] = IF t = s THEN [sessions[s] EXCEPT !.revoked = 0]
                                         ELSE sessions[t]
  BY <1>0 DEF Typed
<1>3. sessions' \in [Sessions -> Session \cup {None}]
  BY <1>0, <1>1, EndedSession DEF Typed
<1>4. SessionsStay
  BY <1>1, <1>2, EndedSession DEF SessionsStay
<1>5. ASSUME NEW t \in Sessions, sessions'[t] # None
      PROVE  /\ sessions[t] # None
             /\ sessions'[t].user = sessions[t].user
             /\ sessions'[t].pass = sessions[t].pass
             /\ sessions'[t].late = sessions[t].late
             /\ sessions'[t].revoked = NotRevoked => sessions[t].revoked = NotRevoked
  <2>1. CASE t = s
    BY <1>1, <1>2, <2>1, EndedSession DEF Live
  <2>2. CASE t # s
    BY <1>2, <1>5, <2>2
  <2> QED
    BY <2>1, <2>2
<1> QED
  BY <1>3, <1>4, <1>5, SessionSteps

LEMMA OlderSession ==
    ASSUME Typed, NEW s \in Sessions, sessions[s] # None
    PROVE  /\ Older(s) \in Session /\ Older(s) # None
           /\ Older(s).user = sessions[s].user /\ Older(s).pass = sessions[s].pass
           /\ Older(s).late = sessions[s].late
           /\ Older(s).revoked = NotRevoked => sessions[s].revoked = NotRevoked
<1> DEFINE x == sessions[s]
           age == IF x.age < Eternity THEN x.age + 1 ELSE Eternity
           revoked == IF x.revoked \in 0..Retention THEN x.revoked + 1 ELSE x.revoked
<1>1. x \in Session
  BY DEF Typed
<1>2. x.age \in 0..Eternity /\ x.revoked \in NotRevoked..Retention + 1
  BY <1>1 DEF Session
<1>3. age \in 0..Eternity
  BY <1>2, Numbers
<1>4. revoked \in NotRevoked..Retention + 1 /\ (revoked = NotRevoked => x.revoked = NotRevoked)
  BY <1>2, Numbers DEF NotRevoked
<1>5. Older(s) = [x EXCEPT !.age = age, !.revoked = revoked]
  BY DEF Older
<1> HIDE DEF age, revoked
<1>6. [x EXCEPT !.age = age, !.revoked = revoked] \in Session
  BY <1>1, <1>3, <1>4 DEF Session
<1>7. /\ [x EXCEPT !.age = age, !.revoked = revoked].user = x.user
      /\ [x EXCEPT !.age = age, !.revoked = revoked].pass = x.pass
      /\ [x EXCEPT !.age = age, !.revoked = revoked].late = x.late
      /\ [x EXCEPT !.age = age, !.revoked = revoked].revoked = revoked
  BY <1>1 DEF Session
<1> QED
  BY <1>4, <1>5, <1>6, <1>7, NoneIsNoRow

LEMMA TickKeeps ==
    ASSUME IInv, Tick
    PROVE  IInv' /\ SessionsStay
<1>0. Typed
  BY TypeParts DEF IInv
<1>1. sessions' = [s \in Sessions |-> Older(s)] /\ UNCHANGED <<users, request, spent>>
  BY DEF Tick
<1>2. \A s \in Sessions : sessions[s] = None => Older(s) = None
  BY DEF Older
<1>3. sessions' \in [Sessions -> Session \cup {None}]
  BY <1>0, <1>1, <1>2, OlderSession
<1>4. SessionsStay
  BY <1>0, <1>1, OlderSession DEF SessionsStay
<1> QED
  BY <1>0, <1>1, <1>2, <1>3, <1>4, OlderSession, SessionSteps

LEMMA CleanupKeeps ==
    ASSUME IInv, Cleanup
    PROVE  IInv'
<1>0. Typed
  BY TypeParts DEF IInv
<1>1. /\ \A s \in Sessions : sessions'[s] = None \/ sessions'[s] = sessions[s]
      /\ sessions' \in [Sessions -> Session \cup {None}]
      /\ UNCHANGED <<users, request, spent>>
  BY <1>0 DEF Cleanup, Typed
<1> QED
  BY <1>1, SessionSteps

-----------------------------------------------------------------------------
(* Why a session ends *)

\* What SessionsEndForCause says of one session.
EndsWell(s) ==
    sessions[s] # None =>
        /\ Usable(s) /\ ~Usable(s)' =>
              \/ Logout(s) \/ Ends(sessions[s].user)
              \/ sessions'[s] # None /\ sessions'[s].age >= Life
        /\ ~Usable(s) /\ ~sessions[s].late => ~Usable(s)'
AllEndWell == \A s \in Sessions : EndsWell(s)

\* A step that leaves the row of a session, and its account as good as it was.
AsGood(x, y) == (x.active => y.active) /\ y.deleted = x.deleted
Untouched(s) ==
    /\ sessions'[s] = sessions[s]
    /\ AsGood(users[sessions[s].user], users'[sessions[s].user])

\* The row of a session goes, or gets no younger and stays revoked.
Worn(s) ==
    sessions'[s] # None =>
        /\ sessions'[s].age >= sessions[s].age
        /\ sessions[s].revoked # NotRevoked => sessions'[s].revoked # NotRevoked

LEMMA SessionNumbers ==
    ASSUME IInv, NEW s \in Sessions, sessions[s] # None
    PROVE  /\ sessions[s] \in Session /\ sessions[s].user \in Users
           /\ sessions[s].age \in 0..Eternity
           /\ sessions[s].revoked \in NotRevoked..Retention + 1
BY TypeParts DEF IInv, Typed, Session

\* Of a session that is no longer good and was not created late, the invariant
\* leaves two causes, and neither goes away.
LEMMA NoReturn ==
    ASSUME IInv, IInv', NEW s \in Sessions, sessions[s] # None, Worn(s),
           ~Usable(s), ~sessions[s].late
    PROVE  ~Usable(s)'
<1>1. SUFFICES ASSUME sessions'[s] # None, sessions'[s].revoked = NotRevoked,
                      sessions'[s].age < Life
               PROVE  FALSE
  BY DEF Usable, Live
<1>2. sessions[s].revoked = NotRevoked /\ sessions'[s].age >= sessions[s].age
  BY <1>1 DEF Worn
<1>3. sessions[s].age \in Int
  BY SessionNumbers, Numbers
<1>4. sessions'[s].age \in Int
  <2>1. sessions'[s] \in Session
    BY <1>1, TypePartsPrimed DEF IInv, Typed
  <2> QED
    BY <2>1, Numbers DEF Session
<1>5. sessions[s].age < Life
  BY <1>1, <1>2, <1>3, <1>4, Numbers
<1>6. users[sessions[s].user].active /\ ~users[sessions[s].user].deleted
  BY <1>2 DEF IInv, SessionsFollowAccount, Live
<1> QED
  BY <1>2, <1>5, <1>6 DEF Usable, Live

LEMMA UntouchedEndsWell ==
    ASSUME IInv, IInv', NEW s \in Sessions, sessions[s] # None => Untouched(s)
    PROVE  EndsWell(s)
<1> SUFFICES ASSUME sessions[s] # None PROVE EndsWell(s)
  BY DEF EndsWell
<1>1. Untouched(s)
  OBVIOUS
<1>2. Usable(s) => Usable(s)'
  BY <1>1 DEF Untouched, AsGood, Usable, Live
<1>3. Worn(s)
  BY <1>1, SessionNumbers, Numbers DEF Untouched, Worn
<1> QED
  BY <1>2, <1>3, NoReturn DEF EndsWell

LEMMA CausedEndsWell ==
    ASSUME IInv, IInv', NEW s \in Sessions,
           sessions[s] # None => Worn(s) /\ Ends(sessions[s].user)
    PROVE  EndsWell(s)
BY NoReturn DEF EndsWell

\* A step that leaves the accounts and what is in the rows of sessions.
LEMMA SameAccountsEndWell ==
    ASSUME IInv, IInv', UNCHANGED users,
           \A s \in Sessions : sessions[s] # None => sessions'[s] = sessions[s]
    PROVE  AllEndWell
BY UntouchedEndsWell DEF AllEndWell, Untouched, AsGood

\* revoke_user_sessions: the rows of other accounts stay as they are, those of
\* the account itself stay as old as they are.
LEMMA RevokedWorn ==
    ASSUME IInv, NEW u \in Users, NEW s \in Sessions, sessions[s] # None
    PROVE  /\ sessions[s].user # u => Revoked(u)[s] = sessions[s]
           /\ Revoked(u)[s].age = sessions[s].age
           /\ sessions[s].revoked # NotRevoked => Revoked(u)[s].revoked # NotRevoked
<1>1. sessions[s] \in Session
  BY SessionNumbers
<1>2. CASE Live(s) /\ sessions[s].user = u
  <2>1. Revoked(u)[s] = [sessions[s] EXCEPT !.revoked = 0]
    BY <1>2 DEF Revoked
  <2> QED
    BY <1>1, <1>2, <2>1, EndedSession DEF Live, Session
<1>3. CASE ~(Live(s) /\ sessions[s].user = u)
  <2>1. Revoked(u)[s] = sessions[s]
    BY <1>3 DEF Revoked
  <2> QED
    BY <2>1
<1> QED
  BY <1>2, <1>3

\* A request that revokes the sessions of the account it is about.
LEMMA RevokingEndsWell ==
    ASSUME IInv, IInv', NEW q \in Requests, Done(q), request[q] # None,
           request[q].kind \in {"change", "reset", "disable", "delete"},
           \A v \in Users : v # request[q].user => users'[v] = users[v],
           \A s \in Sessions : sessions[s] # None => sessions'[s] = Revoked(request[q].user)[s]
    PROVE  AllEndWell
<1> DEFINE u == request[q].user
<1>1. u \in Users
  BY ReadAccount
<1>2. Ends(u)
  <2>1. request'[q] = None
    BY TypeParts DEF IInv, Typed, Done
  <2> QED
    BY <2>1 DEF Ends
<1>3. \A v \in Users : v # u => users'[v] = users[v]
  OBVIOUS
<1>4. \A s \in Sessions : sessions[s] # None => sessions'[s] = Revoked(u)[s]
  OBVIOUS
<1> HIDE DEF u
<1>5. ASSUME NEW s \in Sessions
      PROVE  EndsWell(s)
  <2>1. CASE sessions[s] = None
    BY <2>1, UntouchedEndsWell
  <2>2. CASE sessions[s] # None /\ sessions[s].user # u
    <3>1. sessions[s].user \in Users
      BY <2>2, SessionNumbers
    <3>2. Untouched(s)
      BY <1>1, <1>3, <1>4, <2>2, <3>1, RevokedWorn DEF Untouched, AsGood
    <3> QED
      BY <3>2, UntouchedEndsWell
  <2>3. CASE sessions[s] # None /\ sessions[s].user = u
    <3>1. sessions[s].age \in Int
      BY <2>3, SessionNumbers, Numbers
    <3>2. Worn(s)
      BY <1>1, <1>4, <2>3, <3>1, RevokedWorn DEF Worn
    <3> QED
      BY <1>2, <2>3, <3>2, CausedEndsWell
  <2> QED
    BY <2>1, <2>2, <2>3
<1> QED
  BY <1>5 DEF AllEndWell

LEMMA ReadEndsWell ==
    ASSUME IInv, IInv', NEW q \in Requests, Read(q) \/ Drop(q)
    PROVE  AllEndWell
<1>1. UNCHANGED <<users, sessions>>
  BY DEF Read, Drop, ReadNew, ReadLogin, ReadReset, ReadName, ReadStatus, ReadChange, Reads
<1> QED
  BY <1>1, SameAccountsEndWell

LEMMA WriteNewEndsWell ==
    ASSUME IInv, IInv', NEW q \in Requests, WriteNew(q)
    PROVE  AllEndWell
<1> DEFINE r == request[q]
<1>0. Typed /\ OwnersExist /\ RequestsOK
  BY TypeParts DEF IInv
<1>1. r # None /\ r.kind \in {"register", "create"}
  BY DEF WriteNew
<1>2. r.row \in Account /\ r.pass \in Passwords
  BY <1>0, <1>1, RequestFields DEF RequestsOK, RequestOK
<1>3. CASE UNCHANGED <<users, sessions>>
  BY <1>3, SameAccountsEndWell
<1>4. ASSUME NEW u \in Users, users[u] = None, users' = [users EXCEPT ![u] = r.row],
             IF r.kind = "register" THEN Creates(sessions, u, r.pass, FALSE)
             ELSE UNCHANGED sessions
      PROVE  AllEndWell
  <2>1. \A s \in Sessions : sessions[s] # None => sessions'[s] = sessions[s]
    <3>1. CASE UNCHANGED sessions
      BY <3>1
    <3>2. CASE Creates(sessions, u, r.pass, FALSE)
      <4> DEFINE late == FALSE
      <4>1. sessions \in [Sessions -> Session \cup {None}] /\ late \in BOOLEAN
            /\ Creates(sessions, u, r.pass, late)
        BY <1>0, <3>2 DEF Typed
      <4> HIDE DEF late
      <4> QED
        BY <1>2, <4>1, OneCreated
    <3> QED
      BY <1>4, <3>1, <3>2
  <2>2. ASSUME NEW s \in Sessions, sessions[s] # None
        PROVE  users'[sessions[s].user] = users[sessions[s].user]
    <3>1. sessions[s].user \in Users /\ users[sessions[s].user] # None
      BY <1>0, <2>2, SessionNumbers DEF OwnersExist
    <3> QED
      BY <1>0, <1>4, <3>1 DEF Typed
  <2> QED
    BY <2>1, <2>2, UntouchedEndsWell DEF AllEndWell, Untouched, AsGood
<1> QED
  BY <1>3, <1>4 DEF WriteNew

LEMMA WriteLoginEndsWell ==
    ASSUME IInv, IInv', NEW q \in Requests, WriteLogin(q)
    PROVE  AllEndWell
<1> DEFINE r == request[q]
<1>1. r # None /\ r.kind = "login" /\ UNCHANGED users
      /\ Creates(sessions, r.user, r.pass, Changed(r))
  BY DEF WriteLogin
<1>2. r.user \in Users /\ Changed(r) \in BOOLEAN /\ r.pass \in Passwords
  BY <1>1, ReadAccount
<1>3. \A s \in Sessions : sessions[s] # None => sessions'[s] = sessions[s]
  BY <1>1, <1>2, TypeParts, OneCreated DEF IInv, Typed
<1> QED
  BY <1>1, <1>3, SameAccountsEndWell

LEMMA WriteChangeEndsWell ==
    ASSUME IInv, IInv', NEW q \in Requests, WriteChange(q)
    PROVE  AllEndWell
<1> DEFINE r == request[q]
           a == [users[r.user] EXCEPT !.pass = r.pass]
<1>0. Typed
  BY TypeParts DEF IInv
<1>1. r # None /\ r.kind = "change" /\ Done(q) /\ users' = [users EXCEPT ![r.user] = a]
      /\ Creates(Revoked(r.user), r.user, r.pass, Changed(r))
  BY DEF WriteChange
<1>2. r.user \in Users /\ Changed(r) \in BOOLEAN /\ r.pass \in Passwords
  BY <1>1, ReadAccount
<1> HIDE DEF a
<1>3. \A s \in Sessions : sessions[s] # None => sessions'[s] = Revoked(r.user)[s]
  BY <1>0, <1>1, <1>2, RevokedSessions, OneCreated
<1>4. \A v \in Users : v # r.user => users'[v] = users[v]
  BY <1>0, <1>1, <1>2 DEF Typed
<1> QED
  BY <1>1, <1>3, <1>4, RevokingEndsWell

\* A request that writes one account and revokes its sessions or, having spoilt
\* nothing in it, leaves them.
LEMMA AccountStepsEndWell ==
    ASSUME IInv, IInv', NEW q \in Requests, Done(q), request[q] # None,
           NEW a, users' = [users EXCEPT ![request[q].user] = a],
           request[q].user \in Users,
           \/ /\ request[q].kind \in {"reset", "disable", "delete"}
              /\ sessions' = Revoked(request[q].user)
           \/ UNCHANGED sessions /\ AsGood(users[request[q].user], a)
    PROVE  AllEndWell
<1> DEFINE u == request[q].user
<1>0. Typed
  BY TypeParts DEF IInv
<1>1. users'[u] = a /\ \A v \in Users : v # u => users'[v] = users[v]
  BY <1>0 DEF Typed
<1>2. CASE request[q].kind \in {"reset", "disable", "delete"} /\ sessions' = Revoked(u)
  BY <1>1, <1>2, RevokingEndsWell
<1>3. CASE UNCHANGED sessions /\ AsGood(users[u], a)
  <2> HIDE DEF u
  <2>1. ASSUME NEW s \in Sessions, sessions[s] # None
        PROVE  Untouched(s)
    <3> DEFINE v == sessions[s].user
    <3>1. v \in Users /\ sessions'[s] = sessions[s]
      BY <1>3, <2>1, SessionNumbers
    <3> HIDE DEF v
    <3>2. users'[v] = users[v] \/ (v = u /\ users'[v] = a)
      BY <1>1, <3>1
    <3>3. AsGood(users[v], users[v])
      BY DEF AsGood
    <3>4. AsGood(users[v], users'[v])
      BY <1>3, <3>2, <3>3
    <3> QED
      BY <3>1, <3>4 DEF Untouched, v
  <2> QED
    BY <2>1, UntouchedEndsWell DEF AllEndWell
<1> QED
  BY <1>2, <1>3

LEMMA WriteOneEndsWell ==
    ASSUME IInv, IInv', NEW q \in Requests,
           WriteReset(q) \/ WriteStatus(q) \/ WriteDelete(q) \/ WriteName(q)
    PROVE  AllEndWell
<1> DEFINE r == request[q]
           x == users[r.user]
<1>0. Typed
  BY TypeParts DEF IInv
<1>1. /\ r # None /\ Done(q) /\ r.kind \in {"reset", "enable", "disable", "delete", "rename"}
      /\ r.user \in Users /\ x \in Account
  <2>1. r # None /\ Done(q) /\ r.kind \in {"reset", "enable", "disable", "delete", "rename"}
    BY DEF WriteReset, WriteStatus, WriteDelete, WriteName
  <2> QED
    BY <2>1, ReadAccount
<1>2. CASE WriteReset(q)
  <2> DEFINE a == [x EXCEPT !.pass = r.pass]
  <2>1. users' = [users EXCEPT ![r.user] = a]
        /\ r.kind \in {"reset", "disable", "delete"} /\ sessions' = Revoked(r.user)
    BY <1>2 DEF WriteReset
  <2> HIDE DEF a
  <2> QED
    BY <1>1, <2>1, AccountStepsEndWell
<1>3. CASE WriteStatus(q)
  <2> DEFINE enable == r.kind = "enable"
             b == IF r.row.active = enable THEN x.active ELSE enable
             a == [x EXCEPT !.active = b]
  <2>1. r.kind \in {"enable", "disable"} /\ users' = [users EXCEPT ![r.user] = a]
        /\ sessions' = IF enable THEN sessions ELSE Revoked(r.user)
    BY <1>3 DEF WriteStatus
  <2>2. b \in BOOLEAN /\ (enable /\ x.active => b)
    BY <1>1, AccountFields
  <2> HIDE DEF b
  <2>3. a.active = b /\ a.deleted = x.deleted
    BY <1>1, <2>2, SetActive
  <2>4. enable => AsGood(x, a)
    BY <2>2, <2>3 DEF AsGood
  <2> HIDE DEF a
  <2> QED
    BY <1>1, <2>1, <2>4, AccountStepsEndWell
<1>4. CASE WriteDelete(q)
  <2> DEFINE a == [x EXCEPT !.deleted = TRUE, !.active = x.active /\ ~r.row.active]
  <2>1. r.kind \in {"reset", "disable", "delete"} /\ sessions' = Revoked(r.user)
    BY <1>4 DEF WriteDelete
  <2>2. users' = [users EXCEPT ![r.user] = a]
    BY <1>0, <1>1, <1>4 DEF WriteDelete, Typed, Account
  <2> HIDE DEF a
  <2> QED
    BY <1>1, <2>1, <2>2, AccountStepsEndWell
<1>5. CASE WriteName(q) /\ UNCHANGED users
  BY <1>5, SameAccountsEndWell DEF WriteName
<1>6. CASE WriteName(q) /\ users' # users
  <2> DEFINE a == [x EXCEPT !.name = r.name]
  <2>1. UNCHANGED sessions /\ users' = [users EXCEPT ![r.user] = a] /\ r.kind = "rename"
    BY <1>6 DEF WriteName
  <2>2. r.name \in Names
    BY <1>1, <2>1, ReadAccount
  <2>3. AsGood(x, a)
    BY <1>1, <2>2, SetName DEF AsGood
  <2> HIDE DEF a
  <2> QED
    BY <1>1, <2>1, <2>3, AccountStepsEndWell
<1> QED
  BY <1>2, <1>3, <1>4, <1>5, <1>6

LEMMA LogoutEndsWell ==
    ASSUME IInv, IInv', NEW t \in Sessions, Logout(t) \/ Present(t)
    PROVE  AllEndWell
<1>0. Typed
  BY TypeParts DEF IInv
<1>1. Live(t) /\ sessions' = [sessions EXCEPT ![t].revoked = 0] /\ UNCHANGED users
  BY DEF Logout, Present
<1>2. sessions[t] \in Session
  BY <1>0, <1>1 DEF Typed, Live
<1>3. ASSUME NEW s \in Sessions, s # t
      PROVE  EndsWell(s)
  <2>1. sessions[s] # None => Untouched(s)
    BY <1>0, <1>1, <1>3 DEF Typed, Untouched, AsGood
  <2> QED
    BY <2>1, UntouchedEndsWell
<1>4. EndsWell(t)
  <2>1. sessions'[t] = [sessions[t] EXCEPT !.revoked = 0]
    BY <1>0, <1>1 DEF Typed
  <2>2. ~Usable(t)'
    BY <1>2, <2>1, EndedSession DEF Usable, Live
  <2>3. Logout(t) \/ ~Usable(t)
    BY DEF Present
  <2> QED
    BY <2>2, <2>3 DEF EndsWell
<1> QED
  BY <1>3, <1>4 DEF AllEndWell

LEMMA TickEndsWell ==
    ASSUME IInv, IInv', Tick
    PROVE  AllEndWell
<1>0. Typed
  BY TypeParts DEF IInv
<1>1. sessions' = [s \in Sessions |-> Older(s)] /\ UNCHANGED users
  BY DEF Tick
<1>2. ASSUME NEW s \in Sessions, sessions[s] # None
      PROVE  EndsWell(s)
  <2> DEFINE x == sessions[s]
             age == IF x.age < Eternity THEN x.age + 1 ELSE Eternity
             revoked == IF x.revoked \in 0..Retention THEN x.revoked + 1 ELSE x.revoked
  <2>1. x \in Session /\ x.age \in 0..Eternity /\ x.revoked \in NotRevoked..Retention + 1
    BY <1>2, SessionNumbers
  <2>2. age >= x.age /\ (x.revoked = NotRevoked <=> revoked = NotRevoked)
    BY <2>1, Numbers DEF NotRevoked
  <2>3. Older(s) = [x EXCEPT !.age = age, !.revoked = revoked]
    BY <1>2 DEF Older
  <2>4. age \in Int /\ Life \in Int
    BY <2>1, Numbers
  <2> HIDE DEF age, revoked
  <2>5. /\ sessions'[s].user = x.user /\ sessions'[s].age = age
        /\ sessions'[s].revoked = revoked /\ sessions'[s] # None
    BY <1>0, <1>1, <1>2, <2>1, <2>3, OlderSession DEF Session
  <2>6. Worn(s)
    BY <2>2, <2>5 DEF Worn
  <2>7. Usable(s) /\ ~Usable(s)' => sessions'[s].age >= Life
    <3>1. Usable(s) /\ sessions'[s].age < Life => Usable(s)'
      BY <1>1, <2>2, <2>5 DEF Usable, Live
    <3> QED
      BY <2>4, <2>5, <3>1
  <2> QED
    BY <2>5, <2>6, <2>7, NoReturn DEF EndsWell
<1> QED
  BY <1>2 DEF AllEndWell, EndsWell

\* No session that is good is forgotten, whatever the two periods are.
LEMMA CleanupEndsWell ==
    ASSUME IInv, IInv', Cleanup
    PROVE  AllEndWell
<1>1. sessions' = [s \in Sessions |-> IF Forgotten(s) THEN None ELSE sessions[s]]
      /\ UNCHANGED users
  BY DEF Cleanup
<1>2. ASSUME NEW s \in Sessions, sessions[s] # None
      PROVE  EndsWell(s)
  <2>1. CASE Forgotten(s)
    <3>1. sessions'[s] = None
      BY <1>1, <2>1
    <3>2. ~Usable(s)'
      BY <3>1 DEF Usable, Live
    <3>3. ~(sessions[s].age < Life /\ sessions[s].revoked = NotRevoked)
      <4>1. sessions[s].age > Life + Retention \/ sessions[s].revoked > Retention
        BY <2>1 DEF Forgotten
      <4>2. sessions[s].age \in Int /\ sessions[s].revoked \in Int
        BY <1>2, SessionNumbers, Numbers DEF NotRevoked
      <4> QED
        BY <4>1, <4>2, Numbers DEF NotRevoked
    <3>4. ~Usable(s)
      BY <3>3 DEF Usable, Live
    <3> QED
      BY <3>2, <3>4 DEF EndsWell
  <2>2. CASE ~Forgotten(s)
    <3>1. Untouched(s)
      BY <1>1, <2>2 DEF Untouched, AsGood
    <3> QED
      BY <3>1, UntouchedEndsWell
  <2> QED
    BY <2>1, <2>2
<1> QED
  BY <1>2 DEF AllEndWell, EndsWell

LEMMA StepEndsWell ==
    ASSUME IInv, IInv', Next
    PROVE  AllEndWell
<1>1. ASSUME NEW q \in Requests, Read(q) \/ Write(q) \/ Drop(q)
      PROVE  AllEndWell
  BY <1>1, ReadEndsWell, WriteNewEndsWell, WriteLoginEndsWell, WriteChangeEndsWell,
     WriteOneEndsWell DEF Write
<1> QED
  BY <1>1, LogoutEndsWell, TickEndsWell, CleanupEndsWell DEF Next

-----------------------------------------------------------------------------
(* The theorems *)

LEMMA WriteKeepsAll ==
    ASSUME IInv, NEW q \in Requests, Write(q)
    PROVE  IInv' /\ SessionsStay
BY WriteNewKeeps, WriteLoginKeeps, WriteChangeKeeps, WriteResetKeeps, WriteStatusKeeps,
   WriteDeleteKeeps, WriteNameKeeps DEF Write

LEMMA DropKeeps ==
    ASSUME IInv, NEW q \in Requests, Drop(q)
    PROVE  IInv' /\ SessionsStay
<1>0. Typed /\ NamesUnique
  BY TypeParts DEF IInv
<1>1. Done(q) /\ UNCHANGED <<users, sessions>>
  BY DEF Drop
<1>2. AccountsStay /\ NamesUnique' /\ users' \in [Users -> Account \cup {None}]
  BY <1>0, <1>1 DEF AccountsStay, NamesUnique, Typed
<1>3. SessionsMove /\ SessionsStay /\ sessions' \in [Sessions -> Session \cup {None}]
  BY <1>0, <1>1, SessionsUntouched
<1> QED
  BY <1>1, <1>2, <1>3, WriteKeeps

\* Every step but the clean-up keeps the rows of sessions.
LEMMA StepKeeps ==
    ASSUME IInv, Next
    PROVE  IInv' /\ (SessionsStay \/ Cleanup)
<1>1. ASSUME NEW q \in Requests, Read(q) \/ Write(q) \/ Drop(q)
      PROVE  IInv' /\ SessionsStay
  BY <1>1, ReadKeeps, WriteKeepsAll, DropKeeps
<1>2. ASSUME NEW s \in Sessions, Logout(s) \/ Present(s)
      PROVE  IInv' /\ SessionsStay
  <2>1. Live(s) /\ sessions' = [sessions EXCEPT ![s].revoked = 0]
        /\ UNCHANGED <<users, request, spent>>
    BY <1>2 DEF Logout, Present
  <2> QED
    BY <2>1, EndKeeps
<1> QED
  BY <1>1, <1>2, TickKeeps, CleanupKeeps DEF Next

LEMMA InitHolds == Init => IInv
<1> SUFFICES ASSUME Init PROVE IInv
  OBVIOUS
<1>1. sessions = [s \in Sessions |-> None] /\ request = [q \in Requests |-> None] /\ spent = 0
  BY DEF Init
<1>2. users \in [Users -> Account \cup {None}] /\ NamesUnique
  <2>1. CASE users = [u \in Users |-> None]
    BY <2>1 DEF NamesUnique
  <2>2. ASSUME NEW n \in Names, NEW p \in Passwords,
               users = [u \in Users |-> IF u = 1 THEN [name |-> n, pass |-> p, active |-> TRUE,
                                                       deleted |-> FALSE] ELSE None]
        PROVE  users \in [Users -> Account \cup {None}] /\ NamesUnique
    <3> DEFINE a == [name |-> n, pass |-> p, active |-> TRUE, deleted |-> FALSE]
    <3>1. a \in Account
      BY DEF Account
    <3> HIDE DEF a
    <3>2. users = [u \in Users |-> IF u = 1 THEN a ELSE None]
      BY <2>2 DEF a
    <3> QED
      BY <3>1, <3>2 DEF NamesUnique
  <2> QED
    BY <2>1, <2>2 DEF Init
<1>3. spent \in 0..MaxRequests
  BY <1>1, AccountsAssumption
<1>4. Typed /\ OwnersExist
  BY <1>1, <1>2, <1>3 DEF Typed, OwnersExist
<1>5. RequestsOK /\ SessionsFollowAccount
  BY <1>1 DEF RequestsOK, SessionsFollowAccount, Live
<1> QED
  BY <1>2, <1>4, <1>5, TypeParts DEF IInv

LEMMA StutterKeeps ==
    ASSUME IInv, UNCHANGED vars
    PROVE  IInv'
<1>0. Typed /\ OwnersExist /\ NamesUnique /\ RequestsOK /\ SessionsFollowAccount
  BY TypeParts DEF IInv
<1>1. Typed' /\ OwnersExist' /\ NamesUnique'
  BY <1>0 DEF vars, Typed, OwnersExist, NamesUnique
<1>2. RequestsOK' /\ SessionsFollowAccount'
  BY <1>0 DEF vars, RequestsOK, RequestOK, SessionsFollowAccount, Live
<1> QED
  BY <1>1, <1>2, TypePartsPrimed DEF IInv

\* The inductive invariant holds: types, unique names, owners of sessions that
\* exist, what requests under way have read, and the sessions of an account.
THEOREM Invariance == Spec => []IInv
<1>1. IInv /\ [Next]_vars => IInv'
  BY StepKeeps, StutterKeeps
<1> QED
  BY <1>1, InitHolds, PTL DEF Spec

\* Two accounts never share a name, though two requests may both find it free
\* (register, create_user, update_user), and no session is without its account.
THEOREM TypeCorrect == Spec => []TypeOK
<1>1. IInv => TypeOK
  BY DEF IInv
<1> QED
  BY <1>1, Invariance, PTL

\* revoke_user_sessions leaves no session that its account should have lost, for
\* any number of requests that race, but those of a login or a change of password
\* that read the account before the change.
THEOREM SessionsFollow == Spec => []SessionsFollowAccount
<1>1. IInv => SessionsFollowAccount
  BY DEF IInv
<1> QED
  BY <1>1, Invariance, PTL

\* A session that is good ends by its age, by its logout, or by a change, reset,
\* deactivation or deletion of its own account, and never by what happens to
\* other accounts or by the clean-up; and one that is over does not come back:
\* for any number of requests that race and whatever the two periods are
\* (validate_user_session, cleanup_expired_user_sessions).
THEOREM EndForCause == Spec => SessionsEndForCause
<1>1. IInv /\ [Next]_vars => IInv'
  BY StepKeeps, StutterKeeps
<1>2. IInv /\ IInv' /\ [Next]_vars => [AllEndWell]_vars
  BY StepEndsWell
<1>3. Spec => [][AllEndWell]_vars
  BY <1>1, <1>2, InitHolds, PTL DEF Spec
<1> QED
  BY <1>3 DEF SessionsEndForCause, AllEndWell, EndsWell

=============================================================================
