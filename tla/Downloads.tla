----------------------------- MODULE Downloads -----------------------------
(***************************************************************************)
(* The limit on downloads of one address: download_rate_limit.py, the       *)
(* routes that ask it (routers/downloads.py, routers/shares.py) and its     *)
(* clean-up from the scheduler.                                             *)
(*                                                                         *)
(* A request takes the time before it waits for its turn: requests are      *)
(* decided one at a time (an asyncio lock in a process, BEGIN IMMEDIATE     *)
(* between processes), but not in the order of their times.                 *)
(***************************************************************************)
EXTENDS Naturals, Sequences, FiniteSets

CONSTANTS
    Addresses,
    Requests,
    None,        \* no request, no row, no block
    Limit,       \* DOWNLOAD_RATE_MAX_ATTEMPTS
    Window,      \* DOWNLOAD_RATE_WINDOW_SECONDS
    Block,       \* DOWNLOAD_RATE_BLOCK_SECONDS
    Keep,        \* the age of rows that are cleaned up
    Delay,       \* bound: how long a request waits for its turn
    MaxTime      \* bound: the clock

Times == 0..MaxTime

\* The list of hits is never read in its order: a hit is the time of a request,
\* told from others of the same time by the number of the download.
Hit == [number: Nat \ {0}, time: Times]
Row == [hits: SUBSET Hit, blocked: 0..MaxTime + Block \cup {None}, updated: Times]

ASSUME DownloadsAssumption ==
    /\ None \notin (0 .. MaxTime + Block) \cup Row
    /\ {Limit, Window, Block, Keep, Delay, MaxTime} \subseteq Nat
    /\ Limit > 0 /\ Block >= Window /\ Keep >= Window

VARIABLES
    now,         \* the clock
    rate,        \* state.db: download_rate_limits
    request,     \* the address and the time of each request that waits
    granted      \* history: when each download was granted to an address

vars == <<now, rate, request, granted>>

-----------------------------------------------------------------------------
NewRow(t) == [hits |-> {}, blocked |-> None, updated |-> t]

\* Type correctness; no row holds more hits than the limit.
TypeOK ==
    /\ now \in Times
    /\ rate \in [Addresses -> Row \cup {None}]
    /\ \A a \in Addresses : rate[a] # None =>
          IsFiniteSet(rate[a].hits) /\ Cardinality(rate[a].hits) <= Limit
    /\ request \in [Requests -> [address: Addresses, time: Times] \cup {None}]
    /\ granted \in [Addresses -> Seq(Times)]

Init ==
    /\ now = 0
    /\ rate = [a \in Addresses |-> None]
    /\ request = [q \in Requests |-> None]
    /\ granted = [a \in Addresses |-> <<>>]

\* A download of an active resource is asked for, directly or with a share.
Ask(q, a) ==
    /\ request[q] = None
    /\ request' = [request EXCEPT ![q] = [address |-> a, time |-> now]]
    /\ UNCHANGED <<now, rate, granted>>

-----------------------------------------------------------------------------
(* check_download_rate, one transaction *)

Stored(a, t) == IF rate[a] = None THEN NewRow(t) ELSE rate[a]
Blocked(row, t) == row.blocked # None /\ t < row.blocked

\* The hits inside the window; a block that is over clears them.
RecentUnlessShort(row, t) ==
    {h \in row.hits : row.blocked = None /\ h.time + Window > t + 1}
Recent(row, t) ==
    {h \in row.hits : row.blocked = None /\ h.time + Window > t}

NextHit(a, t) == [number |-> Len(granted[a]) + 1, time |-> t]

Decided(q, row) ==
    /\ rate' = [rate EXCEPT ![request[q].address] = row]
    /\ request' = [request EXCEPT ![q] = None]
    /\ UNCHANGED now

GrantOneMore(q) ==
    /\ request[q] # None
    /\ LET a == request[q].address
           t == request[q].time
           row == Stored(a, t)
       IN  /\ ~Blocked(row, t) /\ Cardinality(Recent(row, t)) <= Limit
           /\ Decided(q, [hits |-> Recent(row, t) \cup {NextHit(a, t)},
                         blocked |-> None, updated |-> t])
           /\ granted' = [granted EXCEPT ![a] = Append(granted[a], now)]
Grant(q) ==
    /\ request[q] # None
    /\ LET a == request[q].address
           t == request[q].time
           row == Stored(a, t)
       IN  /\ ~Blocked(row, t) /\ Cardinality(Recent(row, t)) < Limit
           /\ Decided(q, [hits |-> Recent(row, t) \cup {NextHit(a, t)},
                         blocked |-> None, updated |-> t])
           /\ granted' = [granted EXCEPT ![a] = Append(granted[a], now)]

\* One request too many starts the block.
StartBlock(q) ==
    /\ request[q] # None
    /\ LET t == request[q].time
           row == Stored(request[q].address, t)
       IN  /\ ~Blocked(row, t) /\ Cardinality(Recent(row, t)) >= Limit
           /\ Decided(q, [hits |-> Recent(row, t), blocked |-> t + Block, updated |-> t])
    /\ UNCHANGED granted

\* Requests while it lasts do not prolong it.
RefuseProlonging(q) ==
    /\ request[q] # None
    /\ LET t == request[q].time
           row == Stored(request[q].address, t)
       IN  Blocked(row, t) /\ Decided(q, [row EXCEPT !.blocked = t + Block])
    /\ UNCHANGED granted
Refuse(q) ==
    /\ request[q] # None
    /\ LET t == request[q].time
           row == Stored(request[q].address, t)
       IN  Blocked(row, t) /\ Decided(q, row)
    /\ UNCHANGED granted

\* A request that is cancelled, or whose BEGIN IMMEDIATE or commit fails, gets
\* no decision and leaves no trace.
Drop(q) ==
    /\ request[q] # None
    /\ request' = [request EXCEPT ![q] = None]
    /\ UNCHANGED <<now, rate, granted>>

-----------------------------------------------------------------------------
\* cleanup_download_rate_limits.
Obsolete(row) ==
    /\ row # None
    /\ row.updated + Keep < now
    /\ row.blocked = None \/ row.blocked <= now
Cleanup ==
    /\ rate' = [a \in Addresses |-> IF Obsolete(rate[a]) THEN None ELSE rate[a]]
    /\ UNCHANGED <<now, request, granted>>

\* A request is decided, if at all, within Delay.  One that fails later than that
\* counts as dropped before: until then it does nothing but wait.
Tick ==
    /\ now < MaxTime
    /\ \A q \in Requests : request[q] # None => now < request[q].time + Delay
    /\ now' = now + 1
    /\ UNCHANGED <<rate, request, granted>>

Next ==
    \/ \E q \in Requests :
          (\E a \in Addresses : Ask(q, a)) \/ Grant(q) \/ StartBlock(q) \/ Refuse(q)
          \/ Drop(q)
    \/ Cleanup
    \/ Tick

Spec == Init /\ [][Next]_vars
-----------------------------------------------------------------------------
(* Properties *)

\* An address is granted no more than Limit downloads within the window,
\* shortened by the time that requests wait: neither the order of decisions,
\* nor the end of a block, nor the clean-up lets more pass.
RateKept ==
    \A a \in Addresses : \A i \in 1 .. Len(granted[a]) : i + Limit <= Len(granted[a]) =>
        granted[a][i + Limit] + Delay >= granted[a][i] + Window

\* A request is from the past, and waits no longer than Delay.
AskedInTime ==
    \A q \in Requests : request[q] # None =>
        request[q].time <= now /\ now <= request[q].time + Delay

\* Downloads are granted one after another.
GrantedInOrder ==
    \A a \in Addresses : \A i \in 1 .. Len(granted[a]) :
        /\ granted[a][i] <= now
        /\ \A j \in i .. Len(granted[a]) : granted[a][i] <= granted[a][j]

\* Each hit stands for one download, granted at most Delay after it was asked for.
HitsAreGranted ==
    \A a \in Addresses : rate[a] # None => \A h \in rate[a].hits :
        /\ h.number \in 1 .. Len(granted[a])
        /\ h.time <= granted[a][h.number] /\ granted[a][h.number] <= h.time + Delay
        /\ \A g \in rate[a].hits : g.number = h.number => g = h

\* The row still has every download that a request could count.
RecentAreHits ==
    \A a \in Addresses : \A i \in 1 .. Len(granted[a]) :
        granted[a][i] + Window > now + Delay =>
            rate[a] # None /\ \E h \in rate[a].hits : h.number = i

\* A block began with the row full of recent hits, and nothing was granted since.
BlockedIsFull ==
    \A a \in Addresses : rate[a] # None /\ rate[a].blocked # None =>
        /\ Cardinality(rate[a].hits) >= Limit
        /\ \A h \in rate[a].hits : h.time + Window + Block > rate[a].blocked
        /\ \A i \in 1 .. Len(granted[a]) : granted[a][i] + Block <= rate[a].blocked + Delay

\* The age of a row is that of the last download, but for the wait.
UpdatedSince ==
    \A a \in Addresses : rate[a] # None =>
        \A i \in 1 .. Len(granted[a]) : granted[a][i] <= rate[a].updated + Delay

\* The inductive invariant: with types, why the limit is kept.
IInv ==
    /\ TypeOK
    /\ AskedInTime
    /\ GrantedInOrder
    /\ HitsAreGranted
    /\ RecentAreHits
    /\ BlockedIsFull
    /\ UpdatedSince
    /\ RateKept

\* Who is refused has got Limit downloads not long ago: within a window, and the
\* block that followed it.  Asking again while blocked costs nothing.
RefusedForCause ==
    [][\A q \in Requests : StartBlock(q) \/ Refuse(q) =>
          LET a == request[q].address
              n == Len(granted[a])
          IN  n >= Limit /\ granted[a][n - Limit + 1] + Window + Block > request[q].time]_vars
=============================================================================
