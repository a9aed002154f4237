-------------------------- MODULE DownloadsProofs --------------------------
(***************************************************************************)
(* Theorems about Downloads, for any number of addresses and requests, any  *)
(* limit, window, block, wait and clock.                                    *)
(*                                                                         *)
(* RecentAreHits and HitsAreGranted tie the hits of a row to the downloads  *)
(* granted: a request that could count a download finds it in the row, and  *)
(* no hit counts for two.  A count of the one is then a count of the other, *)
(* which is the pigeonhole of NotAllHeld and ManyGranted.                   *)
(***************************************************************************)
EXTENDS Downloads, FiniteSetTheorems, TLAPS

\* The constants are numbers; a block lasts as long as the window, and so does a row.
LEMMA Parameters ==
    /\ Limit \in Nat /\ Window \in Nat /\ Block \in Nat /\ Keep \in Nat
    /\ Delay \in Nat /\ MaxTime \in Nat
    /\ Limit > 0 /\ Block >= Window /\ Keep >= Window
    /\ None \notin Row
BY DownloadsAssumption DEF DownloadsAssumption

USE Parameters

-----------------------------------------------------------------------------
(* The arithmetic of the window *)

\* A download asked for at h, still in the window of now, is in that of t.
LEMMA InWindow ==
    ASSUME NEW g \in Nat, NEW h \in Nat, NEW t \in Nat, NEW n \in Nat, t <= n,
           g <= h + Delay, g + Window > n + Delay
    PROVE  h + Window > t
OBVIOUS

\* A download granted before a block is in no window once the block is over.
LEMMA BlockOutlastsWindow ==
    ASSUME NEW g \in Nat, NEW b \in Nat, NEW t \in Nat, NEW n \in Nat, t <= n,
           g + Block <= b + Delay, b <= t
    PROVE  ~(g + Window > n + Delay)
OBVIOUS

\* A later download is longer in the window.
LEMMA LaterStays ==
    ASSUME NEW g \in Nat, NEW h \in Nat, NEW n \in Nat, g <= h, g + Window > n + Delay
    PROVE  h + Window > n + Delay
OBVIOUS

\* The indices of a sequence of one element more.
LEMMA OneMore ==
    ASSUME NEW n \in Nat, NEW i \in Nat
    PROVE  \A j \in i .. n + 1 : j \in i .. n \/ j = n + 1
OBVIOUS

LEMMA BothBefore ==
    ASSUME NEW n \in Nat, NEW i \in Nat, i > 0, i + Limit <= n + 1, i + Limit # n + 1
    PROVE  i \in 1 .. n /\ i + Limit \in 1 .. n /\ i + Limit <= n
OBVIOUS

\* The size of an interval of numbers.
LEMMA Between ==
    ASSUME NEW m \in Nat, NEW n \in Nat
    PROVE  /\ IsFiniteSet(m .. n) /\ Cardinality(m .. n) \in Nat
           /\ m <= n + 1 => Cardinality(m .. n) = n + 1 - m
<1>1. m \in Int /\ n \in Int
  OBVIOUS
<1>2. IsFiniteSet(m .. n) /\ Cardinality(m .. n) = IF m > n THEN 0 ELSE n - m + 1
  BY <1>1, FS_Interval
<1> QED BY <1>2

-----------------------------------------------------------------------------
(* What a request finds *)

\* The row that a request works on, and its hits, are well typed.
LEMMA Found ==
    ASSUME IInv, NEW a \in Addresses, NEW t \in Times
    PROVE  /\ Stored(a, t) \in Row
           /\ Recent(Stored(a, t), t) \subseteq Hit
           /\ IsFiniteSet(Recent(Stored(a, t), t))
           /\ Cardinality(Recent(Stored(a, t), t)) \in Nat
           /\ Cardinality(Recent(Stored(a, t), t)) <= Limit
           /\ \A h \in Recent(Stored(a, t), t) :
                 /\ rate[a] # None /\ h \in rate[a].hits
                 /\ rate[a].blocked = None
                 /\ h.time + Window > t
<1> DEFINE old == Stored(a, t)
           recent == Recent(old, t)
<1>1. CASE rate[a] = None
  <2>1. old = NewRow(t) /\ old.hits = {}
    BY <1>1 DEF Stored, NewRow
  <2>2. recent = {}
    BY <2>1 DEF Recent
  <2>3. old \in Row
    BY <2>1 DEF NewRow, Row
  <2> QED BY <2>2, <2>3, FS_EmptySet
<1>2. CASE rate[a] # None
  <2>1. old = rate[a] /\ rate[a] \in Row /\ IsFiniteSet(rate[a].hits)
        /\ Cardinality(rate[a].hits) <= Limit
    BY <1>2 DEF IInv, TypeOK, Stored
  <2>2. recent \in SUBSET rate[a].hits
    BY <2>1 DEF Recent
  <2>3. IsFiniteSet(recent) /\ Cardinality(recent) <= Cardinality(rate[a].hits)
        /\ Cardinality(recent) \in Nat /\ Cardinality(rate[a].hits) \in Nat
    BY <2>1, <2>2, FS_Subset, FS_CardinalityType
  <2>4. \A h \in recent : rate[a].blocked = None /\ h.time + Window > t
    BY <2>1 DEF Recent
  <2>5. rate[a].hits \subseteq Hit
    BY <2>1 DEF Row
  <2> HIDE DEF recent
  <2> QED BY <1>2, <2>1, <2>2, <2>3, <2>4, <2>5 DEF recent
<1> QED BY <1>1, <1>2

\* A request that is not blocked finds every download still in its window.
LEMMA Held ==
    ASSUME IInv, NEW a \in Addresses, NEW t \in Times, t <= now, now <= t + Delay,
           ~Blocked(Stored(a, t), t),
           NEW i \in 1 .. Len(granted[a]), granted[a][i] + Window > now + Delay
    PROVE  \E h \in Recent(Stored(a, t), t) : h.number = i
<1>1. PICK h \in rate[a].hits : rate[a] # None /\ h.number = i
  BY DEF IInv, RecentAreHits
<1>2. rate[a] \in Row /\ h \in Hit /\ Stored(a, t) = rate[a]
  BY <1>1 DEF IInv, TypeOK, Row, Stored
<1>3. granted[a][i] \in Nat /\ now \in Nat /\ t \in Nat /\ h.time \in Nat
  BY <1>2 DEF IInv, TypeOK, Times, Hit
<1>4. rate[a].blocked = None
  <2> SUFFICES ASSUME rate[a].blocked # None PROVE FALSE
    OBVIOUS
  <2>1. rate[a].blocked \in Nat
    BY <1>2 DEF Row
  <2>2. t >= rate[a].blocked
    BY <1>2, <2>1 DEF Blocked, Times
  <2>3. granted[a][i] + Block <= rate[a].blocked + Delay
    BY <1>1 DEF IInv, BlockedIsFull
  <2> QED BY <1>3, <2>1, <2>2, <2>3, BlockOutlastsWindow
<1>5. granted[a][i] <= h.time + Delay
  BY <1>1 DEF IInv, HitsAreGranted
<1>6. h.time + Window > t
  BY <1>3, <1>5, InWindow
<1>7. h \in Recent(Stored(a, t), t)
  BY <1>1, <1>2, <1>4, <1>6 DEF Recent
<1> QED BY <1>1, <1>7

\* If the row has room, the latest Limit downloads are not all in the window.
LEMMA NotAllHeld ==
    ASSUME IInv, NEW a \in Addresses, NEW t \in Times, t <= now, now <= t + Delay,
           ~Blocked(Stored(a, t), t), Cardinality(Recent(Stored(a, t), t)) < Limit,
           Limit <= Len(granted[a])
    PROVE  now + Delay >= granted[a][Len(granted[a]) + 1 - Limit] + Window
<1> DEFINE n == Len(granted[a])
           i == n + 1 - Limit
           recent == Recent(Stored(a, t), t)
<1>1. n \in Nat /\ i \in 1 .. n /\ n >= Limit
  BY DEF IInv, TypeOK
<1>2. now \in Nat /\ \A j \in 1 .. n : granted[a][j] \in Nat
  BY DEF IInv, TypeOK, Times
<1> SUFFICES ASSUME granted[a][i] + Window > now + Delay PROVE FALSE
  <2>1. granted[a][i] \in Nat
    BY <1>1, <1>2
  <2>2. \A g, m \in Nat : ~(g + Window > m + Delay) => m + Delay >= g + Window
    OBVIOUS
  <2> QED BY <1>2, <2>1, <2>2
<1>3. \A j \in i .. n : \E h \in recent : h.number = j
  <2> TAKE j \in i .. n
  <2>1. j \in 1 .. n /\ granted[a][i] <= granted[a][j]
    BY <1>1 DEF IInv, GrantedInOrder
  <2>2. granted[a][j] + Window > now + Delay
    <3>1. granted[a][i] \in Nat /\ granted[a][j] \in Nat
      BY <1>1, <1>2, <2>1
    <3> QED BY <1>2, <2>1, <3>1, LaterStays
  <2> QED BY <2>1, <2>2, Held
<1> DEFINE f == [j \in i .. n |-> CHOOSE h \in recent : h.number = j]
<1>4. \A j \in i .. n : f[j] \in recent /\ f[j].number = j
  BY <1>3
<1>5. f \in Injection(i .. n, recent)
  <2>1. f \in [i .. n -> recent]
    BY <1>4
  <2>2. \A j, k \in i .. n : f[j] = f[k] => j = k
    BY <1>4
  <2> QED BY <2>1, <2>2 DEF Injection, IsInjective
<1>6. IsFiniteSet(recent) /\ Cardinality(recent) \in Nat
  BY Found
<1>7. Cardinality(i .. n) <= Cardinality(recent)
  BY <1>5, <1>6, FS_Injection
<1>8. Cardinality(i .. n) = Limit
  <2>1. i \in Nat /\ i <= n + 1 /\ n + 1 - i = Limit
    BY <1>1
  <2> QED BY <1>1, <2>1, Between
<1> QED BY <1>6, <1>7, <1>8

\* As many hits as the limit, all after a moment: the latest Limit downloads
\* were granted after it.
LEMMA ManyGranted ==
    ASSUME IInv, NEW a \in Addresses, rate[a] # None,
           NEW S \in SUBSET rate[a].hits, Cardinality(S) >= Limit,
           NEW x \in Int, \A h \in S : h.time > x
    PROVE  /\ Len(granted[a]) >= Limit
           /\ granted[a][Len(granted[a]) - Limit + 1] > x
<1> DEFINE n == Len(granted[a])
           i == n - Limit + 1
           f == [h \in S |-> h.number]
<1>1. n \in Nat /\ \A j \in 1 .. n : granted[a][j] \in Nat
  BY DEF IInv, TypeOK, Times
<1>2. IsFiniteSet(S) /\ Cardinality(S) \in Nat
  BY FS_Subset, FS_CardinalityType DEF IInv, TypeOK
<1>3. \A h \in S : /\ h \in Hit /\ h.number \in 1 .. n
                   /\ granted[a][h.number] > x
                   /\ \A g \in S : g.number = h.number => g = h
  <2> TAKE h \in S
  <2>1. h \in Hit
    BY DEF IInv, TypeOK, Row
  <2>2. h.number \in 1 .. n /\ h.time <= granted[a][h.number]
        /\ \A g \in S : g.number = h.number => g = h
    BY DEF IInv, HitsAreGranted
  <2> QED BY <1>1, <2>1, <2>2 DEF Hit, Times
<1>4. ASSUME NEW m \in Nat, f \in [S -> m .. n]
      PROVE  Cardinality(m .. n) >= Limit
  <2>1. f \in Injection(S, m .. n)
    BY <1>3, <1>4 DEF Injection, IsInjective
  <2>2. IsFiniteSet(m .. n) /\ Cardinality(m .. n) \in Nat
    BY <1>1, Between
  <2>3. Cardinality(S) <= Cardinality(m .. n)
    BY <2>1, <2>2, FS_Injection
  <2> QED BY <1>2, <2>2, <2>3
<1>5. n >= Limit
  <2>1. f \in [S -> 1 .. n]
    BY <1>3
  <2>2. 1 <= n + 1 /\ n + 1 - 1 = n
    BY <1>1
  <2>3. Cardinality(1 .. n) = n
    BY <1>1, <2>2, Between
  <2> QED BY <1>4, <2>1, <2>3
<1>6. granted[a][i] > x
  <2> SUFFICES ASSUME granted[a][i] <= x PROVE FALSE
    BY <1>1, <1>5
  <2>1. i \in 1 .. n
    BY <1>1, <1>5
  <2>2. ASSUME NEW h \in S PROVE h.number \in i + 1 .. n
    <3> SUFFICES ASSUME h.number <= i PROVE FALSE
      BY <1>1, <1>3, <2>1
    <3>1. h.number \in 1 .. n /\ i \in h.number .. n
      BY <1>3, <2>1
    <3>2. granted[a][h.number] <= granted[a][i]
      BY <3>1 DEF IInv, GrantedInOrder
    <3> QED BY <1>1, <1>3, <2>1, <3>1, <3>2
  <2>3. f \in [S -> i + 1 .. n]
    BY <2>2
  <2>4. Cardinality(i + 1 .. n) >= Limit
    BY <1>4, <2>1, <2>3
  <2>5. i + 1 \in Nat /\ i + 1 <= n + 1 /\ n + 1 - (i + 1) = Limit - 1
    BY <1>1, <2>1
  <2>6. Cardinality(i + 1 .. n) = Limit - 1
    BY <1>1, <2>5, Between
  <2> QED BY <2>4, <2>6
<1> QED BY <1>5, <1>6
-----------------------------------------------------------------------------
(* What a step leaves of the invariant *)

\* A request was asked for between Delay ago and now.
LEMMA Asked ==
    ASSUME IInv, NEW q \in Requests, request[q] # None
    PROVE  /\ request[q].address \in Addresses /\ request[q].time \in Times
           /\ request[q].time \in Nat /\ now \in Nat /\ now \in Times
           /\ request[q].time <= now /\ now <= request[q].time + Delay
<1>1. request[q] \in [address: Addresses, time: Times]
  BY DEF IInv, TypeOK
<1>2. request[q].address \in Addresses /\ request[q].time \in Times
  BY <1>1
<1> QED BY <1>2 DEF IInv, TypeOK, AskedInTime, Times

\* Once decided, a request is gone, and the others wait as before.
LEMMA Answered ==
    ASSUME IInv, NEW q \in Requests, now' = now, request' = [request EXCEPT ![q] = None]
    PROVE  /\ request' \in [Requests -> [address: Addresses, time: Times] \cup {None}]
           /\ AskedInTime'
           /\ now' \in Times
<1>1. request \in [Requests -> [address: Addresses, time: Times] \cup {None}] /\ now \in Times
  BY DEF IInv, TypeOK
<1>2. \A p \in Requests : request'[p] # None => request'[p] = request[p]
  BY <1>1
<1>3. AskedInTime'
  BY <1>2 DEF IInv, AskedInTime
<1> QED BY <1>1, <1>3

\* A step that leaves rows, downloads and the clock alone.
LEMMA RowsStay ==
    ASSUME IInv, UNCHANGED <<now, rate, granted>>
    PROVE  /\ GrantedInOrder' /\ HitsAreGranted' /\ RecentAreHits'
           /\ BlockedIsFull' /\ UpdatedSince' /\ RateKept'
BY DEF IInv, GrantedInOrder, HitsAreGranted, RecentAreHits, BlockedIsFull, UpdatedSince, RateKept

LEMMA AskInv ==
    ASSUME IInv, NEW q \in Requests, NEW a \in Addresses, Ask(q, a)
    PROVE  IInv'
<1> DEFINE r == [address |-> a, time |-> now]
<1>1. r.time = now /\ r \in [address: Addresses, time: Times] /\ now \in Nat
  BY DEF IInv, TypeOK, Times
<1>2. request' = [request EXCEPT ![q] = r] /\ UNCHANGED <<now, rate, granted>>
  BY DEF Ask
<1> HIDE DEF r
<1>3. TypeOK'
  BY <1>1, <1>2 DEF IInv, TypeOK
<1>4. AskedInTime'
  <2> SUFFICES ASSUME NEW p \in Requests, request'[p] # None
               PROVE  request'[p].time <= now /\ now <= request'[p].time + Delay
    BY <1>2 DEF AskedInTime
  <2>1. CASE p = q
    BY <2>1, <1>1, <1>2 DEF IInv, TypeOK
  <2>2. CASE p # q
    <3>1. request'[p] = request[p]
      BY <2>2, <1>2 DEF IInv, TypeOK
    <3> QED BY <3>1 DEF IInv, AskedInTime
  <2> QED BY <2>1, <2>2
<1> QED BY <1>2, <1>3, <1>4, RowsStay DEF IInv

LEMMA RefuseInv ==
    ASSUME IInv, NEW q \in Requests, Refuse(q)
    PROVE  IInv'
<1> DEFINE a == request[q].address
           t == request[q].time
<1>1. rate[a] # None
  <2> SUFFICES ASSUME rate[a] = None PROVE FALSE
    OBVIOUS
  <2> QED BY DEF Refuse, Stored, NewRow, Blocked
<1>2. rate' = [rate EXCEPT ![a] = rate[a]]
  BY <1>1 DEF Refuse, Decided, Stored
<1>3. rate' = rate
  BY <1>2 DEF IInv, TypeOK
<1>4. now' = now /\ granted' = granted /\ request' = [request EXCEPT ![q] = None]
  BY DEF Refuse, Decided
<1>5. TypeOK' /\ AskedInTime'
  BY <1>3, <1>4, Answered DEF IInv, TypeOK
<1> QED BY <1>3, <1>4, <1>5, RowsStay DEF IInv

LEMMA DropInv ==
    ASSUME IInv, NEW q \in Requests, Drop(q)
    PROVE  IInv'
<1>1. UNCHANGED <<now, rate, granted>> /\ request' = [request EXCEPT ![q] = None]
  BY DEF Drop
<1>2. TypeOK' /\ AskedInTime'
  BY <1>1, Answered DEF IInv, TypeOK
<1> QED BY <1>1, <1>2, RowsStay DEF IInv

LEMMA TickInv ==
    ASSUME IInv, Tick
    PROVE  IInv'
<1>1. now \in Nat /\ now' = now + 1 /\ now' \in Times /\ UNCHANGED <<rate, request, granted>>
  BY DEF Tick, IInv, TypeOK, Times
<1>2. TypeOK'
  BY <1>1 DEF IInv, TypeOK
<1>3. AskedInTime'
  <2> SUFFICES ASSUME NEW q \in Requests, request[q] # None
               PROVE  request[q].time <= now + 1 /\ now + 1 <= request[q].time + Delay
    BY <1>1 DEF AskedInTime
  <2>1. now < request[q].time + Delay
    BY DEF Tick
  <2> QED BY <1>1, <2>1, Asked
<1>4. \A a \in Addresses : \A i \in 1 .. Len(granted[a]) : granted[a][i] \in Nat
  BY DEF IInv, TypeOK, Times
<1>5. GrantedInOrder'
  <2> SUFFICES ASSUME NEW a \in Addresses, NEW i \in 1 .. Len(granted[a])
               PROVE  granted[a][i] <= now + 1
    BY <1>1 DEF IInv, GrantedInOrder
  <2>1. granted[a][i] \in Nat /\ granted[a][i] <= now
    BY <1>4 DEF IInv, GrantedInOrder
  <2> QED BY <1>1, <2>1
<1>6. RecentAreHits'
  <2> SUFFICES ASSUME NEW a \in Addresses, NEW i \in 1 .. Len(granted[a]),
                      granted[a][i] + Window > (now + 1) + Delay
               PROVE  granted[a][i] + Window > now + Delay
    BY <1>1 DEF IInv, RecentAreHits
  <2>1. granted[a][i] \in Nat
    BY <1>4
  <2>2. \A g \in Nat : g + Window > (now + 1) + Delay => g + Window > now + Delay
    BY <1>1
  <2> QED BY <2>1, <2>2
<1>7. HitsAreGranted' /\ BlockedIsFull' /\ UpdatedSince' /\ RateKept'
  BY <1>1 DEF IInv, HitsAreGranted, BlockedIsFull, UpdatedSince, RateKept
<1> QED BY <1>2, <1>3, <1>5, <1>6, <1>7 DEF IInv

\* A row that is cleaned up has no hit that a request could count.
LEMMA CleanupInv ==
    ASSUME IInv, Cleanup
    PROVE  IInv'
<1>1. UNCHANGED <<now, request, granted>>
  BY DEF Cleanup
<1>2. \A a \in Addresses : rate'[a] = IF Obsolete(rate[a]) THEN None ELSE rate[a]
  BY DEF Cleanup
<1>3. \A a \in Addresses : rate'[a] # None => rate'[a] = rate[a]
  BY <1>2
<1>4. TypeOK'
  <2>1. rate' \in [Addresses -> Row \cup {None}]
    BY DEF Cleanup, IInv, TypeOK
  <2> QED BY <1>1, <1>3, <2>1 DEF IInv, TypeOK
<1>5. AskedInTime' /\ GrantedInOrder' /\ RateKept'
  BY <1>1 DEF IInv, AskedInTime, GrantedInOrder, RateKept
<1>6. HitsAreGranted' /\ BlockedIsFull' /\ UpdatedSince'
  BY <1>1, <1>3 DEF IInv, HitsAreGranted, BlockedIsFull, UpdatedSince
<1>7. RecentAreHits'
  <2> SUFFICES ASSUME NEW a \in Addresses, NEW i \in 1 .. Len(granted[a]),
                      granted[a][i] + Window > now + Delay
               PROVE  rate'[a] # None /\ \E h \in rate'[a].hits : h.number = i
    BY <1>1 DEF RecentAreHits
  <2>1. rate[a] # None /\ \E h \in rate[a].hits : h.number = i
    BY DEF IInv, RecentAreHits
  <2>2. ~Obsolete(rate[a])
    <3> SUFFICES ASSUME Obsolete(rate[a]) PROVE FALSE
      OBVIOUS
    <3>1. rate[a].updated \in Nat /\ now \in Nat /\ granted[a][i] \in Nat
      BY <2>1 DEF IInv, TypeOK, Row, Times
    <3>2. rate[a].updated + Keep < now /\ granted[a][i] <= rate[a].updated + Delay
      BY <2>1 DEF Obsolete, IInv, UpdatedSince
    <3>3. \A g, u, n \in Nat : u + Keep < n /\ g <= u + Delay => ~(g + Window > n + Delay)
      OBVIOUS
    <3> QED BY <3>1, <3>2, <3>3
  <2> QED BY <1>2, <2>1, <2>2
<1> QED BY <1>4, <1>5, <1>6, <1>7 DEF IInv
LEMMA GrantInv ==
    ASSUME IInv, NEW q \in Requests, Grant(q)
    PROVE  IInv'
<1> DEFINE a == request[q].address
           t == request[q].time
           old == Stored(a, t)
           recent == Recent(old, t)
           hit == NextHit(a, t)
           new == [hits |-> recent \cup {hit}, blocked |-> None, updated |-> t]
           n == Len(granted[a])
<1>1. /\ a \in Addresses /\ t \in Times /\ t \in Nat /\ now \in Nat /\ now \in Times
      /\ t <= now /\ now <= t + Delay
  BY Asked DEF Grant
<1>2. /\ ~Blocked(old, t) /\ Cardinality(recent) < Limit
      /\ rate' = [rate EXCEPT ![a] = new]
      /\ request' = [request EXCEPT ![q] = None]
      /\ now' = now
      /\ granted' = [granted EXCEPT ![a] = Append(granted[a], now)]
  BY DEF Grant, Decided
<1>3. /\ recent \subseteq Hit /\ IsFiniteSet(recent) /\ Cardinality(recent) \in Nat
      /\ \A h \in recent : rate[a] # None /\ h \in rate[a].hits
  BY <1>1, Found
<1>4. n \in Nat /\ granted[a] \in Seq(Times) /\ granted \in [Addresses -> Seq(Times)]
  BY <1>1 DEF IInv, TypeOK
<1>5. hit \in Hit /\ hit.number = n + 1 /\ hit.time = t
  BY <1>1, <1>4 DEF NextHit, Hit
<1>6. /\ rate'[a] = new /\ new # None
      /\ new.hits = recent \cup {hit} /\ new.blocked = None /\ new.updated = t
      /\ \A b \in Addresses : b # a => rate'[b] = rate[b]
  <2>1. rate \in [Addresses -> Row \cup {None}]
    BY DEF IInv, TypeOK
  <2>2. new \in Row
    BY <1>1, <1>3, <1>5 DEF Row
  <2> QED BY <1>1, <1>2, <2>1, <2>2
<1>7. /\ Len(granted'[a]) = n + 1
      /\ granted'[a][n + 1] = now
      /\ \A j \in 1 .. n : granted'[a][j] = granted[a][j]
      /\ \A b \in Addresses : b # a => granted'[b] = granted[b]
      /\ granted' \in [Addresses -> Seq(Times)]
  BY <1>1, <1>2, <1>4
<1>8. \A j \in 1 .. n : granted[a][j] \in Nat /\ granted[a][j] <= now
  BY <1>1, <1>4 DEF IInv, GrantedInOrder, Times
<1> HIDE DEF hit, new, old, recent
<1>9. TypeOK' /\ AskedInTime'
  <2>1. new \in Row
    BY <1>1, <1>3, <1>5 DEF new, Row
  <2>2. rate' \in [Addresses -> Row \cup {None}]
    BY <1>2, <2>1 DEF IInv, TypeOK
  <2>3. IsFiniteSet(new.hits) /\ Cardinality(new.hits) <= Limit
    <3>1. /\ IsFiniteSet(recent \cup {hit})
          /\ Cardinality(recent \cup {hit}) = IF hit \in recent THEN Cardinality(recent)
                                             ELSE Cardinality(recent) + 1
      BY <1>3, FS_AddElement
    <3> QED BY <1>2, <1>3, <1>6, <3>1
  <2>4. \A b \in Addresses : rate'[b] # None =>
            IsFiniteSet(rate'[b].hits) /\ Cardinality(rate'[b].hits) <= Limit
    BY <1>6, <2>3 DEF IInv, TypeOK
  <2> QED BY <1>2, <1>7, <2>2, <2>4, Answered DEF TypeOK
<1>10. GrantedInOrder'
  <2> SUFFICES ASSUME NEW b \in Addresses, NEW i \in 1 .. Len(granted'[b])
               PROVE  /\ granted'[b][i] <= now
                      /\ \A j \in i .. Len(granted'[b]) : granted'[b][i] <= granted'[b][j]
    BY <1>2 DEF GrantedInOrder
  <2>1. CASE b # a
    BY <1>7, <2>1 DEF IInv, GrantedInOrder
  <2>2. CASE b = a /\ i = n + 1
    BY <1>1, <1>4, <1>7, <2>2
  <2>3. CASE b = a /\ i \in 1 .. n
    <3>1. \A j \in i .. n : granted[a][i] <= granted[a][j]
      BY <2>3 DEF IInv, GrantedInOrder
    <3>2. \A j \in i .. n : granted'[a][j] = granted[a][j]
      BY <1>7, <2>3, <1>4
    <3>3. granted'[a][i] = granted[a][i] /\ granted[a][i] <= now
      BY <1>7, <1>8, <2>3
    <3>4. \A j \in i .. n + 1 : j \in i .. n \/ j = n + 1
      <4>1. n \in Nat /\ i \in Nat
        BY <1>4, <2>3
      <4> QED BY <4>1, OneMore
    <3> QED BY <1>7, <2>3, <3>1, <3>2, <3>3, <3>4
  <2> QED BY <1>4, <1>7, <2>1, <2>2, <2>3
<1>11. HitsAreGranted'
  <2>1. \A h \in recent :
           /\ h.number \in 1 .. n /\ h.number # n + 1
           /\ h.time <= granted'[a][h.number] /\ granted'[a][h.number] <= h.time + Delay
           /\ \A g \in recent : g.number = h.number => g = h
    <3> SUFFICES ASSUME NEW h \in recent
                 PROVE  /\ h.number \in 1 .. n /\ h.number # n + 1
                        /\ h.time <= granted'[a][h.number]
                        /\ granted'[a][h.number] <= h.time + Delay
                        /\ \A g \in recent : g.number = h.number => g = h
      OBVIOUS
    <3>1. rate[a] # None /\ h \in rate[a].hits /\ \A g \in recent : g \in rate[a].hits
      BY <1>3
    <3>2. /\ h.number \in 1 .. n
          /\ h.time <= granted[a][h.number] /\ granted[a][h.number] <= h.time + Delay
          /\ \A g \in recent : g.number = h.number => g = h
      BY <1>1, <3>1 DEF IInv, HitsAreGranted
    <3>3. h.number # n + 1
      BY <1>4, <3>2
    <3> QED BY <1>7, <3>2, <3>3
  <2>2. hit.time <= granted'[a][n + 1] /\ granted'[a][n + 1] <= hit.time + Delay
    BY <1>1, <1>5, <1>7
  <2>3. 1 .. n \subseteq 1 .. n + 1 /\ n + 1 \in 1 .. n + 1
    BY <1>4
  <2>4. \A h \in recent \cup {hit} :
           /\ h.number \in 1 .. Len(granted'[a])
           /\ h.time <= granted'[a][h.number] /\ granted'[a][h.number] <= h.time + Delay
           /\ \A g \in recent \cup {hit} : g.number = h.number => g = h
    BY <1>5, <1>7, <2>1, <2>2, <2>3
  <2> SUFFICES ASSUME NEW b \in Addresses, b # a, rate'[b] # None
               PROVE  \A h \in rate'[b].hits :
                         /\ h.number \in 1 .. Len(granted'[b])
                         /\ h.time <= granted'[b][h.number]
                         /\ granted'[b][h.number] <= h.time + Delay
                         /\ \A g \in rate'[b].hits : g.number = h.number => g = h
    BY <1>6, <2>4 DEF HitsAreGranted
  <2> QED BY <1>6, <1>7 DEF IInv, HitsAreGranted
<1>12. RecentAreHits'
  <2> SUFFICES ASSUME NEW b \in Addresses, NEW i \in 1 .. Len(granted'[b]),
                      granted'[b][i] + Window > now + Delay
               PROVE  rate'[b] # None /\ \E h \in rate'[b].hits : h.number = i
    BY <1>2 DEF RecentAreHits
  <2>1. CASE b # a
    BY <1>6, <1>7, <2>1 DEF IInv, RecentAreHits
  <2>2. CASE b = a /\ i = n + 1
    BY <1>5, <1>6, <2>2
  <2>3. CASE b = a /\ i \in 1 .. n
    <3>0. granted'[a][i] = granted[a][i]
      BY <1>7, <2>3
    <3>1. granted[a][i] + Window > now + Delay
      BY <2>3, <3>0
    <3>2. \E h \in recent : h.number = i
      BY <1>1, <1>2, <2>3, <3>1, Held DEF old, recent
    <3> QED BY <1>6, <2>3, <3>2
  <2> QED BY <1>4, <1>7, <2>1, <2>2, <2>3
<1>13. BlockedIsFull'
  BY <1>6, <1>7 DEF IInv, BlockedIsFull
<1>14. UpdatedSince'
  <2> SUFFICES ASSUME NEW b \in Addresses, rate'[b] # None, NEW i \in 1 .. Len(granted'[b])
               PROVE  granted'[b][i] <= rate'[b].updated + Delay
    BY DEF UpdatedSince
  <2>1. CASE b # a
    BY <1>6, <1>7, <2>1 DEF IInv, UpdatedSince
  <2>2. CASE b = a /\ i = n + 1
    BY <1>1, <1>6, <1>7, <2>2
  <2>3. CASE b = a /\ i \in 1 .. n
    <3>1. granted'[a][i] \in Nat /\ granted'[a][i] <= now
      BY <1>7, <1>8, <2>3
    <3>2. \A g \in Nat : g <= now => g <= t + Delay
      BY <1>1
    <3> QED BY <1>6, <2>3, <3>1, <3>2
  <2> QED BY <1>4, <1>7, <2>1, <2>2, <2>3
<1>15. RateKept'
  <2> SUFFICES ASSUME NEW b \in Addresses, NEW i \in 1 .. Len(granted'[b]),
                      i + Limit <= Len(granted'[b])
               PROVE  granted'[b][i + Limit] + Delay >= granted'[b][i] + Window
    BY DEF RateKept
  <2>1. CASE b # a
    BY <1>7, <2>1 DEF IInv, RateKept
  <2>2. CASE b = a /\ i + Limit = n + 1
    <3>1. i = n + 1 - Limit /\ Limit <= n /\ i \in 1 .. n
      BY <1>4, <1>7, <2>2
    <3>2. now + Delay >= granted[a][i] + Window
      BY <1>1, <1>2, <3>1, NotAllHeld DEF old, recent
    <3> QED BY <1>7, <2>2, <3>1, <3>2
  <2>3. CASE b = a /\ i + Limit # n + 1
    <3>0. i \in Nat /\ i > 0 /\ i + Limit <= n + 1 /\ i + Limit # n + 1
      BY <1>4, <1>7, <2>3
    <3>1. i \in 1 .. n /\ i + Limit \in 1 .. n /\ i + Limit <= n
      BY <1>4, <3>0, BothBefore
    <3>2. granted[a][i + Limit] + Delay >= granted[a][i] + Window
      BY <1>1, <3>1 DEF IInv, RateKept
    <3> QED BY <1>7, <2>3, <3>1, <3>2
  <2> QED BY <2>1, <2>2, <2>3
<1> QED BY <1>9, <1>10, <1>11, <1>12, <1>13, <1>14, <1>15 DEF IInv

LEMMA StartBlockInv ==
    ASSUME IInv, NEW q \in Requests, StartBlock(q)
    PROVE  IInv'
<1> DEFINE a == request[q].address
           t == request[q].time
           old == Stored(a, t)
           recent == Recent(old, t)
           new == [hits |-> recent, blocked |-> t + Block, updated |-> t]
           n == Len(granted[a])
<1>1. /\ a \in Addresses /\ t \in Times /\ t \in Nat /\ now \in Nat /\ now \in Times
      /\ t <= now /\ now <= t + Delay
  BY Asked DEF StartBlock
<1>2. /\ ~Blocked(old, t) /\ Cardinality(recent) >= Limit
      /\ rate' = [rate EXCEPT ![a] = new]
      /\ request' = [request EXCEPT ![q] = None]
      /\ now' = now /\ granted' = granted
  BY DEF StartBlock, Decided
<1>3. /\ recent \subseteq Hit /\ IsFiniteSet(recent) /\ Cardinality(recent) \in Nat
      /\ Cardinality(recent) <= Limit
      /\ \A h \in recent : rate[a] # None /\ h \in rate[a].hits /\ h.time + Window > t
  BY <1>1, Found
<1>4. \A i \in 1 .. n : granted[a][i] \in Nat /\ granted[a][i] <= now
  <2>1. granted[a] \in Seq(Times)
    BY <1>1 DEF IInv, TypeOK
  <2> QED BY <1>1, <2>1 DEF IInv, GrantedInOrder, Times
<1>5. /\ rate'[a] = new
      /\ new.hits = recent /\ new.blocked = t + Block /\ new.updated = t
      /\ \A b \in Addresses : b # a => rate'[b] = rate[b]
  BY <1>1, <1>2 DEF IInv, TypeOK
<1> HIDE DEF new, old, recent
<1>6. TypeOK' /\ AskedInTime' /\ new # None
  <2>1. t + Block \in 0 .. MaxTime + Block
    BY <1>1 DEF Times
  <2>2. new \in Row
    BY <1>1, <1>3, <2>1 DEF new, Row
  <2>3. rate' \in [Addresses -> Row \cup {None}]
    BY <1>2, <2>2 DEF IInv, TypeOK
  <2>4. \A b \in Addresses : rate'[b] # None =>
            IsFiniteSet(rate'[b].hits) /\ Cardinality(rate'[b].hits) <= Limit
    BY <1>3, <1>5 DEF IInv, TypeOK
  <2>5. granted' \in [Addresses -> Seq(Times)]
    BY <1>2 DEF IInv, TypeOK
  <2>6. TypeOK' /\ AskedInTime'
    BY <1>2, <2>3, <2>4, <2>5, Answered DEF TypeOK
  <2> QED BY <2>2, <2>6
<1>7. GrantedInOrder' /\ RateKept'
  BY <1>2 DEF IInv, GrantedInOrder, RateKept
<1>8. HitsAreGranted'
  <2>1. \A b \in Addresses : rate'[b] # None =>
            \A h \in rate'[b].hits : rate[b] # None /\ h \in rate[b].hits
    BY <1>3, <1>5
  <2> QED BY <1>2, <2>1 DEF IInv, HitsAreGranted
<1>9. RecentAreHits'
  <2> SUFFICES ASSUME NEW b \in Addresses, NEW i \in 1 .. Len(granted[b]),
                      granted[b][i] + Window > now + Delay
               PROVE  rate'[b] # None /\ \E h \in rate'[b].hits : h.number = i
    BY <1>2 DEF RecentAreHits
  <2>1. CASE b # a
    BY <1>5, <2>1 DEF IInv, RecentAreHits
  <2>2. CASE b = a
    <3>0. i \in 1 .. Len(granted[a]) /\ granted[a][i] + Window > now + Delay
      BY <2>2
    <3>1. \E h \in recent : h.number = i
      BY <1>1, <1>2, <3>0, Held DEF old, recent
    <3>2. rate \in [Addresses -> Row \cup {None}] /\ rate[a] # None
      BY <1>3, <3>1 DEF IInv, TypeOK
    <3>3. new # None
      BY <1>6
    <3> QED BY <1>5, <2>2, <3>1, <3>3
  <2> QED BY <2>1, <2>2
<1>10. BlockedIsFull'
  <2>1. \A h \in recent : h.time + Window + Block > t + Block
    <3> SUFFICES ASSUME NEW h \in recent PROVE h.time + Window + Block > t + Block
      OBVIOUS
    <3>1. h.time \in Nat /\ h.time + Window > t
      BY <1>3 DEF Hit, Times
    <3>2. \A x \in Nat : x + Window > t => x + Window + Block > t + Block
      BY <1>1
    <3> QED BY <3>1, <3>2
  <2>2. \A i \in 1 .. n : granted[a][i] + Block <= (t + Block) + Delay
    <3> SUFFICES ASSUME NEW i \in 1 .. n PROVE granted[a][i] + Block <= (t + Block) + Delay
      OBVIOUS
    <3>1. granted[a][i] \in Nat /\ granted[a][i] <= now
      BY <1>4
    <3>2. \A g \in Nat : g <= now => g + Block <= (t + Block) + Delay
      BY <1>1
    <3> QED BY <3>1, <3>2
  <2> QED BY <1>2, <1>5, <2>1, <2>2 DEF IInv, BlockedIsFull
<1>11. UpdatedSince'
  <2>1. \A i \in 1 .. n : granted[a][i] <= t + Delay
    <3> SUFFICES ASSUME NEW i \in 1 .. n PROVE granted[a][i] <= t + Delay
      OBVIOUS
    <3>1. granted[a][i] \in Nat /\ granted[a][i] <= now
      BY <1>4
    <3>2. \A g \in Nat : g <= now => g <= t + Delay
      BY <1>1
    <3> QED BY <3>1, <3>2
  <2> QED BY <1>2, <1>5, <2>1 DEF IInv, UpdatedSince
<1> QED BY <1>6, <1>7, <1>8, <1>9, <1>10, <1>11 DEF IInv

-----------------------------------------------------------------------------
(* Who is refused *)

\* Hits in the window of t, and downloads after it.
LEMMA Cause ==
    ASSUME IInv, NEW a \in Addresses, rate[a] # None, NEW S \in SUBSET rate[a].hits,
           Cardinality(S) >= Limit, NEW x \in Nat,
           \A h \in S : h.time + Window + Block > x
    PROVE  /\ Len(granted[a]) >= Limit
           /\ granted[a][Len(granted[a]) - Limit + 1] + Window + Block > x
<1> DEFINE y == x - Window - Block
           g == granted[a][Len(granted[a]) - Limit + 1]
<1>1. y \in Int /\ \A z \in Nat : z + Window + Block > x <=> z > y
  OBVIOUS
<1>2. \A h \in S : h.time \in Nat
  BY DEF IInv, TypeOK, Row, Hit, Times
<1>3. \A h \in S : h.time > y
  BY <1>1, <1>2
<1> HIDE DEF y
<1>4. Len(granted[a]) >= Limit /\ g > y
  BY <1>1, <1>3, ManyGranted
<1>5. granted[a] \in Seq(Times)
  BY DEF IInv, TypeOK
<1>6. g \in Nat
  <2>1. Len(granted[a]) - Limit + 1 \in 1 .. Len(granted[a])
    BY <1>4, <1>5
  <2> QED BY <1>5, <2>1 DEF Times
<1> HIDE DEF g
<1>7. g + Window + Block > x
  BY <1>1, <1>4, <1>6
<1> QED BY <1>4, <1>7 DEF g

LEMMA StartBlockCause ==
    ASSUME IInv, NEW q \in Requests, StartBlock(q)
    PROVE  LET a == request[q].address
               n == Len(granted[a])
           IN  n >= Limit /\ granted[a][n - Limit + 1] + Window + Block > request[q].time
<1> DEFINE a == request[q].address
           t == request[q].time
           recent == Recent(Stored(a, t), t)
<1>1. a \in Addresses /\ t \in Times /\ t \in Nat
  BY Asked DEF StartBlock
<1>2. Cardinality(recent) >= Limit
  BY DEF StartBlock
<1>3. /\ recent \subseteq Hit /\ IsFiniteSet(recent)
      /\ \A h \in recent : rate[a] # None /\ h \in rate[a].hits /\ h.time + Window > t
  BY <1>1, Found
<1> HIDE DEF recent
<1>4. rate[a] # None /\ recent \in SUBSET rate[a].hits
  <2>1. recent # {}
    BY <1>2, FS_EmptySet
  <2> QED BY <1>3, <2>1
<1>5. \A h \in recent : h.time + Window + Block > t
  <2> SUFFICES ASSUME NEW h \in recent PROVE h.time + Window + Block > t
    OBVIOUS
  <2>1. h.time \in Nat /\ h.time + Window > t
    BY <1>3 DEF Hit, Times
  <2>2. \A x \in Nat : x + Window > t => x + Window + Block > t
    BY <1>1
  <2> QED BY <2>1, <2>2
<1> QED BY <1>1, <1>2, <1>4, <1>5, Cause

LEMMA RefuseCause ==
    ASSUME IInv, NEW q \in Requests, Refuse(q)
    PROVE  LET a == request[q].address
               n == Len(granted[a])
           IN  n >= Limit /\ granted[a][n - Limit + 1] + Window + Block > request[q].time
<1> DEFINE a == request[q].address
           t == request[q].time
<1>1. a \in Addresses /\ t \in Nat
  BY Asked DEF Refuse
<1>2. rate[a] # None /\ rate[a].blocked # None /\ t < rate[a].blocked
  <2>1. Blocked(Stored(a, t), t)
    BY DEF Refuse
  <2>2. ~Blocked(NewRow(t), t)
    BY DEF Blocked, NewRow
  <2> QED BY <2>1, <2>2 DEF Stored, Blocked
<1>3. /\ rate[a].blocked \in Nat
      /\ Cardinality(rate[a].hits) >= Limit
      /\ \A h \in rate[a].hits : h.time \in Nat /\ h.time + Window + Block > rate[a].blocked
  BY <1>1, <1>2 DEF IInv, TypeOK, Row, Hit, Times, BlockedIsFull
<1>4. \A h \in rate[a].hits : h.time + Window + Block > t
  <2>1. \A x \in Nat : x + Window + Block > rate[a].blocked => x + Window + Block > t
    BY <1>1, <1>2, <1>3
  <2> QED BY <1>3, <2>1
<1> QED BY <1>1, <1>2, <1>3, <1>4, Cause

-----------------------------------------------------------------------------
(* The theorems *)

LEMMA InitInv == Init => IInv
<1> SUFFICES ASSUME Init PROVE IInv
  OBVIOUS
<1>1. \A a \in Addresses : granted[a] = <<>> /\ rate[a] = None
  BY DEF Init
<1>2. TypeOK
  BY DEF Init, TypeOK, Times
<1>3. Len(<<>>) = 0 /\ \A i \in 1 .. 0 : FALSE
  OBVIOUS
<1> QED BY <1>1, <1>2, <1>3 DEF Init, IInv, AskedInTime, GrantedInOrder, HitsAreGranted,
                               RecentAreHits, BlockedIsFull, UpdatedSince, RateKept

LEMMA NextInv ==
    ASSUME IInv, [Next]_vars
    PROVE  IInv'
<1>1. CASE UNCHANGED vars
  BY <1>1, RowsStay DEF vars, IInv, TypeOK, AskedInTime
<1>2. CASE \E q \in Requests, a \in Addresses : Ask(q, a)
  BY <1>2, AskInv
<1>3. CASE \E q \in Requests : Grant(q)
  BY <1>3, GrantInv
<1>4. CASE \E q \in Requests : StartBlock(q)
  BY <1>4, StartBlockInv
<1>5. CASE \E q \in Requests : Refuse(q)
  BY <1>5, RefuseInv
<1>6. CASE \E q \in Requests : Drop(q)
  BY <1>6, DropInv
<1>7. CASE Cleanup
  BY <1>7, CleanupInv
<1>8. CASE Tick
  BY <1>8, TickInv
<1> QED BY <1>1, <1>2, <1>3, <1>4, <1>5, <1>6, <1>7, <1>8 DEF Next

\* The inductive invariant holds of every reachable state.
THEOREM Invariance == Spec => []IInv
BY InitInv, NextInv, PTL DEF Spec

\* The variables are well typed, and no row holds more hits than the limit.
THEOREM TypeCorrect == Spec => []TypeOK
<1>1. IInv => TypeOK
  BY DEF IInv
<1> QED BY <1>1, Invariance, PTL

\* check_download_rate grants an address no more than the limit within the
\* window less the wait, however requests overtake each other, whatever blocks
\* end and rows are cleaned up in between.
THEOREM LimitKept == Spec => []RateKept
<1>1. IInv => RateKept
  BY DEF IInv
<1> QED BY <1>1, Invariance, PTL

\* Whoever is refused has been granted the limit within a window and a block
\* before: neither a request out of turn nor one during a block is held
\* against an address.
THEOREM RefusedRightly == Spec => RefusedForCause
<1> DEFINE Caused(q) ==
               LET a == request[q].address
                   n == Len(granted[a])
               IN  n >= Limit /\ granted[a][n - Limit + 1] + Window + Block > request[q].time
           Step == \A q \in Requests : StartBlock(q) \/ Refuse(q) => Caused(q)
<1>1. IInv => Step
  BY StartBlockCause, RefuseCause
<1> HIDE DEF Step
<1>2. Spec => [][Step]_vars
  BY <1>1, Invariance, PTL DEF Spec
<1> QED BY <1>2 DEF RefusedForCause, Step

=============================================================================
