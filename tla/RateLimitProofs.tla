--------------------------- MODULE RateLimitProofs ---------------------------
(***************************************************************************)
(* Proofs about the rate limits, for any windows, limits and number of      *)
(* requests in flight.                                                     *)
(***************************************************************************)
EXTENDS RateLimit, FiniteSetTheorems, TLAPS

\* A request on its way is at a stage of its chain; one whose pipeline is on its
\* way has made its key a short while ago.
Moving(r) == req[r].pc \in {"next", "send"}

RequestOK(r) ==
    /\ Moving(r) => req[r].route \in Routes /\ req[r].i \in 1..Len(Chain(req[r].route))
    /\ req[r].pc = "send" => /\ Stage(r) \in Gates /\ Limit[Stage(r)] > 0
                             /\ req[r].at <= now /\ now <= req[r].at + MaxFlight

\* The requests that hold a place in window w of gate g.
HasPlace(r, g, w) ==
    Moving(r) /\ \E j \in 1..(req[r].i - 1) : Chain(req[r].route)[j] = g /\ req[r].seen[j] = w

Holders(g, w) == {r \in Requests : HasPlace(r, g, w)}

PlacesInv == \A g \in Gates, w \in Times : Cardinality(Holders(g, w)) <= kept[g][w]

\* The counter of window w covers f, and lives until the clock's window ends.
Covers(f, g, w) ==
    /\ f[g][w] <= count[g][w]
    /\ f[g][w] > 0 => ttl[g][w] = Never \/ ttl[g][w] >= Window[g] - (now % Window[g])

\* In window w the counter covers those let through, one window later those
\* let through late.
CounterInv ==
    \A g \in Gates, w \in Times :
        LET v == WindowOf(g, now) IN
        /\ v < w => passed[g][w] = 0
        /\ v <= w => late[g][w] = 0
        /\ v = w => Covers(passed, g, w)
        /\ v = w + 1 => Covers(late, g, w)

LimitInv ==
    /\ TypeOK /\ PlacesInv /\ CounterInv /\ WindowBound
    /\ \A r \in Requests : RequestOK(r)

-----------------------------------------------------------------------------
(* Chains and windows.                                                     *)

\* No chain has more than six stages, or the same stage twice.
LEMMA Chains ==
    ASSUME NEW route \in Routes
    PROVE  /\ Len(Chain(route)) \in 1..6
           /\ \A j \in 1..Len(Chain(route)) : Chain(route)[j] \in Gates \cup Checks
           /\ \A j, k \in 1..Len(Chain(route)) : Chain(route)[j] = Chain(route)[k] => j = k
<1>1. CASE route = "ingest"
    BY <1>1 DEF Chain, Gates, Checks
<1>2. CASE route = "auth"
    BY <1>2 DEF Chain, Gates, Checks
<1>3. CASE route = "api"
    BY <1>3 DEF Chain, Gates, Checks
<1>4. CASE route = "ai"
    BY <1>4 DEF Chain, Gates, Checks
<1> QED
    BY <1>1, <1>2, <1>3, <1>4, LimitConstants

\* A quotient and a remainder; there are no others.
LEMMA Division ==
    ASSUME NEW n \in Nat \ {0}, NEW t \in Nat
    PROVE  t = n * (t \div n) + (t % n) /\ t % n \in 0..(n - 1) /\ t \div n \in Nat
OBVIOUS

LEMMA DivisionUnique ==
    ASSUME NEW n \in Nat \ {0}, NEW q \in Int, NEW m \in 0..(n - 1), NEW t \in Nat, t = n * q + m
    PROVE  t \div n = q /\ t % n = m
<1>1. ASSUME NEW x \in Int, NEW y \in Int, x < y
      PROVE  n * x + n <= n * y
  <2>1. PICK d \in Nat : y = x + 1 + d
    <3>1. y - x - 1 \in Nat /\ y = x + 1 + (y - x - 1)
      BY <1>1
    <3> QED
      BY <3>1
  <2>2. n * y = n * x + n + n * d
    BY <2>1
  <2>3. n * d >= 0 /\ n * d \in Int /\ n * x \in Int
    OBVIOUS
  <2> QED
    BY <2>2, <2>3
<1>2. PICK k \in Int, l \in 0..(n - 1) : k = t \div n /\ l = t % n /\ t = n * k + l
    BY Division
<1>3. n * k \in Int /\ n * q \in Int
    OBVIOUS
<1>4. k = q
  <2>1. CASE k < q
    BY <1>1, <1>2, <1>3, <2>1
  <2>2. CASE q < k
    BY <1>1, <1>2, <1>3, <2>2
  <2> QED
    BY <2>1, <2>2
<1> QED
    BY <1>2, <1>3, <1>4

LEMMA Windows ==
    ASSUME NEW g \in Gates, NEW t \in Nat
    PROVE  /\ Window[g] \in Nat \ {0} /\ WindowOf(g, t) \in 0..t
           /\ t % Window[g] \in 0..(Window[g] - 1)
<1>1. Window[g] \in Nat \ {0}
    BY LimitConstants
<1> QED
    BY <1>1 DEF WindowOf

\* A tick stays in its window or starts the next one.
LEMMA NextTick ==
    ASSUME NEW g \in Gates, NEW t \in Nat
    PROVE  \/ /\ WindowOf(g, t + 1) = WindowOf(g, t)
              /\ (t + 1) % Window[g] = (t % Window[g]) + 1
           \/ /\ WindowOf(g, t + 1) = WindowOf(g, t) + 1
              /\ (t + 1) % Window[g] = 0
<1>1. PICK n \in Nat \ {0} : /\ n = Window[g]
                              /\ \A x : WindowOf(g, x) = x \div n /\ x % Window[g] = x % n
    BY LimitConstants DEF WindowOf
<1>2. PICK q \in Nat, m \in 0..(n - 1) : q = t \div n /\ m = t % n /\ t = n * q + m
    BY Division
<1>3. CASE m + 1 < n
  <2>1. PICK u \in Nat, k \in 0..(n - 1) : u = t + 1 /\ k = m + 1 /\ u = n * q + k
    BY <1>2, <1>3
  <2>2. u \div n = q /\ u % n = k
    BY <2>1, DivisionUnique
  <2> QED
    BY <1>1, <1>2, <2>1, <2>2
<1>4. CASE m + 1 = n
  <2>1. PICK p \in Nat, u \in Nat : p = q + 1 /\ u = t + 1
    OBVIOUS
  <2>2. n * p = n * q + n
    BY <2>1
  <2>3. PICK k \in 0..(n - 1) : k = 0 /\ u = n * p + k
    BY <1>2, <1>4, <2>1, <2>2
  <2>4. u \div n = p /\ u % n = k
    BY <2>3, DivisionUnique
  <2> QED
    BY <1>1, <1>2, <2>1, <2>3, <2>4
<1> QED
    BY <1>3, <1>4

\* What is less than a window old is from this window or from the last one.
LEMMA InFlight ==
    ASSUME NEW g \in Gates, NEW t \in Nat, NEW u \in Nat, t <= u, u < t + Window[g]
    PROVE  WindowOf(g, u) = WindowOf(g, t) \/ WindowOf(g, u) = WindowOf(g, t) + 1
<1>1. PICK n \in Nat \ {0} : /\ n = Window[g]
                              /\ \A x : WindowOf(g, x) = x \div n /\ x % Window[g] = x % n
    BY LimitConstants DEF WindowOf
<1>2. PICK q \in Nat, m \in 0..(n - 1) : q = t \div n /\ m = t % n /\ t = n * q + m
    BY Division
<1>3. PICK d \in 0..(n - 1) : u = t + d
  <2>1. u - t \in 0..(n - 1) /\ u = t + (u - t)
    BY <1>1
  <2> QED
    BY <2>1
<1>4. CASE m + d < n
  <2>1. PICK k \in 0..(n - 1) : k = m + d /\ u = n * q + k
    BY <1>2, <1>3, <1>4
  <2>2. u \div n = q
    BY <2>1, DivisionUnique
  <2> QED
    BY <1>1, <1>2, <2>2
<1>5. CASE ~(m + d < n)
  <2>1. PICK p \in Nat : p = q + 1
    OBVIOUS
  <2>2. n * p = n * q + n
    BY <2>1
  <2>3. PICK k \in 0..(n - 1) : k = m + d - n
    BY <1>5
  <2>4. u = n * p + k
    BY <1>2, <1>3, <2>2, <2>3
  <2>5. u \div n = p
    BY <2>4, DivisionUnique
  <2> QED
    BY <1>1, <1>2, <2>1, <2>5
<1> QED
    BY <1>4, <1>5

-----------------------------------------------------------------------------
(* The counters of the windows.                                            *)

\* One entry of a table of windows is changed.
LEMMA Updated ==
    ASSUME NEW S, NEW f \in [Gates -> [Times -> S]], NEW g \in Gates, NEW w \in Times,
           NEW x \in S
    PROVE  /\ [f EXCEPT ![g][w] = x] \in [Gates -> [Times -> S]]
           /\ [f EXCEPT ![g][w] = x][g][w] = x
           /\ \A h \in Gates, y \in Times :
                 h # g \/ y # w => [f EXCEPT ![g][w] = x][h][y] = f[h][y]
OBVIOUS

LEMMA Bumped ==
    ASSUME NEW f \in [Gates -> [Times -> Nat]], NEW g \in Gates, NEW w \in Times
    PROVE  /\ Bump(f, g, w) \in [Gates -> [Times -> Nat]] /\ Bump(f, g, w)[g][w] = f[g][w] + 1
           /\ \A h \in Gates, y \in Times : h # g \/ y # w => Bump(f, g, w)[h][y] = f[h][y]
<1>1. PICK x \in Nat : x = f[g][w] + 1
    OBVIOUS
<1>2. Bump(f, g, w) = [f EXCEPT ![g][w] = x]
    BY <1>1 DEF Bump
<1> QED
    BY <1>1, <1>2, Updated

LEMMA HistoryBumped ==
    ASSUME passed \in [Gates -> [Times -> Nat]], late \in [Gates -> [Times -> Nat]],
           NEW g \in Gates, NEW w \in Times
    PROVE  \A f \in {passed, late} :
              /\ Bump(f, g, w) \in [Gates -> [Times -> Nat]] /\ Bump(f, g, w)[g][w] = f[g][w] + 1
              /\ \A h \in Gates, y \in Times : h # g \/ y # w => Bump(f, g, w)[h][y] = f[h][y]
<1> SUFFICES ASSUME NEW f \in [Gates -> [Times -> Nat]]
             PROVE  /\ Bump(f, g, w) \in [Gates -> [Times -> Nat]]
                    /\ Bump(f, g, w)[g][w] = f[g][w] + 1
                    /\ \A h \in Gates, y \in Times :
                          h # g \/ y # w => Bump(f, g, w)[h][y] = f[h][y]
    OBVIOUS
<1> QED
    BY Bumped

LEMMA ZeroIs == Zero \in [Gates -> [Times -> Nat]] /\ \A g \in Gates, w \in Times : Zero[g][w] = 0
BY DEF Zero

\* The tables of counters, and what is said of them.
TablesOK ==
    /\ count \in [Gates -> [Times -> Nat]]
    /\ ttl \in [Gates -> [Times -> Nat \cup {Never}]]
    /\ \A g \in Gates : \A w \in Times : count[g][w] = 0 <=> ttl[g][w] = 0
    /\ passed \in [Gates -> [Times -> Nat]] /\ late \in [Gates -> [Times -> Nat]]
    /\ CounterInv /\ WindowBound

LEMMA TablesIn == LimitInv => TablesOK
BY DEF LimitInv, TypeOK, TablesOK

\* The key of a request whose pipeline arrives: of this window or the last one.
LEMMA Arriving ==
    ASSUME LimitInv, NEW r \in Requests, req[r].pc = "send"
    PROVE  /\ Stage(r) \in Gates /\ Limit[Stage(r)] > 0 /\ req[r].at \in Times /\ now \in Nat
           /\ KeyWindow(Stage(r), req[r].at) = WindowOf(Stage(r), req[r].at)
           /\ WindowOf(Stage(r), req[r].at) \in Times
           /\ \/ WindowOf(Stage(r), now) = WindowOf(Stage(r), req[r].at)
              \/ WindowOf(Stage(r), now) = WindowOf(Stage(r), req[r].at) + 1
<1>1. /\ Stage(r) \in Gates /\ Limit[Stage(r)] > 0
      /\ req[r].at <= now /\ now <= req[r].at + MaxFlight
    BY DEF LimitInv, RequestOK
<1>2. req[r].at \in Times /\ now \in Times /\ MaxTime \in Nat
    BY LimitConstants DEF LimitInv, TypeOK, Req
<1>3. req[r].at \in Nat /\ now \in Nat /\ req[r].at <= MaxTime
    BY <1>2 DEF Times
<1>4. now < req[r].at + Window[Stage(r)]
  <2>1. MaxFlight \in Nat /\ MaxFlight < Window[Stage(r)] /\ Window[Stage(r)] \in Nat
    BY <1>1, LimitConstants
  <2> QED
    BY <1>1, <1>3, <2>1
<1>5. WindowOf(Stage(r), req[r].at) \in 0..req[r].at
    BY <1>1, <1>3, Windows
<1>6. WindowOf(Stage(r), req[r].at) \in Times
    BY <1>2, <1>3, <1>5 DEF Times
<1>7. \/ WindowOf(Stage(r), now) = WindowOf(Stage(r), req[r].at)
      \/ WindowOf(Stage(r), now) = WindowOf(Stage(r), req[r].at) + 1
    BY <1>1, <1>3, <1>4, InFlight
<1> QED
    BY <1>1, <1>2, <1>3, <1>6, <1>7 DEF KeyWindow, WindowOf

\* What INCR and EXPIRE, or INCR alone, do to the counter of a window that is
\* this one or the last one, while f, of the two, grows by at most one.
LEMMA CountingStep ==
    ASSUME LimitInv, UNCHANGED now, NEW g \in Gates, NEW w \in Times,
           WindowOf(g, now) = w \/ WindowOf(g, now) = w + 1,
           count' = Bump(count, g, w),
           ttl' \in [Gates -> [Times -> Nat \cup {Never}]], ttl'[g][w] # 0,
           \A h \in Gates, y \in Times : h # g \/ y # w => ttl'[h][y] = ttl[h][y],
           \/ UNCHANGED <<passed, late>> /\ (ttl'[g][w] \in {ttl[g][w], Never, Window[g]})
           \/ /\ count'[g][w] <= Limit[g] /\ ttl'[g][w] = Window[g]
              /\ \/ w = WindowOf(g, now) /\ passed' = Bump(passed, g, w) /\ UNCHANGED late
                 \/ w # WindowOf(g, now) /\ late' = Bump(late, g, w) /\ UNCHANGED passed
    PROVE  TablesOK'
<1>0. TablesOK /\ now \in Nat
    BY TablesIn DEF LimitInv, TypeOK, Times
<1>1. /\ count' \in [Gates -> [Times -> Nat]] /\ count'[g][w] = count[g][w] + 1
      /\ \A h \in Gates, y \in Times : h # g \/ y # w => count'[h][y] = count[h][y]
  <2>1. count \in [Gates -> [Times -> Nat]]
    BY <1>0 DEF TablesOK
  <2> QED
    BY <2>1, Bumped
<1>2. \A h \in Gates : \A y \in Times : count'[h][y] = 0 <=> ttl'[h][y] = 0
  <2>1. ASSUME NEW h \in Gates, NEW y \in Times
        PROVE  count'[h][y] = 0 <=> ttl'[h][y] = 0
    <3>1. CASE h = g /\ y = w
      BY <1>0, <1>1, <3>1 DEF TablesOK
    <3>2. CASE ~(h = g /\ y = w)
      BY <1>0, <1>1, <3>2 DEF TablesOK
    <3> QED
      BY <3>1, <3>2
  <2> QED
    BY <2>1
<1>3. /\ passed' \in [Gates -> [Times -> Nat]] /\ late' \in [Gates -> [Times -> Nat]]
      /\ \A h \in Gates, y \in Times : h # g \/ y # w =>
            passed'[h][y] = passed[h][y] /\ late'[h][y] = late[h][y]
  <2>1. passed \in [Gates -> [Times -> Nat]] /\ late \in [Gates -> [Times -> Nat]]
    BY <1>0 DEF TablesOK
  <2>2. \A f \in {passed, late} :
           /\ Bump(f, g, w) \in [Gates -> [Times -> Nat]]
           /\ \A h \in Gates, y \in Times : h # g \/ y # w => Bump(f, g, w)[h][y] = f[h][y]
    BY <2>1, HistoryBumped
  <2>3. /\ passed' = passed \/ passed' = Bump(passed, g, w)
        /\ late' = late \/ late' = Bump(late, g, w)
    OBVIOUS
  <2>4. /\ passed' \in [Gates -> [Times -> Nat]]
        /\ \A h \in Gates, y \in Times : h # g \/ y # w => passed'[h][y] = passed[h][y]
    <3>1. CASE passed' = passed
      BY <2>1, <3>1
    <3>2. CASE passed' = Bump(passed, g, w)
      BY <2>2, <3>2
    <3> QED
      BY <2>3, <3>1, <3>2
  <2>5. /\ late' \in [Gates -> [Times -> Nat]]
        /\ \A h \in Gates, y \in Times : h # g \/ y # w => late'[h][y] = late[h][y]
    <3>1. CASE late' = late
      BY <2>1, <3>1
    <3>2. CASE late' = Bump(late, g, w)
      BY <2>2, <3>2
    <3> QED
      BY <2>3, <3>1, <3>2
  <2> QED
    BY <2>4, <2>5
<1>4. /\ passed[g][w] \in Nat /\ late[g][w] \in Nat /\ count[g][w] \in Nat
      /\ ttl[g][w] \in Nat \cup {Never} /\ Window[g] \in Nat \ {0} /\ Limit[g] \in Nat
      /\ now % Window[g] \in 0..(Window[g] - 1) /\ WindowOf(g, now) \in Nat /\ w \in Nat
  <2>1. Limit[g] \in Nat /\ w \in Nat
    BY LimitConstants DEF Times
  <2> QED
    BY <1>0, <2>1, Windows DEF TablesOK
<1>5. \/ passed'[g][w] = passed[g][w] /\ late'[g][w] = late[g][w]
      \/ /\ count'[g][w] <= Limit[g] /\ ttl'[g][w] = Window[g]
         /\ \/ w = WindowOf(g, now) /\ passed'[g][w] = passed[g][w] + 1 /\ late'[g][w] = late[g][w]
            \/ w # WindowOf(g, now) /\ late'[g][w] = late[g][w] + 1 /\ passed'[g][w] = passed[g][w]
  <2>1. \A f \in {passed, late} : Bump(f, g, w)[g][w] = f[g][w] + 1
    BY <1>0, HistoryBumped DEF TablesOK
  <2>2. passed' = Bump(passed, g, w) => passed'[g][w] = passed[g][w] + 1
    BY <2>1
  <2>3. late' = Bump(late, g, w) => late'[g][w] = late[g][w] + 1
    BY <2>1
  <2> QED
    BY <2>2, <2>3
<1>6. ttl'[g][w] = ttl[g][w] \/ ttl'[g][w] = Never \/ ttl'[g][w] = Window[g]
    OBVIOUS
<1>7. /\ WindowOf(g, now) <= w => late[g][w] = 0
      /\ WindowOf(g, now) = w => Covers(passed, g, w)
      /\ WindowOf(g, now) = w + 1 => Covers(late, g, w)
      /\ Limit[g] > 0 => passed[g][w] <= Limit[g] /\ late[g][w] <= Limit[g]
    BY <1>0 DEF TablesOK, CounterInv, WindowBound
<1>8. /\ WindowOf(g, now) < w => passed'[g][w] = 0
      /\ WindowOf(g, now) <= w => late'[g][w] = 0
      /\ WindowOf(g, now) = w =>
            /\ passed'[g][w] <= count'[g][w]
            /\ passed'[g][w] > 0 =>
                  ttl'[g][w] = Never \/ ttl'[g][w] >= Window[g] - (now % Window[g])
      /\ WindowOf(g, now) = w + 1 =>
            /\ late'[g][w] <= count'[g][w]
            /\ late'[g][w] > 0 =>
                  ttl'[g][w] = Never \/ ttl'[g][w] >= Window[g] - (now % Window[g])
    BY <1>1, <1>4, <1>5, <1>6, <1>7 DEF Covers
<1>9. CounterInv'
  <2> SUFFICES ASSUME NEW h \in Gates, NEW y \in Times
               PROVE  /\ WindowOf(h, now) < y => passed'[h][y] = 0
                      /\ WindowOf(h, now) <= y => late'[h][y] = 0
                      /\ WindowOf(h, now) = y => Covers(passed, h, y)'
                      /\ WindowOf(h, now) = y + 1 => Covers(late, h, y)'
    BY DEF CounterInv, WindowOf
  <2>1. CASE h = g /\ y = w
    BY <1>8, <2>1 DEF Covers
  <2>2. CASE ~(h = g /\ y = w)
    <3>1. /\ WindowOf(h, now) < y => passed[h][y] = 0
          /\ WindowOf(h, now) <= y => late[h][y] = 0
          /\ WindowOf(h, now) = y => Covers(passed, h, y)
          /\ WindowOf(h, now) = y + 1 => Covers(late, h, y)
      BY <1>0 DEF TablesOK, CounterInv
    <3>2. /\ passed'[h][y] = passed[h][y] /\ late'[h][y] = late[h][y]
          /\ count'[h][y] = count[h][y] /\ ttl'[h][y] = ttl[h][y]
      BY <1>1, <1>3, <2>2
    <3> QED
      BY <3>1, <3>2 DEF Covers
  <2> QED
    BY <2>1, <2>2
<1>10. WindowBound'
  <2>1. /\ passed'[g][w] <= Limit[g] \/ Limit[g] = 0
        /\ late'[g][w] <= Limit[g] \/ Limit[g] = 0
    BY <1>1, <1>4, <1>5, <1>7 DEF Covers
  <2> SUFFICES ASSUME NEW h \in Gates, Limit[h] > 0, NEW y \in Times
               PROVE  passed'[h][y] <= Limit[h] /\ late'[h][y] <= Limit[h]
    BY DEF WindowBound
  <2>2. CASE h = g /\ y = w
    BY <1>4, <2>1, <2>2
  <2>3. CASE ~(h = g /\ y = w)
    BY <1>0, <1>3, <2>3 DEF TablesOK, WindowBound
  <2> QED
    BY <2>2, <2>3
<1> QED
    BY <1>1, <1>2, <1>3, <1>9, <1>10 DEF TablesOK

\* EXPIRE changes the life of one counter, to a window or for ever.
LEMMA Expiring ==
    ASSUME TablesOK, NEW g \in Gates, NEW w \in Times, NEW x \in {Never, Window[g]},
           ttl' = [ttl EXCEPT ![g][w] = x]
    PROVE  /\ ttl' \in [Gates -> [Times -> Nat \cup {Never}]]
           /\ ttl'[g][w] = x /\ ttl'[g][w] # 0
           /\ \A h \in Gates, y \in Times : h # g \/ y # w => ttl'[h][y] = ttl[h][y]
<1>1. x \in Nat \cup {Never} /\ x # 0
    BY LimitConstants DEF Never
<1>2. ttl \in [Gates -> [Times -> Nat \cup {Never}]]
    BY DEF TablesOK
<1> QED
    BY <1>1, <1>2, Updated

LEMMA CountedTables ==
    ASSUME LimitInv, NEW r \in Requests, Counted(r)
    PROVE  TablesOK'
<1>1. PICK g \in Gates : g = Stage(r)
    BY Arriving DEF Counted
<1>2. PICK w \in Times : /\ w = KeyWindow(g, req[r].at) /\ w = WindowOf(g, req[r].at)
                         /\ WindowOf(g, now) = w \/ WindowOf(g, now) = w + 1
    BY <1>1, Arriving DEF Counted
<1>3. /\ count' = Bump(count, g, w) /\ UNCHANGED now
      /\ ttl' = [ttl EXCEPT ![g][w] = Window[g]]
    BY <1>1, <1>2 DEF Counted, Expire
<1>4. /\ ttl' \in [Gates -> [Times -> Nat \cup {Never}]]
      /\ ttl'[g][w] = Window[g] /\ ttl'[g][w] # 0
      /\ \A h \in Gates, y \in Times : h # g \/ y # w => ttl'[h][y] = ttl[h][y]
    BY <1>3, TablesIn, Expiring
<1>5. \/ UNCHANGED <<passed, late>>
      \/ /\ count'[g][w] <= Limit[g]
         /\ \/ w = WindowOf(g, now) /\ passed' = Bump(passed, g, w) /\ UNCHANGED late
            \/ w # WindowOf(g, now) /\ late' = Bump(late, g, w) /\ UNCHANGED passed
    BY <1>1, <1>2 DEF Counted
<1> QED
    BY <1>2, <1>3, <1>4, <1>5, CountingStep

\* The same tables at the same time.
LEMMA SameTables ==
    ASSUME TablesOK, UNCHANGED <<now, count, ttl, passed, late>>
    PROVE  TablesOK'
<1>1. CounterInv' /\ WindowBound'
    BY DEF TablesOK, CounterInv, WindowBound, Covers
<1> QED
    BY <1>1 DEF TablesOK

LEMMA UncountedTables ==
    ASSUME LimitInv, NEW r \in Requests, Uncounted(r)
    PROVE  TablesOK'
<1>0. TablesOK
    BY TablesIn
<1>1. PICK g \in Gates : g = Stage(r)
    BY Arriving DEF Uncounted
<1>2. PICK w \in Times : /\ w = KeyWindow(g, req[r].at)
                         /\ WindowOf(g, now) = w \/ WindowOf(g, now) = w + 1
    BY <1>1, Arriving DEF Uncounted
<1>3. UNCHANGED <<now, passed, late>>
    BY DEF Uncounted
<1>4. CASE UNCHANGED <<count, ttl>>
    BY <1>0, <1>3, <1>4, SameTables
<1>5. ASSUME NEW x \in {Never, Window[g]}, count' = Bump(count, g, w),
             ttl' = [ttl EXCEPT ![g][w] = x]
      PROVE  TablesOK'
  <2>1. /\ ttl' \in [Gates -> [Times -> Nat \cup {Never}]]
        /\ ttl'[g][w] \in {ttl[g][w], Never, Window[g]} /\ ttl'[g][w] # 0
        /\ \A h \in Gates, y \in Times : h # g \/ y # w => ttl'[h][y] = ttl[h][y]
    BY <1>0, <1>5, Expiring
  <2> QED
    BY <1>2, <1>3, <1>5, <2>1, CountingStep
<1>6. ASSUME count' = Bump(count, g, w), ttl[g][w] # 0, UNCHANGED ttl
      PROVE  TablesOK'
  <2>1. /\ ttl' \in [Gates -> [Times -> Nat \cup {Never}]]
        /\ ttl'[g][w] \in {ttl[g][w], Never, Window[g]} /\ ttl'[g][w] # 0
        /\ \A h \in Gates, y \in Times : h # g \/ y # w => ttl'[h][y] = ttl[h][y]
    BY <1>0, <1>6 DEF TablesOK
  <2> QED
    BY <1>2, <1>3, <1>6, <2>1, CountingStep
<1>7. \/ count' = Bump(count, g, w) /\ ttl' = [ttl EXCEPT ![g][w] = Window[g]]
      \/ count' = Bump(count, g, w) /\ ttl' = [ttl EXCEPT ![g][w] = Never]
      \/ count' = Bump(count, g, w) /\ ttl[g][w] # 0 /\ UNCHANGED ttl
      \/ UNCHANGED <<count, ttl>>
    BY <1>1, <1>2 DEF Uncounted, Expire
<1> QED
    BY <1>4, <1>5, <1>6, <1>7

\* A tick: within a window no counter that covers somebody expires; the next
\* window starts with nobody let through.
LEMMA TickTables ==
    ASSUME LimitInv, Tick
    PROVE  TablesOK'
<1>0. TablesOK /\ now \in Nat /\ now' = now + 1 /\ UNCHANGED <<passed, late>>
    BY TablesIn DEF LimitInv, TypeOK, Times, Tick, history
<1>1. ASSUME NEW g \in Gates, NEW w \in Times
      PROVE  /\ ttl[g][w] \in Nat \cup {Never} /\ count[g][w] \in Nat
             /\ ttl'[g][w] = Left(ttl[g][w])
             /\ count'[g][w] = IF Left(ttl[g][w]) = 0 THEN 0 ELSE count[g][w]
             /\ count[g][w] = 0 <=> ttl[g][w] = 0
    BY <1>0 DEF Tick, TablesOK
<1>2. ASSUME NEW n \in Nat \cup {Never}
      PROVE  /\ Left(n) \in Nat \cup {Never}
             /\ n = 0 => Left(n) = 0
             /\ n = Never <=> Left(n) = Never
             /\ n # Never /\ n # 0 => Left(n) = n - 1
    BY DEF Left, Never
<1>3. ASSUME NEW g \in Gates, NEW w \in Times
      PROVE  /\ ttl'[g][w] \in Nat \cup {Never} /\ count'[g][w] \in Nat
             /\ count'[g][w] = 0 <=> ttl'[g][w] = 0
  <2>1. ttl[g][w] \in Nat \cup {Never} /\ count[g][w] \in Nat
    BY <1>1
  <2>2. /\ Left(ttl[g][w]) \in Nat \cup {Never}
        /\ ttl[g][w] = 0 => Left(ttl[g][w]) = 0
    BY <1>2, <2>1
  <2> QED
    BY <1>1, <2>1, <2>2
<1>4. count' \in [Gates -> [Times -> Nat]] /\ ttl' \in [Gates -> [Times -> Nat \cup {Never}]]
    BY <1>3 DEF Tick
<1>5. ASSUME NEW f \in [Gates -> [Times -> Nat]], NEW g \in Gates, NEW w \in Times,
             Covers(f, g, w), (now + 1) % Window[g] = (now % Window[g]) + 1
      PROVE  /\ f[g][w] <= count'[g][w]
             /\ f[g][w] > 0 => \/ ttl'[g][w] = Never
                               \/ ttl'[g][w] >= Window[g] - ((now + 1) % Window[g])
  <2>1. /\ f[g][w] \in Nat /\ Window[g] \in Nat \ {0}
        /\ now % Window[g] \in 0..(Window[g] - 1) /\ (now + 1) % Window[g] \in 0..(Window[g] - 1)
    BY <1>0, Windows
  <2>2. CASE f[g][w] = 0
    BY <1>3, <2>2
  <2>3. CASE f[g][w] > 0
    <3>1. f[g][w] <= count[g][w] /\ (ttl[g][w] = Never \/ ttl[g][w] >= Window[g] - (now % Window[g]))
      BY <1>5, <2>3 DEF Covers
    <3>2. ttl[g][w] # 0
      BY <1>1, <2>1, <2>3, <3>1
    <3>3. CASE ttl[g][w] = Never
      BY <1>1, <1>2, <3>1, <3>3 DEF Never
    <3>4. CASE ttl[g][w] # Never
      <4>1. ttl[g][w] \in Nat /\ ttl'[g][w] = ttl[g][w] - 1
        BY <1>1, <1>2, <3>2, <3>4
      <4>2. ttl[g][w] >= Window[g] - (now % Window[g])
        BY <3>1, <3>4
      <4>3. ttl'[g][w] >= Window[g] - ((now + 1) % Window[g])
        BY <1>5, <2>1, <4>1, <4>2
      <4>4. ttl'[g][w] # 0
        BY <2>1, <4>1, <4>3
      <4> QED
        BY <1>1, <3>1, <4>3, <4>4
    <3> QED
      BY <3>3, <3>4
  <2> QED
    BY <2>1, <2>2, <2>3
<1>6. ASSUME NEW f \in [Gates -> [Times -> Nat]], NEW g \in Gates, NEW w \in Times, f[g][w] = 0
      PROVE  /\ f[g][w] <= count'[g][w]
             /\ ~(f[g][w] > 0)
    BY <1>3, <1>6
<1>7. CounterInv'
  <2> SUFFICES ASSUME NEW g \in Gates, NEW w \in Times
               PROVE  /\ WindowOf(g, now + 1) < w => passed[g][w] = 0
                      /\ WindowOf(g, now + 1) <= w => late[g][w] = 0
                      /\ WindowOf(g, now + 1) = w => Covers(passed, g, w)'
                      /\ WindowOf(g, now + 1) = w + 1 => Covers(late, g, w)'
    BY <1>0 DEF CounterInv, WindowOf
  <2>1. /\ WindowOf(g, now) < w => passed[g][w] = 0
        /\ WindowOf(g, now) <= w => late[g][w] = 0
        /\ WindowOf(g, now) = w => Covers(passed, g, w)
        /\ WindowOf(g, now) = w + 1 => Covers(late, g, w)
    BY <1>0 DEF TablesOK, CounterInv
  <2>2. WindowOf(g, now) \in Nat /\ w \in Nat
    BY <1>0, Windows DEF Times
  <2>3. passed \in [Gates -> [Times -> Nat]] /\ late \in [Gates -> [Times -> Nat]]
    BY <1>0 DEF TablesOK
  <2>4. CASE WindowOf(g, now + 1) = WindowOf(g, now) /\ (now + 1) % Window[g] = (now % Window[g]) + 1
    <3>1. Covers(passed, g, w) => Covers(passed, g, w)'
      BY <1>0, <1>5, <2>3, <2>4 DEF Covers
    <3>2. Covers(late, g, w) => Covers(late, g, w)'
      BY <1>0, <1>5, <2>3, <2>4 DEF Covers
    <3> QED
      BY <2>1, <2>4, <3>1, <3>2
  <2>5. CASE WindowOf(g, now + 1) = WindowOf(g, now) + 1
    <3>1. passed[g][w] = 0 => Covers(passed, g, w)'
      BY <1>0, <1>6, <2>3 DEF Covers
    <3>2. late[g][w] = 0 => Covers(late, g, w)'
      BY <1>0, <1>6, <2>3 DEF Covers
    <3> QED
      BY <2>1, <2>2, <2>5, <3>1, <3>2
  <2> QED
    BY <1>0, <2>4, <2>5, NextTick
<1>8. WindowBound'
    BY <1>0 DEF TablesOK, WindowBound
<1> QED
    BY <1>0, <1>3, <1>4, <1>7, <1>8 DEF TablesOK

\* Redis without its data.
LEMMA WipedTables ==
    ASSUME LimitInv, WipeRedis
    PROVE  TablesOK'
<1>1. count' = Zero /\ ttl' = Zero /\ passed' = Zero /\ late' = Zero
    BY DEF WipeRedis
<1>2. Zero \in [Gates -> [Times -> Nat \cup {Never}]]
    BY ZeroIs
<1>3. CounterInv' /\ WindowBound'
    BY <1>1, ZeroIs, LimitConstants DEF CounterInv, WindowBound, Covers
<1> QED
    BY <1>1, <1>2, <1>3, ZeroIs DEF TablesOK

LEMMA TablesStep ==
    ASSUME LimitInv, [Next]_vars
    PROVE  TablesOK'
<1>0. TablesOK
    BY TablesIn
<1>1. ASSUME NEW r \in Requests, (\E route \in Routes : Arrive(r, route)) \/ Check(r) \/ Allow(r)
      PROVE  UNCHANGED <<now, count, ttl, passed, late>>
    BY <1>1 DEF Arrive, Check, Allow, redisVars, history
<1>2. ASSUME NEW p \in Processes, Restart(p)
      PROVE  UNCHANGED <<now, count, ttl, passed, late>>
    BY <1>2 DEF Restart, redisVars, history
<1>3. CASE UNCHANGED vars
    BY <1>0, <1>3, SameTables DEF vars, redisVars, history
<1> QED
    BY <1>0, <1>1, <1>2, <1>3, SameTables, CountedTables, UncountedTables, TickTables, WipedTables
       DEF Next, RequestStep

-----------------------------------------------------------------------------
(* Requests, and the places they hold.                                     *)

LEMMA NoReqIs ==
    ASSUME NEW pc \in {"idle", "next", "limited"}, NEW route \in Routes \cup {"none"}
    PROVE  /\ NoReq \in Req
           /\ [NoReq EXCEPT !.pc = pc] \in Req
           /\ [NoReq EXCEPT !.pc = pc, !.route = route] \in Req
<1>1. 0 \in Times
    BY LimitConstants DEF Times
<1>2. PICK seen \in [1..6 -> Times \cup {NoWindow}] : seen = [j \in 1..6 |-> NoWindow]
    OBVIOUS
<1>3. NoReq = [pc |-> "idle", route |-> "none", i |-> 1, at |-> 0, seen |-> seen]
    BY <1>2 DEF NoReq
<1>4. 1 \in 1..6
    OBVIOUS
<1> QED
    BY <1>1, <1>3, <1>4 DEF Req

LEMMA Answered ==
    ASSUME LimitInv, NEW r \in Requests, NEW how \in {"idle", "limited"}, Answer(r, how)
    PROVE  /\ req' \in [Requests -> Req] /\ req'[r].pc = how
           /\ \A q \in Requests \ {r} : req'[q] = req[q]
<1>1. req \in [Requests -> Req]
    BY DEF LimitInv, TypeOK
<1>2. [NoReq EXCEPT !.pc = how] \in Req /\ [NoReq EXCEPT !.pc = how].pc = how
    BY NoReqIs DEF NoReq
<1> QED
    BY <1>1, <1>2 DEF Answer

\* On to the next stage, with the window in which this one was passed.
LEMMA Advanced ==
    ASSUME LimitInv, NEW r \in Requests, Moving(r), NEW w \in Times \cup {NoWindow}, Advance(r, w)
    PROVE  /\ req' \in [Requests -> Req]
           /\ \A q \in Requests \ {r} : req'[q] = req[q]
           /\ \/ req'[r].pc = "idle"
              \/ /\ req'[r].pc = "next" /\ req'[r].route = req[r].route
                 /\ req'[r].i = req[r].i + 1 /\ req'[r].i \in 1..Len(Chain(req[r].route))
                 /\ req'[r].seen = [req[r].seen EXCEPT ![req[r].i] = w]
<1>1. /\ req \in [Requests -> Req] /\ req[r].route \in Routes
      /\ req[r].i \in 1..Len(Chain(req[r].route))
    BY DEF LimitInv, TypeOK, RequestOK
<1>2. Len(Chain(req[r].route)) \in 1..6
    BY <1>1, Chains
<1>3. CASE req[r].i = Len(Chain(req[r].route))
    BY <1>3, Answered DEF Advance
<1>4. CASE req[r].i # Len(Chain(req[r].route))
  <2>1. PICK n \in 1..6 : n = req[r].i + 1 /\ n \in 1..Len(Chain(req[r].route))
    <3>1. PICK m \in 1..6 : m = Len(Chain(req[r].route))
      BY <1>2
    <3>2. PICK k \in 1..m : k = req[r].i /\ k # m
      BY <1>1, <1>4, <3>1
    <3>3. PICK n \in 1..6 : n = k + 1 /\ n \in 1..m
      BY <3>2
    <3> QED
      BY <3>1, <3>2, <3>3
  <2> DEFINE seen == [req[r].seen EXCEPT ![req[r].i] = w]
             new == [req[r] EXCEPT !.pc = "next", !.i = n, !.at = 0, !.seen = seen]
  <2>2. 0 \in Times /\ req[r] \in Req
    BY <1>1, LimitConstants DEF Times
  <2>3. seen \in [1..6 -> Times \cup {NoWindow}]
    BY <2>2 DEF Req
  <2>4. /\ new \in Req /\ new.pc = "next" /\ new.route = req[r].route /\ new.i = n
        /\ new.seen = seen
    <3> HIDE DEF seen
    <3> QED
      BY <2>2, <2>3 DEF Req
  <2>5. req' = [req EXCEPT ![r] = new]
    BY <1>1, <1>4, <2>1, <2>2 DEF Advance, Req
  <2> QED
    <3> HIDE DEF new
    <3> QED
      BY <1>1, <2>1, <2>4, <2>5
<1> QED
    BY <1>3, <1>4

\* Who answers gives up its places, who passes a gate takes one.
LEMMA PlacesAnswered ==
    ASSUME LimitInv, NEW r \in Requests, NEW how \in {"idle", "limited"}, Answer(r, how),
           NEW g, NEW w
    PROVE  Holders(g, w)' \subseteq Holders(g, w) \ {r}
<1>1. /\ ~Moving(r)'
      /\ \A q \in Requests \ {r} : req'[q] = req[q]
    BY Answered DEF Moving
<1> QED
    BY <1>1 DEF Holders, HasPlace, Moving

LEMMA PlacesAdvanced ==
    ASSUME LimitInv, NEW r \in Requests, Moving(r), NEW w \in Times \cup {NoWindow}, Advance(r, w),
           NEW g, NEW y
    PROVE  Holders(g, y)' \subseteq
              Holders(g, y) \cup (IF g = Stage(r) /\ y = w THEN {r} ELSE {})
<1>0. /\ req[r].route \in Routes /\ req[r].i \in 1..6
      /\ req[r].seen \in [1..6 -> Times \cup {NoWindow}]
    BY DEF LimitInv, TypeOK, Req, RequestOK
<1>1. \A q \in Requests \ {r} : HasPlace(q, g, y)' => HasPlace(q, g, y)
    BY Advanced DEF HasPlace, Moving
<1>2. ASSUME HasPlace(r, g, y)'
      PROVE  HasPlace(r, g, y) \/ (g = Stage(r) /\ y = w)
  <2>1. /\ req'[r].pc = "next" /\ req'[r].route = req[r].route /\ req'[r].i = req[r].i + 1
        /\ req'[r].seen = [req[r].seen EXCEPT ![req[r].i] = w]
    BY <1>2, Advanced DEF HasPlace, Moving
  <2>2. PICK j \in 1..req[r].i : Chain(req[r].route)[j] = g /\ req'[r].seen[j] = y
    BY <1>0, <1>2, <2>1 DEF HasPlace
  <2>3. CASE j = req[r].i
    BY <1>0, <2>1, <2>2, <2>3 DEF Stage
  <2>4. CASE j # req[r].i
    <3>1. j \in 1..(req[r].i - 1) /\ req[r].seen[j] = y
      BY <1>0, <2>1, <2>2, <2>4
    <3> QED
      BY <2>2, <3>1 DEF HasPlace
  <2> QED
    BY <2>3, <2>4
<1> QED
    BY <1>1, <1>2 DEF Holders

LEMMA HoldersFinite ==
    ASSUME NEW g, NEW w, NEW H, H \subseteq Holders(g, w)
    PROVE  /\ IsFiniteSet(H) /\ Cardinality(H) \in Nat
           /\ Cardinality(H) <= Cardinality(Holders(g, w)) /\ Cardinality(Holders(g, w)) \in Nat
<1>1. IsFiniteSet(Holders(g, w))
    BY LimitConstants, FS_Subset DEF Holders
<1> QED
    BY <1>1, FS_Subset, FS_CardinalityType

LEMMA NoNewPlace ==
    ASSUME LimitInv, UNCHANGED kept,
           \A g \in Gates, w \in Times : Holders(g, w)' \subseteq Holders(g, w)
    PROVE  kept' \in [Gates -> [Times -> Nat]] /\ PlacesInv'
<1>0. kept \in [Gates -> [Times -> Nat]]
    BY DEF LimitInv, TypeOK
<1>1. ASSUME NEW g \in Gates, NEW w \in Times
      PROVE  Cardinality(Holders(g, w)') <= kept[g][w]
  <2>1. PICK H : H = Holders(g, w)'
    OBVIOUS
  <2>2. /\ Cardinality(H) \in Nat /\ Cardinality(H) <= Cardinality(Holders(g, w))
        /\ Cardinality(Holders(g, w)) \in Nat
    BY <2>1, HoldersFinite
  <2>3. Cardinality(Holders(g, w)) <= kept[g][w] /\ kept[g][w] \in Nat
    BY <1>0 DEF LimitInv, PlacesInv
  <2> QED
    BY <2>1, <2>2, <2>3
<1> QED
    BY <1>0, <1>1 DEF PlacesInv

LEMMA PlaceTaken ==
    ASSUME LimitInv, NEW r \in Requests, NEW g \in Gates, NEW w \in Times,
           kept' = Bump(kept, g, w),
           \A h \in Gates, y \in Times : Holders(h, y)' \subseteq
              Holders(h, y) \cup (IF h = g /\ y = w THEN {r} ELSE {})
    PROVE  kept' \in [Gates -> [Times -> Nat]] /\ PlacesInv'
<1>0. kept \in [Gates -> [Times -> Nat]]
    BY DEF LimitInv, TypeOK
<1>1. /\ kept' \in [Gates -> [Times -> Nat]] /\ kept'[g][w] = kept[g][w] + 1
      /\ \A h \in Gates, y \in Times : h # g \/ y # w => kept'[h][y] = kept[h][y]
    BY <1>0, Bumped
<1>2. ASSUME NEW h \in Gates, NEW y \in Times
      PROVE  Cardinality(Holders(h, y)') <= kept'[h][y]
  <2>1. PICK H : H = Holders(h, y)'
    OBVIOUS
  <2>2. /\ Cardinality(Holders(h, y)) <= kept[h][y] /\ kept[h][y] \in Nat
        /\ IsFiniteSet(Holders(h, y)) /\ Cardinality(Holders(h, y)) \in Nat
    BY <1>0, HoldersFinite DEF LimitInv, PlacesInv
  <2>3. CASE h = g /\ y = w
    <3>1. H \subseteq Holders(h, y) \cup {r}
      BY <2>1, <2>3
    <3>2. /\ IsFiniteSet(Holders(h, y) \cup {r})
          /\ Cardinality(Holders(h, y) \cup {r}) <= Cardinality(Holders(h, y)) + 1
          /\ Cardinality(Holders(h, y) \cup {r}) \in Nat
      <4>1. /\ IsFiniteSet(Holders(h, y) \cup {r})
            /\ Cardinality(Holders(h, y) \cup {r}) =
                  IF r \in Holders(h, y) THEN Cardinality(Holders(h, y))
                  ELSE Cardinality(Holders(h, y)) + 1
        BY <2>2, FS_AddElement
      <4> QED
        BY <2>2, <4>1
    <3>3. Cardinality(H) <= Cardinality(Holders(h, y) \cup {r}) /\ Cardinality(H) \in Nat
      BY <3>1, <3>2, FS_Subset, FS_CardinalityType
    <3> QED
      BY <1>1, <2>1, <2>2, <2>3, <3>2, <3>3
  <2>4. CASE ~(h = g /\ y = w)
    <3>1. Cardinality(H) <= Cardinality(Holders(h, y)) /\ Cardinality(H) \in Nat
      BY <2>1, <2>4, HoldersFinite
    <3> QED
      BY <1>1, <2>1, <2>2, <2>4, <3>1
  <2> QED
    BY <2>3, <2>4
<1> QED
    BY <1>1, <1>2 DEF PlacesInv

\* A refusal gives back what the request has taken, once for each gate.
LEMMA PlacesGivenBack ==
    ASSUME LimitInv, NEW r \in Requests, Moving(r), kept' = Undo(r), Answer(r, "limited")
    PROVE  kept' \in [Gates -> [Times -> Nat]] /\ PlacesInv'
<1>0. kept \in [Gates -> [Times -> Nat]] /\ req[r].route \in Routes /\ req[r].i \in 1..6
      /\ req[r].i \in 1..Len(Chain(req[r].route))
    BY DEF LimitInv, TypeOK, RequestOK, Req
<1>1. ASSUME NEW g \in Gates, NEW w \in Times
      PROVE  kept'[g][w] \in Nat /\ Cardinality(Holders(g, w)') <= kept'[g][w]
  <2> DEFINE J == {j \in 1..(req[r].i - 1) : Chain(req[r].route)[j] = g /\ req[r].seen[j] = w}
  <2>1. kept'[g][w] = kept[g][w] - Cardinality(J)
    BY DEF Undo
  <2>2. PICK H : H = Holders(g, w)' /\ H \subseteq Holders(g, w) \ {r}
    BY PlacesAnswered
  <2>3. /\ Cardinality(Holders(g, w)) <= kept[g][w] /\ kept[g][w] \in Nat
        /\ IsFiniteSet(Holders(g, w)) /\ Cardinality(Holders(g, w)) \in Nat
    BY <1>0, HoldersFinite DEF LimitInv, PlacesInv
  <2>4. CASE J = {}
    <3>1. Cardinality(J) = 0
      BY <2>4, FS_EmptySet
    <3>2. Cardinality(H) <= Cardinality(Holders(g, w)) /\ Cardinality(H) \in Nat
      BY <2>2, HoldersFinite
    <3> QED
      BY <2>1, <2>2, <2>3, <3>1, <3>2
  <2>5. CASE J # {}
    <3>1. PICK j \in J : TRUE
      BY <2>5
    <3>2. \A k \in J : k = j
      <4>1. \A k \in J : k \in 1..Len(Chain(req[r].route)) /\ Chain(req[r].route)[k] = g
        BY <1>0
      <4> QED
        BY <1>0, <3>1, <4>1, Chains
    <3>3. J = {j}
      BY <3>1, <3>2
    <3>4. Cardinality(J) = 1
      BY <3>3, FS_Singleton
    <3>5. r \in Holders(g, w)
      BY <3>1 DEF Holders, HasPlace
    <3>6. /\ Cardinality(Holders(g, w) \ {r}) = Cardinality(Holders(g, w)) - 1
          /\ IsFiniteSet(Holders(g, w) \ {r})
      BY <2>3, <3>5, FS_RemoveElement
    <3>7. Cardinality(H) <= Cardinality(Holders(g, w) \ {r}) /\ Cardinality(H) \in Nat
      BY <2>2, <3>6, FS_Subset, FS_CardinalityType
    <3> QED
      BY <2>1, <2>2, <2>3, <3>4, <3>6, <3>7
  <2> QED
    BY <2>4, <2>5
<1>2. kept' \in [Gates -> [Times -> Nat]]
    BY <1>1 DEF Undo
<1> QED
    BY <1>1, <1>2 DEF PlacesInv

\* A request that does not move, at the same time.
LEMMA SameRequest ==
    ASSUME NEW q \in Requests, RequestOK(q), req'[q] = req[q], UNCHANGED now
    PROVE  RequestOK(q)'
BY DEF RequestOK, Moving, Stage

\* A request that answers, or goes on.
LEMMA AnsweredOK ==
    ASSUME LimitInv, UNCHANGED now, NEW r \in Requests,
           (\E how \in {"idle", "limited"} : Answer(r, how)) \/
           (Moving(r) /\ \E w \in Times \cup {NoWindow} : Advance(r, w))
    PROVE  req' \in [Requests -> Req] /\ \A q \in Requests : RequestOK(q)'
<1>1. /\ req' \in [Requests -> Req]
      /\ \A q \in Requests \ {r} : req'[q] = req[q]
      /\ \/ req'[r].pc \in {"idle", "limited"}
         \/ /\ req'[r].pc = "next" /\ req'[r].route = req[r].route /\ Moving(r)
            /\ req'[r].i \in 1..Len(Chain(req[r].route))
    BY Answered, Advanced
<1>2. \A q \in Requests \ {r} : RequestOK(q)'
    BY <1>1, SameRequest DEF LimitInv
<1>3. RequestOK(r)'
    BY <1>1 DEF LimitInv, RequestOK, Moving
<1> QED
    BY <1>1, <1>2, <1>3

LEMMA NowWindow ==
    ASSUME LimitInv, NEW g \in Gates
    PROVE  WindowOf(g, now) \in Times
<1>1. now \in Nat /\ now <= MaxTime /\ MaxTime \in Nat
    BY LimitConstants DEF LimitInv, TypeOK, Times
<1>2. WindowOf(g, now) \in 0..now
    BY <1>1, Windows
<1> QED
    BY <1>1, <1>2 DEF Times

LEMMA RequestsStep ==
    ASSUME LimitInv, [Next]_vars
    PROVE  req' \in [Requests -> Req] /\ \A q \in Requests : RequestOK(q)'
<1>0. req \in [Requests -> Req] /\ now \in Nat /\ \A q \in Requests : RequestOK(q)
    BY DEF LimitInv, TypeOK, Times
<1>1. ASSUME NEW r \in Requests, NEW route \in Routes, Arrive(r, route)
      PROVE  req' \in [Requests -> Req] /\ \A q \in Requests : RequestOK(q)'
  <2>1. PICK new \in Req : new = [NoReq EXCEPT !.pc = "next", !.route = route]
    BY NoReqIs
  <2>2. new.pc = "next" /\ new.route = route /\ new.i = 1
    BY <2>1 DEF NoReq
  <2>3. req' = [req EXCEPT ![r] = new] /\ UNCHANGED now
    BY <1>1, <2>1 DEF Arrive
  <2>4. 1 \in 1..Len(Chain(route))
    <3>1. Len(Chain(route)) \in 1..6
      BY Chains
    <3> QED
      BY <3>1
  <2>5. RequestOK(r)'
    BY <1>0, <2>2, <2>3, <2>4 DEF RequestOK, Moving
  <2>6. \A q \in Requests \ {r} : RequestOK(q)'
    BY <1>0, <2>3, SameRequest
  <2> QED
    BY <1>0, <2>3, <2>5, <2>6
<1>2. ASSUME NEW r \in Requests, Check(r)
      PROVE  req' \in [Requests -> Req] /\ \A q \in Requests : RequestOK(q)'
    BY <1>2, AnsweredOK DEF Check, Moving
<1>3. ASSUME NEW r \in Requests, Allow(r)
      PROVE  req' \in [Requests -> Req] /\ \A q \in Requests : RequestOK(q)'
  <2>1. Moving(r) /\ UNCHANGED now /\ Stage(r) \in Gates
    BY <1>3 DEF Allow, Moving
  <2>2. CASE \E w \in Times \cup {NoWindow} : Advance(r, w)
    BY <2>1, <2>2, AnsweredOK
  <2>3. CASE Limiting(r) /\ req' = [req EXCEPT ![r].pc = "send", ![r].at = now]
    <3>1. Limit[Stage(r)] > 0
      BY <2>3 DEF Limiting
    <3>2. now \in Times
      BY DEF LimitInv, TypeOK
    <3>3. PICK new \in Req : new = [req[r] EXCEPT !.pc = "send", !.at = now]
      BY <1>0, <3>2 DEF Req
    <3>4. new.pc = "send" /\ new.at = now /\ new.route = req[r].route /\ new.i = req[r].i
      BY <1>0, <3>3 DEF Req
    <3>5. req' = [req EXCEPT ![r] = new]
      BY <1>0, <2>3, <3>3 DEF Req
    <3>6. /\ req' \in [Requests -> Req] /\ req'[r] = new
          /\ \A q \in Requests \ {r} : req'[q] = req[q]
      BY <1>0, <3>5
    <3>7. RequestOK(r)'
      <4>1. now <= now + MaxFlight
        BY <1>0, LimitConstants
      <4>2. Stage(r)' = Stage(r)
        BY <3>4, <3>6 DEF Stage
      <4> QED
        BY <1>0, <2>1, <3>1, <3>4, <3>6, <4>1, <4>2 DEF RequestOK, Moving
    <3>8. \A q \in Requests \ {r} : RequestOK(q)'
      BY <1>0, <2>1, <3>6, SameRequest
    <3> QED
      BY <3>6, <3>7, <3>8
  <2> QED
    BY <1>3, <2>1, <2>2, <2>3, NowWindow DEF Allow
<1>4. ASSUME NEW r \in Requests, Counted(r) \/ Uncounted(r)
      PROVE  req' \in [Requests -> Req] /\ \A q \in Requests : RequestOK(q)'
  <2>1. Moving(r) /\ UNCHANGED now /\ WindowOf(Stage(r), req[r].at) \in Times
    BY <1>4, Arriving DEF Counted, Uncounted, Moving
  <2>2. \/ Advance(r, WindowOf(Stage(r), req[r].at))
        \/ Answer(r, "limited")
    BY <1>4 DEF Counted, Uncounted
  <2> QED
    BY <2>1, <2>2, AnsweredOK
<1>5. CASE Tick
  <2>1. UNCHANGED req /\ now' = now + 1
    BY <1>5 DEF Tick
  <2>2. ASSUME NEW q \in Requests
        PROVE  RequestOK(q)'
    <3>1. req[q].pc = "send" =>
             /\ Stage(q) \in Gates /\ Limit[Stage(q)] > 0
             /\ req[q].at <= now /\ now < req[q].at + MaxFlight
      BY <1>0, <1>5 DEF Tick, RequestOK
    <3>2. req[q].at \in Nat /\ MaxFlight \in Nat
      BY <1>0, LimitConstants DEF Req, Times
    <3>3. req[q].pc = "send" => req[q].at <= now + 1 /\ now + 1 <= req[q].at + MaxFlight
      BY <1>0, <3>1, <3>2
    <3> QED
      BY <1>0, <2>1, <3>1, <3>3 DEF RequestOK, Moving, Stage
  <2> QED
    BY <1>0, <2>1, <2>2
<1>6. CASE WipeRedis \/ UNCHANGED vars
  <2>1. UNCHANGED <<req, now>>
    BY <1>6 DEF WipeRedis, vars
  <2> QED
    BY <1>0, <2>1, SameRequest
<1>7. ASSUME NEW p \in Processes, Restart(p)
      PROVE  req' \in [Requests -> Req] /\ \A q \in Requests : RequestOK(q)'
  <2>1. UNCHANGED now /\ \A q \in Requests : req'[q] = NoReq \/ req'[q] = req[q]
    BY <1>7 DEF Restart
  <2>2. NoReq \in Req /\ NoReq.pc = "idle"
    BY NoReqIs DEF NoReq
  <2>3. req' \in [Requests -> Req]
    BY <1>0, <1>7, <2>2 DEF Restart
  <2>4. ASSUME NEW q \in Requests, req'[q] = NoReq
        PROVE  RequestOK(q)'
    BY <2>2, <2>4 DEF RequestOK, Moving
  <2> QED
    BY <1>0, <2>1, <2>3, <2>4, SameRequest
<1> QED
    BY <1>1, <1>2, <1>3, <1>4, <1>5, <1>6, <1>7 DEF Next, RequestStep

LEMMA PlacesStep ==
    ASSUME LimitInv, [Next]_vars
    PROVE  kept' \in [Gates -> [Times -> Nat]] /\ PlacesInv'
<1>0. req \in [Requests -> Req]
    BY DEF LimitInv, TypeOK
<1>1. ASSUME NEW r \in Requests, NEW w \in Times \cup {NoWindow}, Moving(r), Advance(r, w),
             \/ w = NoWindow /\ UNCHANGED kept
             \/ w \in Times /\ Stage(r) \in Gates /\ kept' = Bump(kept, Stage(r), w)
      PROVE  kept' \in [Gates -> [Times -> Nat]] /\ PlacesInv'
  <2>1. \A g \in Gates, y \in Times : Holders(g, y)' \subseteq
           Holders(g, y) \cup (IF g = Stage(r) /\ y = w THEN {r} ELSE {})
    BY <1>1, PlacesAdvanced
  <2>2. NoWindow \notin Times
    BY LimitConstants DEF NoWindow, Times
  <2>3. CASE w = NoWindow /\ UNCHANGED kept
    <3>1. \A g \in Gates, y \in Times : Holders(g, y)' \subseteq Holders(g, y)
      BY <2>1, <2>2, <2>3
    <3> QED
      BY <2>3, <3>1, NoNewPlace
  <2>4. CASE w \in Times /\ Stage(r) \in Gates /\ kept' = Bump(kept, Stage(r), w)
    BY <2>1, <2>4, PlaceTaken
  <2> QED
    BY <1>1, <2>3, <2>4
<1>2. ASSUME NEW r \in Requests, NEW how \in {"idle", "limited"}, Answer(r, how), UNCHANGED kept
      PROVE  kept' \in [Gates -> [Times -> Nat]] /\ PlacesInv'
  <2>1. \A g \in Gates, y \in Times : Holders(g, y)' \subseteq Holders(g, y)
    BY <1>2, PlacesAnswered
  <2> QED
    BY <1>2, <2>1, NoNewPlace
<1>3. ASSUME UNCHANGED kept, \A q \in Requests : req'[q] = req[q] \/ req'[q].i = 1
                                                \/ ~Moving(q)'
      PROVE  kept' \in [Gates -> [Times -> Nat]] /\ PlacesInv'
  <2>1. \A g \in Gates, y \in Times : Holders(g, y)' \subseteq Holders(g, y)
    BY <1>3 DEF Holders, HasPlace, Moving
  <2> QED
    BY <1>3, <2>1, NoNewPlace
<1>4. ASSUME NEW r \in Requests, NEW route \in Routes, Arrive(r, route)
      PROVE  kept' \in [Gates -> [Times -> Nat]] /\ PlacesInv'
  <2>1. UNCHANGED kept /\ req' = [req EXCEPT ![r] = [NoReq EXCEPT !.pc = "next", !.route = route]]
    BY <1>4 DEF Arrive, history
  <2>2. [NoReq EXCEPT !.pc = "next", !.route = route].i = 1
    BY DEF NoReq
  <2>3. \A q \in Requests : req'[q] = req[q] \/ req'[q].i = 1
    BY <1>0, <2>1, <2>2
  <2> QED
    BY <1>3, <2>1, <2>3
<1>5. ASSUME NEW r \in Requests, Check(r)
      PROVE  kept' \in [Gates -> [Times -> Nat]] /\ PlacesInv'
    BY <1>1, <1>2, <1>5 DEF Check, Moving, history
<1>6. ASSUME NEW r \in Requests, Allow(r)
      PROVE  kept' \in [Gates -> [Times -> Nat]] /\ PlacesInv'
  <2>1. Moving(r) /\ Stage(r) \in Gates
    BY <1>6 DEF Allow, Moving
  <2>2. CASE req' = [req EXCEPT ![r].pc = "send", ![r].at = now] /\ UNCHANGED kept
    <3>1. \A g \in Gates, y \in Times : Holders(g, y)' \subseteq Holders(g, y)
      <4>1. /\ req'[r].route = req[r].route /\ req'[r].i = req[r].i /\ req'[r].seen = req[r].seen
            /\ \A q \in Requests \ {r} : req'[q] = req[q]
        BY <1>0, <2>2 DEF Req
      <4> QED
        BY <2>1, <4>1 DEF Holders, HasPlace, Moving
    <3> QED
      BY <2>2, <3>1, NoNewPlace
  <2>3. CASE Advance(r, NoWindow) /\ UNCHANGED kept
    BY <1>1, <2>1, <2>3
  <2>4. CASE /\ Advance(r, WindowOf(Stage(r), now))
             /\ kept' = Bump(kept, Stage(r), WindowOf(Stage(r), now))
    BY <1>1, <2>1, <2>4, NowWindow
  <2> QED
    BY <1>6, <2>2, <2>3, <2>4 DEF Allow
<1>7. ASSUME NEW r \in Requests, Counted(r) \/ Uncounted(r)
      PROVE  kept' \in [Gates -> [Times -> Nat]] /\ PlacesInv'
  <2>1. Moving(r) /\ Stage(r) \in Gates /\ WindowOf(Stage(r), req[r].at) \in Times
    BY <1>7, Arriving DEF Counted, Uncounted, Moving
  <2>2. \/ /\ Advance(r, WindowOf(Stage(r), req[r].at))
           /\ kept' = Bump(kept, Stage(r), WindowOf(Stage(r), req[r].at))
        \/ Answer(r, "limited") /\ kept' = Undo(r)
    BY <1>7 DEF Counted, Uncounted
  <2>3. CASE Answer(r, "limited") /\ kept' = Undo(r)
    BY <2>1, <2>3, PlacesGivenBack
  <2>4. CASE /\ Advance(r, WindowOf(Stage(r), req[r].at))
             /\ kept' = Bump(kept, Stage(r), WindowOf(Stage(r), req[r].at))
    BY <1>1, <2>1, <2>4
  <2> QED
    BY <2>2, <2>3, <2>4
<1>8. CASE Tick \/ WipeRedis \/ UNCHANGED vars
    BY <1>3, <1>8 DEF Tick, WipeRedis, vars, history
<1>9. ASSUME NEW p \in Processes, Restart(p)
      PROVE  kept' \in [Gates -> [Times -> Nat]] /\ PlacesInv'
  <2>1. NoReq.i = 1
    BY DEF NoReq
  <2> QED
    BY <1>3, <1>9, <2>1 DEF Restart, history
<1> QED
    BY <1>4, <1>5, <1>6, <1>7, <1>8, <1>9 DEF Next, RequestStep

-----------------------------------------------------------------------------
(* The invariant.                                                          *)

LEMMA LimitInvInit == Init => LimitInv
<1> SUFFICES ASSUME Init PROVE LimitInv
    OBVIOUS
<1>1. NoReq \in Req /\ NoReq.pc = "idle"
    BY NoReqIs DEF NoReq
<1>2. \A r \in Requests : RequestOK(r) /\ ~Moving(r)
    BY <1>1 DEF Init, RequestOK, Moving
<1>3. Zero \in [Gates -> [Times -> Nat \cup {Never}]]
    BY ZeroIs
<1>4. 0 \in Times /\ 0 \in 0..MaxArrivals
    BY LimitConstants DEF Times
<1>5. TypeOK
    BY <1>1, <1>3, <1>4, ZeroIs DEF Init, TypeOK
<1>6. PlacesInv
  <2>1. \A g \in Gates, w \in Times : Holders(g, w) = {}
    BY <1>2 DEF Holders, HasPlace
  <2>2. \A g \in Gates, w \in Times : Cardinality(Holders(g, w)) = 0
    BY <2>1, FS_EmptySet
  <2>3. \A g \in Gates, w \in Times : kept[g][w] = 0
    BY ZeroIs DEF Init
  <2> QED
    BY <2>2, <2>3 DEF PlacesInv
<1>7. CounterInv /\ WindowBound
    BY ZeroIs, LimitConstants DEF Init, CounterInv, WindowBound, Covers
<1> QED
    BY <1>2, <1>5, <1>6, <1>7 DEF LimitInv

LEMMA ClockStep ==
    ASSUME [Next]_vars
    PROVE  \/ UNCHANGED <<now, arrivals>>
           \/ now < MaxTime /\ now' = now + 1 /\ UNCHANGED arrivals
           \/ arrivals < MaxArrivals /\ arrivals' = arrivals + 1 /\ UNCHANGED now
BY DEF Next, RequestStep, Arrive, Check, Allow, Counted, Uncounted, Tick, WipeRedis, Restart, vars

LEMMA LimitInvStep ==
    ASSUME LimitInv, [Next]_vars
    PROVE  LimitInv'
<1>1. /\ TablesOK' /\ kept' \in [Gates -> [Times -> Nat]] /\ PlacesInv'
      /\ req' \in [Requests -> Req] /\ \A r \in Requests : RequestOK(r)'
    BY TablesStep, PlacesStep, RequestsStep
<1>2. /\ now \in Nat /\ now <= MaxTime /\ arrivals \in Nat /\ arrivals <= MaxArrivals
      /\ enabled \in [Processes -> BOOLEAN] /\ MaxTime \in Nat /\ MaxArrivals \in Nat
    BY LimitConstants DEF LimitInv, TypeOK, Times
<1>3. \/ UNCHANGED <<now, arrivals>>
      \/ now < MaxTime /\ now' = now + 1 /\ UNCHANGED arrivals
      \/ arrivals < MaxArrivals /\ arrivals' = arrivals + 1 /\ UNCHANGED now
    BY ClockStep
<1>4. now' \in Times /\ arrivals' \in 0..MaxArrivals
    BY <1>2, <1>3 DEF Times
<1>5. enabled' \in [Processes -> BOOLEAN]
  <2>1. enabled' = enabled \/ \E p \in Processes, up \in BOOLEAN : enabled' = [enabled EXCEPT ![p] = up]
    BY DEF Next, RequestStep, Arrive, Check, Allow, Counted, Uncounted, Tick, WipeRedis, Restart, vars
  <2> QED
    BY <1>2, <2>1
<1>6. TypeOK'
    BY <1>1, <1>4, <1>5 DEF TypeOK, TablesOK
<1> QED
    BY <1>1, <1>6 DEF LimitInv, TablesOK

LEMMA LimitInvariance == Spec => []LimitInv
BY LimitInvInit, LimitInvStep, PTL DEF Spec

\* The clock, the counters, the requests and the history always have their
\* types; a counter exists exactly as long as it has time to live, and nobody
\* gives back a place that was not taken.
THEOREM LimitTypes == Spec => []TypeOK
<1>1. LimitInv => TypeOK
    BY DEF LimitInv
<1> QED
    BY <1>1, LimitInvariance, PTL

\* Whatever the windows, limits, failures of Redis and requests in flight, a
\* gate lets at most its limit through in a window, and at most its limit of
\* those that are counted after their window.
THEOREM LimitsHold == Spec => []WindowBound
<1>1. LimitInv => WindowBound
    BY DEF LimitInv
<1> QED
    BY <1>1, LimitInvariance, PTL

-----------------------------------------------------------------------------
(* The order of the gates.                                                 *)

\* The gates of each route, in order.
Behind(route, g, h) ==
    \E i, j \in 1..Len(Chain(route)) : i < j /\ Chain(route)[i] = g /\ Chain(route)[j] = h

LEMMA IngestOrder ==
    ASSUME NEW g \in Gates, NEW h \in Gates
    PROVE  Behind("ingest", g, h) <=>
              \/ g = "ingest-ip" /\ h \in {"org-hour", "org-day"}
              \/ g = "org-hour" /\ h = "org-day"
<1>1. PICK c : c = Chain("ingest") /\ c = <<"ingest-ip", "resolve", "org-hour", "org-day", "body">>
    BY DEF Chain
<1>2. Len(c) = 5 /\ c[1] = "ingest-ip" /\ c[2] = "resolve" /\ c[3] = "org-hour" /\ c[4] = "org-day"
      /\ c[5] = "body"
    BY <1>1
<1>3. \A i \in 1..5 : i = 1 \/ i = 2 \/ i = 3 \/ i = 4 \/ i = 5
    OBVIOUS
<1>4. Behind("ingest", g, h) <=> \E i, j \in 1..5 : i < j /\ c[i] = g /\ c[j] = h
    BY <1>1, <1>2 DEF Behind
<1>5. g \notin {"resolve", "body"} /\ h \notin {"resolve", "body"}
    BY DEF Gates
<1>6. ASSUME Behind("ingest", g, h)
      PROVE  \/ g = "ingest-ip" /\ h \in {"org-hour", "org-day"}
             \/ g = "org-hour" /\ h = "org-day"
    BY <1>2, <1>3, <1>4, <1>5, <1>6
<1>7. 1 \in 1..5 /\ 3 \in 1..5 /\ 4 \in 1..5 /\ 1 < 3 /\ 1 < 4 /\ 3 < 4
    OBVIOUS
<1> QED
    BY <1>2, <1>4, <1>6, <1>7

LEMMA AuthOrder ==
    ASSUME NEW g \in Gates, NEW h \in Gates
    PROVE  ~Behind("auth", g, h)
<1>1. PICK c : c = Chain("auth") /\ c = <<"auth-ip", "body">>
    BY DEF Chain
<1>2. Len(c) = 2 /\ c[2] = "body"
    BY <1>1
<1>3. \A i, j \in 1..2 : i < j => j = 2
    OBVIOUS
<1> QED
    BY <1>1, <1>2, <1>3 DEF Behind, Gates

LEMMA ApiOrder ==
    ASSUME NEW g \in Gates, NEW h \in Gates
    PROVE  Behind("api", g, h) <=> g = "api-user" /\ h = "api-ip"
<1>1. PICK c : c = Chain("api") /\ c = <<"jwt", "api-user", "api-ip", "body">>
    BY DEF Chain
<1>2. Len(c) = 4 /\ c[1] = "jwt" /\ c[2] = "api-user" /\ c[3] = "api-ip" /\ c[4] = "body"
    BY <1>1
<1>3. \A i \in 1..4 : i = 1 \/ i = 2 \/ i = 3 \/ i = 4
    OBVIOUS
<1>4. Behind("api", g, h) <=> \E i, j \in 1..4 : i < j /\ c[i] = g /\ c[j] = h
    BY <1>1, <1>2 DEF Behind
<1>5. g \notin {"jwt", "body"} /\ h \notin {"jwt", "body"}
    BY DEF Gates
<1>6. ASSUME Behind("api", g, h)
      PROVE  g = "api-user" /\ h = "api-ip"
    BY <1>2, <1>3, <1>4, <1>5, <1>6
<1>7. 2 \in 1..4 /\ 3 \in 1..4 /\ 2 < 3
    OBVIOUS
<1> QED
    BY <1>2, <1>4, <1>6, <1>7

LEMMA AiOrder ==
    ASSUME NEW g \in Gates, NEW h \in Gates
    PROVE  Behind("ai", g, h) <=>
              \/ g = "api-user" /\ h \in {"api-ip", "ai-org-day"}
              \/ g = "api-ip" /\ h = "ai-org-day"
<1>1. PICK c : /\ c = Chain("ai")
               /\ c = <<"jwt", "api-user", "api-ip", "member", "ai-org-day", "body">>
    BY DEF Chain
<1>2. Len(c) = 6 /\ c[1] = "jwt" /\ c[2] = "api-user" /\ c[3] = "api-ip" /\ c[4] = "member"
      /\ c[5] = "ai-org-day" /\ c[6] = "body"
    BY <1>1
<1>3. \A i \in 1..6 : i = 1 \/ i = 2 \/ i = 3 \/ i = 4 \/ i = 5 \/ i = 6
    OBVIOUS
<1>4. Behind("ai", g, h) <=> \E i, j \in 1..6 : i < j /\ c[i] = g /\ c[j] = h
    BY <1>1, <1>2 DEF Behind
<1>5. g \notin {"jwt", "member", "body"} /\ h \notin {"jwt", "member", "body"}
    BY DEF Gates
<1>6. ASSUME Behind("ai", g, h)
      PROVE  \/ g = "api-user" /\ h \in {"api-ip", "ai-org-day"}
             \/ g = "api-ip" /\ h = "ai-org-day"
    BY <1>2, <1>3, <1>4, <1>5, <1>6
<1>7. 2 \in 1..6 /\ 3 \in 1..6 /\ 5 \in 1..6 /\ 2 < 3 /\ 2 < 5 /\ 3 < 5
    OBVIOUS
<1> QED
    BY <1>2, <1>4, <1>6, <1>7

LEMMA LaterIs ==
    ASSUME NEW g \in Gates, NEW h \in Gates
    PROVE  h \in Later(g) <=>
              \/ /\ "ingest" \in Routes
                 /\ \/ g = "ingest-ip" /\ h \in {"org-hour", "org-day"}
                    \/ g = "org-hour" /\ h = "org-day"
              \/ ("api" \in Routes \/ "ai" \in Routes) /\ g = "api-user" /\ h = "api-ip"
              \/ "ai" \in Routes /\ g \in {"api-user", "api-ip"} /\ h = "ai-org-day"
<1>1. h \in Later(g) <=> \E route \in Routes : Behind(route, g, h)
    BY DEF Later, Behind
<1>2. \A route \in Routes : route \in {"ingest", "auth", "api", "ai"}
    BY LimitConstants
<1> QED
    BY <1>1, <1>2, IngestOrder, AuthOrder, ApiOrder, AiOrder

\* The gates are ordered the same way on every route.
LEMMA LaterOrder ==
    ASSUME NEW g \in Gates, NEW h \in Later(g)
    PROVE  /\ h \in Gates /\ h # g /\ g \notin Later(h)
           /\ \A k \in Later(h) : k \in Later(g)
<1>1. h \in Gates /\ \A k \in Later(h) : k \in Gates
    BY DEF Later
<1>2. h # g /\ g \notin Later(h)
    BY <1>1, LaterIs
<1>3. ASSUME NEW k \in Later(h)
      PROVE  k \in Later(g)
    BY <1>1, LaterIs
<1> QED
    BY <1>1, <1>2, <1>3

-----------------------------------------------------------------------------
(* Windows within windows.                                                 *)

\* Window k has begun by t.
LEMMA Begun ==
    ASSUME NEW n \in Nat \ {0}, NEW k \in Nat, NEW t \in Nat
    PROVE  t \div n \in Nat /\ (k <= t \div n <=> k * n <= t)
<1>1. PICK q \in Nat, m \in 0..(n - 1) : q = t \div n /\ t = n * q + m
    BY Division
<1>2. CASE k <= q
  <2>1. PICK d \in Nat : q = k + d
    <3>1. q - k \in Nat /\ q = k + (q - k)
      BY <1>2
    <3> QED
      BY <3>1
  <2>2. n * q = k * n + n * d /\ n * d \in Nat /\ k * n \in Nat
    BY <2>1
  <2> QED
    BY <1>1, <1>2, <2>2
<1>3. CASE ~(k <= q)
  <2>1. PICK d \in Nat : k = q + 1 + d
    <3>1. k - q - 1 \in Nat /\ k = q + 1 + (k - q - 1)
      BY <1>3
    <3> QED
      BY <3>1
  <2>2. k * n = n * q + n + n * d /\ n * d \in Nat /\ n * q \in Nat
    BY <2>1
  <2> QED
    BY <1>1, <1>3, <2>2
<1> QED
    BY <1>1, <1>2, <1>3

LEMMA BegunWindow ==
    ASSUME NEW g \in Gates, NEW k \in Nat, NEW t \in Nat
    PROVE  /\ WindowOf(g, t) \in Nat /\ k * Window[g] \in Nat
           /\ k <= WindowOf(g, t) <=> k * Window[g] <= t
<1>1. PICK n \in Nat \ {0} : n = Window[g]
    BY LimitConstants
<1>2. k * n \in Nat
    OBVIOUS
<1> QED
    BY <1>1, <1>2, Begun DEF WindowOf

\* Windows follow each other.
LEMMA Following ==
    ASSUME NEW g \in Gates, NEW t \in Nat, NEW u \in Nat, t <= u
    PROVE  WindowOf(g, t) <= WindowOf(g, u)
<1>1. PICK k \in Nat : k = WindowOf(g, t)
    BY BegunWindow
<1>2. k * Window[g] \in Nat /\ k * Window[g] <= t
    BY <1>1, BegunWindow
<1>3. k * Window[g] <= u
    BY <1>2
<1> QED
    BY <1>1, <1>3, BegunWindow

\* The windows of a later gate consist of windows of the earlier one.
LEMMA Ratio ==
    ASSUME NEW g \in Gates, NEW h \in Later(g)
    PROVE  \E k \in Nat \ {0} : Window[h] = Window[g] * k
<1>1. ASSUME NEW m \in Nat \ {0}, NEW n \in Nat \ {0}, n % m = 0
      PROVE  \E k \in Nat \ {0} : n = m * k
  <2>1. PICK k \in Nat, l \in 0..(m - 1) : l = n % m /\ n = m * k + l
    BY Division
  <2>2. n = m * k
    BY <1>1, <2>1
  <2>3. k # 0
    BY <2>2
  <2> QED
    BY <2>2, <2>3
<1>2. ASSUME NEW a \in Gates, NEW b \in Gates, Window[b] % Window[a] = 0
      PROVE  \E k \in Nat \ {0} : Window[b] = Window[a] * k
  <2>1. PICK m \in Nat \ {0}, n \in Nat \ {0} : m = Window[a] /\ n = Window[b]
    BY LimitConstants
  <2>2. n % m = 0
    BY <1>2, <2>1
  <2>3. \E k \in Nat \ {0} : n = m * k
    BY <1>1, <2>2
  <2> QED
    BY <2>1, <2>3
<1>3. ASSUME NEW a \in Gates, NEW b \in Gates, NEW c \in Gates,
             Window[b] % Window[a] = 0, Window[c] % Window[b] = 0
      PROVE  \E k \in Nat \ {0} : Window[c] = Window[a] * k
  <2>1. PICK w \in Nat \ {0}, x \in Nat \ {0} : w = Window[a] /\ x = Window[b]
    BY LimitConstants
  <2>2. PICK k \in Nat \ {0} : x = w * k
    BY <1>2, <1>3, <2>1
  <2>3. PICK l \in Nat \ {0} : Window[c] = x * l
    BY <1>2, <1>3, <2>1
  <2>4. PICK m \in Nat : m = k * l
    OBVIOUS
  <2>5. m # 0
    BY <2>4
  <2>6. x * l = w * m
    BY <2>2, <2>4
  <2> QED
    BY <2>1, <2>3, <2>5, <2>6
<1>4. h \in Gates
    BY DEF Later
<1>5. /\ Window["org-hour"] % Window["ingest-ip"] = 0 /\ Window["org-day"] % Window["org-hour"] = 0
      /\ Window["api-ip"] % Window["api-user"] = 0 /\ Window["ai-org-day"] % Window["api-ip"] = 0
    BY LimitConstants
<1>6. /\ "ingest-ip" \in Gates /\ "org-hour" \in Gates /\ "org-day" \in Gates
      /\ "api-user" \in Gates /\ "api-ip" \in Gates /\ "ai-org-day" \in Gates
    BY DEF Gates
<1>7. CASE <<g, h>> \in {<<"ingest-ip", "org-hour">>, <<"org-hour", "org-day">>,
                         <<"api-user", "api-ip">>, <<"api-ip", "ai-org-day">>}
    BY <1>2, <1>5, <1>6, <1>7
<1>8. CASE g = "ingest-ip" /\ h = "org-day"
    BY <1>3, <1>5, <1>6, <1>8
<1>9. CASE g = "api-user" /\ h = "ai-org-day"
    BY <1>3, <1>5, <1>6, <1>9
<1> QED
    BY <1>4, <1>7, <1>8, <1>9, LaterIs

LEMMA Nested ==
    ASSUME NEW g \in Gates, NEW h \in Later(g), NEW t \in Nat, NEW s \in Nat,
           s = WindowOf(g, t) * Window[g]
    PROVE  WindowOf(h, s) = WindowOf(h, t)
<1>1. h \in Gates
    BY DEF Later
<1>2. PICK n \in Nat \ {0}, k \in Nat \ {0} : n = Window[g] /\ Window[h] = n * k
    BY Ratio, LimitConstants
<1>3. PICK a \in Nat, b \in Nat, q \in Nat :
          a = WindowOf(h, s) /\ b = WindowOf(h, t) /\ q = WindowOf(g, t)
    BY <1>1, BegunWindow
<1>4. s = q * n
    BY <1>2, <1>3
<1>5. s <= t
    BY <1>2, <1>3, <1>4, BegunWindow
<1>6. a <= b
    BY <1>1, <1>3, <1>5, Following
<1>7. b <= a
  <2>1. PICK m \in Nat : m = b * k
    OBVIOUS
  <2>2. b * (n * k) = m * n
    BY <2>1
  <2>3. m * n <= t
    <3>1. b * Window[h] <= t
      BY <1>1, <1>3, BegunWindow
    <3> QED
      BY <1>2, <2>2, <3>1
  <2>4. m <= q
    BY <1>2, <1>3, <2>3, BegunWindow
  <2>5. m * n <= q * n
    <3>1. PICK d \in Nat : q = m + d
      <4>1. q - m \in Nat /\ q = m + (q - m)
        BY <2>4
      <4> QED
        BY <4>1
    <3>2. q * n = m * n + d * n /\ d * n \in Nat /\ m * n \in Nat
      BY <3>1
    <3> QED
      BY <3>2
  <2>6. b * Window[h] <= s
    BY <1>2, <1>4, <2>2, <2>5
  <2> QED
    BY <1>1, <1>3, <2>6, BegunWindow
<1> QED
    BY <1>3, <1>6, <1>7

-----------------------------------------------------------------------------
(* Refusals.                                                               *)

\* The time of the last place that r holds or may be about to take.
Clock(r) == IF req[r].pc = "send" THEN req[r].at ELSE now

\* Nobody has a place in a window to come.
PastInv ==
    /\ \A g \in Gates, w \in Times : kept[g][w] > 0 => w <= WindowOf(g, now)
    /\ \A g \in Gates, w \in Times, r \in Requests :
          HasPlace(r, g, w) => w <= WindowOf(g, Clock(r))

\* A later gate is exhausted, in a window that is not over when w begins.
Blocked(g, w) ==
    \E h \in Later(g), v \in Times : Exhausted(h, v) /\ WindowOf(h, w * Window[g]) <= v

\* What was counted was kept, unless there is nothing left to be had.
Settled(g, w) == count[g][w] <= kept[g][w] \/ Exhausted(g, w) \/ Blocked(g, w)

EarnedInv == LimitInv /\ PastInv /\ \A g \in Gates, w \in Times : Settled(g, w)

\* No place is given back, and what is counted is kept, now.
Growing ==
    \A g \in Gates, w \in Times :
        /\ kept[g][w] <= kept'[g][w] /\ count'[g][w] + kept[g][w] <= kept'[g][w] + count[g][w]
        /\ kept'[g][w] # kept[g][w] => w <= WindowOf(g, now)

Refused(r) ==
    /\ req[r].pc = "send" /\ Answer(r, "limited") /\ kept' = Undo(r) /\ UNCHANGED now
    /\ count' = Bump(count, Stage(r), WindowOf(Stage(r), req[r].at))
    /\ count'[Stage(r)][WindowOf(Stage(r), req[r].at)] > Limit[Stage(r)]

LEMMA KeptBumped ==
    ASSUME LimitInv, NEW g \in Gates, NEW w \in Times, w <= WindowOf(g, now),
           kept' = Bump(kept, g, w), count' = Bump(count, g, w) \/ UNCHANGED count
    PROVE  Growing
<1>0. count \in [Gates -> [Times -> Nat]] /\ kept \in [Gates -> [Times -> Nat]]
    BY DEF LimitInv, TypeOK
<1>1. /\ kept'[g][w] = kept[g][w] + 1
      /\ \A h \in Gates, v \in Times : h # g \/ v # w => kept'[h][v] = kept[h][v]
  <2>1. PICK f \in [Gates -> [Times -> Nat]] : f = kept
    BY <1>0
  <2> QED
    BY <2>1, Bumped
<1>2. /\ count'[g][w] \in {count[g][w], count[g][w] + 1}
      /\ \A h \in Gates, v \in Times : h # g \/ v # w => count'[h][v] = count[h][v]
  <2>1. PICK f \in [Gates -> [Times -> Nat]] : f = count
    BY <1>0
  <2> QED
    BY <2>1, Bumped
<1>3. \A h \in Gates, v \in Times : count[h][v] \in Nat /\ kept[h][v] \in Nat
    BY <1>0
<1> QED
    BY <1>1, <1>2, <1>3 DEF Growing

LEMMA KeptSame ==
    ASSUME LimitInv, UNCHANGED kept,
           \A g \in Gates, w \in Times : count'[g][w] \in {0, count[g][w]}
    PROVE  Growing
<1>1. \A h \in Gates, v \in Times : count[h][v] \in Nat /\ kept[h][v] \in Nat
    BY DEF LimitInv, TypeOK
<1> QED
    BY <1>1 DEF Growing

LEMMA KeptStep ==
    ASSUME LimitInv, [Next]_vars
    PROVE  Growing \/ \E r \in Requests : Refused(r)
<1>1. ASSUME NEW r \in Requests, Counted(r) \/ Uncounted(r)
      PROVE  Growing \/ Refused(r)
  <2> DEFINE g == Stage(r)
             w == WindowOf(g, req[r].at)
  <2>1. /\ req[r].pc = "send" /\ UNCHANGED now
        /\ count' = Bump(count, g, KeyWindow(g, req[r].at)) \/ UNCHANGED count
        /\ \/ kept' = Bump(kept, g, w)
           \/ /\ count' = Bump(count, g, KeyWindow(g, req[r].at)) /\ Answer(r, "limited")
              /\ kept' = Undo(r) /\ count'[g][KeyWindow(g, req[r].at)] > Limit[g]
    BY <1>1 DEF Counted, Uncounted
  <2>2. /\ g \in Gates /\ w \in Times /\ KeyWindow(g, req[r].at) = w
        /\ WindowOf(g, now) = w \/ WindowOf(g, now) = w + 1
    BY <2>1, Arriving
  <2>3. w <= WindowOf(g, now)
    BY <2>2 DEF Times
  <2>4. CASE kept' = Bump(kept, g, w)
    BY <2>1, <2>2, <2>3, <2>4, KeptBumped
  <2> QED
    BY <2>1, <2>2, <2>4 DEF Refused
<1>2. ASSUME NEW r \in Requests, Allow(r)
      PROVE  Growing
  <2>1. Stage(r) \in Gates /\ UNCHANGED count
    BY <1>2 DEF Allow, redisVars
  <2>2. CASE kept' = Bump(kept, Stage(r), WindowOf(Stage(r), now))
    <3>1. WindowOf(Stage(r), now) \in Times /\ WindowOf(Stage(r), now) <= WindowOf(Stage(r), now)
      BY <2>1, NowWindow DEF Times
    <3> QED
      BY <2>1, <2>2, <3>1, KeptBumped
  <2>3. CASE UNCHANGED kept
    BY <2>1, <2>3, KeptSame
  <2> QED
    BY <1>2, <2>2, <2>3 DEF Allow
<1>3. CASE Tick
  <2>1. UNCHANGED kept /\ \A g \in Gates, w \in Times : count'[g][w] \in {0, count[g][w]}
    BY <1>3 DEF Tick, history
  <2> QED
    BY <2>1, KeptSame
<1>4. CASE WipeRedis
  <2>1. UNCHANGED kept /\ \A g \in Gates, w \in Times : count'[g][w] = 0
    BY <1>4, ZeroIs DEF WipeRedis
  <2> QED
    BY <2>1, KeptSame
<1>5. CASE UNCHANGED <<count, kept>>
    BY <1>5, KeptSame
<1>6. ASSUME \/ \E r \in Requests : Check(r) \/ \E route \in Routes : Arrive(r, route)
             \/ UNCHANGED vars \/ \E p \in Processes : Restart(p)
      PROVE  UNCHANGED <<count, kept>>
  <2>1. ASSUME NEW r \in Requests, NEW route \in Routes, Arrive(r, route)
        PROVE  UNCHANGED <<count, kept>>
    BY <2>1 DEF Arrive, redisVars, history
  <2>2. ASSUME NEW r \in Requests, Check(r)
        PROVE  UNCHANGED <<count, kept>>
    BY <2>2 DEF Check, redisVars, history
  <2>3. ASSUME NEW p \in Processes, Restart(p)
        PROVE  UNCHANGED <<count, kept>>
    BY <2>3 DEF Restart, redisVars, history
  <2>4. CASE UNCHANGED vars
    BY <2>4 DEF vars, redisVars, history
  <2> QED
    BY <1>6, <2>1, <2>2, <2>3, <2>4
<1> QED
    BY <1>1, <1>2, <1>3, <1>4, <1>5, <1>6 DEF Next, RequestStep

\* A step that takes no place away leaves every window settled.
LEMMA SettledGrows ==
    ASSUME EarnedInv, kept' \in [Gates -> [Times -> Nat]], count' \in [Gates -> [Times -> Nat]],
           Growing, NEW g \in Gates, NEW w \in Times
    PROVE  Settled(g, w)'
<1>0. \A h \in Gates, v \in Times : /\ kept[h][v] \in Nat /\ kept'[h][v] \in Nat
                                    /\ kept[h][v] <= kept'[h][v] /\ Limit[h] \in Nat
    BY LimitConstants DEF EarnedInv, LimitInv, TypeOK, Growing
<1>1. \A h \in Gates, v \in Times : Exhausted(h, v) => Exhausted(h, v)'
    BY <1>0 DEF Exhausted
<1>2. CASE count[g][w] <= kept[g][w]
  <2>1. /\ count[g][w] \in Nat /\ count'[g][w] \in Nat
        /\ count'[g][w] + kept[g][w] <= kept'[g][w] + count[g][w]
    BY DEF EarnedInv, LimitInv, TypeOK, Growing
  <2> QED
    BY <1>0, <1>2, <2>1 DEF Settled
<1>3. CASE Exhausted(g, w)
    BY <1>1, <1>3 DEF Settled
<1>4. CASE Blocked(g, w)
  <2>1. Later(g) \subseteq Gates
    BY DEF Later
  <2> QED
    BY <1>1, <1>4, <2>1 DEF Settled, Blocked
<1> QED
    BY <1>2, <1>3, <1>4 DEF EarnedInv, Settled

\* The gates that a request has passed come before the one it is at.
LEMMA PassedBefore ==
    ASSUME LimitInv, NEW r \in Requests, req[r].pc = "send", NEW g \in Gates, NEW w \in Times,
           HasPlace(r, g, w)
    PROVE  Stage(r) \in Later(g)
<1>1. /\ req[r].route \in Routes /\ req[r].i \in 1..Len(Chain(req[r].route)) /\ Stage(r) \in Gates
    BY DEF LimitInv, RequestOK, Moving
<1>2. PICK j \in 1..(req[r].i - 1) : Chain(req[r].route)[j] = g
    BY DEF HasPlace
<1>3. Len(Chain(req[r].route)) \in 1..6
    BY <1>1, Chains
<1>4. j \in 1..Len(Chain(req[r].route)) /\ j < req[r].i
    BY <1>1, <1>2, <1>3
<1> QED
    BY <1>1, <1>2, <1>4 DEF Later, Stage

\* The counter that refuses r: the limit is spent at its gate or at a later one.
LEMMA Spent ==
    ASSUME EarnedInv, NEW r \in Requests, Refused(r)
    PROVE  \E h \in {Stage(r)} \cup Later(Stage(r)), v \in Times :
               /\ Exhausted(h, v) /\ WindowOf(h, req[r].at) <= v
               /\ h = Stage(r) => v = WindowOf(h, req[r].at)
<1> DEFINE g == Stage(r)
           w == WindowOf(g, req[r].at)
<1>0. req[r].pc = "send" /\ LimitInv
    BY DEF Refused, EarnedInv
<1>1. /\ g \in Gates /\ Limit[g] > 0 /\ Limit[g] \in Nat /\ w \in Times /\ req[r].at \in Nat
    BY <1>0, Arriving, LimitConstants DEF Times
<1>2. count[g][w] >= Limit[g] /\ count[g][w] \in Nat /\ kept[g][w] \in Nat
  <2>1. PICK f \in [Gates -> [Times -> Nat]] : f = count
    BY <1>0 DEF LimitInv, TypeOK
  <2>2. count'[g][w] = f[g][w] + 1 /\ count'[g][w] > Limit[g] /\ f[g][w] \in Nat
    BY <1>1, <2>1, Bumped DEF Refused
  <2> QED
    BY <1>0, <1>1, <2>1, <2>2 DEF LimitInv, TypeOK
<1>3. CASE count[g][w] <= kept[g][w] \/ Exhausted(g, w)
  <2>1. Exhausted(g, w)
    BY <1>1, <1>2, <1>3 DEF Exhausted
  <2>2. w <= w
    BY <1>1 DEF Times
  <2> QED
    BY <1>1, <2>1, <2>2
<1>4. CASE Blocked(g, w)
  <2>1. PICK h \in Later(g), v \in Times : Exhausted(h, v) /\ WindowOf(h, w * Window[g]) <= v
    BY <1>4 DEF Blocked
  <2>2. PICK s \in Nat : s = w * Window[g]
    BY <1>1, BegunWindow DEF Times
  <2>3. WindowOf(h, s) = WindowOf(h, req[r].at)
    BY <1>1, <2>2, Nested
  <2>4. h # g
    BY <1>1, LaterOrder
  <2> QED
    BY <2>1, <2>2, <2>3, <2>4
<1> QED
    BY <1>1, <1>3, <1>4 DEF EarnedInv, Settled

\* What a refusal gives back is lost for good: the gate that refused, or one
\* behind it, is exhausted, and blocks all that the places given back did.
LEMMA SettledRefused ==
    ASSUME EarnedInv, kept' \in [Gates -> [Times -> Nat]], NEW r \in Requests, Refused(r),
           NEW g \in Gates, NEW w \in Times
    PROVE  Settled(g, w)'
<1>0. /\ req[r].pc = "send" /\ LimitInv /\ PastInv
      /\ \A h \in Gates, v \in Times : kept[h][v] \in Nat /\ count[h][v] \in Nat /\ v \in Nat
  <2>1. req[r].pc = "send" /\ LimitInv /\ PastInv
    BY DEF Refused, EarnedInv
  <2>2. \A h \in Gates, v \in Times : kept[h][v] \in Nat /\ count[h][v] \in Nat
    BY <2>1 DEF LimitInv, TypeOK
  <2>3. \A v \in Times : v \in Nat
    BY LimitConstants DEF Times
  <2> QED
    BY <2>1, <2>2, <2>3
<1>1. PICK t \in Nat, s \in Gates : t = req[r].at /\ s = Stage(r) /\ WindowOf(s, t) \in Times
    BY <1>0, Arriving DEF Times
<1>2. PICK h \in {s} \cup Later(s), v \in Times :
          Exhausted(h, v) /\ WindowOf(h, t) <= v /\ (h = s => v = WindowOf(s, t))
    BY <1>1, Spent
<1>3. h \in Gates /\ v \in Nat
    BY <1>0, <1>1, <1>2 DEF Later
\* The places of r, and no others, are given back.
<1>4. ASSUME NEW x \in Gates, NEW y \in Times, ~HasPlace(r, x, y)
      PROVE  kept'[x][y] = kept[x][y]
  <2>1. {j \in 1..(req[r].i - 1) : Chain(req[r].route)[j] = x /\ req[r].seen[j] = y} = {}
    BY <1>0, <1>4 DEF HasPlace, Moving
  <2>2. kept'[x][y] = kept[x][y] - 0
    BY <2>1, FS_EmptySet DEF Refused, Undo
  <2> QED
    BY <1>0, <2>2
<1>5. ASSUME NEW x \in Gates, NEW y \in Times, HasPlace(r, x, y)
      PROVE  s \in Later(x) /\ h \in Later(x) /\ x # h /\ y <= WindowOf(x, t)
  <2>1. s \in Later(x)
    BY <1>0, <1>1, <1>5, PassedBefore
  <2>2. h \in Later(x) /\ x # h
    BY <1>2, <2>1, LaterOrder
  <2>3. Clock(r) = t
    BY <1>0, <1>1 DEF Clock
  <2> QED
    BY <1>0, <1>5, <2>1, <2>2, <2>3 DEF PastInv
<1>6. Exhausted(h, v)'
  <2>1. ~HasPlace(r, h, v)
    BY <1>3, <1>5
  <2> QED
    BY <1>2, <1>3, <1>4, <2>1 DEF Exhausted
\* A window of an earlier gate that has begun by now is blocked by h.
<1>7. ASSUME NEW x \in Gates, h \in Later(x), NEW u \in Nat, WindowOf(x, u) <= WindowOf(x, t)
      PROVE  WindowOf(h, u) <= v
  <2>1. PICK a \in Nat, b \in Nat : a = WindowOf(x, u) * Window[x] /\ b = WindowOf(x, t) * Window[x]
    BY BegunWindow
  <2>2. a <= t
    <3>1. PICK k \in Nat : k = WindowOf(x, u)
      BY BegunWindow
    <3> QED
      BY <1>7, <2>1, <3>1, BegunWindow
  <2>3. WindowOf(h, a) <= WindowOf(h, t)
    BY <1>3, <2>2, Following
  <2>4. WindowOf(h, a) = WindowOf(h, u)
    BY <1>7, <2>1, Nested
  <2>5. WindowOf(h, t) \in Nat /\ WindowOf(h, u) \in Nat
    BY <1>3, BegunWindow
  <2> QED
    BY <1>2, <1>3, <2>3, <2>4, <2>5
<1>8. CASE HasPlace(r, g, w)
  <2>1. PICK u \in Nat : u = w * Window[g]
    BY <1>0, BegunWindow
  <2>2. u <= t
    BY <1>0, <1>5, <1>8, <2>1, BegunWindow
  <2>3. WindowOf(g, u) <= WindowOf(g, t)
    BY <2>2, Following
  <2>4. WindowOf(h, u) <= v
    BY <1>5, <1>7, <1>8, <2>3
  <2> QED
    BY <1>5, <1>6, <1>8, <2>1, <2>4 DEF Settled, Blocked
<1>9. CASE g = s /\ w = WindowOf(s, t)
  <2>1. CASE h = s
    BY <1>2, <1>6, <1>9, <2>1 DEF Settled
  <2>2. CASE h \in Later(s)
    <3>1. PICK u \in Nat : u = w * Window[g]
      BY <1>0, BegunWindow
    <3>2. WindowOf(h, u) = WindowOf(h, t)
      BY <1>9, <2>2, <3>1, Nested
    <3> QED
      BY <1>2, <1>6, <1>9, <2>2, <3>1, <3>2 DEF Settled, Blocked
  <2> QED
    BY <1>2, <2>1, <2>2
<1>10. CASE ~HasPlace(r, g, w) /\ ~(g = s /\ w = WindowOf(s, t))
  <2>1. count'[g][w] = count[g][w] /\ kept'[g][w] = kept[g][w]
    <3>1. PICK f \in [Gates -> [Times -> Nat]] : f = count
      BY <1>0 DEF LimitInv, TypeOK
    <3>2. count'[g][w] = f[g][w]
      BY <1>1, <1>10, <3>1, Bumped DEF Refused
    <3> QED
      BY <1>4, <1>10, <3>1, <3>2
  <2>2. CASE count[g][w] <= kept[g][w] \/ Exhausted(g, w)
    BY <2>1, <2>2 DEF Settled, Exhausted
  <2>3. CASE Blocked(g, w)
    <3>1. PICK h1 \in Later(g), v1 \in Times :
              Exhausted(h1, v1) /\ WindowOf(h1, w * Window[g]) <= v1
      BY <2>3 DEF Blocked
    <3>2. h1 \in Gates
      BY LaterOrder
    <3>3. CASE ~HasPlace(r, h1, v1)
      <4>1. Exhausted(h1, v1)'
        BY <1>4, <3>1, <3>2, <3>3 DEF Exhausted
      <4> QED
        BY <3>1, <4>1 DEF Settled, Blocked
    <3>4. CASE HasPlace(r, h1, v1)
      <4>1. PICK u \in Nat : u = w * Window[g]
        BY <1>0, BegunWindow
      <4>2. /\ h \in Later(h1) /\ h \in Later(g)
            /\ WindowOf(h1, u) <= v1 /\ v1 <= WindowOf(h1, t)
        BY <1>5, <3>1, <3>2, <3>4, <4>1, LaterOrder
      <4>3. WindowOf(h1, u) <= WindowOf(h1, t)
        <5>1. v1 \in Nat /\ WindowOf(h1, u) \in Nat /\ WindowOf(h1, t) \in Nat
          BY <1>0, <3>2, BegunWindow
        <5> QED
          BY <4>2, <5>1
      <4>4. WindowOf(h, u) <= v
        BY <1>7, <3>2, <4>2, <4>3
      <4> QED
        BY <1>6, <4>1, <4>2, <4>4 DEF Settled, Blocked
    <3> QED
      BY <3>3, <3>4
  <2> QED
    BY <2>2, <2>3 DEF EarnedInv, Settled
<1> QED
    BY <1>8, <1>9, <1>10

\* Who does not move keeps its places, and time does not run backwards.
LEMMA PastSame ==
    ASSUME LimitInv, PastInv, now' \in Nat, now <= now', NEW q \in Requests, req'[q] = req[q],
           NEW g \in Gates, NEW w \in Times, HasPlace(q, g, w)'
    PROVE  w <= WindowOf(g, Clock(q)')
<1>0. now \in Nat /\ req[q].at \in Nat /\ w \in Nat
    BY LimitConstants DEF LimitInv, TypeOK, Req, Times
<1>1. HasPlace(q, g, w)
    BY DEF HasPlace, Moving
<1>2. PICK t \in Nat, u \in Nat : t = Clock(q) /\ u = Clock(q)' /\ t <= u
    BY <1>0 DEF Clock
<1>3. w <= WindowOf(g, t) /\ WindowOf(g, t) <= WindowOf(g, u)
    BY <1>1, <1>2, Following DEF PastInv
<1>4. WindowOf(g, t) \in Nat /\ WindowOf(g, u) \in Nat
    BY BegunWindow
<1> QED
    BY <1>0, <1>2, <1>3, <1>4

\* Who answers has no places, who goes on has one more.
LEMMA PastAnswered ==
    ASSUME LimitInv, PastInv, UNCHANGED now, NEW r \in Requests,
           NEW how \in {"idle", "limited"}, Answer(r, how),
           NEW g \in Gates, NEW w \in Times, NEW q \in Requests, HasPlace(q, g, w)'
    PROVE  w <= WindowOf(g, Clock(q)')
<1>1. q # r /\ req'[q] = req[q]
    BY Answered DEF HasPlace, Moving
<1>2. now' \in Nat /\ now <= now'
    BY LimitConstants DEF LimitInv, TypeOK, Times
<1> QED
    BY <1>1, <1>2, PastSame

LEMMA PastAdvanced ==
    ASSUME LimitInv, PastInv, UNCHANGED now, NEW r \in Requests, Moving(r),
           NEW x \in Times \cup {NoWindow}, Advance(r, x),
           x \in Times => Stage(r) \in Gates /\ x <= WindowOf(Stage(r), now),
           NEW g \in Gates, NEW w \in Times, NEW q \in Requests, HasPlace(q, g, w)'
    PROVE  w <= WindowOf(g, Clock(q)')
<1>0. now \in Nat /\ w \in Nat
    BY LimitConstants DEF LimitInv, TypeOK, Times
<1>1. CASE q # r
  <2>1. req'[q] = req[q]
    BY <1>1, Advanced
  <2>2. now' \in Nat /\ now <= now'
    BY <1>0
  <2> QED
    BY <2>1, <2>2, PastSame
<1>2. CASE q = r
  <2>1. req'[r].pc = "next"
    BY <1>2, Advanced DEF HasPlace, Moving
  <2>2. Clock(q)' = now
    BY <1>2, <2>1 DEF Clock
  <2>3. HasPlace(r, g, w) \/ (g = Stage(r) /\ w = x)
    <3>1. Holders(g, w)' \subseteq Holders(g, w) \cup (IF g = Stage(r) /\ w = x THEN {r} ELSE {})
      BY PlacesAdvanced
    <3>2. r \in Holders(g, w)'
      BY <1>2 DEF Holders
    <3> QED
      BY <3>1, <3>2 DEF Holders
  <2>4. CASE HasPlace(r, g, w)
    <3>1. PICK t \in Nat : t = Clock(r) /\ t <= now
      BY <1>0 DEF LimitInv, TypeOK, RequestOK, Req, Times, Clock
    <3>2. w <= WindowOf(g, t) /\ WindowOf(g, t) <= WindowOf(g, now)
      BY <1>0, <2>4, <3>1, Following DEF PastInv
    <3>3. WindowOf(g, t) \in Nat /\ WindowOf(g, now) \in Nat
      BY <1>0, BegunWindow
    <3> QED
      BY <1>0, <2>2, <3>2, <3>3
  <2> QED
    BY <2>2, <2>3, <2>4
<1> QED
    BY <1>1, <1>2

\* Only a place that was taken is given back.
LEMMA UndoneLess ==
    ASSUME LimitInv, NEW r \in Requests, kept' = Undo(r), NEW g \in Gates, NEW w \in Times
    PROVE  kept'[g][w] <= kept[g][w]
<1> DEFINE J == {j \in 1..(req[r].i - 1) : Chain(req[r].route)[j] = g /\ req[r].seen[j] = w}
<1>1. kept'[g][w] = kept[g][w] - Cardinality(J)
    BY DEF Undo
<1>2. kept[g][w] \in Nat /\ req[r].i \in 1..6
    BY DEF LimitInv, TypeOK, Req
<1>3. Cardinality(J) \in Nat
  <2>1. PICK n \in Int : n = req[r].i - 1
    BY <1>2
  <2>2. IsFiniteSet(1..n)
    BY FS_Interval
  <2>3. IsFiniteSet(J)
    BY <2>1, <2>2, FS_Subset
  <2> QED
    BY <2>3, FS_CardinalityType
<1> QED
    BY <1>1, <1>2, <1>3

LEMMA KeptPast ==
    ASSUME EarnedInv, [Next]_vars, kept' \in [Gates -> [Times -> Nat]],
           NEW g \in Gates, NEW w \in Times, kept'[g][w] > 0
    PROVE  w <= WindowOf(g, now')
<1>0. LimitInv /\ PastInv /\ now \in Nat /\ w \in Nat /\ kept[g][w] \in Nat /\ kept'[g][w] \in Nat
  <2>1. LimitInv /\ PastInv
    BY DEF EarnedInv
  <2>2. now \in Nat /\ w \in Nat
    BY <2>1, LimitConstants DEF LimitInv, TypeOK, Times
  <2>3. kept[g][w] \in Nat /\ kept'[g][w] \in Nat
    BY <2>1 DEF LimitInv, TypeOK
  <2> QED
    BY <2>1, <2>2, <2>3
<1>1. now' \in Nat /\ now <= now'
    BY <1>0, ClockStep
<1>2. kept[g][w] > 0 \/ w <= WindowOf(g, now)
    BY <1>0, KeptStep, UndoneLess DEF Growing, Refused
<1>3. w <= WindowOf(g, now) /\ WindowOf(g, now) <= WindowOf(g, now')
    BY <1>0, <1>1, <1>2, Following DEF PastInv
<1>4. WindowOf(g, now) \in Nat /\ WindowOf(g, now') \in Nat
    BY <1>0, <1>1, BegunWindow
<1> QED
    BY <1>0, <1>3, <1>4

LEMMA PlacesPast ==
    ASSUME LimitInv, PastInv, [Next]_vars, NEW g \in Gates, NEW w \in Times, NEW q \in Requests,
           HasPlace(q, g, w)'
    PROVE  w <= WindowOf(g, Clock(q)')
<1>0. req \in [Requests -> Req] /\ now \in Nat
    BY LimitConstants DEF LimitInv, TypeOK, Times
<1>1. ASSUME NEW r \in Requests, NEW route \in Routes, Arrive(r, route)
      PROVE  w <= WindowOf(g, Clock(q)')
  <2>1. PICK new : new = [NoReq EXCEPT !.pc = "next", !.route = route]
    OBVIOUS
  <2>2. new.i = 1
    BY <2>1 DEF NoReq
  <2>3. req' = [req EXCEPT ![r] = new] /\ UNCHANGED now
    BY <1>1, <2>1 DEF Arrive
  <2>4. q # r
    BY <1>0, <2>2, <2>3 DEF HasPlace
  <2>5. req'[q] = req[q] /\ now' \in Nat /\ now <= now'
    BY <1>0, <2>3, <2>4
  <2> QED
    BY <2>5, PastSame
<1>2. ASSUME NEW r \in Requests, Check(r)
      PROVE  w <= WindowOf(g, Clock(q)')
  <2>1. UNCHANGED now /\ Moving(r) /\ NoWindow \notin Times
    BY <1>2, LimitConstants DEF Check, Moving, NoWindow, Times
  <2> QED
    BY <1>2, <2>1, PastAdvanced, PastAnswered DEF Check
<1>3. ASSUME NEW r \in Requests, Allow(r)
      PROVE  w <= WindowOf(g, Clock(q)')
  <2>1. UNCHANGED now /\ Moving(r) /\ NoWindow \notin Times /\ Stage(r) \in Gates
    BY <1>3, LimitConstants DEF Allow, Moving, NoWindow, Times
  <2>2. CASE Advance(r, NoWindow)
    BY <2>1, <2>2, PastAdvanced
  <2>3. CASE Advance(r, WindowOf(Stage(r), now))
    <3>1. WindowOf(Stage(r), now) \in Times /\ WindowOf(Stage(r), now) <= WindowOf(Stage(r), now)
      BY <2>1, NowWindow DEF Times
    <3> QED
      BY <2>1, <2>3, <3>1, PastAdvanced
  <2>4. CASE req' = [req EXCEPT ![r].pc = "send", ![r].at = now]
    <3>1. CASE q # r
      BY <1>0, <2>1, <2>4, <3>1, PastSame
    <3>2. CASE q = r
      <4>1. /\ req'[r].pc = "send" /\ req'[r].at = now /\ req'[r].route = req[r].route
            /\ req'[r].i = req[r].i /\ req'[r].seen = req[r].seen
        BY <1>0, <2>4 DEF Req
      <4>2. HasPlace(r, g, w)
        BY <2>1, <3>2, <4>1 DEF HasPlace
      <4>3. Clock(r) = now /\ Clock(r)' = now
        BY <1>3, <4>1 DEF Clock, Allow
      <4> QED
        BY <3>2, <4>2, <4>3 DEF PastInv
    <3> QED
      BY <3>1, <3>2
  <2> QED
    BY <1>3, <2>2, <2>3, <2>4 DEF Allow
<1>4. ASSUME NEW r \in Requests, Counted(r) \/ Uncounted(r)
      PROVE  w <= WindowOf(g, Clock(q)')
  <2> DEFINE x == WindowOf(Stage(r), req[r].at)
  <2>1. UNCHANGED now /\ Moving(r) /\ req[r].pc = "send"
    BY <1>4 DEF Counted, Uncounted, Moving
  <2>2. Stage(r) \in Gates /\ x \in Times /\ x <= WindowOf(Stage(r), now)
    <3>1. /\ Stage(r) \in Gates /\ x \in Times
          /\ WindowOf(Stage(r), now) = x \/ WindowOf(Stage(r), now) = x + 1
      BY <2>1, Arriving
    <3> QED
      BY <3>1 DEF Times
  <2>3. Advance(r, x) \/ Answer(r, "limited")
    BY <1>4 DEF Counted, Uncounted
  <2> HIDE DEF x
  <2> QED
    BY <2>1, <2>2, <2>3, PastAdvanced, PastAnswered
<1>5. CASE Tick \/ WipeRedis \/ UNCHANGED vars
  <2>1. req'[q] = req[q] /\ now' \in Nat /\ now <= now'
    BY <1>0, <1>5 DEF Tick, WipeRedis, vars
  <2> QED
    BY <2>1, PastSame
<1>6. ASSUME NEW p \in Processes, Restart(p)
      PROVE  w <= WindowOf(g, Clock(q)')
  <2>1. req'[q] # NoReq
    BY DEF HasPlace, Moving, NoReq
  <2>2. req'[q] = req[q] /\ now' \in Nat /\ now <= now'
    BY <1>0, <1>6, <2>1 DEF Restart
  <2> QED
    BY <2>2, PastSame
<1> QED
    BY <1>1, <1>2, <1>3, <1>4, <1>5, <1>6 DEF Next, RequestStep

-----------------------------------------------------------------------------
(* The invariant of the refusals.                                          *)

LEMMA EarnedInvInit == Init => EarnedInv
<1> SUFFICES ASSUME Init PROVE EarnedInv
    OBVIOUS
<1>1. LimitInv
    BY LimitInvInit
<1>2. \A g \in Gates, w \in Times : count[g][w] = 0 /\ kept[g][w] = 0
    BY ZeroIs DEF Init
<1>3. \A r \in Requests : ~Moving(r)
  <2>1. NoReq.pc = "idle"
    BY DEF NoReq
  <2> QED
    BY <2>1 DEF Init, Moving
<1>4. PastInv
    BY <1>2, <1>3 DEF PastInv, HasPlace
<1>5. \A g \in Gates, w \in Times : Settled(g, w)
    BY <1>2 DEF Settled
<1> QED
    BY <1>1, <1>4, <1>5 DEF EarnedInv

LEMMA EarnedInvStep ==
    ASSUME EarnedInv, [Next]_vars
    PROVE  EarnedInv'
<1>0. LimitInv /\ PastInv
    BY DEF EarnedInv
<1>1. LimitInv'
    BY <1>0, LimitInvStep
<1>2. kept' \in [Gates -> [Times -> Nat]] /\ count' \in [Gates -> [Times -> Nat]]
    BY <1>1 DEF LimitInv, TypeOK
<1>3. PastInv'
    BY <1>0, <1>2, KeptPast, PlacesPast DEF PastInv
<1>4. \A g \in Gates, w \in Times : Settled(g, w)'
    BY <1>0, <1>2, KeptStep, SettledGrows, SettledRefused
<1> QED
    BY <1>1, <1>3, <1>4 DEF EarnedInv

LEMMA OneWindowOn ==
    ASSUME NEW g \in Gates, NEW t \in Nat, NEW u \in Nat, u = t + Window[g]
    PROVE  WindowOf(g, u) <= WindowOf(g, t) + 1
<1>1. PICK n \in Nat \ {0}, q \in Nat, p \in Nat :
          n = Window[g] /\ q = WindowOf(g, u) /\ p = WindowOf(g, t)
    BY BegunWindow, LimitConstants
<1>2. q * n <= u
    BY <1>1, BegunWindow
<1>3. CASE q = 0
    BY <1>1, <1>3
<1>4. CASE q # 0
  <2>1. PICK k \in Nat : q = k + 1
    <3>1. q - 1 \in Nat /\ q = (q - 1) + 1
      BY <1>4
    <3> QED
      BY <3>1
  <2>2. q * n = k * n + n /\ k * n \in Nat
    BY <2>1
  <2>3. k * n <= t
    BY <1>1, <1>2, <2>2
  <2>4. k <= p
    BY <1>1, <2>3, BegunWindow
  <2> QED
    BY <1>1, <2>1, <2>4
<1> QED
    BY <1>3, <1>4

\* Between two consecutive windows of a gate lies at most one boundary of the
\* windows of a later gate.
LEMMA Adjacent ==
    ASSUME NEW g \in Gates, NEW h \in Later(g), NEW w \in Nat, NEW a \in Nat, NEW b \in Nat,
           a = w * Window[g], b = (w + 1) * Window[g]
    PROVE  /\ Window[g] <= Window[h] /\ a <= b
           /\ WindowOf(h, a) <= WindowOf(h, b) /\ WindowOf(h, b) <= WindowOf(h, a) + 1
<1>1. h \in Gates
    BY LaterOrder
<1>2. PICK n \in Nat \ {0}, k \in Nat \ {0} : n = Window[g] /\ Window[h] = n * k
    BY Ratio, LimitConstants
<1>3. n <= n * k
  <2>1. PICK d \in Nat : k = 1 + d
    <3>1. k - 1 \in Nat /\ k = 1 + (k - 1)
      OBVIOUS
    <3> QED
      BY <3>1
  <2>2. n * k = n + n * d /\ n * d \in Nat
    BY <2>1
  <2> QED
    BY <2>2
<1>4. b = a + n
    BY <1>2
<1>5. WindowOf(h, a) <= WindowOf(h, b)
    BY <1>1, <1>4, Following
<1>6. WindowOf(h, b) <= WindowOf(h, a) + 1
  <2>1. PICK m \in Nat \ {0}, c \in Nat : m = Window[h] /\ c = a + m
    BY <1>1, LimitConstants
  <2>2. b <= c
    BY <1>2, <1>3, <1>4, <2>1
  <2>3. WindowOf(h, b) <= WindowOf(h, c)
    BY <1>1, <2>2, Following
  <2>4. WindowOf(h, c) <= WindowOf(h, a) + 1
    BY <1>1, <2>1, OneWindowOn
  <2>5. WindowOf(h, a) \in Nat /\ WindowOf(h, b) \in Nat /\ WindowOf(h, c) \in Nat
    BY <1>1, <2>1, BegunWindow
  <2> QED
    BY <2>3, <2>4, <2>5
<1> QED
    BY <1>2, <1>3, <1>4, <1>5, <1>6

\* A window that blocks one of the windows of now is the one around it.
LEMMA BlockedWithin ==
    ASSUME EarnedInv, NEW g \in Gates, NEW w \in Times, NEW h \in Later(g), NEW v \in Times,
           Exhausted(h, v), WindowOf(h, w * Window[g]) <= v,
           WindowOf(g, now) = w \/ WindowOf(g, now) = w + 1
    PROVE  Within(g, w, h, v)
<1>0. /\ h \in Gates /\ LimitInv /\ PastInv
    BY LaterOrder DEF EarnedInv
<1>1. w \in Nat /\ v \in Nat /\ now \in Nat /\ kept[h][v] \in Nat /\ Limit[h] \in Nat
  <2>1. now \in Times /\ kept[h][v] \in Nat
    BY <1>0 DEF LimitInv, TypeOK
  <2> QED
    BY <1>0, <2>1, LimitConstants DEF Times
<1>2. PICK a \in Nat, b \in Nat : a = w * Window[g] /\ b = (w + 1) * Window[g]
  <2>1. w + 1 \in Nat
    BY <1>1
  <2> QED
    BY <1>1, <2>1, BegunWindow
<1>3. v <= WindowOf(h, now)
    BY <1>0, <1>1 DEF Exhausted, PastInv
<1>4. WindowOf(h, now) = WindowOf(h, a) \/ WindowOf(h, now) = WindowOf(h, b)
    BY <1>1, <1>2, Nested
<1>5. /\ Window[g] <= Window[h] /\ WindowOf(h, a) <= WindowOf(h, b)
      /\ WindowOf(h, b) <= WindowOf(h, a) + 1
    BY <1>1, <1>2, Adjacent
<1>6. WindowOf(h, a) \in Nat /\ WindowOf(h, b) \in Nat
    BY <1>0, BegunWindow
<1>7. v = WindowOf(h, a) \/ v = WindowOf(h, b)
    BY <1>1, <1>2, <1>3, <1>4, <1>5, <1>6
<1> QED
    BY <1>2, <1>5, <1>7 DEF Within

LEMMA RefusedEarned ==
    ASSUME EarnedInv, NEW r \in Requests, Counted(r), req'[r].pc = "limited"
    PROVE  LET g == Stage(r)
               w == WindowOf(g, req[r].at)
           IN  \/ Exhausted(g, w)
               \/ \E h \in Later(g), v \in Times : Within(g, w, h, v) /\ Exhausted(h, v)
<1> DEFINE g == Stage(r)
           w == WindowOf(g, req[r].at)
<1>0. LimitInv /\ req[r].pc = "send"
    BY DEF EarnedInv, Counted
<1>1. /\ g \in Gates /\ w \in Times /\ KeyWindow(g, req[r].at) = w
      /\ WindowOf(g, now) = w \/ WindowOf(g, now) = w + 1
      /\ Limit[g] > 0 /\ Limit[g] \in Nat
    BY <1>0, Arriving, LimitConstants
<1>2. ~Advance(r, w)
    BY <1>0, <1>1, Advanced DEF Moving
<1>3. count' = Bump(count, g, w) /\ count'[g][w] > Limit[g]
    BY <1>1, <1>2 DEF Counted
<1>4. count[g][w] >= Limit[g] /\ count[g][w] \in Nat /\ kept[g][w] \in Nat
  <2>1. PICK f \in [Gates -> [Times -> Nat]] : f = count
    BY <1>0 DEF LimitInv, TypeOK
  <2>2. count'[g][w] = f[g][w] + 1 /\ f[g][w] \in Nat
    BY <1>1, <1>3, <2>1, Bumped
  <2>3. kept[g][w] \in Nat
    BY <1>0, <1>1 DEF LimitInv, TypeOK
  <2> QED
    BY <1>1, <1>3, <2>1, <2>2, <2>3
<1>5. CASE count[g][w] <= kept[g][w] \/ Exhausted(g, w)
    BY <1>1, <1>4, <1>5 DEF Exhausted
<1>6. CASE Blocked(g, w)
  <2>1. PICK h \in Later(g), v \in Times : Exhausted(h, v) /\ WindowOf(h, w * Window[g]) <= v
    BY <1>6 DEF Blocked
  <2>2. Within(g, w, h, v)
    <3> HIDE DEF g, w
    <3> QED
      BY <1>1, <2>1, BlockedWithin
  <2> QED
    BY <2>1, <2>2
<1> QED
    BY <1>1, <1>5, <1>6 DEF EarnedInv, Settled

LEMMA EarnedStep ==
    ASSUME EarnedInv, [Next]_vars, NEW r \in Requests, req[r].pc = "send", req'[r].pc = "limited"
    PROVE  LET g == Stage(r)
               w == WindowOf(g, req[r].at)
           IN  \/ Exhausted(g, w)
               \/ \E h \in Later(g), v \in Times : Within(g, w, h, v) /\ Exhausted(h, v)
<1>0. LimitInv /\ req \in [Requests -> Req]
    BY DEF EarnedInv, LimitInv, TypeOK
<1>1. ASSUME NEW q \in Requests, q # r \/ ~Counted(q), RequestStep(q)
      PROVE  FALSE
  <2>1. CASE q # r
    <3>1. req'[r] = req[r]
      <4>1. ASSUME NEW route \in Routes, Arrive(q, route)
            PROVE  req'[r] = req[r]
        BY <1>0, <2>1, <4>1 DEF Arrive
      <4>2. ASSUME Check(q) \/ Allow(q) \/ Counted(q) \/ Uncounted(q)
            PROVE  req'[r] = req[r]
        <5>1. \/ \E w \in {NoWindow, WindowOf(Stage(q), now), WindowOf(Stage(q), req[q].at)} : Advance(q, w)
              \/ \E how \in {"idle", "limited"} : Answer(q, how)
              \/ req' = [req EXCEPT ![q].pc = "send", ![q].at = now]
          BY <4>2 DEF Check, Allow, Counted, Uncounted
        <5> QED
          BY <1>0, <2>1, <5>1 DEF Advance, Answer
      <4> QED
        BY <1>1, <4>1, <4>2 DEF RequestStep
    <3> QED
      BY <3>1
  <2>2. CASE q = r
    <3>1. Uncounted(r)
      BY <1>1, <2>2 DEF RequestStep, Arrive, Check, Allow
    <3>2. WindowOf(Stage(r), req[r].at) \in Times /\ Moving(r)
      BY <1>0, Arriving DEF Moving
    <3>3. Advance(r, WindowOf(Stage(r), req[r].at))
      BY <3>1 DEF Uncounted
    <3> QED
      BY <1>0, <3>2, <3>3, Advanced
  <2> QED
    BY <2>1, <2>2
<1>2. ASSUME Tick \/ WipeRedis \/ UNCHANGED vars
      PROVE  FALSE
    BY <1>2 DEF Tick, WipeRedis, vars
<1>3. ASSUME NEW p \in Processes, Restart(p)
      PROVE  FALSE
  <2>1. req'[r] = NoReq \/ req'[r] = req[r]
    BY <1>3 DEF Restart
  <2> QED
    BY <2>1 DEF NoReq
<1>4. Counted(r)
    BY <1>1, <1>2, <1>3 DEF Next
<1> QED
    BY <1>4, RefusedEarned

\* Whatever is in flight, expires or fails, and whatever routes share the
\* gates: Allow refuses a request only if the limit of the gate, or of a later
\* gate with a window as long, is spent on requests that no later gate refused.
THEOREM RefusalsAreEarned == Spec => RefusalIsEarned
<1>1. ASSUME EarnedInv, [Next]_vars
      PROVE  [\A r \in Requests : (req'[r].pc = "limited" /\ req[r].pc = "send") =>
                 LET g == Stage(r)
                     w == WindowOf(g, req[r].at)
                 IN  \/ Exhausted(g, w)
                     \/ \E h \in Later(g), v \in Times : Within(g, w, h, v) /\ Exhausted(h, v)]_vars
    BY <1>1, EarnedStep
<1> QED
    BY <1>1, EarnedInvInit, EarnedInvStep, PTL DEF Spec, RefusalIsEarned

=============================================================================
