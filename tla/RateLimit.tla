------------------------------ MODULE RateLimit ------------------------------
(***************************************************************************)
(* The rate limits in front of the ingestor and of the API: Limiter.Allow  *)
(* and the order in which a request meets the gates.  A gate counts the    *)
(* requests of one clock window (minute, hour or day, in UTC) under a Redis *)
(* key that names the window, and refuses those beyond its limit.          *)
(*                                                                         *)
(* The key is made from the clock before INCR and EXPIRE are sent in a     *)
(* pipeline, which is not a transaction.  Between the two other requests   *)
(* run, the window may end, Redis may lose its data or fail; an error lets *)
(* the request through.                                                    *)
(*                                                                         *)
(* One caller (address, user, organization) is modelled: its name is part  *)
(* of every key, so callers do not share counters.                         *)
(***************************************************************************)
EXTENDS Integers, Sequences, FiniteSets

CONSTANTS
    Requests,     \* request goroutines
    Routes,       \* routes in use, of those Chain knows
    Window,       \* Window[g]: ticks in a window of gate g
    Limit,        \* Limit[g]: requests per window; 0 is no limit
    MaxFlight,    \* bound: ticks from making a key to the pipeline's arrival
    MaxArrivals,  \* bound: requests in all
    MaxTime       \* bound: the last tick

Gates == {"ingest-ip", "org-hour", "org-day", "auth-ip", "api-user", "api-ip", "ai-org-day"}
Checks == {"resolve", "jwt", "member", "body"}

ASSUME LimitConstants ==
    /\ Window \in [Gates -> Nat \ {0}] /\ Limit \in [Gates -> Nat]
    /\ MaxFlight \in Nat /\ \A g \in Gates : MaxFlight < Window[g]
    /\ MaxArrivals \in Nat /\ MaxTime \in Nat
    \* minutes, hours and days
    /\ Window["org-hour"] % Window["ingest-ip"] = 0 /\ Window["org-day"] % Window["org-hour"] = 0
    /\ Window["api-ip"] % Window["api-user"] = 0 /\ Window["ai-org-day"] % Window["api-ip"] = 0
    /\ Routes \subseteq {"ingest", "auth", "api", "ai"} /\ IsFiniteSet(Requests)

\* Mutant: the day is asked before the hour.
ChainDayFirst(route) ==
    CASE route = "ingest" -> <<"ingest-ip", "resolve", "org-day", "org-hour", "body">>
      [] route = "auth"   -> <<"auth-ip", "body">>
      [] route = "api"    -> <<"jwt", "api-user", "api-ip", "body">>
      [] route = "ai"     -> <<"jwt", "api-user", "api-ip", "member", "ai-org-day", "body">>

\* What a request passes, in order: the middlewares of its group, then the
\* checks and gates of its handler.  "body" is what comes behind the last gate:
\* the handler's checks of the request and, for investigate, of the role.
Chain(route) ==
    CASE route = "ingest" -> <<"ingest-ip", "resolve", "org-hour", "org-day", "body">>
      [] route = "auth"   -> <<"auth-ip", "body">>
      [] route = "api"    -> <<"jwt", "api-user", "api-ip", "body">>
      [] route = "ai"     -> <<"jwt", "api-user", "api-ip", "member", "ai-org-day", "body">>

Process(route) == IF route = "ingest" THEN "ingestor" ELSE "api"
Processes == {Process(route) : route \in Routes}

VARIABLES
    now,        \* the clock
    enabled,    \* per process: configured, and Redis answered at its start
    count,      \* count[g][w]: Redis counter of window w of gate g, 0 if absent
    ttl,        \* ttl[g][w]: ticks the counter has left, Never without expiry
    req,        \* req[r]: the request r is serving
    arrivals,   \* requests so far
    passed,     \* history: passed[g][w]: counted and let through in window w
                \* since Redis last lost its data
    late,       \* history: the same for those whose window was over by then
    kept        \* history: kept[g][w]: let through, counted or not, and not
                \* refused at a later gate

redisVars == <<count, ttl>>
history == <<passed, late, kept>>
vars == <<now, enabled, redisVars, req, arrivals, history>>

Times == 0..MaxTime
Never == -1              \* a counter whose EXPIRE was lost
NoWindow == MaxTime + 1

\* pc: "next", at stage i of its chain; "send", with a key made at time at;
\* "limited", the last one was answered 429; "idle", or answered otherwise.
\* seen[j]: the window in which it was let through at stage j.
Req == [pc : {"idle", "next", "send", "limited"},
        route : Routes \cup {"none"}, i : 1..6, at : Times,
        seen : [1..6 -> Times \cup {NoWindow}]]
NoReq == [pc |-> "idle", route |-> "none", i |-> 1, at |-> 0,
          seen |-> [j \in 1..6 |-> NoWindow]]

Stage(r) == Chain(req[r].route)[req[r].i]
WindowOf(g, t) == t \div Window[g]
Zero == [g \in Gates |-> [w \in Times |-> 0]]
Bump(f, g, w) == [f EXCEPT ![g][w] = @ + 1]

Init ==
    /\ now = 0 /\ arrivals = 0
    /\ enabled \in [Processes -> BOOLEAN]
    /\ count = Zero /\ ttl = Zero
    /\ req = [r \in Requests |-> NoReq]
    /\ passed = Zero /\ late = Zero /\ kept = Zero

-----------------------------------------------------------------------------
(* A request on its way.                                                   *)

Arrive(r, route) ==
    /\ req[r].pc \notin {"next", "send"}
    /\ arrivals < MaxArrivals /\ arrivals' = arrivals + 1
    /\ req' = [req EXCEPT ![r] = [NoReq EXCEPT !.pc = "next", !.route = route]]
    /\ UNCHANGED <<now, enabled, redisVars, history>>

Answer(r, how) == req' = [req EXCEPT ![r] = [NoReq EXCEPT !.pc = how]]

\* On to the next stage; behind the last one the request is served.
Advance(r, w) ==
    IF req[r].i = Len(Chain(req[r].route)) THEN Answer(r, "idle")
    ELSE req' = [req EXCEPT ![r].pc = "next", ![r].i = @ + 1, ![r].at = 0,
                            ![r].seen[req[r].i] = w]

\* Key, token, membership or body: 401, 403 or 400 if they are not in order.
Check(r) ==
    /\ req[r].pc = "next" /\ Stage(r) \in Checks
    /\ \/ Advance(r, NoWindow)
       \/ Answer(r, "idle")
    /\ UNCHANGED <<now, enabled, redisVars, arrivals, history>>

Limiting(r) == enabled[Process(req[r].route)] /\ Limit[Stage(r)] > 0

\* Allow, up to the pipeline: without a limit nothing is counted.
Allow(r) ==
    LET g == Stage(r)
        w == WindowOf(g, now)
    IN
    /\ req[r].pc = "next" /\ Stage(r) \in Gates
    /\ \/ /\ Limiting(r)
          /\ req' = [req EXCEPT ![r].pc = "send", ![r].at = now]
          /\ UNCHANGED kept
       \/ /\ ~Limiting(r)
          /\ \/ Limit[g] = 0 /\ Advance(r, NoWindow) /\ UNCHANGED kept
             \/ Limit[g] > 0 /\ Advance(r, w) /\ kept' = Bump(kept, g, w)
    /\ UNCHANGED <<now, enabled, redisVars, arrivals, passed, late>>

\* The window in the key: hour, day or minute of the time it was made.
KeyWindow(g, t) == t \div Window[g]

\* Mutant: every counter lives for one tick.
ExpireShort(g, w) == ttl' = [ttl EXCEPT ![g][w] = 1]

\* Mutant: the counter is given no time to live.
ExpireNot(g, w) == UNCHANGED ttl

Expire(g, w) == ttl' = [ttl EXCEPT ![g][w] = Window[g]]

\* The places r took at the gates it has passed: given back in the history.
Undo(r) ==
    [g \in Gates |-> [w \in Times |->
        kept[g][w] - Cardinality({j \in 1..(req[r].i - 1) :
            Chain(req[r].route)[j] = g /\ req[r].seen[j] = w})]]

\* INCR and EXPIRE were answered.
Counted(r) ==
    LET g == Stage(r)
        k == KeyWindow(g, req[r].at)
        w == WindowOf(g, req[r].at)
    IN
    /\ req[r].pc = "send"
    /\ count' = Bump(count, g, k)
    /\ Expire(g, k)
    /\ \/ /\ count'[g][k] <= Limit[g]
          /\ Advance(r, w)
          /\ kept' = Bump(kept, g, w)
          /\ \/ w = WindowOf(g, now) /\ passed' = Bump(passed, g, w) /\ UNCHANGED late
             \/ w # WindowOf(g, now) /\ late' = Bump(late, g, w) /\ UNCHANGED passed
       \/ /\ count'[g][k] > Limit[g]
          /\ Answer(r, "limited")
          /\ kept' = Undo(r)
          /\ UNCHANGED <<passed, late>>
    /\ UNCHANGED <<now, enabled, arrivals>>

\* An error of the pipeline lets the request through.  Redis may have run
\* both commands, INCR alone or neither.
Uncounted(r) ==
    LET g == Stage(r)
        k == KeyWindow(g, req[r].at)
        w == WindowOf(g, req[r].at)
    IN
    /\ req[r].pc = "send"
    /\ \/ count' = Bump(count, g, k) /\ Expire(g, k)
       \/ /\ count' = Bump(count, g, k)
          /\ ttl' = IF ttl[g][k] = 0 THEN [ttl EXCEPT ![g][k] = Never] ELSE ttl
       \/ UNCHANGED <<count, ttl>>
    /\ Advance(r, w)
    /\ kept' = Bump(kept, g, w)
    /\ UNCHANGED <<now, enabled, arrivals, passed, late>>

-----------------------------------------------------------------------------
(* Time and failures.                                                      *)

Left(n) == IF n \in {0, Never} THEN n ELSE n - 1

\* One tick.  A pipeline arrives within MaxFlight of the making of its key.
Tick ==
    /\ now < MaxTime /\ now' = now + 1
    /\ \A r \in Requests : req[r].pc = "send" => now < req[r].at + MaxFlight
    /\ ttl' = [g \in Gates |-> [w \in Times |-> Left(ttl[g][w])]]
    /\ count' = [g \in Gates |-> [w \in Times |->
                    IF Left(ttl[g][w]) = 0 THEN 0 ELSE count[g][w]]]
    /\ UNCHANGED <<enabled, req, arrivals, history>>

\* Redis restarts empty, which it may where it has no volume.  A restart that
\* keeps the counters is no step.
WipeRedis ==
    /\ count # Zero
    /\ count' = Zero /\ ttl' = Zero /\ passed' = Zero /\ late' = Zero
    /\ UNCHANGED <<now, enabled, req, arrivals, kept>>

\* A process restarts and pings Redis again; its requests are gone.
Restart(p) ==
    /\ \E up \in BOOLEAN : enabled' = [enabled EXCEPT ![p] = up]
    /\ req' = [r \in Requests |->
                  IF req[r].route \in Routes /\ Process(req[r].route) = p
                  THEN NoReq ELSE req[r]]
    /\ UNCHANGED <<now, redisVars, arrivals, history>>

RequestStep(r) ==
    \/ \E route \in Routes : Arrive(r, route)
    \/ Check(r) \/ Allow(r) \/ Counted(r) \/ Uncounted(r)

Next ==
    \/ \E r \in Requests : RequestStep(r)
    \/ Tick \/ WipeRedis
    \/ \E p \in Processes : Restart(p)

Spec == Init /\ [][Next]_vars

-----------------------------------------------------------------------------
(* Properties.                                                             *)

TypeOK ==
    /\ now \in Times /\ arrivals \in 0..MaxArrivals
    /\ enabled \in [Processes -> BOOLEAN]
    /\ req \in [Requests -> Req]
    /\ count \in [Gates -> [Times -> Nat]]
    /\ ttl \in [Gates -> [Times -> Nat \cup {Never}]]
    /\ \A g \in Gates : \A w \in Times : count[g][w] = 0 <=> ttl[g][w] = 0
    /\ \A f \in {passed, late, kept} : f \in [Gates -> [Times -> Nat]]

\* Of the requests Redis answers for, a gate lets at most its limit through in
\* a window, however INCRs, expiries and failed pipelines interleave.  The
\* counter may expire the moment its window ends, so requests whose key was
\* made before and counted after that moment start a count of their own: at
\* most the limit again.  Redis is taken to keep its data meanwhile.
WindowBound ==
    \A g \in Gates : Limit[g] > 0 => \A w \in Times :
        /\ passed[g][w] <= Limit[g]
        /\ late[g][w] <= Limit[g]

\* The gates behind g, on any route.
Later(g) == {h \in Gates : \E route \in Routes : \E i, j \in 1..Len(Chain(route)) :
                              i < j /\ Chain(route)[i] = g /\ Chain(route)[j] = h}

\* Window w of gate g lies within window v of h, up to what is in flight.
Within(g, w, h, v) ==
    /\ Window[g] <= Window[h]
    /\ v \in {WindowOf(h, w * Window[g]), WindowOf(h, (w + 1) * Window[g])}

\* All of the limit of h for window v is spent.
Exhausted(h, v) == Limit[h] > 0 /\ kept[h][v] >= Limit[h]

\* A request is refused by a gate only if the gate's limit for this window was
\* spent on requests that no later gate refused, or if a later gate with a
\* window as long is exhausted too.  So what a request that is refused by the
\* day has used up of the hour costs nobody a log that the day would have
\* let through, and a window that is exhausted refuses nobody in the next one.
RefusalIsEarned ==
    [][\A r \in Requests : (req'[r].pc = "limited" /\ req[r].pc = "send") =>
          LET g == Stage(r)
              w == WindowOf(g, req[r].at)
          IN  \/ Exhausted(g, w)
              \/ \E h \in Later(g), v \in Times : Within(g, w, h, v) /\ Exhausted(h, v)]_vars

=============================================================================
