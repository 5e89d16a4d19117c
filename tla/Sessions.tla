------------------------------ MODULE Sessions ------------------------------
(***************************************************************************)
(* Accounts and refresh tokens of the API (internal/user).  A token lives  *)
(* in Postgres and, when Redis answered as the API process started, in a   *)
(* cache that Refresh consults first.  Processes with and without Redis    *)
(* follow one another over the same tables and the same cache.  Each       *)
(* request runs its calls to Redis and Postgres one after the other; every *)
(* call may fail, a Postgres call may take effect and still report an      *)
(* error, and the process may die between two calls.                       *)
(*                                                                         *)
(* Access tokens are signed, not stored, and are left out.                 *)
(***************************************************************************)
EXTENDS Naturals, FiniteSets

CONSTANTS
    Users,       \* accounts, one per email address
    Tokens,      \* refresh tokens (uuids; the tables hold their hashes)
    Handlers,    \* requests served at the same time
    TTL,         \* REFRESH_TOKEN_EXPIRY_DAYS
    None

ASSUME SessionConstants ==
    /\ TTL \in Nat \ {0}
    /\ None \notin Users \cup Tokens

VARIABLES
    hasRedis,    \* whether Redis answered when this API process started
    accounts,    \* the users table
    rows,        \* rows[t]: the user of t's row in refresh_tokens
    cached,      \* cached[t]: the user Redis has for t
    minted,      \* tokens generated so far
    age,         \* age[t]: time since t's expiry was computed, up to TTL + 1
    cacheAge,    \* cacheAge[t]: time since t was put into the cache
    held,        \* tokens a client was given
    parent,      \* history: the token that was exchanged for t
    presented,   \* history: tokens some request was made with
    revoked,     \* history: tokens a revocation has left in neither store
    created,     \* history: created[u]: registrations of u that succeeded
    job          \* job[h]: what handler h is doing

tokenVars == <<minted, age, held, parent>>
storeVars == <<hasRedis, rows, cached, cacheAge>>
history == <<presented, revoked, created>>
vars == <<accounts, storeVars, tokenVars, history, job>>

Idle == [pc |-> "idle"]

\* op: the handler; user: whom it acts for; tok: the token it was given; new:
\* the token it issues; late: tok had been revoked when it was presented;
\* clean: Redis had no copy of tok when the call came in, or its DEL worked.
Calls ==
    [op : {"register", "login", "refresh", "logout", "expired"},
     pc : {"create", "lookup", "lookupdb", "uncache", "delete", "mint", "cache", "store"},
     user : Users \cup {None}, tok : Tokens \cup {None}, new : Tokens \cup {None},
     late : BOOLEAN, clean : BOOLEAN]
Jobs == {Idle} \cup Calls

Start(op, pc, u, t) == [op |-> op, pc |-> pc, user |-> u, tok |-> t, new |-> None,
                        late |-> t \in revoked, clean |-> t \in Tokens /\ cached[t] = None]

Init ==
    /\ hasRedis \in BOOLEAN
    /\ accounts = {}
    /\ rows = [t \in Tokens |-> None]
    /\ cached = [t \in Tokens |-> None]
    /\ minted = {} /\ held = {} /\ presented = {} /\ revoked = {}
    /\ age = [t \in Tokens |-> 0]
    /\ cacheAge = [t \in Tokens |-> 0]
    /\ parent = [t \in Tokens |-> None]
    /\ created = [u \in Users |-> 0]
    /\ job = [h \in Handlers |-> Idle]

Goto(h, pc) == job' = [job EXCEPT ![h].pc = pc]
Answer(h) == job' = [job EXCEPT ![h] = Idle]

\* A call to Postgres fails with nothing done: 500.
Fail(h) == Answer(h) /\ UNCHANGED <<accounts, storeVars, tokenVars, history>>

-----------------------------------------------------------------------------
(* Register and Login.                                                     *)

\* GetUserByEmail: a known address is 409.
Register(h, u) ==
    /\ job[h] = Idle /\ u \notin accounts
    /\ job' = [job EXCEPT ![h] = Start("register", "create", u, None)]
    /\ UNCHANGED <<accounts, storeVars, tokenVars, history>>

\* Mutant: the insert does not meet the unique constraint.
CreateUserAgain(h) ==
    /\ job[h].pc = "create"
    /\ accounts' = accounts \cup {job[h].user}
    /\ created' = [created EXCEPT ![job[h].user] = @ + 1]
    /\ Goto(h, "mint")
    /\ UNCHANGED <<storeVars, tokenVars, presented, revoked>>

\* CreateUser.  The unique address makes the loser of a race a 409.
CreateUser(h) ==
    LET u == job[h].user IN
    /\ job[h].pc = "create"
    /\ \/ /\ u \notin accounts
          /\ accounts' = accounts \cup {u}
          /\ created' = [created EXCEPT ![u] = @ + 1]
          /\ \/ Goto(h, "mint")
             \/ Answer(h)
          /\ UNCHANGED <<storeVars, tokenVars, presented, revoked>>
       \/ u \in accounts /\ Fail(h)

\* An unknown address is 404, a wrong password 401.
Login(h, u) ==
    /\ job[h] = Idle /\ u \in accounts
    /\ job' = [job EXCEPT ![h] = Start("login", "mint", u, None)]
    /\ UNCHANGED <<accounts, storeVars, tokenVars, history>>

-----------------------------------------------------------------------------
(* Refresh and Logout.                                                     *)

Refresh(h, t) ==
    /\ job[h] = Idle /\ t \in held
    /\ presented' = presented \cup {t}
    /\ job' = [job EXCEPT ![h] = Start("refresh", IF hasRedis THEN "lookup" ELSE "lookupdb",
                                       None, t)]
    /\ UNCHANGED <<accounts, storeVars, tokenVars, revoked, created>>

Logout(h, t) ==
    /\ job[h] = Idle /\ t \in held
    /\ presented' = presented \cup {t}
    /\ job' = [job EXCEPT ![h] = Start("logout", IF hasRedis THEN "uncache" ELSE "delete",
                                       None, t)]
    /\ UNCHANGED <<accounts, storeVars, tokenVars, revoked, created>>

Accepted(h, u) == job' = [job EXCEPT ![h].user = u,
                                     ![h].pc = IF hasRedis THEN "uncache" ELSE "delete"]

\* lookupRefreshToken, the cache.  A miss or an error falls through.
LookupCache(h) ==
    LET t == job[h].tok IN
    /\ job[h].pc = "lookup"
    /\ \/ cached[t] # None /\ Accepted(h, cached[t])
       \/ Goto(h, "lookupdb")
    /\ UNCHANGED <<accounts, storeVars, tokenVars, history>>

\* Mutant: a token found in Postgres is put back into the cache.
LookupRowRefilling(h) ==
    LET t == job[h].tok IN
    /\ job[h].pc = "lookupdb"
    /\ rows[t] # None /\ age[t] <= TTL
    /\ Accepted(h, rows[t])
    /\ cached' = [cached EXCEPT ![t] = rows[t]]
    /\ cacheAge' = [cacheAge EXCEPT ![t] = 0]
    /\ UNCHANGED <<hasRedis, accounts, rows, tokenVars, history>>

\* lookupRefreshToken, Postgres.  No row: 401.  An expired one is revoked
\* before the 401.
LookupRow(h) ==
    LET t == job[h].tok IN
    /\ job[h].pc = "lookupdb"
    /\ \/ rows[t] # None /\ age[t] <= TTL /\ Accepted(h, rows[t])
       \/ /\ rows[t] # None /\ age[t] > TTL
          /\ job' = [job EXCEPT ![h].op = "expired",
                                ![h].pc = IF hasRedis THEN "uncache" ELSE "delete"]
       \/ rows[t] = None /\ Answer(h)
    /\ UNCHANGED <<accounts, storeVars, tokenVars, history>>

\* revokeRefreshToken, the cache; its error is ignored.  A process without
\* Redis skips the step, whatever an earlier process has put there.
Uncache(h) ==
    LET t == job[h].tok IN
    /\ job[h].pc = "uncache"
    /\ \/ /\ cached' = [cached EXCEPT ![t] = None]
          /\ job' = [job EXCEPT ![h].pc = "delete", ![h].clean = TRUE]
       \/ UNCHANGED cached /\ Goto(h, "delete")
    /\ UNCHANGED <<hasRedis, accounts, rows, cacheAge, tokenVars, history>>

\* Mutant: DELETE looks for the raw token instead of its hash.  It finds no
\* row, which is no error.
DeleteRowNothing(h) ==
    /\ job[h].pc = "delete"
    /\ revoked' = IF job[h].clean THEN revoked \cup {job[h].tok} ELSE revoked
    /\ IF job[h].op = "refresh" THEN Goto(h, "mint") ELSE Answer(h)
    /\ UNCHANGED <<accounts, storeVars, tokenVars, presented, created>>

\* revokeRefreshToken, Postgres.  Deleting no row is no error.  The answer to
\* a DELETE that took place may be lost.
DeleteRow(h) ==
    LET t == job[h].tok IN
    /\ job[h].pc = "delete"
    /\ rows' = [rows EXCEPT ![t] = None]
    /\ revoked' = IF job[h].clean THEN revoked \cup {t} ELSE revoked
    /\ \/ IF job[h].op = "refresh" THEN Goto(h, "mint") ELSE Answer(h)
       \/ Answer(h)
    /\ UNCHANGED <<hasRedis, accounts, cached, cacheAge, tokenVars, presented, created>>

-----------------------------------------------------------------------------
(* Issuing a token: issueTokenPair, and the end of Refresh.                *)

\* Mutant: the error of GenerateRefreshToken is dropped, so that an empty token
\* is stored and handed out.
GenerateRefreshTokenIgnoring(h, n) ==
    /\ job[h].pc = "mint" /\ n \notin minted
    /\ \/ /\ minted' = minted \cup {n}
          /\ age' = [age EXCEPT ![n] = 0]
          /\ job' = [job EXCEPT ![h].new = n, ![h].pc = IF hasRedis THEN "cache" ELSE "store"]
       \/ Goto(h, IF hasRedis THEN "cache" ELSE "store") /\ UNCHANGED <<minted, age>>
    /\ UNCHANGED <<accounts, storeVars, held, parent, history>>

\* GenerateRefreshToken, and the expiry persistRefreshToken computes.
GenerateRefreshToken(h, n) ==
    /\ job[h].pc = "mint" /\ n \notin minted
    /\ minted' = minted \cup {n}
    /\ age' = [age EXCEPT ![n] = 0]
    /\ job' = [job EXCEPT ![h].new = n, ![h].pc = IF hasRedis THEN "cache" ELSE "store"]
    /\ UNCHANGED <<accounts, storeVars, held, parent, history>>

\* storeRefreshTokenInCache; its error is ignored.
StoreInCache(h) ==
    LET n == job[h].new IN
    /\ job[h].pc = "cache"
    /\ \/ /\ cached' = [cached EXCEPT ![n] = job[h].user]
          /\ cacheAge' = [cacheAge EXCEPT ![n] = 0]
       \/ UNCHANGED <<cached, cacheAge>>
    /\ Goto(h, "store")
    /\ UNCHANGED <<hasRedis, accounts, rows, tokenVars, history>>

\* Mutant: the cache is good enough, so an error of the insert is ignored.
StoreRowIgnoring(h) ==
    LET n == job[h].new IN
    /\ job[h].pc = "store"
    /\ \/ rows' = [rows EXCEPT ![n] = job[h].user]
       \/ UNCHANGED rows
    /\ held' = held \cup {n} /\ parent' = [parent EXCEPT ![n] = job[h].tok]
    /\ Answer(h)
    /\ UNCHANGED <<hasRedis, accounts, cached, cacheAge, minted, age, history>>

\* StoreRefreshToken, and the answer with the new pair.  After an error, row
\* or no row, the client gets no token.
StoreRow(h) ==
    LET n == job[h].new IN
    /\ job[h].pc = "store"
    /\ rows' = [rows EXCEPT ![n] = job[h].user]
    /\ \/ held' = held \cup {n} /\ parent' = [parent EXCEPT ![n] = job[h].tok]
       \/ UNCHANGED <<held, parent>>
    /\ Answer(h)
    /\ UNCHANGED <<hasRedis, accounts, cached, cacheAge, minted, age, history>>

-----------------------------------------------------------------------------
(* Failures and time.                                                      *)

\* A Postgres call fails, the client goes away, or the process dies.
Abort(h) == job[h] # Idle /\ Fail(h)

\* The API process ends with all its requests; the next one pings Redis again.
RestartAPI ==
    /\ hasRedis' \in BOOLEAN
    /\ job' = [h \in Handlers |-> Idle]
    /\ UNCHANGED <<accounts, rows, cached, cacheAge, tokenVars, history>>

\* Redis loses an entry: eviction, or a restart that did not keep its data.
Evict(t) ==
    /\ cached[t] # None
    /\ cached' = [cached EXCEPT ![t] = None]
    /\ UNCHANGED <<hasRedis, accounts, rows, cacheAge, tokenVars, history, job>>

Older(n, cap) == IF n < cap THEN n + 1 ELSE cap

\* A cache entry lasts TTL; a row stays until somebody presents its token.
Tick ==
    /\ \E t \in minted : age[t] <= TTL \/ cached[t] # None
    /\ age' = [t \in Tokens |-> IF t \in minted THEN Older(age[t], TTL + 1) ELSE 0]
    /\ cacheAge' = [t \in Tokens |-> IF cached[t] = None THEN 0 ELSE Older(cacheAge[t], TTL)]
    /\ cached' = [t \in Tokens |-> IF Older(cacheAge[t], TTL) = TTL THEN None ELSE cached[t]]
    /\ UNCHANGED <<hasRedis, accounts, rows, minted, held, parent, history, job>>

-----------------------------------------------------------------------------
HandlerStep(h) ==
    \/ CreateUser(h)
    \/ LookupCache(h) \/ LookupRow(h) \/ Uncache(h) \/ DeleteRow(h)
    \/ StoreInCache(h) \/ StoreRow(h)
    \/ \E n \in Tokens : GenerateRefreshToken(h, n)

Next ==
    \/ \E h \in Handlers :
          \/ HandlerStep(h) \/ Abort(h)
          \/ \E u \in Users : Register(h, u) \/ Login(h, u)
          \/ \E t \in Tokens : Refresh(h, t) \/ Logout(h, t)
    \/ \E t \in Tokens : Evict(t)
    \/ RestartAPI
    \/ Tick

Spec == Init /\ [][Next]_vars

-----------------------------------------------------------------------------
(* Properties.                                                             *)

TypeOK ==
    /\ hasRedis \in BOOLEAN
    /\ accounts \in SUBSET Users
    /\ rows \in [Tokens -> Users \cup {None}]
    /\ cached \in [Tokens -> Users \cup {None}]
    /\ minted \in SUBSET Tokens /\ held \in SUBSET minted
    /\ age \in [Tokens -> 0..(TTL + 1)]
    /\ cacheAge \in [Tokens -> 0..TTL]
    /\ parent \in [Tokens -> Tokens \cup {None}]
    /\ presented \in SUBSET held /\ revoked \in SUBSET presented
    /\ created \in [Users -> Nat]
    /\ job \in [Handlers -> Jobs]

\* A token whose row was deleted by a request that found no copy in Redis, or
\* removed it there, is refused to every request that comes later, whatever
\* other requests with the token are still doing and whichever of the API
\* processes serve them.  A request that could not clear Redis, because DEL
\* failed or its process started without Redis, revokes nothing in this sense:
\* the copy is accepted until it expires (see OldTokenDeleted).
RevokedIsRefused ==
    \A h \in Handlers : (job[h] # Idle /\ job[h].op = "refresh" /\ job[h].late) =>
        job[h].pc \in {"lookup", "lookupdb"}

\* A client that has just been given a token can use it until it expires,
\* whatever Redis lost or never learned: Postgres has it, for the right user.
NoLockout ==
    \A t \in held \ presented : age[t] <= TTL =>
        rows[t] # None /\ (cached[t] # None => cached[t] = rows[t])

\* One address, one account: of several registrations at once, one succeeds.
OneAccount == \A u \in Users : created[u] <= 1

\* A token that clients know never comes back, neither to Postgres nor to
\* Redis: a lookup that is overtaken by a revocation cannot undo it.
NoResurrection ==
    [][\A t \in held : /\ rows[t] = None => rows'[t] = None
                       /\ cached[t] = None => cached'[t] = None]_vars

\* docs/auth.md: "Refresh rotation: old token deleted before new one is issued".
OldTokenDeleted ==
    \A t \in held : parent[t] # None => rows[parent[t]] = None /\ cached[parent[t]] = None

=============================================================================
