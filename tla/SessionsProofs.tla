--------------------------- MODULE SessionsProofs ---------------------------
(***************************************************************************)
(* Proofs about accounts and refresh tokens, for any number of users,      *)
(* tokens and requests, and any time to live.                              *)
(***************************************************************************)
EXTENDS Sessions, TLAPS

\* Each account was created once.
AccountsInv == \A u \in Users : created[u] = IF u \in accounts THEN 1 ELSE 0

\* The stores: Redis learns of tokens only after they were generated, what was revoked is gone from both, and a token
\* whose client has not used it yet is in Postgres, with the same user as in
\* Redis.
StoresInv ==
    /\ \A t \in Tokens \ minted : cached[t] = None
    /\ \A t \in revoked : rows[t] = None /\ cached[t] = None
    /\ \A t \in held \ presented : rows[t] # None /\ cached[t] \in {None, rows[t]}

\* The token that a request was given.
GivenOK(j) ==
    /\ j.pc \in {"lookup", "lookupdb", "uncache", "delete"} => j.tok # None
    /\ j.tok # None => j.tok \in presented
    /\ (j.tok # None /\ j.clean) => cached[j.tok] = None
    /\ j.late => j.tok \in revoked
    /\ (j.op = "refresh" /\ j.late) => j.pc \in {"lookup", "lookupdb"}

\* The token that it issues: nobody knows it yet, so nobody can use it.
IssuedOK(j) ==
    /\ j.pc \in {"create", "mint", "cache", "store"} => j.user \in Users
    /\ (j.op = "refresh" /\ j.pc \in {"uncache", "delete"}) => j.user \in Users
    /\ j.pc \in {"cache", "store"} => j.new \in minted \ held
    /\ j.pc = "cache" => cached[j.new] = None
    /\ j.pc = "store" => cached[j.new] \in {None, j.user}

Issuing(h) == job[h] # Idle /\ job[h].pc \in {"cache", "store"}

JobsInv ==
    /\ \A h \in Handlers : job[h] # Idle => GivenOK(job[h]) /\ IssuedOK(job[h])
    /\ \A g, h \in Handlers : (g # h /\ Issuing(g) /\ Issuing(h)) => job[g].new # job[h].new

SessionInv == TypeOK /\ AccountsInv /\ StoresInv /\ JobsInv

-----------------------------------------------------------------------------
(* Type correctness.                                                       *)

LEMMA SessionInvInit == Init => SessionInv
<1> SUFFICES ASSUME Init PROVE SessionInv
    OBVIOUS
<1>1. TypeOK
    BY SessionConstants DEF Init, TypeOK, Jobs
<1>2. AccountsInv
    BY DEF Init, AccountsInv
<1>3. StoresInv
    BY DEF Init, StoresInv
<1>4. JobsInv
    BY DEF Init, JobsInv, Issuing
<1> QED
    BY <1>1, <1>2, <1>3, <1>4 DEF SessionInv

\* A handler that is not idle is serving a call.
LEMMA Serving ==
    ASSUME TypeOK, NEW h \in Handlers, job[h].pc # "idle" \/ job[h] # Idle
    PROVE  job[h] \in Calls /\ job[h] # Idle
BY DEF TypeOK, Jobs, Idle

\* A request as it comes in.
LEMMA Starting ==
    ASSUME NEW op \in {"register", "login", "refresh", "logout"},
           NEW pc \in {"create", "mint", "lookup", "lookupdb", "uncache", "delete"},
           NEW u \in Users \cup {None}, NEW t \in Tokens \cup {None}
    PROVE  Start(op, pc, u, t) \in Calls
<1>1. (t \in revoked) \in BOOLEAN /\ (t \in Tokens /\ cached[t] = None) \in BOOLEAN
    OBVIOUS
<1>2. PICK late \in BOOLEAN, clean \in BOOLEAN :
          late = (t \in revoked) /\ clean = (t \in Tokens /\ cached[t] = None)
    BY <1>1
<1>3. Start(op, pc, u, t) = [op |-> op, pc |-> pc, user |-> u, tok |-> t, new |-> None,
                             late |-> late, clean |-> clean]
    BY <1>2 DEF Start
<1> QED
    BY <1>3 DEF Calls

LEMMA TypeStep ==
    ASSUME SessionInv, [Next]_vars
    PROVE  TypeOK'
<1>0. TypeOK /\ JobsInv
    BY DEF SessionInv
<1>1. CASE UNCHANGED vars
    BY <1>0, <1>1 DEF TypeOK, vars, storeVars, tokenVars, history
<1>2. ASSUME NEW h \in Handlers, NEW u \in Users, Register(h, u) \/ Login(h, u)
      PROVE  TypeOK'
  <2>1. Start("register", "create", u, None) \in Jobs /\ Start("login", "mint", u, None) \in Jobs
    BY <1>0, Starting DEF TypeOK, Jobs
  <2> QED
    BY <1>0, <1>2, <2>1 DEF TypeOK, Register, Login, storeVars, tokenVars, history
<1>3. ASSUME NEW h \in Handlers, NEW t \in Tokens, Refresh(h, t) \/ Logout(h, t)
      PROVE  TypeOK'
  <2>1. \A pc \in {"lookup", "lookupdb", "uncache", "delete"} :
            Start("refresh", pc, None, t) \in Jobs /\ Start("logout", pc, None, t) \in Jobs
    BY <1>0, Starting DEF TypeOK, Jobs
  <2> QED
    BY <1>0, <1>3, <2>1 DEF TypeOK, Refresh, Logout, storeVars, tokenVars, history
<1>4. ASSUME NEW h \in Handlers, CreateUser(h)
      PROVE  TypeOK'
  <2>1. job[h] \in Calls /\ job[h] # Idle /\ job[h].user \in Users
    BY <1>0, <1>4, Serving DEF CreateUser, JobsInv, IssuedOK
  <2> QED
    BY <1>0, <1>4, <2>1 DEF TypeOK, CreateUser, Goto, Answer, Fail, Jobs, Calls, storeVars, tokenVars, history
<1>5. ASSUME NEW h \in Handlers, LookupCache(h) \/ LookupRow(h) \/ Uncache(h)
      PROVE  TypeOK'
  <2>1. job[h] \in Calls /\ job[h] # Idle /\ job[h].tok \in Tokens
    BY <1>0, <1>5, Serving DEF LookupCache, LookupRow, Uncache, JobsInv, GivenOK, Calls
  <2> QED
    BY <1>0, <1>5, <2>1 DEF TypeOK, LookupCache, LookupRow, Uncache, Accepted, Goto, Answer, Jobs, Calls, storeVars, tokenVars, history
<1>6. ASSUME NEW h \in Handlers, DeleteRow(h)
      PROVE  TypeOK'
  <2>1. job[h] \in Calls /\ job[h] # Idle /\ job[h].tok \in presented
    BY <1>0, <1>6, Serving DEF DeleteRow, JobsInv, GivenOK, Calls
  <2> QED
    BY <1>0, <1>6, <2>1 DEF TypeOK, DeleteRow, Goto, Answer, Jobs, Calls, storeVars, tokenVars, history
<1>7. ASSUME NEW h \in Handlers, NEW n \in Tokens, GenerateRefreshToken(h, n)
      PROVE  TypeOK'
  <2>1. job[h] \in Calls /\ job[h] # Idle
    BY <1>0, <1>7, Serving DEF GenerateRefreshToken
  <2> QED
    BY <1>0, <1>7, <2>1, SessionConstants DEF TypeOK, GenerateRefreshToken, Jobs, Calls, storeVars, history
<1>8. ASSUME NEW h \in Handlers, StoreInCache(h) \/ StoreRow(h)
      PROVE  TypeOK'
  <2>1. job[h] \in Calls /\ job[h] # Idle /\ job[h].user \in Users /\ job[h].new \in minted
    BY <1>0, <1>8, Serving DEF StoreInCache, StoreRow, JobsInv, IssuedOK
  <2> QED
    BY <1>0, <1>8, <2>1, SessionConstants DEF TypeOK, StoreInCache, StoreRow, Goto, Answer, Jobs, Calls, storeVars, tokenVars, history
<1>9. ASSUME NEW h \in Handlers, Abort(h)
      PROVE  TypeOK'
    BY <1>0, <1>9 DEF TypeOK, Abort, Fail, Answer, Jobs, storeVars, tokenVars, history
<1>10. ASSUME NEW t \in Tokens, Evict(t)
      PROVE  TypeOK'
    BY <1>0, <1>10 DEF TypeOK, Evict, tokenVars, history
<1>11. CASE Tick
    BY <1>0, <1>11, SessionConstants DEF TypeOK, Tick, Older, history
<1>12. CASE RestartAPI
    BY <1>0, <1>12 DEF TypeOK, RestartAPI, Jobs, tokenVars, history
<1> QED
    BY <1>1, <1>2, <1>3, <1>4, <1>5, <1>6, <1>7, <1>8, <1>9, <1>10, <1>11, <1>12
       DEF Next, HandlerStep

-----------------------------------------------------------------------------
(* The invariant.                                                          *)

LEMMA AccountsStep ==
    ASSUME SessionInv, [Next]_vars
    PROVE  AccountsInv'
<1>0. TypeOK /\ JobsInv /\ AccountsInv
    BY DEF SessionInv
<1>1. CASE UNCHANGED <<accounts, created>>
    BY <1>0, <1>1 DEF AccountsInv
<1>2. ASSUME NEW h \in Handlers, CreateUser(h)
      PROVE  AccountsInv'
  <2>1. job[h].user \in Users
    BY <1>0, <1>2, Serving DEF CreateUser, JobsInv, IssuedOK
  <2>2. CASE UNCHANGED <<accounts, created>>
    BY <1>1, <2>2
  <2>3. CASE /\ job[h].user \notin accounts /\ accounts' = accounts \cup {job[h].user}
             /\ created' = [created EXCEPT ![job[h].user] = @ + 1]
    BY <1>0, <2>1, <2>3 DEF AccountsInv, TypeOK
  <2> QED
    BY <1>2, <2>2, <2>3 DEF CreateUser, Fail, history
<1> QED
    BY <1>1, <1>2
       DEF Next, HandlerStep, LookupCache, LookupRow, Uncache, DeleteRow, StoreInCache, StoreRow,
           GenerateRefreshToken, Abort, Fail, Register, Login, Refresh, Logout, Evict, RestartAPI,
           Tick, vars, history

\* A token that clients know is never written again: what a handler stores is
\* the token that it has just generated.
LEMMA KnownNotWritten ==
    ASSUME SessionInv, [Next]_vars, NEW t \in held
    PROVE  /\ rows'[t] = rows[t] \/ rows'[t] = None
           /\ cached'[t] = cached[t] \/ cached'[t] = None
<1>0. TypeOK /\ JobsInv /\ t \in Tokens
    BY DEF SessionInv, TypeOK
<1>1. CASE UNCHANGED <<rows, cached>>
    BY <1>1
<1>2. ASSUME NEW h \in Handlers, Uncache(h) \/ DeleteRow(h)
      PROVE  /\ rows'[t] = rows[t] \/ rows'[t] = None
             /\ cached'[t] = cached[t] \/ cached'[t] = None
    BY <1>0, <1>2 DEF Uncache, DeleteRow, TypeOK
<1>3. ASSUME NEW h \in Handlers, StoreInCache(h) \/ StoreRow(h)
      PROVE  UNCHANGED <<rows[t], cached[t]>>
  <2>1. job[h].new \in minted \ held
    BY <1>0, <1>3, Serving DEF StoreInCache, StoreRow, JobsInv, IssuedOK
  <2> QED
    BY <1>0, <1>3, <2>1 DEF StoreInCache, StoreRow, TypeOK
<1>4. CASE Tick
    BY <1>0, <1>4 DEF Tick, TypeOK
<1>5. ASSUME NEW s \in Tokens, Evict(s)
      PROVE  rows' = rows /\ (cached'[t] = cached[t] \/ cached'[t] = None)
    BY <1>0, <1>5 DEF Evict, TypeOK
<1> QED
    BY <1>1, <1>2, <1>3, <1>4, <1>5
       DEF Next, HandlerStep, CreateUser, LookupCache, LookupRow, GenerateRefreshToken, Abort,
           Fail, Register, Login, Refresh, Logout, RestartAPI, vars, storeVars

\* What only grows.
LEMMA HistoryGrows ==
    ASSUME SessionInv, [Next]_vars
    PROVE  /\ minted \subseteq minted' /\ held \subseteq held'
           /\ presented \subseteq presented' /\ revoked \subseteq revoked'
BY DEF Next, HandlerStep, CreateUser, LookupCache, LookupRow, Uncache, DeleteRow, StoreInCache,
       StoreRow, GenerateRefreshToken, Abort, Fail, Register, Login, Refresh, Logout, Evict, RestartAPI,
       Tick, vars, storeVars, tokenVars, history

LEMMA StoresStep ==
    ASSUME SessionInv, [Next]_vars
    PROVE  StoresInv'
<1>0. TypeOK /\ JobsInv /\ StoresInv
    BY DEF SessionInv
<1>1. CASE UNCHANGED <<rows, cached, minted, held, presented, revoked>>
    BY <1>0, <1>1 DEF StoresInv
<1>2. ASSUME NEW h \in Handlers, NEW t \in Tokens, Refresh(h, t) \/ Logout(h, t)
      PROVE  StoresInv'
    BY <1>0, <1>2 DEF Refresh, Logout, StoresInv, storeVars, tokenVars
<1>3. ASSUME NEW h \in Handlers, Uncache(h)
      PROVE  StoresInv'
    BY <1>0, <1>3 DEF Uncache, StoresInv, TypeOK, tokenVars, history
<1>4. ASSUME NEW h \in Handlers, DeleteRow(h)
      PROVE  StoresInv'
  <2>1. job[h].tok \in presented /\ (job[h].clean => cached[job[h].tok] = None)
    BY <1>0, <1>4, Serving DEF DeleteRow, JobsInv, GivenOK
  <2> QED
    BY <1>0, <1>4, <2>1 DEF DeleteRow, StoresInv, TypeOK, tokenVars
<1>5. ASSUME NEW h \in Handlers, NEW n \in Tokens, GenerateRefreshToken(h, n)
      PROVE  StoresInv'
    BY <1>0, <1>5 DEF GenerateRefreshToken, StoresInv, storeVars, history
<1>6. ASSUME NEW h \in Handlers, StoreInCache(h)
      PROVE  StoresInv'
  <2>1. job[h].new \in minted \ held
    BY <1>0, <1>6, Serving DEF StoreInCache, JobsInv, IssuedOK
  <2> QED
    BY <1>0, <1>6, <2>1 DEF StoreInCache, StoresInv, TypeOK, tokenVars, history
<1>7. ASSUME NEW h \in Handlers, StoreRow(h)
      PROVE  StoresInv'
  <2>1. /\ job[h].new \in minted \ held /\ job[h].user \in Users
        /\ cached[job[h].new] \in {None, job[h].user}
    BY <1>0, <1>7, Serving DEF StoreRow, JobsInv, IssuedOK
  <2> QED
    BY <1>0, <1>7, <2>1, SessionConstants DEF StoreRow, StoresInv, TypeOK, history
<1>8. ASSUME NEW t \in Tokens, Evict(t)
      PROVE  StoresInv'
    BY <1>0, <1>8 DEF Evict, StoresInv, TypeOK, tokenVars, history
<1>9. CASE Tick
    BY <1>0, <1>9 DEF Tick, StoresInv, TypeOK, history
<1> QED
    BY <1>1, <1>2, <1>3, <1>4, <1>5, <1>6, <1>7, <1>8, <1>9
       DEF Next, HandlerStep, CreateUser, LookupCache, LookupRow, Abort, Fail, Register, Login,
           RestartAPI, vars, storeVars, tokenVars, history

\* Nobody else writes the token that a handler is about to issue.
LEMMA NewIsPrivate ==
    ASSUME SessionInv, [Next]_vars, NEW g \in Handlers, Issuing(g), job'[g] = job[g]
    PROVE  /\ job[g].new \notin held'
           /\ cached'[job[g].new] \in {None, cached[job[g].new]}
<1> DEFINE n == job[g].new
<1>0. TypeOK /\ JobsInv /\ n \in minted \ held /\ n \in Tokens
    BY DEF SessionInv, JobsInv, IssuedOK, Issuing, TypeOK
<1>1. CASE UNCHANGED <<held, cached>>
    BY <1>0, <1>1
<1>2. ASSUME NEW h \in Handlers, StoreInCache(h) \/ StoreRow(h)
      PROVE  job[h].new \in Tokens /\ job[h].new # n
  <2>1. job[h] # Idle /\ Issuing(h)
    BY <1>0, <1>2, Serving DEF StoreInCache, StoreRow, Issuing
  <2>2. job[h].new \in Tokens
    BY <1>0, <2>1 DEF JobsInv, IssuedOK, Issuing, TypeOK
  <2>3. job'[h] # job[h]
    BY <1>0, <1>2, <2>1, Serving DEF StoreInCache, StoreRow, Goto, Answer, TypeOK, Calls, Idle
  <2> QED
    BY <1>0, <2>1, <2>2, <2>3 DEF JobsInv
<1>3. ASSUME NEW h \in Handlers, StoreInCache(h)
      PROVE  held' = held /\ cached'[n] = cached[n]
    BY <1>0, <1>2, <1>3 DEF StoreInCache, TypeOK, tokenVars
<1>4. ASSUME NEW h \in Handlers, StoreRow(h)
      PROVE  n \notin held' /\ cached' = cached
    BY <1>0, <1>2, <1>4 DEF StoreRow
<1>5. ASSUME NEW h \in Handlers, Uncache(h)
      PROVE  held' = held /\ cached'[n] \in {None, cached[n]}
    BY <1>0, <1>5 DEF Uncache, TypeOK, tokenVars
<1>6. ASSUME NEW t \in Tokens, Evict(t)
      PROVE  held' = held /\ cached'[n] \in {None, cached[n]}
    BY <1>0, <1>6 DEF Evict, TypeOK, tokenVars
<1>7. CASE Tick
    BY <1>0, <1>7 DEF Tick, TypeOK
<1> QED
    BY <1>0, <1>1, <1>3, <1>4, <1>5, <1>6, <1>7
       DEF Next, HandlerStep, CreateUser, LookupCache, LookupRow, DeleteRow, GenerateRefreshToken,
           Abort, Fail, Register, Login, Refresh, Logout, RestartAPI, vars, storeVars, tokenVars

\* A call that did not move stays in order.
LEMMA OthersKeep ==
    ASSUME SessionInv, [Next]_vars, NEW g \in Handlers, job[g] # Idle, job'[g] = job[g]
    PROVE  (GivenOK(job[g]) /\ IssuedOK(job[g]))'
<1>0. TypeOK /\ GivenOK(job[g]) /\ IssuedOK(job[g]) /\ job[g] \in Calls
    BY Serving DEF SessionInv, JobsInv
<1>1. GivenOK(job[g])'
  <2>1. job[g].tok # None => /\ job[g].tok \in presented'
                             /\ cached[job[g].tok] = None => cached'[job[g].tok] = None
    BY <1>0, HistoryGrows, KnownNotWritten DEF GivenOK, TypeOK
  <2> QED
    BY <1>0, <2>1, HistoryGrows DEF GivenOK
<1>2. IssuedOK(job[g])'
  <2>1. job[g].pc \in {"cache", "store"} =>
            /\ job[g].new \in minted' \ held'
            /\ cached'[job[g].new] \in {None, cached[job[g].new]}
    BY <1>0, HistoryGrows, NewIsPrivate DEF IssuedOK, Issuing
  <2> QED
    BY <1>0, <2>1, HistoryGrows DEF IssuedOK
<1> QED
    BY <1>1, <1>2

\* A call that comes in or moves on is in order after the step.
LEMMA MovedOK ==
    ASSUME SessionInv, [Next]_vars, NEW h \in Handlers, job'[h] # job[h], job'[h] # Idle
    PROVE  (GivenOK(job[h]) /\ IssuedOK(job[h]))'
<1> DEFINE OK == (GivenOK(job[h]) /\ IssuedOK(job[h]))'
<1>0. TypeOK /\ StoresInv /\ JobsInv
    BY DEF SessionInv
<1>1. ASSUME NEW u \in Users, Register(h, u) \/ Login(h, u)
      PROVE  OK
  <2>1. /\ job'[h].pc \in {"create", "mint"} /\ job'[h].op \in {"register", "login"}
        /\ job'[h].tok = None /\ job'[h].user = u /\ job'[h].late = (None \in revoked)
    BY <1>0, <1>1 DEF Register, Login, Start, TypeOK
  <2>2. None \notin revoked
    BY <1>0, SessionConstants DEF TypeOK
  <2> QED
    BY <2>1, <2>2 DEF GivenOK, IssuedOK
<1>2. ASSUME NEW t \in Tokens, Refresh(h, t) \/ Logout(h, t)
      PROVE  OK
  <2>0. PICK late \in BOOLEAN, clean \in BOOLEAN :
            late = (t \in revoked) /\ clean = (t \in Tokens /\ cached[t] = None)
    <3>1. (t \in revoked) \in BOOLEAN /\ (t \in Tokens /\ cached[t] = None) \in BOOLEAN
      OBVIOUS
    <3> QED
      BY <3>1
  <2>1. /\ job'[h].tok = t /\ t \in presented' /\ job'[h].late = late
        /\ job'[h].clean = clean /\ UNCHANGED <<cached, revoked>>
    BY <1>0, <1>2, <2>0 DEF Refresh, Logout, Start, TypeOK, storeVars
  <2>2. \/ job'[h].op = "refresh" /\ job'[h].pc \in {"lookup", "lookupdb"}
        \/ job'[h].op = "logout" /\ job'[h].pc \in {"uncache", "delete"}
    BY <1>0, <1>2 DEF Refresh, Logout, Start, TypeOK
  <2> QED
    BY <2>0, <2>1, <2>2, SessionConstants DEF GivenOK, IssuedOK
<1>3. ASSUME job[h] # Idle PROVE job[h] \in Calls /\ GivenOK(job[h]) /\ IssuedOK(job[h])
    BY <1>0, <1>3, Serving DEF JobsInv
<1>4. CASE CreateUser(h)
  <2>1. job[h] # Idle
    BY <1>0, <1>4, Serving DEF CreateUser
  <2>2. job'[h] = [job[h] EXCEPT !.pc = "mint"]
    BY <1>0, <1>4, <2>1 DEF CreateUser, Goto, Answer, Fail, TypeOK
  <2>3. UNCHANGED <<cached, revoked, presented>>
    BY <1>4 DEF CreateUser, Fail, storeVars, history
  <2> QED
    BY <1>3, <1>4, <2>1, <2>2, <2>3 DEF CreateUser, GivenOK, IssuedOK, Calls
<1>5. CASE LookupCache(h) \/ LookupRow(h)
  <2>1. job[h] # Idle /\ UNCHANGED <<cached, revoked, presented>>
    BY <1>0, <1>5, Serving DEF LookupCache, LookupRow, storeVars, history
  <2>2. job[h].tok \in Tokens
    BY <1>3, <1>5, <2>1 DEF LookupCache, LookupRow, GivenOK, Calls
  <2>3. CASE job'[h] = [job[h] EXCEPT !.pc = "lookupdb"]
    BY <1>3, <1>5, <2>1, <2>3 DEF LookupCache, LookupRow, GivenOK, IssuedOK, Calls
  <2>4. ASSUME NEW u \in Users, NEW pc \in {"uncache", "delete"},
               rows[job[h].tok] # None \/ cached[job[h].tok] # None,
               job'[h] = [job[h] EXCEPT !.user = u, !.pc = pc]
        PROVE  OK
    <3>1. ~job[h].late
      BY <1>0, <1>3, <2>1, <2>4 DEF GivenOK, StoresInv, Calls
    <3> QED
      BY <1>3, <1>5, <2>1, <2>4, <3>1 DEF LookupCache, LookupRow, GivenOK, IssuedOK, Calls
  <2>5. ASSUME NEW pc \in {"uncache", "delete"},
               job'[h] = [job[h] EXCEPT !.op = "expired", !.pc = pc]
        PROVE  OK
    BY <1>3, <1>5, <2>1, <2>5 DEF LookupCache, LookupRow, GivenOK, IssuedOK, Calls
  <2>6. /\ rows[job[h].tok] # None => rows[job[h].tok] \in Users
        /\ cached[job[h].tok] # None => cached[job[h].tok] \in Users
    BY <1>0, <2>2 DEF TypeOK
  <2>7. CASE LookupCache(h)
    BY <1>0, <2>1, <2>3, <2>4, <2>6, <2>7 DEF LookupCache, Accepted, Goto, TypeOK
  <2>8. CASE LookupRow(h)
    BY <1>0, <2>1, <2>4, <2>5, <2>6, <2>8 DEF LookupRow, Accepted, Answer, TypeOK
  <2> QED
    BY <1>5, <2>7, <2>8
<1>6. CASE Uncache(h)
  <2>1. job[h] # Idle /\ UNCHANGED <<revoked, presented>>
    BY <1>0, <1>6, Serving DEF Uncache, history
  <2>2. job[h].tok \in Tokens
    BY <1>3, <1>6, <2>1 DEF Uncache, GivenOK, Calls
  <2>3. \/ job'[h] = [job[h] EXCEPT !.pc = "delete"] /\ cached' = cached
        \/ job'[h] = [job[h] EXCEPT !.pc = "delete", !.clean = TRUE] /\ cached'[job[h].tok] = None
    BY <1>0, <1>6, <2>1, <2>2 DEF Uncache, Goto, TypeOK
  <2> QED
    BY <1>3, <1>6, <2>1, <2>3 DEF Uncache, GivenOK, IssuedOK, Calls
<1>7. CASE DeleteRow(h)
  <2>1. job[h] # Idle /\ UNCHANGED <<cached, presented>> /\ revoked \subseteq revoked'
    BY <1>0, <1>7, Serving DEF DeleteRow, history
  <2>2. job'[h] = [job[h] EXCEPT !.pc = "mint"] /\ job[h].op = "refresh"
    BY <1>0, <1>7, <2>1 DEF DeleteRow, Goto, Answer, TypeOK
  <2> QED
    BY <1>3, <1>7, <2>1, <2>2 DEF DeleteRow, GivenOK, IssuedOK, Calls
<1>8. ASSUME NEW n \in Tokens, GenerateRefreshToken(h, n)
      PROVE  OK
  <2>1. job[h] # Idle /\ UNCHANGED <<cached, presented, revoked, held>>
    BY <1>0, <1>8, Serving DEF GenerateRefreshToken, storeVars, history
  <2>2. PICK pc \in {"cache", "store"} : job'[h] = [job[h] EXCEPT !.new = n, !.pc = pc]
    BY <1>0, <1>8, <2>1 DEF GenerateRefreshToken, TypeOK
  <2>3. n \in minted' \ held /\ cached[n] = None
    BY <1>0, <1>8 DEF GenerateRefreshToken, StoresInv, TypeOK
  <2>4. /\ job'[h].new = n /\ job'[h].pc = pc
        /\ \A f \in {"op", "user", "tok", "late", "clean"} : job'[h][f] = job[h][f]
    BY <1>3, <2>1, <2>2 DEF Calls
  <2>5. GivenOK(job[h])'
    BY <1>3, <1>8, <2>1, <2>4 DEF GenerateRefreshToken, GivenOK
  <2>6. IssuedOK(job[h])'
    BY <1>3, <1>8, <2>1, <2>2, <2>3, <2>4 DEF GenerateRefreshToken, IssuedOK
  <2> QED
    BY <2>5, <2>6
<1>9. CASE StoreInCache(h)
  <2>1. job[h] # Idle /\ UNCHANGED <<presented, revoked, held, minted>>
    BY <1>0, <1>9, Serving DEF StoreInCache, tokenVars, history
  <2>2. job'[h] = [job[h] EXCEPT !.pc = "store"]
    BY <1>0, <1>9, <2>1 DEF StoreInCache, Goto, TypeOK
  <2>3. job[h].new \in minted \ held /\ job[h].new \in Tokens
    BY <1>0, <1>3, <1>9, <2>1 DEF StoreInCache, IssuedOK, TypeOK
  <2>4. cached'[job[h].new] \in {None, job[h].user}
    BY <1>0, <1>3, <1>9, <2>1, <2>3 DEF StoreInCache, IssuedOK, TypeOK
  <2>5. job[h].tok # None => cached'[job[h].tok] \in {None, cached[job[h].tok]}
    <3> SUFFICES ASSUME job[h].tok # None PROVE cached'[job[h].tok] \in {None, cached[job[h].tok]}
      OBVIOUS
    <3>1. job[h].tok \in held
      BY <1>0, <1>3, <2>1 DEF GivenOK, TypeOK
    <3> QED
      BY <3>1, KnownNotWritten
  <2> QED
    BY <1>3, <1>9, <2>1, <2>2, <2>3, <2>4, <2>5 DEF StoreInCache, GivenOK, IssuedOK, Calls
<1>10. CASE StoreRow(h) \/ Abort(h)
    BY <1>0, <1>10 DEF StoreRow, Abort, Fail, Answer, TypeOK
<1>11. ASSUME NEW g \in Handlers, g # h,
              HandlerStep(g) \/ Abort(g) \/ (\E u \in Users : Register(g, u) \/ Login(g, u))
              \/ (\E t \in Tokens : Refresh(g, t) \/ Logout(g, t))
       PROVE  job'[h] = job[h]
    BY <1>0, <1>11
       DEF HandlerStep, CreateUser, LookupCache, LookupRow, Uncache, DeleteRow, StoreInCache,
           StoreRow, GenerateRefreshToken, Abort, Fail, Register, Login, Refresh, Logout,
           Accepted, Goto, Answer, TypeOK
<1>12. UNCHANGED vars \/ Tick \/ (\E t \in Tokens : Evict(t)) => job'[h] = job[h]
    BY DEF vars, Tick, Evict
<1>13. RestartAPI => job'[h] = Idle
    BY DEF RestartAPI
<1> QED
    BY <1>1, <1>2, <1>4, <1>5, <1>6, <1>7, <1>8, <1>9, <1>10, <1>11, <1>12,
       <1>13
       DEF Next, HandlerStep

\* A token is generated once: two handlers do not issue the same one.
LEMMA DistinctStep ==
    ASSUME SessionInv, [Next]_vars
    PROVE  \A g, h \in Handlers : (g # h /\ Issuing(g)' /\ Issuing(h)') => job'[g].new # job'[h].new
<1>0. TypeOK /\ JobsInv
    BY DEF SessionInv
<1>1. \A h \in Handlers : Issuing(h) => job[h].new \in minted
    BY <1>0 DEF JobsInv, IssuedOK, Issuing
<1>2. ASSUME NEW h \in Handlers, NEW n \in Tokens, GenerateRefreshToken(h, n)
      PROVE  /\ n \notin minted /\ (Issuing(h)' => job'[h].new = n)
             /\ \A g \in Handlers : g # h => job'[g] = job[g]
  <2>1. job[h] \in Calls
    BY <1>0, <1>2, Serving DEF GenerateRefreshToken
  <2> QED
    BY <1>0, <1>2, <2>1 DEF GenerateRefreshToken, TypeOK, Calls
<1>3. ASSUME NEW h \in Handlers, NEW n \in Tokens, GenerateRefreshToken(h, n)
      PROVE  \A f, g \in Handlers : (f # g /\ Issuing(f)' /\ Issuing(g)') => job'[f].new # job'[g].new
    BY <1>0, <1>1, <1>2, <1>3 DEF JobsInv, Issuing
<1>4. ASSUME ~(\E h \in Handlers, n \in Tokens : GenerateRefreshToken(h, n)),
             NEW g \in Handlers, Issuing(g)'
      PROVE  Issuing(g) /\ job'[g].new = job[g].new
  <2>1. CASE job'[g] = job[g]
    BY <1>4, <2>1 DEF Issuing
  <2>2. CASE StoreInCache(g)
    <3>1. job[g] \in Calls /\ job[g] # Idle
      BY <1>0, <2>2, Serving DEF StoreInCache
    <3> QED
      BY <1>0, <2>2, <3>1 DEF StoreInCache, Goto, TypeOK, Calls, Issuing
  <2>3. CASE /\ job'[g] # job[g]
             /\ \/ CreateUser(g) \/ LookupCache(g) \/ LookupRow(g) \/ Uncache(g) \/ DeleteRow(g)
                \/ StoreRow(g) \/ Abort(g)
    <3>1. job[g] \in Calls /\ job[g] # Idle
      BY <1>0, <2>3, Serving DEF CreateUser, LookupCache, LookupRow, Uncache, DeleteRow, StoreRow, Abort
    <3>2. job'[g] = Idle \/ job'[g].pc \notin {"cache", "store"}
      BY <1>0, <2>3, <3>1
         DEF CreateUser, LookupCache, LookupRow, Uncache, DeleteRow, StoreRow, Abort, Fail,
             Accepted, Goto, Answer, TypeOK, Calls
    <3> QED
      BY <1>4, <3>2 DEF Issuing
  <2>4. ASSUME NEW u \in Users, Register(g, u) \/ Login(g, u)
        PROVE  FALSE
    BY <1>0, <1>4, <2>4 DEF Register, Login, Start, Issuing, TypeOK
  <2>5. ASSUME NEW t \in Tokens, Refresh(g, t) \/ Logout(g, t)
        PROVE  FALSE
    BY <1>0, <1>4, <2>5 DEF Refresh, Logout, Start, Issuing, TypeOK
  <2>6. ASSUME NEW h \in Handlers, h # g,
              HandlerStep(h) \/ Abort(h) \/ (\E u \in Users : Register(h, u) \/ Login(h, u))
              \/ (\E t \in Tokens : Refresh(h, t) \/ Logout(h, t))
        PROVE  job'[g] = job[g]
    BY <1>0, <2>6
       DEF HandlerStep, CreateUser, LookupCache, LookupRow, Uncache, DeleteRow, StoreInCache,
           StoreRow, GenerateRefreshToken, Abort, Fail, Register, Login, Refresh, Logout,
           Accepted, Goto, Answer, TypeOK
  <2>7. UNCHANGED vars \/ Tick \/ (\E t \in Tokens : Evict(t)) => job'[g] = job[g]
    BY DEF vars, Tick, Evict
  <2>8. ~RestartAPI
    BY <1>4 DEF RestartAPI, Issuing
  <2> QED
    BY <1>4, <2>1, <2>2, <2>3, <2>4, <2>5, <2>6, <2>7, <2>8 DEF Next, HandlerStep
<1> QED
    BY <1>0, <1>3, <1>4 DEF JobsInv

LEMMA SessionInvStep ==
    ASSUME SessionInv, [Next]_vars
    PROVE  SessionInv'
<1>1. \A h \in Handlers : job'[h] # Idle => (GivenOK(job[h]) /\ IssuedOK(job[h]))'
    BY OthersKeep, MovedOK
<1>2. JobsInv'
    BY <1>1, DistinctStep DEF JobsInv
<1> QED
    BY <1>2, TypeStep, AccountsStep, StoresStep DEF SessionInv

LEMMA SessionInvariance == Spec => []SessionInv
<1>1. SessionInv /\ [Next]_vars => SessionInv'
    BY SessionInvStep
<1> QED
    BY <1>1, SessionInvInit, PTL DEF Spec

-----------------------------------------------------------------------------
(* Results.                                                                *)

\* The tables, the cache and the calls always have the shape the code gives them.
THEOREM SessionTypes == Spec => []TypeOK
<1>1. SessionInv => TypeOK
    BY DEF SessionInv
<1> QED
    BY <1>1, SessionInvariance, PTL

\* Once a request that found Redis without the token, or removed it there, has
\* deleted its row, no later request with it is accepted: however many handlers
\* still work on it, and however often the API restarts with or without Redis.
THEOREM RevocationIsFinal == Spec => []RevokedIsRefused
<1>1. SessionInv => RevokedIsRefused
    BY DEF SessionInv, JobsInv, GivenOK, RevokedIsRefused
<1> QED
    BY <1>1, SessionInvariance, PTL

\* A token that was handed out and not used yet is in Postgres, whatever Redis
\* has or has lost: its client can always refresh.
THEOREM FreshTokenWorks == Spec => []NoLockout
<1>1. SessionInv => NoLockout
    BY DEF SessionInv, StoresInv, NoLockout
<1> QED
    BY <1>1, SessionInvariance, PTL

\* Registrations of the same address at once create one account.
THEOREM OneAccountPerAddress == Spec => []OneAccount
<1>1. SessionInv => OneAccount
    BY DEF SessionInv, AccountsInv, OneAccount
<1> QED
    BY <1>1, SessionInvariance, PTL

\* No step of any handler puts back a token that clients know.
THEOREM TokensStayDead == Spec => NoResurrection
<1>1. SessionInv /\ [Next]_vars =>
          [\A t \in held : /\ rows[t] = None => rows'[t] = None
                           /\ cached[t] = None => cached'[t] = None]_vars
    BY KnownNotWritten
<1> QED
    BY <1>1, SessionInvariance, PTL DEF Spec, NoResurrection

=============================================================================
