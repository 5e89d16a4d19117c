--------------------------- MODULE KeyCacheProofs ---------------------------
(***************************************************************************)
(* Proofs about API key resolution, for any number of keys, tokens and     *)
(* concurrent requests and handlers, and for any TTLs.  The argument is    *)
(* one of ages: what a request holds in hand, and what a cache entry still *)
(* has to live, bounds how long ago the key can have died.                 *)
(***************************************************************************)
EXTENDS KeyCache, KeyRegistryProofs

CacheTypes ==
    /\ prefixEntry \in [Keys -> 0..PrefixTTL]
    /\ validatedEntry \in [RawKeys -> 0..ValidationTTL]
    /\ revokedEntry \in [Keys -> 0..RevokedTTL]
    /\ redisUp \in [Processes -> BOOLEAN]
    /\ req \in [Requests -> Req]
    /\ deadFor \in [Keys -> 0..MaxAge]
    /\ marked \in [Keys -> BOOLEAN]
    /\ told \in [Keys -> BOOLEAN]

\* A handler that has retired a key has done so in the table.
RetiredInv ==
    \A h \in Handlers :
        call[h].op \in {"revoke", "rotate"} /\ call[h].pc \in {"audit", "invalidate"} =>
            apiKeys[call[h].key] # None /\ apiKeys[call[h].key].revoked

\* The caches: an entry that is left expires before the key has been dead for
\* too long, whenever it was written.
EntriesInv ==
    /\ \A k \in Keys :
          /\ ~Dead(k) => deadFor[k] = 0
          /\ prefixEntry[k] > 0 => deadFor[k] + prefixEntry[k] <= PrefixTTL + MaxFlight
          /\ revokedEntry[k] > 0 => Dead(k)
    /\ \A raw \in RawKeys : validatedEntry[raw] > 0 =>
          /\ deadFor[PrefixOf[raw]] + validatedEntry[raw] <= Grace + 1
          /\ raw = SecretOf[PrefixOf[raw]] /\ apiKeys[PrefixOf[raw]] # None

\* A request: what it has in hand cannot be older than its own age allows.
ReqOK(q) ==
    LET k == PrefixOf[q.raw] IN
    q.pc # "idle" =>
        /\ q.raw \in RawKeys
        /\ q.raw = SecretOf[k] => apiKeys[k] # None
        /\ q.pc \in Pending => q.age <= MaxFlight
        /\ q.pc = "setPrefix" => deadFor[k] <= q.age
        /\ q.pc = "setValidated" => deadFor[k] <= (PrefixTTL - 1) + MaxFlight + q.age
        /\ q.pc = "accepted" => q.stale <= Grace /\ q.raw = SecretOf[k]
        /\ q.pc = "revoked" => Dead(k)
        /\ q.pc = "invalid" /\ q.raw = SecretOf[k] => Dead(k) \/ q.erred

CacheInv ==
    /\ RegistryInv
    /\ RetiredInv
    /\ CacheTypes
    /\ EntriesInv
    /\ \A r \in Requests : ReqOK(req[r])

-----------------------------------------------------------------------------
(* The registry's part.                                                    *)

\* Restarting the API process drops its calls and keeps the tables.
LEMMA RestartKeeps ==
    ASSUME RegistryInv, call' = [h \in Handlers |-> NoCall],
           UNCHANGED <<services, apiKeys, audit>>
    PROVE  RegistryInv'
<1>1. RegistryTypeOK'
    BY DEF RegistryInv, RegistryTypeOK, NoCall, Call, PC, Op
<1>2. CallsInv'
    BY DEF CallsInv, CallKnows, CallService, NoCall
<1>3. KeyTenancy' /\ SingleSuccessor'
    BY DEF RegistryInv, KeyTenancy, SingleSuccessor
<1>4. \A h \in Handlers, op \in KeyOps, k \in Keys : ~AboutToAudit(h, op, k)'
    BY DEF AboutToAudit, NoCall
<1>5. \A op \in KeyOps, k \in Keys : RowSays(op, k) => RowSays(op, k)'
    BY DEF RowSays
<1>6. AuditInv'
    BY <1>4, <1>5 DEF RegistryInv, AuditInv
<1> QED
    BY <1>1, <1>2, <1>3, <1>6 DEF RegistryInv

\* Every other step is a step of the registry, or leaves it alone.
LEMMA RegistryPart ==
    ASSUME [Next]_vars
    PROVE  \/ [RegistryNext]_registryVars
           \/ /\ call' = [h \in Handlers |-> NoCall]
              /\ UNCHANGED <<services, apiKeys, audit>>
  BY DEF Next, vars, registryVars, RegistryNext, Registry, Invalidate, ResolveStep, Resolve,
         CheckRevoked, GetValidated, GetPrefix, Lookup, SetPrefix, ValidateAPIKey,
         RestartIngestor, RestartAPI, RestartRedis, Tick

\* What the rest of the proof uses of the registry: keys are never forgotten
\* and never revived.
KeysAge ==
    \A k \in Keys : /\ apiKeys[k] # None => apiKeys'[k] # None
                    /\ Dead(k) => Dead(k)'

\* Both follow from the registry's invariant, also across a restart.
LEMMA RegistryFacts ==
    ASSUME RegistryInv, [Next]_vars
    PROVE  RegistryInv' /\ KeysAge
<1>1. CASE [RegistryNext]_registryVars
  <2>1. RegistryInv' /\ KeysGrow
    BY <1>1, RegistryInvStep, RowsGrow
  <2>2. \A k \in Keys : (apiKeys[k] # None /\ ~KeyAlive(k)) => ~KeyAlive(k)'
    BY <1>1, DeadStep
  <2> QED
    BY <2>1, <2>2 DEF KeysAge, KeysGrow, Dead
<1>2. CASE call' = [h \in Handlers |-> NoCall] /\ UNCHANGED <<services, apiKeys, audit>>
    BY <1>2, RestartKeeps DEF KeysAge, Dead, KeyAlive
<1> QED
    BY <1>1, <1>2, RegistryPart

\* The handler that goes on to drop a key from the cache has retired it.
LEMMA RetiredStep ==
    ASSUME RegistryInv, RetiredInv, [RegistryNext]_registryVars
    PROVE  RetiredInv'
<1>0. /\ call \in [Handlers -> Call] /\ KeysGrow
      /\ \A g \in Handlers : CallKnows(call[g])
    BY RowsGrow DEF RegistryInv, RegistryTypeOK, CallsInv
<1> DEFINE Due(c) == c.op \in {"revoke", "rotate"} /\ c.pc \in {"audit", "invalidate"}
<1>1. ASSUME NEW g \in Handlers, call'[g] = call[g], Due(call'[g])
      PROVE  apiKeys'[call'[g].key] # None /\ apiKeys'[call'[g].key].revoked
    BY <1>0, <1>1 DEF RetiredInv, KeysGrow, CallKnows
<1>2. ASSUME NEW h \in Handlers, \A g \in Handlers \ {h} : call'[g] = call[g],
             Due(call'[h]) => apiKeys'[call'[h].key] # None /\ apiKeys'[call'[h].key].revoked
      PROVE  RetiredInv'
    BY <1>1, <1>2 DEF RetiredInv
<1>3. ASSUME NEW h \in Handlers, Request(h)
      PROVE  RetiredInv'
    BY <1>0, <1>2, <1>3, EnterKnows
<1>4. ASSUME NEW h \in Handlers, EndCall(h)
      PROVE  RetiredInv'
    BY <1>0, <1>2, <1>4 DEF EndCall, NoCall
<1>5. ASSUME NEW h \in Handlers, GetServiceByID(h) \/ GetAPIKeyByID(h)
      PROVE  RetiredInv'
    BY <1>0, <1>2, <1>4, <1>5 DEF GetServiceByID, GetAPIKeyByID, Goto, Call
<1>6. ASSUME NEW h \in Handlers,
             InsertService(h) \/ UpdateServiceRow(h) \/ SoftDeleteService(h)
      PROVE  RetiredInv'
    BY <1>0, <1>2, <1>4, <1>6 DEF InsertService, UpdateServiceRow, SoftDeleteService, Goto, Call
<1>7. ASSUME NEW h \in Handlers, NEW k \in Keys, Stored(h, k),
             KeyCreated(h, k) \/ KeyRevoked(h, k) \/ KeyRotated(h, k)
      PROVE  RetiredInv'
  <2>1. /\ \A g \in Handlers \ {h} : call'[g] = call[g]
        /\ call'[h].op = call[h].op /\ call'[h].key = call[h].key
    BY <1>0, <1>7 DEF Stored, Call
  <2> QED
    BY <1>2, <1>7, <2>1 DEF KeyCreated, KeyRevoked, KeyRotated
<1>8. ASSUME NEW h \in Handlers, CreateAPIKey(h) \/ RevokeKeyRow(h) \/ RotateTx(h)
      PROVE  RetiredInv'
    BY <1>4, <1>7, <1>8, KeyWrite
<1>9. ASSUME NEW h \in Handlers, WriteAudit(h)
      PROVE  RetiredInv'
  <2>1. CASE EndCall(h)
    BY <1>4, <2>1
  <2>2. CASE Goto(h, "invalidate") /\ call[h].op \in {"revoke", "rotate"}
    <3>1. /\ \A g \in Handlers \ {h} : call'[g] = call[g]
          /\ call'[h].key = call[h].key
      BY <1>0, <2>2 DEF Goto, Call
    <3>2. call[h].pc = "audit" /\ apiKeys' = apiKeys
      BY <1>9 DEF WriteAudit
    <3> QED
      BY <1>2, <2>2, <3>1, <3>2 DEF RetiredInv
  <2> QED
    BY <1>9, <2>1, <2>2 DEF WriteAudit
<1>10. CASE UNCHANGED registryVars
    BY <1>10 DEF registryVars, RetiredInv
<1> QED
    BY <1>3, <1>4, <1>5, <1>6, <1>8, <1>9, <1>10
       DEF RegistryNext, RegistryStep, Statement, Abort, InvalidateKeyCache

\* The same for the whole system.
LEMMA RetiredNext ==
    ASSUME RegistryInv, RetiredInv, [Next]_vars
    PROVE  RetiredInv'
<1>1. CASE call' = [h \in Handlers |-> NoCall]
    BY <1>1 DEF RetiredInv, NoCall
<1> QED
    BY <1>1, RegistryPart, RetiredStep

\* A handler about to invalidate holds a dead key.
LEMMA InvalidateDead ==
    ASSUME RegistryInv, RetiredInv, NEW h \in Handlers, InvalidateKeyCache(h)
    PROVE  call[h].key \in Keys /\ Dead(call[h].key)
<1>1. CallKnows(call[h]) /\ call[h] \in Call
    BY DEF RegistryInv, CallsInv, RegistryTypeOK
<1>2. call[h].op \in {"revoke", "rotate"} /\ call[h].key \in Keys
    BY <1>1 DEF InvalidateKeyCache, CallKnows, Call, Op
<1> QED
    BY <1>2 DEF InvalidateKeyCache, RetiredInv, Dead, KeyAlive

-----------------------------------------------------------------------------
(* The requests and the caches.                                            *)

\* A request keeps what it knows while keys only age.
LEMMA ReqKeeps ==
    ASSUME KeysAge, deadFor' = deadFor, NEW q, ReqOK(q)
    PROVE  ReqOK(q)'
<1>1. q.raw \in RawKeys => PrefixOf[q.raw] \in Keys
    BY CacheConstants
<1> QED
    BY <1>1 DEF ReqOK, KeysAge

\* A step of one request.
LEMMA ReqUpdate ==
    ASSUME CacheInv, KeysAge, deadFor' = deadFor,
           NEW r \in Requests, NEW new \in Req, req' = [req EXCEPT ![r] = new], ReqOK(new)
    PROVE  req' \in [Requests -> Req] /\ \A t \in Requests : ReqOK(req[t])'
<1>1. req \in [Requests -> Req] /\ \A t \in Requests : ReqOK(req[t])
    BY DEF CacheInv, CacheTypes
<1>2. \A t \in Requests : req'[t] = IF t = r THEN new ELSE req[t]
    BY <1>1
<1>3. \A t \in Requests : ReqOK(req'[t])
    BY <1>1, <1>2
<1>4. ASSUME NEW t \in Requests, NEW q, q = req'[t]
      PROVE  ReqOK(q)'
    BY <1>3, <1>4, ReqKeeps
<1> QED
    BY <1>1, <1>4

\* Entries keep their promise while they are left alone and keys only age.
LEMMA EntriesKeep ==
    ASSUME EntriesInv, KeysAge, UNCHANGED <<prefixEntry, validatedEntry, revokedEntry, deadFor>>
    PROVE  EntriesInv'
<1>1. \A raw \in RawKeys : PrefixOf[raw] \in Keys
    BY CacheConstants
<1> QED
    BY <1>1 DEF EntriesInv, KeysAge

\* A request moves on with what it has.
LEMMA StepNew ==
    ASSUME CacheInv, NEW r \in Requests, NEW pc \in ReqPC, Step(r, pc)
    PROVE  \E new \in Req : /\ req' = [req EXCEPT ![r] = new]
                            /\ new.pc = pc /\ new.raw = req[r].raw
                            /\ new.age = req[r].age /\ new.stale = req[r].stale
<1>1. req \in [Requests -> Req]
    BY DEF CacheInv, CacheTypes
<1>2. PICK new : new = [req[r] EXCEPT !.pc = pc]
    OBVIOUS
<1>3. /\ new \in Req /\ new.pc = pc /\ new.raw = req[r].raw
      /\ new.age = req[r].age /\ new.stale = req[r].stale
    BY <1>1, <1>2 DEF Req
<1>4. req' = [req EXCEPT ![r] = new]
    BY <1>1, <1>2 DEF Step
<1> QED
    BY <1>3, <1>4

\* A request is accepted; what its key's age was is recorded.
LEMMA AcceptNew ==
    ASSUME CacheInv, NEW r \in Requests, req[r].pc # "idle", Accept(r)
    PROVE  \E new \in Req : /\ req' = [req EXCEPT ![r] = new]
                            /\ new.pc = "accepted" /\ new.raw = req[r].raw
                            /\ new.age = req[r].age /\ new.stale = deadFor[Key(r)]
<1>1. req \in [Requests -> Req] /\ deadFor \in [Keys -> 0..MaxAge] /\ ReqOK(req[r])
    BY DEF CacheInv, CacheTypes
<1>2. Key(r) \in Keys
    BY <1>1, CacheConstants DEF ReqOK, Key
<1>3. PICK d : d = deadFor[Key(r)] /\ d \in Nat
    BY <1>1, <1>2, CacheConstants
<1>4. PICK new : new = [req[r] EXCEPT !.pc = "accepted", !.stale = d]
    OBVIOUS
<1>5. /\ new \in Req /\ new.pc = "accepted" /\ new.raw = req[r].raw
      /\ new.age = req[r].age /\ new.stale = d
    BY <1>1, <1>3, <1>4 DEF Req, ReqPC
<1>6. req' = [req EXCEPT ![r] = new]
    BY <1>1, <1>3, <1>4 DEF Accept
<1> QED
    BY <1>3, <1>5, <1>6

\* What is left to show of a step: the parts a request or an entry can break.
Rest == CacheTypes' /\ EntriesInv' /\ \A t \in Requests : ReqOK(req[t])'

\* The commands of Resolve that only read.
LEMMA ReadStep ==
    ASSUME CacheInv, KeysAge, NEW r \in Requests, NEW new \in Req,
           req' = [req EXCEPT ![r] = new], ReqOK(new),
           UNCHANGED <<cacheVars, redisUp, historyVars>>
    PROVE  Rest
<1>1. UNCHANGED <<prefixEntry, validatedEntry, revokedEntry, redisUp, deadFor, marked, told>>
    BY DEF cacheVars, historyVars
<1>2. EntriesInv'
    BY <1>1, EntriesKeep DEF CacheInv
<1>3. req' \in [Requests -> Req] /\ \A t \in Requests : ReqOK(req[t])'
    BY <1>1, ReqUpdate
<1> QED
    BY <1>1, <1>2, <1>3 DEF Rest, CacheInv, CacheTypes

\* The bounds on the constants in the form the arithmetic needs.
LEMMA Bounds ==
    /\ PrefixTTL \in Nat /\ ValidationTTL \in Nat /\ RevokedTTL \in Nat
    /\ MaxFlight \in Nat /\ MaxAge \in Nat /\ Grace \in Nat
    /\ PrefixTTL >= 1 /\ ValidationTTL >= 1
    /\ Grace = (PrefixTTL - 1) + (ValidationTTL - 1) + 2 * MaxFlight
    /\ MaxAge > Grace /\ MaxAge >= RevokedTTL
    /\ \A raw \in RawKeys : PrefixOf[raw] \in Keys
  BY CacheConstants DEF Grace

\* A request that gets an error is answered, and knows why.
LEMMA FailStep ==
    ASSUME CacheInv, KeysAge, NEW r \in Requests, req[r].pc # "idle", Fail(r),
           UNCHANGED <<cacheVars, redisUp, historyVars>>
    PROVE  Rest
<1>1. req \in [Requests -> Req] /\ ReqOK(req[r])
    BY DEF CacheInv, CacheTypes
<1>2. PICK new : new = [req[r] EXCEPT !.pc = "invalid", !.erred = TRUE]
    OBVIOUS
<1>3. new \in Req /\ new.pc = "invalid" /\ new.erred /\ new.raw = req[r].raw
    BY <1>1, <1>2 DEF Req, ReqPC
<1>4. req' = [req EXCEPT ![r] = new]
    BY <1>1, <1>2 DEF Fail
<1>5. ReqOK(new)
    BY <1>1, <1>3 DEF ReqOK, Pending
<1> QED
    BY <1>3, <1>4, <1>5, ReadStep

\* Every command of Resolve keeps the ages in bounds.
LEMMA ResolveSteps ==
    ASSUME CacheInv, KeysAge, NEW r \in Requests, ResolveStep(r)
    PROVE  Rest
<1>0. /\ req \in [Requests -> Req] /\ ReqOK(req[r]) /\ EntriesInv
      /\ deadFor \in [Keys -> 0..MaxAge] /\ prefixEntry \in [Keys -> 0..PrefixTTL]
      /\ validatedEntry \in [RawKeys -> 0..ValidationTTL]
      /\ marked \in [Keys -> BOOLEAN] /\ told \in [Keys -> BOOLEAN]
    BY DEF CacheInv, CacheTypes
<1>k. req[r].pc # "idle" => req[r].raw \in RawKeys /\ Key(r) \in Keys /\ Key(r) = PrefixOf[req[r].raw]
                            /\ deadFor[Key(r)] \in Nat /\ req[r].age \in Nat
    BY <1>0, Bounds DEF ReqOK, Key, Req
<1>1. ASSUME NEW raw \in RawKeys, Resolve(r, raw)
      PROVE  Rest
  <2>1. PICK new : new = [NoReq EXCEPT !.pc = IF redisUp["ingestor"] THEN "exists" ELSE "lookup",
                        !.raw = raw, !.afterMark = marked[PrefixOf[raw]],
                        !.afterTold = told[PrefixOf[raw]]]
    OBVIOUS
  <2>2. PrefixOf[raw] \in Keys
    BY Bounds
  <2>3. /\ new \in Req /\ new.raw = raw /\ new.age = 0 /\ new.pc \in {"exists", "lookup"}
    BY <1>0, <2>1, <2>2 DEF NoReq, Req, ReqPC, Pending
  <2>4. ReqOK(new)
    BY <1>1, <2>3, Bounds DEF ReqOK, Resolve
  <2>5. req' = [req EXCEPT ![r] = new]
    BY <1>1, <2>1 DEF Resolve
  <2> QED
    BY <1>1, <2>3, <2>4, <2>5, ReadStep DEF Resolve
<1>2. ASSUME CheckRevoked(r)
      PROVE  Rest
  <2>1. \E new \in Req : /\ req' = [req EXCEPT ![r] = new]
                         /\ new.raw = req[r].raw /\ new.age = req[r].age
                         /\ \/ new.pc = "getValidated"
                            \/ new.pc = "revoked" /\ revokedEntry[Key(r)] > 0
    <3>1. CASE Step(r, IF revokedEntry[Key(r)] > 0 THEN "revoked" ELSE "getValidated")
      BY <3>1, StepNew DEF ReqPC, Pending
    <3>2. CASE req' = [req EXCEPT ![r].pc = "getValidated", ![r].blind = TRUE]
      <4>1. PICK new : new = [req[r] EXCEPT !.pc = "getValidated", !.blind = TRUE]
        OBVIOUS
      <4>2. new \in Req /\ new.raw = req[r].raw /\ new.age = req[r].age /\ new.pc = "getValidated"
        BY <1>0, <4>1 DEF Req, ReqPC, Pending
      <4>3. req' = [req EXCEPT ![r] = new]
        BY <1>0, <3>2, <4>1
      <4> QED
        BY <4>2, <4>3
    <3> QED
      BY <1>2, <3>1, <3>2 DEF CheckRevoked
  <2>2. PICK new \in Req : <2>1!(new)
    BY <2>1
  <2>3. ReqOK(new)
    BY <1>0, <1>k, <1>2, <2>2 DEF CheckRevoked, ReqOK, EntriesInv, Pending
  <2> QED
    BY <1>2, <2>2, <2>3, ReadStep DEF CheckRevoked
<1>3. ASSUME GetValidated(r)
      PROVE  Rest
  <2>1. CASE validatedEntry[req[r].raw] > 0 /\ Accept(r)
    <3>1. PICK new \in Req : /\ req' = [req EXCEPT ![r] = new]
                             /\ new.pc = "accepted" /\ new.raw = req[r].raw
                             /\ new.age = req[r].age /\ new.stale = deadFor[Key(r)]
      BY <1>3, <2>1, AcceptNew DEF GetValidated
    <3>2. deadFor[Key(r)] <= Grace /\ req[r].raw = SecretOf[Key(r)]
      BY <1>0, <1>k, <1>3, <2>1, Bounds DEF GetValidated, EntriesInv
    <3>3. ReqOK(new)
      BY <1>0, <1>k, <1>3, <3>1, <3>2 DEF GetValidated, ReqOK, Pending
    <3> QED
      BY <1>3, <3>1, <3>3, ReadStep DEF GetValidated
  <2>2. CASE Step(r, "getPrefix")
    <3>1. PICK new \in Req : /\ req' = [req EXCEPT ![r] = new]
                             /\ new.pc = "getPrefix" /\ new.raw = req[r].raw
                             /\ new.age = req[r].age
      BY <2>2, StepNew DEF ReqPC, Pending
    <3>2. ReqOK(new)
      BY <1>0, <1>3, <3>1 DEF GetValidated, ReqOK, Pending
    <3> QED
      BY <1>3, <3>1, <3>2, ReadStep DEF GetValidated
  <2> QED
    BY <1>3, <2>1, <2>2 DEF GetValidated
<1>4. ASSUME GetPrefix(r)
      PROVE  Rest
  <2>1. CASE Fail(r)
    BY <1>4, <2>1, FailStep DEF GetPrefix, Pending
  <2> SUFFICES ASSUME ~Fail(r) PROVE Rest
    BY <2>1
  <2>5. PICK pc \in ReqPC : /\ Step(r, pc)
                            /\ \/ pc = "lookup"
                               \/ pc = "setValidated" /\ prefixEntry[Key(r)] > 0
    BY <1>4 DEF GetPrefix, ReqPC, Pending
  <2>2. PICK new \in Req : /\ req' = [req EXCEPT ![r] = new]
                           /\ new.pc = pc /\ new.raw = req[r].raw
                           /\ new.age = req[r].age
    BY <2>5, StepNew
  <2>3. prefixEntry[Key(r)] > 0 => deadFor[Key(r)] <= (PrefixTTL - 1) + MaxFlight + req[r].age
    BY <1>0, <1>k, <1>4, Bounds DEF EntriesInv, GetPrefix
  <2>4. ReqOK(new)
    BY <1>0, <1>k, <1>4, <2>5, <2>2, <2>3 DEF GetPrefix, ReqOK, Pending
  <2> QED
    BY <1>4, <2>2, <2>4, ReadStep DEF GetPrefix
<1>5. ASSUME Lookup(r)
      PROVE  Rest
  <2>1. CASE Fail(r)
    BY <1>5, <2>1, FailStep DEF Lookup, Pending
  <2> SUFFICES ASSUME ~Fail(r) PROVE Rest
    BY <2>1
  <2>5. PICK pc \in ReqPC : /\ Step(r, pc)
                            /\ \/ pc = "invalid" /\ ~KeyAlive(Key(r))
                               \/ pc \in {"setPrefix", "setValidated"} /\ KeyAlive(Key(r))
    BY <1>5 DEF Lookup, ReqPC, Pending
  <2>2. PICK new \in Req : /\ req' = [req EXCEPT ![r] = new]
                           /\ new.pc = pc /\ new.raw = req[r].raw
                           /\ new.age = req[r].age
    BY <2>5, StepNew
  <2>3. KeyAlive(Key(r)) => deadFor[Key(r)] = 0
    BY <1>0, <1>k, <1>5 DEF EntriesInv, Dead, Lookup
  <2>4. ReqOK(new)
    BY <1>0, <1>k, <1>5, <2>5, <2>2, <2>3, Bounds DEF Lookup, ReqOK, Pending, Dead
  <2> QED
    BY <1>5, <2>2, <2>4, ReadStep DEF Lookup
<1>6. ASSUME SetPrefix(r)
      PROVE  Rest
  <2>1. PICK new \in Req : /\ req' = [req EXCEPT ![r] = new]
                           /\ new.pc = "setValidated" /\ new.raw = req[r].raw
                           /\ new.age = req[r].age
    BY <1>6, StepNew DEF SetPrefix, ReqPC, Pending
  <2>2. deadFor[Key(r)] <= req[r].age /\ req[r].age <= MaxFlight
    BY <1>0, <1>k, <1>6 DEF SetPrefix, ReqOK, Pending
  <2>3. ReqOK(new)
    BY <1>0, <1>k, <1>6, <2>1, <2>2, Bounds DEF SetPrefix, ReqOK, Pending
  <2>4. UNCHANGED <<validatedEntry, revokedEntry, redisUp, deadFor, marked, told>>
    BY <1>6 DEF SetPrefix, historyVars
  <2>5. req' \in [Requests -> Req] /\ \A t \in Requests : ReqOK(req[t])'
    BY <2>1, <2>3, <2>4, ReqUpdate
  <2>6. CASE prefixEntry' = prefixEntry
    BY <1>0, <2>4, <2>5, <2>6, EntriesKeep DEF Rest, CacheInv, CacheTypes
  <2>7. CASE prefixEntry' = [prefixEntry EXCEPT ![Key(r)] = PrefixTTL]
    <3>0. PrefixTTL \in 0..PrefixTTL
      BY Bounds
    <3>1. prefixEntry' \in [Keys -> 0..PrefixTTL]
      BY <1>0, <2>7, <3>0
    <3>2. \A k \in Keys : prefixEntry'[k] = IF k = Key(r) THEN PrefixTTL ELSE prefixEntry[k]
      BY <1>0, <2>7
    <3>3. EntriesInv'
      BY <1>0, <1>k, <1>6, <2>2, <2>4, <3>2, Bounds DEF EntriesInv, KeysAge, SetPrefix
    <3> QED
      BY <2>4, <2>5, <3>1, <3>3 DEF Rest, CacheInv, CacheTypes
  <2> QED
    BY <1>6, <2>6, <2>7 DEF SetPrefix
<1>7. ASSUME ValidateAPIKey(r)
      PROVE  Rest
  <2>1. CASE Step(r, "invalid") /\ req[r].raw # SecretOf[Key(r)] /\ UNCHANGED validatedEntry
    <3>1. PICK new \in Req : /\ req' = [req EXCEPT ![r] = new]
                             /\ new.pc = "invalid" /\ new.raw = req[r].raw
                             /\ new.age = req[r].age
      BY <2>1, StepNew DEF ReqPC
    <3>2. ReqOK(new)
      BY <1>0, <1>k, <1>7, <2>1, <3>1 DEF ValidateAPIKey, ReqOK, Pending
    <3> QED
      BY <1>7, <2>1, <3>1, <3>2, ReadStep DEF ValidateAPIKey, cacheVars
  <2>2. CASE Accept(r) /\ req[r].raw = SecretOf[Key(r)]
    <3>1. PICK new \in Req : /\ req' = [req EXCEPT ![r] = new]
                             /\ new.pc = "accepted" /\ new.raw = req[r].raw
                             /\ new.age = req[r].age /\ new.stale = deadFor[Key(r)]
      BY <1>7, <2>2, AcceptNew DEF ValidateAPIKey
    <3>2. /\ deadFor[Key(r)] + ValidationTTL <= Grace + 1 /\ deadFor[Key(r)] <= Grace
          /\ apiKeys[Key(r)] # None
      BY <1>0, <1>k, <1>7, <2>2, Bounds DEF ValidateAPIKey, ReqOK, Pending
    <3>3. ReqOK(new)
      BY <1>0, <1>k, <1>7, <2>2, <3>1, <3>2 DEF ValidateAPIKey, ReqOK, Pending
    <3>4. UNCHANGED <<prefixEntry, revokedEntry, redisUp, deadFor, marked, told>>
      BY <1>7 DEF ValidateAPIKey, historyVars
    <3>5. req' \in [Requests -> Req] /\ \A t \in Requests : ReqOK(req[t])'
      BY <3>1, <3>3, <3>4, ReqUpdate
    <3>6. CASE UNCHANGED validatedEntry
      BY <1>0, <3>4, <3>5, <3>6, EntriesKeep DEF Rest, CacheInv, CacheTypes
    <3>7. CASE validatedEntry' = [validatedEntry EXCEPT ![req[r].raw] = ValidationTTL]
      <4>0. ValidationTTL \in 0..ValidationTTL
        BY Bounds
      <4>1. validatedEntry' \in [RawKeys -> 0..ValidationTTL]
        BY <1>0, <3>7, <4>0
      <4>2. \A raw \in RawKeys : validatedEntry'[raw] =
                                    IF raw = req[r].raw THEN ValidationTTL ELSE validatedEntry[raw]
        BY <1>0, <3>7
      <4>3. EntriesInv'
        BY <1>0, <1>k, <1>7, <2>2, <3>2, <3>4, <4>2, Bounds
           DEF EntriesInv, KeysAge, ValidateAPIKey
      <4> QED
        BY <3>4, <3>5, <4>1, <4>3 DEF Rest, CacheInv, CacheTypes
    <3> QED
      BY <1>7, <2>2, <3>6, <3>7 DEF ValidateAPIKey
  <2> QED
    BY <1>7, <2>1, <2>2 DEF ValidateAPIKey
<1> QED
    BY <1>1, <1>2, <1>3, <1>4, <1>5, <1>6, <1>7 DEF ResolveStep

\* Dropping a key from the cache: its record goes, its marker appears.
LEMMA InvalidateStep ==
    ASSUME CacheInv, KeysAge, NEW h \in Handlers, Invalidate(h)
    PROVE  Rest
<1>0. /\ prefixEntry \in [Keys -> 0..PrefixTTL] /\ revokedEntry \in [Keys -> 0..RevokedTTL]
      /\ marked \in [Keys -> BOOLEAN] /\ told \in [Keys -> BOOLEAN] /\ EntriesInv
      /\ \A t \in Requests : ReqOK(req[t])
    BY DEF CacheInv, CacheTypes
<1>1. PICK k \in Keys : k = call[h].key /\ Dead(k)
    BY InvalidateDead DEF CacheInv, Invalidate
<1>2. UNCHANGED <<validatedEntry, redisUp, req, deadFor>>
    BY DEF Invalidate
<1>3. 0 \in 0..PrefixTTL /\ RevokedTTL \in 0..RevokedTTL
    BY Bounds
<1>4. prefixEntry' = prefixEntry \/ prefixEntry' = [prefixEntry EXCEPT ![k] = 0]
    BY <1>1 DEF Invalidate
<1>5. revokedEntry' = revokedEntry \/ revokedEntry' = [revokedEntry EXCEPT ![k] = RevokedTTL]
    BY <1>1 DEF Invalidate
<1>6. (marked' = marked \/ marked' = [marked EXCEPT ![k] = TRUE])
      /\ told' = [told EXCEPT ![k] = TRUE]
    BY <1>1 DEF Invalidate
<1>7. CacheTypes'
    BY <1>0, <1>2, <1>3, <1>4, <1>5, <1>6 DEF CacheInv, CacheTypes
<1>8. /\ \A j \in Keys : prefixEntry'[j] = prefixEntry[j] \/ prefixEntry'[j] = 0
      /\ \A j \in Keys : revokedEntry'[j] = revokedEntry[j] \/ Dead(j)
    BY <1>0, <1>1, <1>4, <1>5
<1>9. EntriesInv'
    BY <1>0, <1>2, <1>8, Bounds DEF EntriesInv, KeysAge
<1>10. ASSUME NEW t \in Requests, NEW q, q = req[t]
       PROVE  ReqOK(q)'
    BY <1>0, <1>2, <1>10, ReqKeeps
<1> QED
    BY <1>2, <1>7, <1>9, <1>10 DEF Rest

\* Steps that leave the requests and the caches alone.
LEMMA QuietStep ==
    ASSUME CacheInv, KeysAge, UNCHANGED <<cacheVars, req, historyVars>>,
           redisUp' \in [Processes -> BOOLEAN]
    PROVE  Rest
<1>1. UNCHANGED <<prefixEntry, validatedEntry, revokedEntry, req, deadFor, marked, told>>
    BY DEF cacheVars, historyVars
<1>2. EntriesInv'
    BY <1>1, EntriesKeep DEF CacheInv
<1>3. ASSUME NEW t \in Requests, NEW q, q = req[t]
      PROVE  ReqOK(q)'
    BY <1>1, <1>3, ReqKeeps DEF CacheInv
<1> QED
    BY <1>1, <1>2, <1>3 DEF Rest, CacheInv, CacheTypes

\* A restart of the ingestor forgets the requests.
LEMMA RestartIngestorStep ==
    ASSUME CacheInv, KeysAge, RestartIngestor
    PROVE  Rest
<1>1. UNCHANGED <<prefixEntry, validatedEntry, revokedEntry, deadFor, marked, told>>
    BY DEF RestartIngestor, cacheVars, historyVars
<1>2. EntriesInv'
    BY <1>1, EntriesKeep DEF CacheInv
<1>3. NoReq \in Req
    BY DEF NoReq, Req, ReqPC
<1>4. req' \in [Requests -> Req] /\ \A t \in Requests : req'[t].pc = "idle"
    BY <1>3 DEF RestartIngestor, NoReq
<1>5. redisUp' \in [Processes -> BOOLEAN]
    BY DEF RestartIngestor, CacheInv, CacheTypes
<1> QED
    BY <1>1, <1>2, <1>4, <1>5 DEF Rest, CacheInv, CacheTypes, ReqOK

\* A restart of Redis empties the caches; requests go on.
LEMMA RestartRedisStep ==
    ASSUME CacheInv, KeysAge, RestartRedis
    PROVE  Rest
<1>0. req \in [Requests -> Req] /\ \A t \in Requests : ReqOK(req[t])
    BY DEF CacheInv, CacheTypes
<1>1. UNCHANGED <<redisUp, deadFor, told>>
    BY DEF RestartRedis
<1>2. 0 \in 0..PrefixTTL /\ 0 \in 0..ValidationTTL /\ 0 \in 0..RevokedTTL
    BY Bounds
<1>3. /\ prefixEntry' \in [Keys -> 0..PrefixTTL] /\ validatedEntry' \in [RawKeys -> 0..ValidationTTL]
      /\ revokedEntry' \in [Keys -> 0..RevokedTTL] /\ marked' \in [Keys -> BOOLEAN]
    BY <1>2 DEF RestartRedis
<1>4. EntriesInv'
    BY <1>1 DEF RestartRedis, CacheInv, EntriesInv, KeysAge
<1>5. ASSUME NEW t \in Requests, NEW q, q = req'[t]
      PROVE  q \in Req /\ ReqOK(q)'
  <2>1. q = [req[t] EXCEPT !.afterMark = FALSE]
    BY <1>5 DEF RestartRedis
  <2>2. q \in Req /\ q.pc = req[t].pc /\ q.raw = req[t].raw /\ q.age = req[t].age
        /\ q.stale = req[t].stale /\ q.erred = req[t].erred
    BY <1>0, <2>1 DEF Req
  <2>3. ReqOK(q)
    BY <1>0, <2>2 DEF ReqOK
  <2> QED
    BY <1>1, <2>2, <2>3, ReqKeeps
<1>6. req' \in [Requests -> Req]
  <2>1. req' = [t \in Requests |-> req'[t]]
    BY DEF RestartRedis
  <2> QED
    BY <1>5, <2>1
<1> QED
    BY <1>1, <1>3, <1>4, <1>5, <1>6 DEF Rest, CacheInv, CacheTypes

\* Time: an entry has less to live by as much as its key may have aged.
LEMMA TickStep ==
    ASSUME CacheInv, KeysAge, Tick
    PROVE  Rest
<1>0. /\ req \in [Requests -> Req] /\ EntriesInv
      /\ \A t \in Requests : ReqOK(req[t])
      /\ prefixEntry \in [Keys -> 0..PrefixTTL] /\ validatedEntry \in [RawKeys -> 0..ValidationTTL]
      /\ revokedEntry \in [Keys -> 0..RevokedTTL] /\ deadFor \in [Keys -> 0..MaxAge]
    BY DEF CacheInv, CacheTypes
<1>1. UNCHANGED <<redisUp, marked, told, apiKeys, services>>
    BY DEF Tick, registryVars
<1>2. \A n \in Nat : /\ Countdown(n) \in Nat /\ Countdown(n) <= n
                     /\ Countdown(n) > 0 => Countdown(n) = n - 1
    BY DEF Countdown
<1>3. \A k \in Keys : /\ prefixEntry[k] \in Nat /\ prefixEntry'[k] = Countdown(prefixEntry[k])
                      /\ revokedEntry[k] \in Nat /\ revokedEntry'[k] = Countdown(revokedEntry[k])
                      /\ deadFor[k] \in Nat /\ deadFor'[k] \in {deadFor[k], deadFor[k] + 1}
                      /\ ~Dead(k) => deadFor'[k] = deadFor[k]
                      /\ deadFor'[k] \in 0..MaxAge
    BY <1>0, Bounds DEF Tick
<1>4. \A raw \in RawKeys : /\ validatedEntry[raw] \in Nat
                           /\ validatedEntry'[raw] = Countdown(validatedEntry[raw])
    BY <1>0, Bounds DEF Tick
<1>5. /\ prefixEntry' \in [Keys -> 0..PrefixTTL] /\ validatedEntry' \in [RawKeys -> 0..ValidationTTL]
      /\ revokedEntry' \in [Keys -> 0..RevokedTTL] /\ deadFor' \in [Keys -> 0..MaxAge]
  <2>1. \A k \in Keys : Countdown(prefixEntry[k]) \in 0..PrefixTTL
                        /\ Countdown(revokedEntry[k]) \in 0..RevokedTTL
    BY <1>0, <1>2, <1>3, Bounds
  <2>2. \A raw \in RawKeys : Countdown(validatedEntry[raw]) \in 0..ValidationTTL
    BY <1>0, <1>2, <1>4, Bounds
  <2>3. deadFor' = [k \in Keys |-> deadFor'[k]]
    BY DEF Tick
  <2> QED
    BY <1>3, <2>1, <2>2, <2>3 DEF Tick
<1>6. EntriesInv'
  <2>1. \A k \in Keys : Dead(k)' <=> Dead(k)
    BY <1>1 DEF Dead, KeyAlive
  <2>2. ASSUME NEW k \in Keys
        PROVE  /\ ~Dead(k) => deadFor'[k] = 0
               /\ prefixEntry'[k] > 0 => deadFor'[k] + prefixEntry'[k] <= PrefixTTL + MaxFlight
               /\ revokedEntry'[k] > 0 => Dead(k)
    BY <1>0, <1>2, <1>3, Bounds DEF EntriesInv
  <2>3. ASSUME NEW raw \in RawKeys, validatedEntry'[raw] > 0
        PROVE  /\ deadFor'[PrefixOf[raw]] + validatedEntry'[raw] <= Grace + 1
               /\ raw = SecretOf[PrefixOf[raw]] /\ apiKeys[PrefixOf[raw]] # None
    BY <1>0, <1>2, <1>3, <1>4, <2>3, Bounds DEF EntriesInv
  <2> QED
    BY <1>1, <2>1, <2>2, <2>3 DEF EntriesInv
<1>7. ASSUME NEW t \in Requests, NEW q, q = req'[t]
      PROVE  q \in Req /\ ReqOK(q)'
  <2>1. \A k \in Keys : Dead(k)' <=> Dead(k)
    BY <1>1 DEF Dead, KeyAlive
  <2>2. /\ q \in Req /\ q.pc = req[t].pc /\ q.raw = req[t].raw /\ q.stale = req[t].stale
        /\ q.erred = req[t].erred /\ req[t].age \in Nat
        /\ req[t].pc \in Pending => q.age = req[t].age + 1 /\ req[t].age < MaxFlight
        /\ req[t].pc \notin Pending => q.age = req[t].age
    BY <1>0, <1>7 DEF Tick, Req
  <2>3. CASE q.pc = "idle"
    BY <2>2, <2>3 DEF ReqOK
  <2>4. CASE q.pc # "idle"
    <3>1. q.raw \in RawKeys /\ PrefixOf[q.raw] \in Keys
      BY <1>0, <2>2, <2>4, Bounds DEF ReqOK
    <3>2. /\ q.pc \in Pending => q.age <= MaxFlight
          /\ q.pc = "setPrefix" => deadFor'[PrefixOf[q.raw]] <= q.age
          /\ q.pc = "setValidated" => deadFor'[PrefixOf[q.raw]] <= (PrefixTTL - 1) + MaxFlight + q.age
      BY <1>0, <1>3, <2>2, <2>4, <3>1, Bounds DEF ReqOK, Pending
    <3>3. /\ q.raw = SecretOf[PrefixOf[q.raw]] => apiKeys[PrefixOf[q.raw]] # None
          /\ q.pc = "accepted" => q.stale <= Grace /\ q.raw = SecretOf[PrefixOf[q.raw]]
          /\ q.pc = "revoked" => Dead(PrefixOf[q.raw])
          /\ q.pc = "invalid" /\ q.raw = SecretOf[PrefixOf[q.raw]]
                => Dead(PrefixOf[q.raw]) \/ q.erred
      BY <1>0, <2>2, <2>4 DEF ReqOK
    <3> QED
      BY <1>1, <2>1, <2>2, <3>1, <3>2, <3>3 DEF ReqOK
  <2> QED
    BY <2>2, <2>3, <2>4
<1>8. req' \in [Requests -> Req]
  <2>1. req' = [t \in Requests |-> req'[t]]
    BY DEF Tick
  <2> QED
    BY <1>7, <2>1
<1> QED
    BY <1>1, <1>5, <1>6, <1>7, <1>8 DEF Rest, CacheInv, CacheTypes

-----------------------------------------------------------------------------
\* The invariant holds initially.
LEMMA CacheInvInit == Init => CacheInv
<1> SUFFICES ASSUME Init PROVE CacheInv
    OBVIOUS
<1>1. RegistryInv
    BY RegistryInvInit DEF Init
<1>2. RetiredInv
    BY DEF Init, RegistryInit, RetiredInv, NoCall
<1>3. CacheTypes
  <2>1. 0 \in 0..PrefixTTL /\ 0 \in 0..ValidationTTL /\ 0 \in 0..RevokedTTL /\ 0 \in 0..MaxAge
    BY Bounds
  <2>2. NoReq \in Req
    BY DEF NoReq, Req, ReqPC
  <2> QED
    BY <2>1, <2>2 DEF Init, CacheTypes
<1>4. EntriesInv
    BY DEF Init, EntriesInv
<1>5. \A r \in Requests : ReqOK(req[r])
    BY DEF Init, ReqOK, NoReq
<1> QED
    BY <1>1, <1>2, <1>3, <1>4, <1>5 DEF CacheInv

\* The invariant is inductive.
LEMMA CacheInvStep == CacheInv /\ [Next]_vars => CacheInv'
<1> SUFFICES ASSUME CacheInv, [Next]_vars PROVE CacheInv'
    OBVIOUS
<1>1. RegistryInv' /\ KeysAge /\ RetiredInv'
    BY RegistryFacts, RetiredNext DEF CacheInv
<1>2. redisUp \in [Processes -> BOOLEAN]
    BY DEF CacheInv, CacheTypes
<1>3. ASSUME Registry PROVE Rest
    BY <1>1, <1>2, <1>3, QuietStep DEF Registry
<1>4. ASSUME RestartAPI PROVE Rest
  <2>1. redisUp' \in [Processes -> BOOLEAN]
    BY <1>2, <1>4 DEF RestartAPI
  <2> QED
    BY <1>1, <1>4, <2>1, QuietStep DEF RestartAPI
<1>5. ASSUME UNCHANGED vars PROVE Rest
    BY <1>1, <1>2, <1>5, QuietStep DEF vars
<1>6. Rest
    BY <1>1, <1>3, <1>4, <1>5, ResolveSteps, InvalidateStep, RestartIngestorStep,
       RestartRedisStep, TickStep DEF Next
<1> QED
    BY <1>1, <1>6 DEF CacheInv, Rest

\* The invariant holds in every reachable state.
LEMMA CacheInvariance == Spec => []CacheInv
  BY CacheInvInit, CacheInvStep, PTL DEF Spec

\* Everything keeps its type: entries never outlive their TTL.
THEOREM CacheTypesHold == Spec => []TypeOK
<1>1. CacheInv => TypeOK
    BY DEF CacheInv, CacheTypes, TypeOK, RegistryInv
<1> QED
    BY <1>1, CacheInvariance, PTL

\* For any TTLs, and however many requests and handlers race, fail and restart,
\* a key is not accepted later than Grace after it died.
THEOREM StalenessIsBounded == Spec => []BoundedStaleness
<1>1. CacheInv => BoundedStaleness
    BY DEF CacheInv, BoundedStaleness, ReqOK
<1> QED
    BY <1>1, CacheInvariance, PTL

\* Only the token that matches the stored hash is ever accepted.
THEOREM AcceptedIsGenuine == Spec => []OnlyGenuine
<1>1. CacheInv => OnlyGenuine
    BY DEF CacheInv, OnlyGenuine, ReqOK, Key
<1> QED
    BY <1>1, CacheInvariance, PTL

\* The genuine token of a working key is never answered "api key revoked", and
\* "invalid api key" only when this request met an error of Redis or Postgres.
THEOREM WorkingKeyNotDenied == Spec => []NoFalseDenial
<1>1. CacheInv => NoFalseDenial
    BY DEF CacheInv, NoFalseDenial, ReqOK, Key, Dead
<1> QED
    BY <1>1, CacheInvariance, PTL

-----------------------------------------------------------------------------
(* The marker.  While it is there EXISTS finds it; when it has gone the key *)
(* has been dead for RevokedTTL, longer than any entry can last.           *)

MarkOK(q) ==
    LET k == PrefixOf[q.raw] IN
    (q.pc # "idle" /\ q.afterMark) =>
        /\ marked[k]
        /\ ~q.blind =>
              /\ q.pc \notin {"setPrefix", "setValidated", "accepted"}
              /\ q.pc \in {"getValidated", "getPrefix"} => deadFor[k] >= RevokedTTL

MarkInv ==
    /\ \A k \in Keys : marked[k] => /\ Dead(k)
                                    /\ deadFor[k] + revokedEntry[k] >= RevokedTTL
    /\ \A r \in Requests : MarkOK(req[r])

\* A step of one request changes nothing the others rely on.
LEMMA MarkUpdate ==
    ASSUME CacheInv, MarkInv, KeysAge, UNCHANGED <<marked, revokedEntry, deadFor>>,
           NEW r \in Requests, NEW new \in Req, req' = [req EXCEPT ![r] = new], MarkOK(new)
    PROVE  MarkInv'
<1>1. req \in [Requests -> Req]
    BY DEF CacheInv, CacheTypes
<1>2. \A t \in Requests : req'[t] = IF t = r THEN new ELSE req[t]
    BY <1>1
<1>3. \A t \in Requests : MarkOK(req'[t])
    BY <1>2 DEF MarkInv
<1>4. ASSUME NEW t \in Requests, NEW q, q = req'[t]
      PROVE  MarkOK(q)'
    BY <1>3, <1>4 DEF MarkOK
<1> QED
    BY <1>4 DEF MarkInv, KeysAge

\* A request that moves on, marks included.
LEMMA StepMark ==
    ASSUME CacheInv, MarkInv, KeysAge, NEW r \in Requests, NEW pc \in ReqPC, Step(r, pc),
           UNCHANGED <<marked, revokedEntry, deadFor>>,
           req[r].pc # "idle" /\ req[r].afterMark /\ ~req[r].blind =>
              /\ pc \notin {"setPrefix", "setValidated", "accepted"}
              /\ pc \in {"getValidated", "getPrefix"} => deadFor[Key(r)] >= RevokedTTL,
           req[r].pc # "idle"
    PROVE  MarkInv'
<1>1. req \in [Requests -> Req] /\ MarkOK(req[r])
    BY DEF CacheInv, CacheTypes, MarkInv
<1>2. PICK new : new = [req[r] EXCEPT !.pc = pc]
    OBVIOUS
<1>3. /\ new \in Req /\ new.pc = pc /\ new.raw = req[r].raw
      /\ new.afterMark = req[r].afterMark /\ new.blind = req[r].blind
    BY <1>1, <1>2 DEF Req
<1>4. req' = [req EXCEPT ![r] = new]
    BY <1>1, <1>2 DEF Step
<1>5. MarkOK(new)
    BY <1>1, <1>3 DEF MarkOK, Key
<1> QED
    BY <1>3, <1>4, <1>5, MarkUpdate

\* A request that gets an error is not accepted.
LEMMA FailMark ==
    ASSUME CacheInv, MarkInv, KeysAge, NEW r \in Requests, req[r].pc # "idle", Fail(r),
           UNCHANGED <<marked, revokedEntry, deadFor>>
    PROVE  MarkInv'
<1>1. req \in [Requests -> Req] /\ MarkOK(req[r])
    BY DEF CacheInv, CacheTypes, MarkInv
<1>2. PICK new : new = [req[r] EXCEPT !.pc = "invalid", !.erred = TRUE]
    OBVIOUS
<1>3. /\ new \in Req /\ new.pc = "invalid" /\ new.raw = req[r].raw
      /\ new.afterMark = req[r].afterMark
    BY <1>1, <1>2 DEF Req, ReqPC
<1>4. req' = [req EXCEPT ![r] = new]
    BY <1>1, <1>2 DEF Fail
<1>5. MarkOK(new)
    BY <1>1, <1>3 DEF MarkOK
<1> QED
    BY <1>3, <1>4, <1>5, MarkUpdate

\* An accepted request is not one that arrived after the mark, or it is blind.
LEMMA AcceptMark ==
    ASSUME CacheInv, MarkInv, KeysAge, NEW r \in Requests, Accept(r),
           UNCHANGED <<marked, revokedEntry, deadFor>>,
           req[r].pc # "idle", req[r].afterMark => req[r].blind
    PROVE  MarkInv'
<1>1. /\ req \in [Requests -> Req] /\ MarkOK(req[r]) /\ ReqOK(req[r])
      /\ deadFor \in [Keys -> 0..MaxAge]
    BY DEF CacheInv, CacheTypes, MarkInv
<1>2. Key(r) \in Keys
    BY <1>1, CacheConstants DEF ReqOK, Key
<1>3. PICK d : d = deadFor[Key(r)] /\ d \in Nat
    BY <1>1, <1>2, CacheConstants
<1>4. PICK new : new = [req[r] EXCEPT !.pc = "accepted", !.stale = d]
    OBVIOUS
<1>5. /\ new \in Req /\ new.pc = "accepted" /\ new.raw = req[r].raw
      /\ new.afterMark = req[r].afterMark /\ new.blind = req[r].blind
    BY <1>1, <1>3, <1>4 DEF Req, ReqPC
<1>6. req' = [req EXCEPT ![r] = new]
    BY <1>1, <1>3, <1>4 DEF Accept
<1>7. MarkOK(new)
    BY <1>1, <1>5 DEF MarkOK
<1> QED
    BY <1>5, <1>6, <1>7, MarkUpdate

\* Resolve: past the EXISTS the entries of a marked key have all expired.
LEMMA ResolveMark ==
    ASSUME Grace < RevokedTTL, CacheInv, MarkInv, KeysAge, NEW r \in Requests, ResolveStep(r)
    PROVE  MarkInv'
<1>0. /\ req \in [Requests -> Req] /\ ReqOK(req[r]) /\ EntriesInv /\ MarkOK(req[r])
      /\ deadFor \in [Keys -> 0..MaxAge] /\ prefixEntry \in [Keys -> 0..PrefixTTL]
      /\ validatedEntry \in [RawKeys -> 0..ValidationTTL]
      /\ revokedEntry \in [Keys -> 0..RevokedTTL]
      /\ marked \in [Keys -> BOOLEAN] /\ told \in [Keys -> BOOLEAN]
      /\ \A k \in Keys : marked[k] => Dead(k) /\ deadFor[k] + revokedEntry[k] >= RevokedTTL
    BY DEF CacheInv, CacheTypes, MarkInv
<1>k. req[r].pc # "idle" => req[r].raw \in RawKeys /\ Key(r) \in Keys /\ Key(r) = PrefixOf[req[r].raw]
                            /\ deadFor[Key(r)] \in Nat
    BY <1>0, Bounds DEF ReqOK, Key
<1>u. UNCHANGED <<marked, revokedEntry, deadFor>>
    BY DEF ResolveStep, Resolve, CheckRevoked, GetValidated, GetPrefix, Lookup, SetPrefix,
           ValidateAPIKey, cacheVars, historyVars
<1>1. ASSUME NEW raw \in RawKeys, Resolve(r, raw)
      PROVE  MarkInv'
  <2>1. PICK new : new = [NoReq EXCEPT !.pc = IF redisUp["ingestor"] THEN "exists" ELSE "lookup",
                        !.raw = raw, !.afterMark = marked[PrefixOf[raw]],
                        !.afterTold = told[PrefixOf[raw]]]
    OBVIOUS
  <2>2. PrefixOf[raw] \in Keys
    BY Bounds
  <2>3. /\ new \in Req /\ new.raw = raw /\ new.pc \in {"exists", "lookup"}
        /\ new.afterMark = marked[PrefixOf[raw]]
    BY <1>0, <2>1, <2>2 DEF NoReq, Req, ReqPC, Pending
  <2>4. MarkOK(new)
    BY <2>3 DEF MarkOK
  <2>5. req' = [req EXCEPT ![r] = new]
    BY <1>1, <2>1 DEF Resolve
  <2> QED
    BY <1>u, <2>3, <2>4, <2>5, MarkUpdate
<1>2. ASSUME CheckRevoked(r)
      PROVE  MarkInv'
  <2>1. CASE Step(r, IF revokedEntry[Key(r)] > 0 THEN "revoked" ELSE "getValidated")
    <3>1. PICK pc \in ReqPC : /\ Step(r, pc)
                              /\ \/ pc = "revoked"
                                 \/ pc = "getValidated" /\ ~(revokedEntry[Key(r)] > 0)
      BY <2>1 DEF ReqPC, Pending
    <3>2. req[r].afterMark /\ ~(revokedEntry[Key(r)] > 0) => deadFor[Key(r)] >= RevokedTTL
      BY <1>0, <1>k, <1>2, Bounds DEF CheckRevoked, MarkOK
    <3>3. req[r].pc # "idle"
      BY <1>2 DEF CheckRevoked
    <3> QED
      BY <1>u, <3>1, <3>2, <3>3, StepMark
  <2>2. CASE req' = [req EXCEPT ![r].pc = "getValidated", ![r].blind = TRUE]
    <3>1. PICK new : new = [req[r] EXCEPT !.pc = "getValidated", !.blind = TRUE]
      OBVIOUS
    <3>2. new \in Req /\ new.raw = req[r].raw /\ new.blind /\ new.afterMark = req[r].afterMark
      BY <1>0, <3>1 DEF Req, ReqPC, Pending
    <3>3. req' = [req EXCEPT ![r] = new]
      BY <1>0, <2>2, <3>1
    <3>4. MarkOK(new)
      BY <1>0, <1>2, <3>2 DEF MarkOK, CheckRevoked
    <3> QED
      BY <1>u, <3>2, <3>3, <3>4, MarkUpdate
  <2> QED
    BY <1>2, <2>1, <2>2 DEF CheckRevoked
<1>3. ASSUME GetValidated(r)
      PROVE  MarkInv'
  <2>1. req[r].afterMark /\ ~req[r].blind => deadFor[Key(r)] >= RevokedTTL
    BY <1>0, <1>k, <1>3 DEF GetValidated, MarkOK
  <2>2. CASE validatedEntry[req[r].raw] > 0 /\ Accept(r)
    <3>1. deadFor[Key(r)] < RevokedTTL
      BY <1>0, <1>k, <1>3, <2>2, Bounds DEF GetValidated, EntriesInv
    <3>2. req[r].blind \in BOOLEAN /\ req[r].afterMark \in BOOLEAN
      BY <1>0 DEF Req
    <3>3. req[r].afterMark => req[r].blind
      BY <1>k, <1>3, <2>1, <3>1, <3>2, Bounds DEF GetValidated
    <3> QED
      BY <1>u, <1>3, <2>2, <3>3, AcceptMark DEF GetValidated
  <2>3. CASE Step(r, "getPrefix")
    <3>1. "getPrefix" \in ReqPC
      BY DEF ReqPC, Pending
    <3> QED
      BY <1>u, <1>3, <2>1, <2>3, <3>1, StepMark DEF GetValidated
  <2> QED
    BY <1>3, <2>2, <2>3 DEF GetValidated
<1>4. ASSUME GetPrefix(r)
      PROVE  MarkInv'
  <2>f. CASE Fail(r)
    BY <1>u, <1>4, <2>f, FailMark DEF GetPrefix, Pending
  <2> SUFFICES ASSUME ~Fail(r) PROVE MarkInv'
    BY <2>f
  <2>1. PICK pc \in ReqPC : /\ Step(r, pc)
                            /\ \/ pc = "lookup"
                               \/ pc = "setValidated" /\ prefixEntry[Key(r)] > 0
    BY <1>4 DEF GetPrefix, ReqPC, Pending
  <2>2. prefixEntry[Key(r)] > 0 => deadFor[Key(r)] < RevokedTTL
    BY <1>0, <1>k, <1>4, Bounds DEF EntriesInv, GetPrefix
  <2>3. req[r].afterMark /\ ~req[r].blind => ~(prefixEntry[Key(r)] > 0)
    BY <1>0, <1>k, <1>4, <2>2, Bounds DEF GetPrefix, MarkOK
  <2> QED
    BY <1>u, <1>4, <2>1, <2>3, StepMark DEF GetPrefix
<1>5. ASSUME Lookup(r)
      PROVE  MarkInv'
  <2>f. CASE Fail(r)
    BY <1>u, <1>5, <2>f, FailMark DEF Lookup, Pending
  <2> SUFFICES ASSUME ~Fail(r) PROVE MarkInv'
    BY <2>f
  <2>1. PICK pc \in ReqPC : /\ Step(r, pc)
                            /\ \/ pc = "invalid"
                               \/ pc \in {"setPrefix", "setValidated"} /\ KeyAlive(Key(r))
    BY <1>5 DEF Lookup, ReqPC, Pending
  <2>2. req[r].afterMark => ~KeyAlive(Key(r))
    BY <1>0, <1>k, <1>5 DEF Lookup, MarkOK, Dead
  <2> QED
    BY <1>u, <1>5, <2>1, <2>2, StepMark DEF Lookup
<1>6. ASSUME SetPrefix(r)
      PROVE  MarkInv'
  <2>1. ~(req[r].afterMark /\ ~req[r].blind) /\ "setValidated" \in ReqPC
    BY <1>0, <1>6 DEF SetPrefix, MarkOK, ReqPC, Pending
  <2> QED
    BY <1>u, <1>6, <2>1, StepMark DEF SetPrefix
<1>7. ASSUME ValidateAPIKey(r)
      PROVE  MarkInv'
  <2>1. ~(req[r].afterMark /\ ~req[r].blind) /\ "invalid" \in ReqPC
    BY <1>0, <1>7 DEF ValidateAPIKey, MarkOK, ReqPC
  <2>2. req[r].afterMark => req[r].blind
    BY <1>0, <2>1 DEF Req
  <2> QED
    BY <1>u, <1>7, <2>1, <2>2, StepMark, AcceptMark DEF ValidateAPIKey
<1> QED
    BY <1>1, <1>2, <1>3, <1>4, <1>5, <1>6, <1>7 DEF ResolveStep

\* Steps of the rest of the system.
LEMMA OtherMark ==
    ASSUME CacheInv, MarkInv, KeysAge,
           \/ \E h \in Handlers : Invalidate(h)
           \/ Registry \/ RestartIngestor \/ RestartAPI \/ RestartRedis \/ Tick
           \/ UNCHANGED vars
    PROVE  MarkInv'
<1>0. /\ req \in [Requests -> Req]
      /\ deadFor \in [Keys -> 0..MaxAge] /\ revokedEntry \in [Keys -> 0..RevokedTTL]
      /\ marked \in [Keys -> BOOLEAN]
      /\ \A r \in Requests : ReqOK(req[r]) /\ MarkOK(req[r])
      /\ \A k \in Keys : marked[k] => Dead(k) /\ deadFor[k] + revokedEntry[k] >= RevokedTTL
    BY DEF CacheInv, CacheTypes, MarkInv
<1>1. CASE Registry \/ RestartAPI \/ UNCHANGED vars
  <2>1. UNCHANGED <<marked, revokedEntry, deadFor, req>>
    BY <1>1 DEF Registry, RestartAPI, vars, cacheVars, historyVars
  <2>2. ASSUME NEW t \in Requests, NEW q, q = req[t] PROVE MarkOK(q)'
    BY <1>0, <2>1, <2>2 DEF MarkOK
  <2> QED
    BY <1>0, <2>1, <2>2 DEF MarkInv, KeysAge
<1>2. CASE RestartIngestor
  <2>1. UNCHANGED <<marked, revokedEntry, deadFor>>
        /\ \A t \in Requests : req'[t].pc = "idle"
    BY <1>2 DEF RestartIngestor, cacheVars, historyVars, NoReq
  <2> QED
    BY <1>0, <2>1 DEF MarkInv, MarkOK, KeysAge
<1>3. CASE RestartRedis
  <2>1. \A k \in Keys : ~marked'[k]
    BY <1>3 DEF RestartRedis
  <2>2. \A t \in Requests : ~req'[t].afterMark
    BY <1>0, <1>3 DEF RestartRedis, Req
  <2> QED
    BY <2>1, <2>2 DEF MarkInv, MarkOK
<1>4. CASE \E h \in Handlers : Invalidate(h)
  <2>1. PICK h \in Handlers : Invalidate(h)
    BY <1>4
  <2>2. PICK k \in Keys : k = call[h].key /\ Dead(k)
    BY <2>1, InvalidateDead DEF CacheInv, Invalidate
  <2>3. UNCHANGED <<req, deadFor>>
    BY <2>1 DEF Invalidate
  <2>4. \/ UNCHANGED <<marked, revokedEntry>>
        \/ /\ marked' = [marked EXCEPT ![k] = TRUE]
           /\ revokedEntry' = [revokedEntry EXCEPT ![k] = RevokedTTL]
    BY <2>1, <2>2 DEF Invalidate
  <2>5. \A j \in Keys : \/ marked'[j] = marked[j] /\ revokedEntry'[j] = revokedEntry[j]
                        \/ j = k /\ marked'[j] /\ revokedEntry'[j] = RevokedTTL
    BY <1>0, <2>4
  <2>6. \A j \in Keys : marked'[j] => Dead(j) /\ deadFor[j] + revokedEntry'[j] >= RevokedTTL
    BY <1>0, <2>2, <2>5, Bounds
  <2>7. ASSUME NEW t \in Requests, NEW q, q = req[t] PROVE MarkOK(q)'
    <3>1. q.pc # "idle" => PrefixOf[q.raw] \in Keys
      BY <1>0, <2>7, Bounds DEF ReqOK
    <3> QED
      BY <1>0, <2>3, <2>5, <2>7, <3>1 DEF MarkOK
  <2> QED
    BY <2>3, <2>6, <2>7 DEF MarkInv, KeysAge
<1>5. CASE Tick
  <2>1. \A k \in Keys : /\ marked'[k] = marked[k] /\ revokedEntry[k] \in Nat /\ deadFor[k] \in Nat
                        /\ revokedEntry'[k] = Countdown(revokedEntry[k])
                        /\ deadFor'[k] = IF Dead(k) /\ deadFor[k] < MaxAge
                                         THEN deadFor[k] + 1 ELSE deadFor[k]
    BY <1>0, <1>5, Bounds DEF Tick
  <2>2. \A k \in Keys : marked[k] => deadFor'[k] + revokedEntry'[k] >= RevokedTTL
    BY <1>0, <2>1, Bounds DEF Countdown
  <2>3. ASSUME NEW t \in Requests, NEW q, q = req'[t] PROVE MarkOK(q)'
    <3>1. q.pc = req[t].pc /\ q.raw = req[t].raw /\ q.afterMark = req[t].afterMark
          /\ q.blind = req[t].blind
      BY <1>0, <1>5, <2>3 DEF Tick, Req
    <3>2. q.pc # "idle" => PrefixOf[q.raw] \in Keys
      BY <1>0, <3>1, Bounds DEF ReqOK
    <3>3. \A k \in Keys : deadFor[k] >= RevokedTTL => deadFor'[k] >= RevokedTTL
      BY <2>1, Bounds
    <3> QED
      BY <1>0, <2>1, <3>1, <3>2, <3>3 DEF MarkOK
  <2> QED
    BY <1>0, <2>1, <2>2, <2>3 DEF MarkInv, KeysAge
<1> QED
    BY <1>1, <1>2, <1>3, <1>4, <1>5

\* If the marker outlives the caches, a revocation that reached Redis is never
\* undone by an entry that was written before or after it.
THEOREM MarkIsHonoured ==
    ASSUME Grace < RevokedTTL
    PROVE  Spec => []MarkedIsRefused
<1>1. Init => MarkInv
    BY DEF Init, MarkInv, MarkOK, NoReq
<1>2. CacheInv /\ MarkInv /\ [Next]_vars => MarkInv'
  <2> SUFFICES ASSUME CacheInv, MarkInv, [Next]_vars PROVE MarkInv'
    OBVIOUS
  <2>1. KeysAge
    BY RegistryFacts DEF CacheInv
  <2> QED
    BY <2>1, ResolveMark, OtherMark DEF Next
<1>3. CacheInv /\ MarkInv => MarkedIsRefused
  <2> SUFFICES ASSUME CacheInv, MarkInv, NEW r \in Requests,
                      req[r].pc = "accepted", req[r].afterMark
               PROVE  req[r].blind
    BY DEF MarkedIsRefused
  <2>1. req[r].blind \in BOOLEAN /\ MarkOK(req[r])
    BY DEF CacheInv, CacheTypes, Req, MarkInv
  <2> QED
    BY <2>1 DEF MarkOK
<1> QED
    BY <1>1, <1>2, <1>3, CacheInvariance, PTL DEF Spec

=============================================================================
