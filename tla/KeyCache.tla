------------------------------- MODULE KeyCache -------------------------------
(***************************************************************************)
(* API key resolution in the ingestor (APIKeyCache.Resolve), against the   *)
(* registry of module KeyRegistry.  Redis keeps three kinds of entries:    *)
(*    apikey:prefix:<prefix>     the key's row, for PrefixTTL              *)
(*    apikey:validated:<sha256>  a raw key that passed bcrypt, for         *)
(*                               ValidationTTL                             *)
(*    apikey:revoked:<prefix>    a marker set on revoke and rotate, for    *)
(*                               RevokedTTL (one hour)                     *)
(* Every Redis command and every query is a step of its own; many requests *)
(* and the API process's handlers interleave between them.  A command may  *)
(* fail.  Time is a discrete clock: an entry is the number of ticks it has *)
(* left to live, 0 when it is absent or expired.                           *)
(***************************************************************************)
EXTENDS KeyRegistry

CONSTANTS
    Requests,        \* request goroutines of the ingestor
    RawKeys,         \* bearer tokens that parse as ll_<prefix>_<secret>
    PrefixOf,        \* PrefixOf[raw]: the key whose prefix the token carries
    SecretOf,        \* SecretOf[k]: the token that matches k's bcrypt hash
    PrefixTTL, ValidationTTL, RevokedTTL,
    MaxFlight,       \* bound: ticks a request may spend in Resolve
    MaxAge           \* bound: where the age of a dead key stops counting

\* How long after its death a key may still be accepted.  An entry with n ticks
\* to live is last seen n - 1 ticks after it was written.
Grace == (PrefixTTL - 1) + (ValidationTTL - 1) + 2 * MaxFlight

ASSUME CacheConstants ==
    /\ PrefixOf \in [RawKeys -> Keys]
    /\ SecretOf \in [Keys -> RawKeys]
    /\ \A k \in Keys : PrefixOf[SecretOf[k]] = k
    /\ PrefixTTL \in Nat \ {0} /\ ValidationTTL \in Nat \ {0}  \* durationFromEnv
    /\ RevokedTTL \in Nat
    /\ MaxFlight \in Nat /\ MaxAge \in Nat
    /\ MaxAge > Grace /\ MaxAge >= RevokedTTL

VARIABLES
    prefixEntry,      \* prefixEntry[k]: ticks left of apikey:prefix
    validatedEntry,   \* validatedEntry[raw]: ticks left of apikey:validated
    revokedEntry,     \* revokedEntry[k]: ticks left of apikey:revoked
    redisUp,          \* per process: Redis answered the ping at its start
    req,              \* req[r]: the request goroutine r is serving
    deadFor,          \* history: ticks since k stopped being KeyAlive
    marked,           \* history: k's revocation reached Redis, which has kept
                      \* its data since
    told              \* history: a revoke or rotate of k returned success

cacheVars == <<prefixEntry, validatedEntry, revokedEntry>>
historyVars == <<deadFor, marked, told>>
vars == <<registryVars, cacheVars, redisUp, req, historyVars>>

\* The command a request executes next, or how it was answered: "accepted",
\* "revoked" (401 "api key revoked") or "invalid" (401 "invalid api key").  The
\* ingest handler gives the last answer for an unknown or a wrong key and just
\* the same for any error Resolve got from Redis or Postgres.
Pending == {"exists", "getValidated", "getPrefix", "lookup", "setPrefix",
            "setValidated"}
ReqPC == {"idle", "accepted", "revoked", "invalid"} \cup Pending

\* blind: the EXISTS on the marker failed.  erred: Resolve returned an error of
\* Redis or Postgres.  afterMark, afterTold: marked and told when the request
\* arrived.  stale: deadFor when it was accepted.
Req == [pc : ReqPC, raw : RawKeys \cup {None}, age : Nat, blind : BOOLEAN,
        erred : BOOLEAN, afterMark : BOOLEAN, afterTold : BOOLEAN, stale : Nat]

NoReq == [pc |-> "idle", raw |-> None, age |-> 0, blind |-> FALSE,
          erred |-> FALSE, afterMark |-> FALSE, afterTold |-> FALSE, stale |-> 0]

Processes == {"api", "ingestor"}

Init ==
    /\ RegistryInit
    /\ prefixEntry = [k \in Keys |-> 0]
    /\ validatedEntry = [raw \in RawKeys |-> 0]
    /\ revokedEntry = [k \in Keys |-> 0]
    /\ redisUp \in [Processes -> BOOLEAN]
    /\ req = [r \in Requests |-> NoReq]
    /\ deadFor = [k \in Keys |-> 0]
    /\ marked = [k \in Keys |-> FALSE]
    /\ told = [k \in Keys |-> FALSE]

-----------------------------------------------------------------------------
(* APIKeyCache.Resolve.                                                    *)

Key(r) == PrefixOf[req[r].raw]
Step(r, pc) == req' = [req EXCEPT ![r].pc = pc]
Fail(r) == req' = [req EXCEPT ![r].pc = "invalid", ![r].erred = TRUE]
Accept(r) == req' = [req EXCEPT ![r].pc = "accepted",
                                ![r].stale = deadFor[Key(r)]]

\* Mutant: the cache of validated tokens is asked before the marker.
ResolveUnmarked(r, raw) ==
    LET k == PrefixOf[raw] IN
    /\ req[r].pc \notin Pending
    /\ raw = SecretOf[k] => apiKeys[k] # None
    /\ req' = [req EXCEPT ![r] =
          [NoReq EXCEPT !.pc = IF redisUp["ingestor"] THEN "getValidated" ELSE "lookup",
                        !.raw = raw, !.afterMark = marked[k],
                        !.afterTold = told[k]]]
    /\ UNCHANGED <<registryVars, cacheVars, redisUp, historyVars>>

\* A client presents a token.  A genuine one is only known once its row is
\* stored.  A Redis that was down at start is never asked.
Resolve(r, raw) ==
    LET k == PrefixOf[raw] IN
    /\ req[r].pc \notin Pending
    /\ raw = SecretOf[k] => apiKeys[k] # None
    /\ req' = [req EXCEPT ![r] =
          [NoReq EXCEPT !.pc = IF redisUp["ingestor"] THEN "exists" ELSE "lookup",
                        !.raw = raw, !.afterMark = marked[k],
                        !.afterTold = told[k]]]
    /\ UNCHANGED <<registryVars, cacheVars, redisUp, historyVars>>

\* An error of EXISTS is treated like an absent marker.
CheckRevoked(r) ==
    /\ req[r].pc = "exists"
    /\ \/ Step(r, IF revokedEntry[Key(r)] > 0 THEN "revoked" ELSE "getValidated")
       \/ req' = [req EXCEPT ![r].pc = "getValidated", ![r].blind = TRUE]
    /\ UNCHANGED <<registryVars, cacheVars, redisUp, historyVars>>

\* A miss and an error both fall through to the record.
GetValidated(r) ==
    /\ req[r].pc = "getValidated"
    /\ \/ validatedEntry[req[r].raw] > 0 /\ Accept(r)
       \/ Step(r, "getPrefix")
    /\ UNCHANGED <<registryVars, cacheVars, redisUp, historyVars>>

\* loadRecord: a miss goes to Postgres, an error other than redis.Nil is
\* returned.
GetPrefix(r) ==
    /\ req[r].pc = "getPrefix"
    /\ \/ prefixEntry[Key(r)] > 0 /\ Step(r, "setValidated")
       \/ prefixEntry[Key(r)] = 0 /\ Step(r, "lookup")
       \/ Fail(r)
    /\ UNCHANGED <<registryVars, cacheVars, redisUp, historyVars>>

Lookup(r) ==
    /\ req[r].pc = "lookup"
    /\ \/ KeyAlive(Key(r)) /\ Step(r, IF redisUp["ingestor"]
                                      THEN "setPrefix" ELSE "setValidated")
       \/ ~KeyAlive(Key(r)) /\ Step(r, "invalid")
       \/ Fail(r)
    /\ UNCHANGED <<registryVars, cacheVars, redisUp, historyVars>>

\* Mutant: the record is stored with the marker's TTL.
SetPrefixLong(r) ==
    /\ req[r].pc = "setPrefix"
    /\ \/ prefixEntry' = [prefixEntry EXCEPT ![Key(r)] = RevokedTTL]
       \/ UNCHANGED prefixEntry
    /\ Step(r, "setValidated")
    /\ UNCHANGED <<registryVars, validatedEntry, revokedEntry, redisUp, historyVars>>

\* The error of SET is ignored.
SetPrefix(r) ==
    /\ req[r].pc = "setPrefix"
    /\ \/ prefixEntry' = [prefixEntry EXCEPT ![Key(r)] = PrefixTTL]
       \/ UNCHANGED prefixEntry
    /\ Step(r, "setValidated")
    /\ UNCHANGED <<registryVars, validatedEntry, revokedEntry, redisUp, historyVars>>

\* Mutant: a token whose prefix resolves is taken for genuine.
ValidateByPrefix(r) ==
    /\ req[r].pc = "setValidated"
    /\ Accept(r)
    /\ UNCHANGED <<registryVars, cacheVars, redisUp, historyVars>>

\* Mutant: the record is stored again whenever it has validated a token.
ValidateAPIKeyRefreshing(r) ==
    /\ req[r].pc = "setValidated"
    /\ req[r].raw = SecretOf[Key(r)]
    /\ Accept(r)
    /\ redisUp["ingestor"]
    /\ prefixEntry' = [prefixEntry EXCEPT ![Key(r)] = PrefixTTL]
    /\ validatedEntry' = [validatedEntry EXCEPT ![req[r].raw] = ValidationTTL]
    /\ UNCHANGED <<registryVars, revokedEntry, redisUp, historyVars>>

\* bcrypt, then SET of the validated entry, whose error is ignored too.  A
\* record in hand is never a revoked one: only active rows are ever loaded.
ValidateAPIKey(r) ==
    LET raw == req[r].raw IN
    /\ req[r].pc = "setValidated"
    /\ \/ /\ raw = SecretOf[Key(r)]
          /\ Accept(r)
          /\ \/ /\ redisUp["ingestor"]
                /\ validatedEntry' = [validatedEntry EXCEPT ![raw] = ValidationTTL]
             \/ UNCHANGED validatedEntry
       \/ /\ raw # SecretOf[Key(r)]
          /\ Step(r, "invalid")
          /\ UNCHANGED validatedEntry
    /\ UNCHANGED <<registryVars, prefixEntry, revokedEntry, redisUp, historyVars>>

-----------------------------------------------------------------------------
(* The API process.                                                        *)

\* Mutant: a rotation drops the key it has just issued.
InvalidateStored(h) ==
    LET k == call[h].stored IN
    /\ InvalidateKeyCache(h)
    /\ \/ /\ redisUp["api"]
          /\ prefixEntry' = [prefixEntry EXCEPT ![k] = 0]
          /\ revokedEntry' = [revokedEntry EXCEPT ![k] = RevokedTTL]
          /\ marked' = [marked EXCEPT ![k] = TRUE]
       \/ UNCHANGED <<prefixEntry, revokedEntry, marked>>
    /\ told' = [told EXCEPT ![k] = TRUE]
    /\ UNCHANGED <<validatedEntry, redisUp, req, deadFor>>

\* RevokeAPIKey and RotateAPIKey end by dropping the old key from the cache
\* and answer success whatever becomes of that: the pipeline is skipped when
\* the API process started without Redis, and its error is ignored.  go-redis
\* may report an error for a pipeline the server ran in part or in full.
Invalidate(h) ==
    LET k == call[h].key IN
    /\ InvalidateKeyCache(h)
    /\ \/ /\ redisUp["api"]
          /\ prefixEntry' = [prefixEntry EXCEPT ![k] = 0]
          /\ revokedEntry' = [revokedEntry EXCEPT ![k] = RevokedTTL]
          /\ marked' = [marked EXCEPT ![k] = TRUE]
       \/ /\ redisUp["api"]
          /\ prefixEntry' = [prefixEntry EXCEPT ![k] = 0]
          /\ UNCHANGED <<revokedEntry, marked>>
       \/ UNCHANGED <<prefixEntry, revokedEntry, marked>>
    /\ told' = [told EXCEPT ![k] = TRUE]
    /\ UNCHANGED <<validatedEntry, redisUp, req, deadFor>>

Registry == RegistryStep /\ UNCHANGED <<cacheVars, redisUp, req, historyVars>>

-----------------------------------------------------------------------------
(* Environment.                                                            *)

\* A process restarts: what it was serving is gone, Redis is pinged again.
RestartIngestor ==
    /\ req' = [r \in Requests |-> NoReq]
    /\ \E up \in BOOLEAN : redisUp' = [redisUp EXCEPT !["ingestor"] = up]
    /\ UNCHANGED <<registryVars, cacheVars, historyVars>>

RestartAPI ==
    /\ call' = [h \in Handlers |-> NoCall]
    /\ \E up \in BOOLEAN : redisUp' = [redisUp EXCEPT !["api"] = up]
    /\ UNCHANGED <<services, apiKeys, audit, cacheVars, req, historyVars>>

\* Redis restarts without its data, as it does in the development compose file,
\* which gives it no volume.  The production one keeps an append-only file on a
\* volume, where a restart that loses nothing is no step here at all.
RestartRedis ==
    /\ prefixEntry' = [k \in Keys |-> 0]
    /\ validatedEntry' = [raw \in RawKeys |-> 0]
    /\ revokedEntry' = [k \in Keys |-> 0]
    /\ marked' = [k \in Keys |-> FALSE]
    /\ req' = [r \in Requests |-> [req[r] EXCEPT !.afterMark = FALSE]]
    /\ UNCHANGED <<registryVars, redisUp, deadFor, told>>

Countdown(n) == IF n > 0 THEN n - 1 ELSE 0

Dead(k) == apiKeys[k] # None /\ ~KeyAlive(k)

\* One tick.  A request does not outlive MaxFlight.
Tick ==
    /\ \A r \in Requests : req[r].pc \in Pending => req[r].age < MaxFlight
    /\ prefixEntry' = [k \in Keys |-> Countdown(prefixEntry[k])]
    /\ validatedEntry' = [raw \in RawKeys |-> Countdown(validatedEntry[raw])]
    /\ revokedEntry' = [k \in Keys |-> Countdown(revokedEntry[k])]
    /\ req' = [r \in Requests |->
                  IF req[r].pc \in Pending
                  THEN [req[r] EXCEPT !.age = @ + 1] ELSE req[r]]
    /\ deadFor' = [k \in Keys |-> IF Dead(k) /\ deadFor[k] < MaxAge
                                  THEN deadFor[k] + 1 ELSE deadFor[k]]
    /\ UNCHANGED <<registryVars, redisUp, marked, told>>

ResolveStep(r) ==
    \/ \E raw \in RawKeys : Resolve(r, raw)
    \/ CheckRevoked(r) \/ GetValidated(r) \/ GetPrefix(r) \/ Lookup(r)
    \/ SetPrefix(r) \/ ValidateAPIKey(r)

Next ==
    \/ \E r \in Requests : ResolveStep(r)
    \/ \E h \in Handlers : Invalidate(h)
    \/ Registry
    \/ RestartIngestor \/ RestartAPI \/ RestartRedis
    \/ Tick

Spec == Init /\ [][Next]_vars

-----------------------------------------------------------------------------
(* Properties.                                                             *)

TypeOK ==
    /\ RegistryTypeOK
    /\ prefixEntry \in [Keys -> 0..PrefixTTL]
    /\ validatedEntry \in [RawKeys -> 0..ValidationTTL]
    /\ revokedEntry \in [Keys -> 0..RevokedTTL]
    /\ redisUp \in [Processes -> BOOLEAN]
    /\ req \in [Requests -> Req]
    /\ deadFor \in [Keys -> 0..MaxAge]
    /\ marked \in [Keys -> BOOLEAN]
    /\ told \in [Keys -> BOOLEAN]

\* However the caches, the failures and the races fall out (a lost
\* invalidation, a fill that lands after it, a service deleted with no
\* invalidation at all), a key is not accepted later than Grace after it died
\* in Postgres: one fill in flight, one prefix entry, one validation in flight
\* and one validated entry, none of which renews another.
BoundedStaleness ==
    \A r \in Requests : req[r].pc = "accepted" => req[r].stale <= Grace

\* Once the revocation of a key has reached Redis, a request that arrives
\* later is refused, also after the marker has expired and although fills that
\* were in flight may put the key back in the caches; only a request whose
\* EXISTS failed can slip through.  Holds when the marker outlives the caches
\* (Grace < RevokedTTL, true of the defaults 300 + 120 against 3600).
MarkedIsRefused ==
    \A r \in Requests : (req[r].pc = "accepted" /\ req[r].afterMark) => req[r].blind

\* Only a token that matches the stored hash is accepted: the cache of
\* validated tokens cannot be entered through a prefix.
OnlyGenuine ==
    \A r \in Requests : req[r].pc = "accepted" =>
        req[r].raw = SecretOf[Key(r)] /\ apiKeys[Key(r)] # None

\* The genuine token of a working key is never answered "api key revoked", a
\* rotation of another key and markers and entries of any age included, and it
\* is answered "invalid api key" only when Redis or Postgres reported an error
\* to this very request: GetPrefix and Lookup return such errors and the ingest
\* handler does not tell them from an unknown key.
NoFalseDenial ==
    \A r \in Requests :
        (/\ req[r].pc \in {"revoked", "invalid"}
         /\ req[r].raw = SecretOf[Key(r)] /\ KeyAlive(Key(r)))
            => req[r].pc = "invalid" /\ req[r].erred

\* docs/services.md: DELETE .../api-keys/:keyId "Revoke key immediately".  No
\* request that arrives after the handler answered success is accepted.
RevokedImmediately ==
    \A r \in Requests : req[r].pc = "accepted" => ~req[r].afterTold

=============================================================================
