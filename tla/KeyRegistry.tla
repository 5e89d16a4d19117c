----------------------------- MODULE KeyRegistry -----------------------------
(***************************************************************************)
(* The service registry of the API process: the Postgres tables services,  *)
(* service_api_keys and audit_events, and the HTTP handlers that write     *)
(* them.  A handler is several SQL statements; handlers run concurrently   *)
(* and interleave between statements.  Only RotateAPIKey is a transaction. *)
(*                                                                         *)
(* The last step of Revoke and Rotate drops the key from the Redis cache   *)
(* the ingestor reads; here it only ends the call, module KeyCache says    *)
(* what it does to Redis.                                                  *)
(***************************************************************************)
EXTENDS Naturals, FiniteSets

CONSTANTS
    Orgs, Users,       \* organizations and JWT-authenticated callers
    RoleOf,            \* RoleOf[u][o]: the caller's role in organization o
    Services, Names,   \* service row ids; normalised service names
    Keys,              \* api key row ids; the prefix of a key is UNIQUE
    Handlers,          \* handler goroutines of the API process
    HasAudit,          \* the registry was built with an audit writer
    MaxUpdates,        \* bound: PATCH calls audited per service
    None

Roles == {"owner", "admin", "developer", "viewer", "none"}

ServiceRow == [org : Orgs, name : Names, deleted : BOOLEAN]
KeyRow == [service : Services, org : Orgs, revoked : BOOLEAN,
           rotatedFrom : Keys \cup {None}]

ASSUME RegistryConstants ==
    /\ RoleOf \in [Users -> [Orgs -> Roles]]
    /\ HasAudit \in BOOLEAN
    /\ MaxUpdates \in Nat
    /\ None \notin Orgs \cup Users \cup Services \cup Names \cup Keys
    /\ None \notin ServiceRow \cup KeyRow

VARIABLES
    services,   \* services[s]: None or a row
    apiKeys,    \* apiKeys[k]: None or a row
    audit,      \* audit[a][id]: rows with action a about resource id
    call        \* call[h]: the call handler h is serving

registryVars == <<services, apiKeys, audit, call>>

AuditAction == {"service.created", "service.updated", "service.deleted",
                "api_key.created", "api_key.revoked", "api_key.rotated"}
Resources == Services \cup Keys

\* The statement a handler executes next.  "write" is the handler's one
\* INSERT, UPDATE or transaction.
PC == {"idle", "getService", "getKey", "write", "audit", "invalidate"}
Op == {"none", "createService", "updateService", "deleteService",
       "generate", "revoke", "rotate"}

Call == [pc : PC, op : Op, user : Users \cup {None}, org : Orgs \cup {None},
         service : Services \cup {None}, name : Names \cup {None},
         key : Keys \cup {None}, stored : Keys \cup {None}]

NoCall == [pc |-> "idle", op |-> "none", user |-> None, org |-> None,
           service |-> None, name |-> None, key |-> None, stored |-> None]

IsDeveloperRole(role) == role \in {"owner", "admin", "developer"}

\* Mutant: the WHERE clause forgets org_id.
LiveServiceAnyOrg(s, o) == services[s] # None /\ ~services[s].deleted

\* A row some SELECT or UPDATE ... WHERE id AND org_id AND deleted_at IS NULL
\* finds.
LiveService(s, o) == /\ services[s] # None
                     /\ services[s].org = o
                     /\ ~services[s].deleted

\* A key row found by id within the service and the organization of the path.
KeyOf(k, s, o) == /\ apiKeys[k] # None
                  /\ apiKeys[k].service = s
                  /\ apiKeys[k].org = o

\* What GetActiveAPIKeyByPrefix finds: the key is not revoked and its service
\* is not deleted.
KeyAlive(k) == /\ apiKeys[k] # None
               /\ ~apiKeys[k].revoked
               /\ ~services[apiKeys[k].service].deleted

\* The partial unique index on (org_id, name) WHERE deleted_at IS NULL, as
\* seen by a write to row s.
NameTaken(s, o, n) == \E t \in Services \ {s} : /\ LiveService(t, o)
                                               /\ services[t].name = n

RegistryInit ==
    /\ services = [s \in Services |-> None]
    /\ apiKeys = [k \in Keys |-> None]
    /\ audit = [a \in AuditAction |-> [id \in Resources |-> 0]]
    /\ call = [h \in Handlers |-> NoCall]

-----------------------------------------------------------------------------
(* Entry: routing, the role check and the path parameters.                 *)

\* Mutant: any member of the organization is let through.
EnterMember(h, u, o, c) ==
    /\ call[h].pc = "idle"
    /\ RoleOf[u][o] # "none"
    /\ call' = [call EXCEPT ![h] = c]
    /\ UNCHANGED <<services, apiKeys, audit>>

\* The middleware and the service both require a developer role of the path's
\* organization; roles never change once granted, so one check is enough.
Enter(h, u, o, c) ==
    /\ call[h].pc = "idle"
    /\ IsDeveloperRole(RoleOf[u][o])
    /\ call' = [call EXCEPT ![h] = c]
    /\ UNCHANGED <<services, apiKeys, audit>>

CreateService(h, u, o, n) ==
    Enter(h, u, o, [NoCall EXCEPT !.pc = "write", !.op = "createService",
                        !.user = u, !.org = o, !.name = n])

UpdateService(h, u, o, s, n) ==
    /\ audit["service.updated"][s] < MaxUpdates
    /\ Enter(h, u, o, [NoCall EXCEPT !.pc = "write", !.op = "updateService",
                           !.user = u, !.org = o, !.service = s, !.name = n])

DeleteService(h, u, o, s) ==
    Enter(h, u, o, [NoCall EXCEPT !.pc = "write", !.op = "deleteService",
                        !.user = u, !.org = o, !.service = s])

GenerateAPIKey(h, u, o, s) ==
    Enter(h, u, o, [NoCall EXCEPT !.pc = "getService", !.op = "generate",
                        !.user = u, !.org = o, !.service = s])

RevokeAPIKey(h, u, o, s, k) ==
    Enter(h, u, o, [NoCall EXCEPT !.pc = "getService", !.op = "revoke",
                        !.user = u, !.org = o, !.service = s, !.key = k])

RotateAPIKey(h, u, o, s, k) ==
    Enter(h, u, o, [NoCall EXCEPT !.pc = "getService", !.op = "rotate",
                        !.user = u, !.org = o, !.service = s, !.key = k])

-----------------------------------------------------------------------------
(* Statements.  A statement that finds no row, or fails, ends the call with *)
(* an error response.                                                      *)

Goto(h, pc) == call' = [call EXCEPT ![h].pc = pc]
EndCall(h) == call' = [call EXCEPT ![h] = NoCall]

\* The write succeeded and returned key row k.
Stored(h, k) == call' = [call EXCEPT ![h].pc = "audit", ![h].stored = k]

GetServiceByID(h) ==
    /\ call[h].pc = "getService"
    /\ IF LiveService(call[h].service, call[h].org)
       THEN Goto(h, IF call[h].op = "rotate" THEN "getKey" ELSE "write")
       ELSE EndCall(h)
    /\ UNCHANGED <<services, apiKeys, audit>>

\* RotateAPIKey reads the old key and refuses a revoked one before it starts
\* the transaction.
GetAPIKeyByID(h) ==
    LET k == call[h].key IN
    /\ call[h].pc = "getKey"
    /\ IF KeyOf(k, call[h].service, call[h].org) /\ ~apiKeys[k].revoked
       THEN Goto(h, "write")
       ELSE EndCall(h)
    /\ UNCHANGED <<services, apiKeys, audit>>

\* Mutant: a create with the name of a deleted service brings it back.
InsertServiceRestoring(h) ==
    /\ call[h].pc = "write" /\ call[h].op = "createService"
    /\ \E s \in Services :
          /\ IF services[s] = None THEN TRUE ELSE services[s].deleted
          /\ services' = [services EXCEPT ![s] =
                [org |-> call[h].org, name |-> call[h].name, deleted |-> FALSE]]
          /\ call' = [call EXCEPT ![h].pc = "audit", ![h].service = s]
    /\ UNCHANGED <<apiKeys, audit>>

InsertService(h) ==
    /\ call[h].pc = "write" /\ call[h].op = "createService"
    /\ \E s \in Services :
          /\ services[s] = None
          /\ IF NameTaken(s, call[h].org, call[h].name)
             THEN EndCall(h) /\ UNCHANGED services
             ELSE /\ services' = [services EXCEPT ![s] =
                        [org |-> call[h].org, name |-> call[h].name,
                         deleted |-> FALSE]]
                  /\ call' = [call EXCEPT ![h].pc = "audit",
                                          ![h].service = s]
    /\ UNCHANGED <<apiKeys, audit>>

UpdateServiceRow(h) ==
    LET s == call[h].service
        found == /\ LiveService(s, call[h].org)
                 /\ ~NameTaken(s, call[h].org, call[h].name)
    IN
    /\ call[h].pc = "write" /\ call[h].op = "updateService"
    /\ IF found
       THEN /\ services' = [services EXCEPT ![s].name = call[h].name]
            /\ Goto(h, "audit")
       ELSE EndCall(h) /\ UNCHANGED services
    /\ UNCHANGED <<apiKeys, audit>>

SoftDeleteService(h) ==
    LET s == call[h].service IN
    /\ call[h].pc = "write" /\ call[h].op = "deleteService"
    /\ IF LiveService(s, call[h].org)
       THEN /\ services' = [services EXCEPT ![s].deleted = TRUE]
            /\ Goto(h, "audit")
       ELSE EndCall(h) /\ UNCHANGED services
    /\ UNCHANGED <<apiKeys, audit>>

\* Mutant: the INSERT leaves org_id out.
CreateAPIKeyNoOrg(h) ==
    /\ call[h].pc = "write" /\ call[h].op = "generate"
    /\ \E k \in Keys :
          /\ apiKeys[k] = None
          /\ apiKeys' = [apiKeys EXCEPT ![k] =
                [service |-> call[h].service, org |-> None,
                 revoked |-> FALSE, rotatedFrom |-> None]]
          /\ Stored(h, k)
    /\ UNCHANGED <<services, audit>>

\* The INSERT does not look at deleted_at: the service may have been deleted
\* since GetServiceByID.
CreateAPIKey(h) ==
    /\ call[h].pc = "write" /\ call[h].op = "generate"
    /\ \E k \in Keys :
          /\ apiKeys[k] = None
          /\ apiKeys' = [apiKeys EXCEPT ![k] =
                [service |-> call[h].service, org |-> call[h].org,
                 revoked |-> FALSE, rotatedFrom |-> None]]
          /\ Stored(h, k)
    /\ UNCHANGED <<services, audit>>

\* Mutant: the UPDATE does not insist on revoked_at IS NULL.
RevocableAgain(k, s, o) == KeyOf(k, s, o)

Revocable(k, s, o) == KeyOf(k, s, o) /\ ~apiKeys[k].revoked

\* Mutant: revoking twice succeeds twice.
RevokeKeyRowAgain(h) ==
    LET k == call[h].key IN
    /\ call[h].pc = "write" /\ call[h].op = "revoke"
    /\ IF KeyOf(k, call[h].service, call[h].org)
       THEN /\ apiKeys' = [apiKeys EXCEPT ![k].revoked = TRUE]
            /\ Stored(h, k)
       ELSE EndCall(h) /\ UNCHANGED apiKeys
    /\ UNCHANGED <<services, audit>>

RevokeKeyRow(h) ==
    LET k == call[h].key IN
    /\ call[h].pc = "write" /\ call[h].op = "revoke"
    /\ IF Revocable(k, call[h].service, call[h].org)
       THEN /\ apiKeys' = [apiKeys EXCEPT ![k].revoked = TRUE]
            /\ Stored(h, k)
       ELSE EndCall(h) /\ UNCHANGED apiKeys
    /\ UNCHANGED <<services, audit>>

\* One transaction: revoke the old key if it is still active, insert its
\* successor.
RotateTx(h) ==
    LET old == call[h].key
        successor == [service |-> call[h].service, org |-> call[h].org,
                      revoked |-> FALSE, rotatedFrom |-> old]
    IN
    /\ call[h].pc = "write" /\ call[h].op = "rotate"
    /\ IF Revocable(old, call[h].service, call[h].org)
       THEN \E k \in Keys :
               /\ apiKeys[k] = None
               /\ apiKeys' = [apiKeys EXCEPT ![old].revoked = TRUE,
                                             ![k] = successor]
               /\ Stored(h, k)
       ELSE EndCall(h) /\ UNCHANGED apiKeys
    /\ UNCHANGED <<services, audit>>

\* The event the handler reports: its action and the row it is about.
EventOf(op) == CASE op = "createService" -> "service.created"
                 [] op = "updateService" -> "service.updated"
                 [] op = "deleteService" -> "service.deleted"
                 [] op = "generate"      -> "api_key.created"
                 [] op = "revoke"        -> "api_key.revoked"
                 [] op = "rotate"        -> "api_key.rotated"

ResourceOf(c) == IF c.op \in {"generate", "revoke", "rotate"}
                 THEN c.stored ELSE c.service

\* writeAudit ignores the writer's error, so the row may be missing.
WriteAudit(h) ==
    LET a == EventOf(call[h].op)
        id == ResourceOf(call[h])
    IN
    /\ call[h].pc = "audit"
    /\ \/ /\ HasAudit
          /\ audit' = [audit EXCEPT ![a][id] = @ + 1]
       \/ UNCHANGED audit
    /\ IF call[h].op \in {"revoke", "rotate"}
       THEN Goto(h, "invalidate")
       ELSE EndCall(h)
    /\ UNCHANGED <<services, apiKeys>>

\* The call ends early: a statement fails, its reply is lost, the client goes
\* away and cancels the request's context, or the process dies.
Abort(h) ==
    /\ call[h].pc # "idle"
    /\ EndCall(h)
    /\ UNCHANGED <<services, apiKeys, audit>>

\* invalidateKeyCache, seen from here.
InvalidateKeyCache(h) ==
    /\ call[h].pc = "invalidate"
    /\ EndCall(h)
    /\ UNCHANGED <<services, apiKeys, audit>>

-----------------------------------------------------------------------------
Request(h) == \E u \in Users, o \in Orgs :
    \/ \E n \in Names : CreateService(h, u, o, n)
    \/ \E s \in Services :
          \/ \E n \in Names : UpdateService(h, u, o, s, n)
          \/ DeleteService(h, u, o, s)
          \/ GenerateAPIKey(h, u, o, s)
          \/ \E k \in Keys : \/ RevokeAPIKey(h, u, o, s, k)
                             \/ RotateAPIKey(h, u, o, s, k)

Statement(h) ==
    \/ GetServiceByID(h) \/ GetAPIKeyByID(h)
    \/ InsertService(h) \/ UpdateServiceRow(h) \/ SoftDeleteService(h)
    \/ CreateAPIKey(h) \/ RevokeKeyRow(h) \/ RotateTx(h)
    \/ WriteAudit(h)

RegistryStep == \E h \in Handlers : Request(h) \/ Statement(h) \/ Abort(h)

RegistryNext == RegistryStep \/ \E h \in Handlers : InvalidateKeyCache(h)

RegistrySpec == RegistryInit /\ [][RegistryNext]_registryVars

-----------------------------------------------------------------------------
(* Properties.                                                             *)

RegistryTypeOK ==
    /\ services \in [Services -> ServiceRow \cup {None}]
    /\ apiKeys \in [Keys -> KeyRow \cup {None}]
    /\ audit \in [AuditAction -> [Resources -> Nat]]
    /\ call \in [Handlers -> Call]

\* A key belongs to the organization of its service: GenerateAPIKey and
\* RotateAPIKey store the path's service and organization side by side, long
\* after the statement that checked that the one belongs to the other.
KeyTenancy ==
    \A k \in Keys : apiKeys[k] # None =>
        LET s == apiKeys[k].service IN
        services[s] # None /\ services[s].org = apiKeys[k].org

\* Concurrent rotations and revocations of one key: at most one successor is
\* ever issued for it, and a key with a successor is revoked (RotateAPIKey is
\* "atomic": there is no moment with both keys valid).
SingleSuccessor ==
    \A k \in Keys : (apiKeys[k] # None /\ apiKeys[k].rotatedFrom # None) =>
        LET old == apiKeys[k].rotatedFrom IN
        /\ apiKeys[old] # None /\ apiKeys[old].revoked
        /\ \A j \in Keys : (apiKeys[j] # None /\ apiKeys[j].rotatedFrom = old)
                               => j = k

\* The audit trail never overstates: each issue or retirement of a key is
\* recorded at most once whatever the race between two handlers, and a record
\* of it is only there when the row changed the way it says.
AuditMatchesRows ==
    \A k \in Keys :
        /\ \A a \in {"api_key.created", "api_key.revoked", "api_key.rotated"} :
               audit[a][k] <= 1
        /\ audit["api_key.created"][k] = 1 =>
               apiKeys[k] # None /\ apiKeys[k].rotatedFrom = None
        /\ audit["api_key.rotated"][k] = 1 =>
               apiKeys[k] # None /\ apiKeys[k].rotatedFrom # None
        /\ audit["api_key.revoked"][k] = 1 =>
               /\ apiKeys[k] # None /\ apiKeys[k].revoked
               /\ \A j \in Keys : apiKeys[j] # None =>
                                     apiKeys[j].rotatedFrom # k

\* Once a key stops authenticating in the database (revoked, rotated away, or
\* its service deleted) no handler makes it authenticate again, whatever is
\* created, renamed or rotated afterwards.
DeadStaysDead ==
    [][\A k \in Keys : (apiKeys[k] # None /\ ~KeyAlive(k)) => ~KeyAlive(k)']_registryVars

\* A key row only changes on behalf of a caller who is a developer of the
\* organization that owns the row, although rows are addressed by ids taken
\* from the path and the check was made several statements earlier.
ActsWithinOrg ==
    [][\A k \in Keys : apiKeys'[k] # apiKeys[k] =>
          \E h \in Handlers :
             /\ call[h].pc = "write" /\ call'[h] # call[h]
             /\ IsDeveloperRole(RoleOf[call[h].user][apiKeys'[k].org])]_registryVars

\* docs/services.md: "All critical actions write append-only audit events."
\* Once no handler is still working on it, a retired key has its event.
CriticalActionsAudited ==
    \A k \in Keys : (/\ apiKeys[k] # None /\ apiKeys[k].revoked
                     /\ \A h \in Handlers : call[h].key # k) =>
        \/ audit["api_key.revoked"][k] > 0
        \/ \E j \in Keys : /\ apiKeys[j] # None /\ apiKeys[j].rotatedFrom = k
                            /\ audit["api_key.rotated"][j] > 0

=============================================================================
