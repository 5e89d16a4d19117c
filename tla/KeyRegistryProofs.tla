-------------------------- MODULE KeyRegistryProofs --------------------------
(***************************************************************************)
(* Proofs about the registry, for any number of organizations, services,   *)
(* keys and concurrent handlers.                                           *)
(***************************************************************************)
EXTENDS KeyRegistry, TLAPS

\* What a handler knows from the statements it has already executed.
CallKnows(c) ==
    c.pc # "idle" =>
        /\ c.op # "none"
        /\ c.user \in Users /\ c.org \in Orgs
        /\ IsDeveloperRole(RoleOf[c.user][c.org])
        /\ c.op \in {"createService", "updateService"} => c.name \in Names
        /\ c.op # "createService" \/ c.pc = "audit" => c.service \in Services
        /\ c.op \in {"revoke", "rotate"} => c.key \in Keys
        /\ c.op \in {"createService", "updateService", "deleteService"} =>
               c.pc \in {"write", "audit"}
        /\ c.op = "generate" => c.pc \in {"getService", "write", "audit"}
        /\ c.op \in {"generate", "revoke", "rotate"} /\ c.pc = "audit" =>
               c.stored \in Keys

\* The service a handler has looked up belongs to the path's organization.
CallService(c) ==
    c.op \in {"generate", "revoke", "rotate"} /\ c.pc \notin {"idle", "getService"} =>
        services[c.service] # None /\ services[c.service].org = c.org

KeyOps == {"generate", "revoke", "rotate"}

\* What the event of a key operation says about the key's row.
RowSays(op, k) ==
    /\ apiKeys[k] # None
    /\ op = "generate" => apiKeys[k].rotatedFrom = None
    /\ op = "rotate" => apiKeys[k].rotatedFrom # None
    /\ op = "revoke" => /\ apiKeys[k].revoked
                        /\ \A j \in Keys : apiKeys[j] # None =>
                                              apiKeys[j].rotatedFrom # k

AboutToAudit(h, op, k) ==
    call[h].pc = "audit" /\ call[h].op = op /\ call[h].stored = k

\* The event of one key operation: true, written once, or owed by one handler.
AuditInv ==
    \A op \in KeyOps, k \in Keys :
        /\ audit[EventOf(op)][k] <= 1
        /\ audit[EventOf(op)][k] = 1 => RowSays(op, k)
        /\ \A h \in Handlers : AboutToAudit(h, op, k) =>
               /\ audit[EventOf(op)][k] = 0
               /\ RowSays(op, k)
               /\ \A g \in Handlers : AboutToAudit(g, op, k) => g = h

CallsInv == \A h \in Handlers : CallKnows(call[h]) /\ CallService(call[h])

RegistryInv ==
    /\ RegistryTypeOK
    /\ CallsInv
    /\ KeyTenancy
    /\ SingleSuccessor
    /\ AuditInv

\* The initial state satisfies the inductive invariant.
LEMMA RegistryInvInit ==
    ASSUME RegistryInit
    PROVE  RegistryInv
<1>1. RegistryTypeOK
    BY DEF RegistryInit, RegistryTypeOK, NoCall, Call, PC, Op
<1>2. CallsInv
    BY DEF RegistryInit, CallsInv, CallKnows, CallService, NoCall
<1>3. KeyTenancy /\ SingleSuccessor
    BY DEF RegistryInit, KeyTenancy, SingleSuccessor
<1>4. ASSUME NEW op \in KeyOps, NEW k \in Keys
      PROVE  audit[EventOf(op)][k] = 0
    BY DEF RegistryInit, KeyOps, EventOf, AuditAction, Resources
<1>5. AuditInv
    BY <1>4 DEF RegistryInit, AuditInv, AboutToAudit, NoCall
<1> QED
    BY <1>1, <1>2, <1>3, <1>5 DEF RegistryInv

\* The shapes a step gives to the table of calls.
LEMMA GotoCall ==
    ASSUME call \in [Handlers -> Call], NEW h \in Handlers, NEW pc \in PC, Goto(h, pc)
    PROVE  call' \in [Handlers -> Call]
  BY DEF Goto, Call

\* A finished handler is idle.
LEMMA EndCallCall ==
    ASSUME call \in [Handlers -> Call], NEW h \in Handlers, EndCall(h)
    PROVE  call' \in [Handlers -> Call]
<1>1. NoCall \in Call
    BY DEF NoCall, Call, PC, Op
<1> QED
    BY <1>1 DEF EndCall

\* A successful write to the key table.
LEMMA StoredCall ==
    ASSUME call \in [Handlers -> Call], NEW h \in Handlers, NEW k \in Keys, Stored(h, k)
    PROVE  call' \in [Handlers -> Call]
<1>1. [call[h] EXCEPT !.pc = "audit", !.stored = k] \in Call
    BY DEF Call, PC
<1> QED
    BY <1>1 DEF Stored

\* A call that enters is well typed.
LEMMA EnterCall ==
    ASSUME call \in [Handlers -> Call], NEW h \in Handlers, Request(h)
    PROVE  /\ call' \in [Handlers -> Call]
           /\ UNCHANGED <<services, apiKeys, audit>>
<1>1. ASSUME NEW u, NEW o, NEW c \in Call, Enter(h, u, o, c)
      PROVE  /\ call' \in [Handlers -> Call]
             /\ UNCHANGED <<services, apiKeys, audit>>
    BY <1>1 DEF Enter
<1>2. ASSUME NEW u \in Users, NEW o \in Orgs, NEW n \in Names
      PROVE  [NoCall EXCEPT !.pc = "write", !.op = "createService",
                     !.user = u, !.org = o, !.name = n] \in Call
    BY DEF NoCall, Call, PC, Op
<1>3. ASSUME NEW u \in Users, NEW o \in Orgs, NEW s \in Services
      PROVE  /\ \A n \in Names :
                  [NoCall EXCEPT !.pc = "write", !.op = "updateService",
                     !.user = u, !.org = o, !.service = s, !.name = n] \in Call
             /\ [NoCall EXCEPT !.pc = "write", !.op = "deleteService",
                     !.user = u, !.org = o, !.service = s] \in Call
             /\ [NoCall EXCEPT !.pc = "getService", !.op = "generate",
                     !.user = u, !.org = o, !.service = s] \in Call
             /\ \A k \in Keys :
                  /\ [NoCall EXCEPT !.pc = "getService", !.op = "revoke",
                         !.user = u, !.org = o, !.service = s, !.key = k] \in Call
                  /\ [NoCall EXCEPT !.pc = "getService", !.op = "rotate",
                         !.user = u, !.org = o, !.service = s, !.key = k] \in Call
    BY DEF NoCall, Call, PC, Op
<1>4. PICK u \in Users, o \in Orgs :
        \/ \E n \in Names : CreateService(h, u, o, n)
        \/ \E s \in Services :
             \/ \E n \in Names : UpdateService(h, u, o, s, n)
             \/ DeleteService(h, u, o, s)
             \/ GenerateAPIKey(h, u, o, s)
             \/ \E k \in Keys : RevokeAPIKey(h, u, o, s, k) \/ RotateAPIKey(h, u, o, s, k)
    BY DEF Request
<1>5. \E c \in Call : Enter(h, u, o, c)
    BY <1>2, <1>3, <1>4 DEF CreateService, UpdateService, DeleteService, GenerateAPIKey,
         RevokeAPIKey, RotateAPIKey
<1> QED
    BY <1>1, <1>5

\* The types.
LEMMA RegistryTypeStep ==
    ASSUME RegistryInv, [RegistryNext]_registryVars
    PROVE  RegistryTypeOK'
<1>0. /\ RegistryTypeOK /\ call \in [Handlers -> Call]
      /\ \A h \in Handlers : CallKnows(call[h])
    BY DEF RegistryInv, RegistryTypeOK, CallsInv
<1>1. ASSUME NEW h \in Handlers, Request(h)
      PROVE  RegistryTypeOK'
    BY <1>0, <1>1, EnterCall DEF RegistryTypeOK
<1>2. ASSUME NEW h \in Handlers, GetServiceByID(h) \/ GetAPIKeyByID(h)
      PROVE  RegistryTypeOK'
  <2>1. call' \in [Handlers -> Call]
    BY <1>0, <1>2, GotoCall, EndCallCall DEF GetServiceByID, GetAPIKeyByID, PC
  <2> QED
    BY <1>0, <1>2, <2>1 DEF GetServiceByID, GetAPIKeyByID, RegistryTypeOK
<1>4. ASSUME NEW h \in Handlers, InsertService(h)
      PROVE  RegistryTypeOK'
  <2>1. PICK s \in Services : InsertService(h)!2!(s)
    BY <1>4 DEF InsertService
  <2>2. [call[h] EXCEPT !.pc = "audit", !.service = s] \in Call
    BY <1>0 DEF Call, PC
  <2>3. call' \in [Handlers -> Call]
    BY <1>0, <2>1, <2>2, EndCallCall
  <2>4. [org |-> call[h].org, name |-> call[h].name, deleted |-> FALSE] \in ServiceRow
    BY <1>0, <1>4 DEF InsertService, CallKnows, ServiceRow
  <2>5. services' \in [Services -> ServiceRow \cup {None}]
    BY <1>0, <2>1, <2>4 DEF RegistryTypeOK
  <2> QED
    BY <1>0, <1>4, <2>3, <2>5 DEF InsertService, RegistryTypeOK
<1>5. ASSUME NEW h \in Handlers, UpdateServiceRow(h) \/ SoftDeleteService(h)
      PROVE  RegistryTypeOK'
  <2>1. call' \in [Handlers -> Call]
    BY <1>0, <1>5, GotoCall, EndCallCall DEF UpdateServiceRow, SoftDeleteService, PC
  <2> DEFINE s == call[h].service
  <2>2. ASSUME LiveService(s, call[h].org)
        PROVE  services' \in [Services -> ServiceRow \cup {None}]
    <3>1. s \in Services /\ services[s] \in ServiceRow
      BY <1>0, <1>5, <2>2 DEF RegistryTypeOK, CallKnows, LiveService, UpdateServiceRow,
           SoftDeleteService
    <3>2. /\ [services[s] EXCEPT !.deleted = TRUE] \in ServiceRow
          /\ call[h].op = "updateService" /\ call[h].pc = "write" =>
                [services[s] EXCEPT !.name = call[h].name] \in ServiceRow
      BY <1>0, <3>1 DEF ServiceRow, CallKnows
    <3> QED
      BY <1>0, <1>5, <3>1, <3>2 DEF UpdateServiceRow, SoftDeleteService, RegistryTypeOK
  <2>3. ASSUME UNCHANGED services
        PROVE  services' \in [Services -> ServiceRow \cup {None}]
    BY <1>0, <2>3 DEF RegistryTypeOK
  <2>4. services' \in [Services -> ServiceRow \cup {None}]
    BY <1>5, <2>2, <2>3 DEF UpdateServiceRow, SoftDeleteService
  <2> QED
    BY <1>0, <1>5, <2>1, <2>4 DEF UpdateServiceRow, SoftDeleteService, RegistryTypeOK
<1>7. ASSUME NEW h \in Handlers, CreateAPIKey(h) \/ RevokeKeyRow(h) \/ RotateTx(h)
      PROVE  RegistryTypeOK'
  <2>1. call' \in [Handlers -> Call]
    BY <1>0, <1>7, StoredCall, EndCallCall
       DEF CreateAPIKey, RevokeKeyRow, RotateTx, CallKnows
  <2>2. apiKeys' \in [Keys -> KeyRow \cup {None}]
    <3>1. CASE CreateAPIKey(h)
      BY <1>0, <3>1 DEF CreateAPIKey, RegistryTypeOK, CallKnows, KeyRow
    <3>2. ASSUME NEW k \in Keys, apiKeys[k] # None
          PROVE  [apiKeys[k] EXCEPT !.revoked = TRUE] \in KeyRow
      BY <1>0, <3>2 DEF RegistryTypeOK, KeyRow
    <3>3. CASE RevokeKeyRow(h)
      BY <1>0, <3>2, <3>3 DEF RevokeKeyRow, RegistryTypeOK, CallKnows, Revocable, KeyOf
    <3>4. CASE RotateTx(h)
      <4>1. call[h].key \in Keys /\ call[h].service \in Services /\ call[h].org \in Orgs
        BY <1>0, <3>4 DEF RotateTx, CallKnows
      <4>2. [service |-> call[h].service, org |-> call[h].org,
             revoked |-> FALSE, rotatedFrom |-> call[h].key] \in KeyRow
        BY <4>1 DEF KeyRow
      <4> QED
        BY <1>0, <3>2, <3>4, <4>1, <4>2 DEF RotateTx, RegistryTypeOK, Revocable, KeyOf
    <3> QED
      BY <1>7, <3>1, <3>3, <3>4
  <2> QED
    BY <1>0, <1>7, <2>1, <2>2 DEF CreateAPIKey, RevokeKeyRow, RotateTx, RegistryTypeOK
<1>10. ASSUME NEW h \in Handlers, WriteAudit(h)
       PROVE  RegistryTypeOK'
  <2>1. call' \in [Handlers -> Call]
    BY <1>0, <1>10, GotoCall, EndCallCall DEF WriteAudit, PC
  <2>2. audit' \in [AuditAction -> [Resources -> Nat]]
    BY <1>0, <1>10 DEF WriteAudit, RegistryTypeOK
  <2> QED
    BY <1>0, <1>10, <2>1, <2>2 DEF WriteAudit, RegistryTypeOK
<1>11. ASSUME NEW h \in Handlers, Abort(h) \/ InvalidateKeyCache(h)
       PROVE  RegistryTypeOK'
    BY <1>0, <1>11, EndCallCall DEF Abort, InvalidateKeyCache, RegistryTypeOK
<1>12. CASE UNCHANGED registryVars
    BY <1>0, <1>12 DEF registryVars, RegistryTypeOK
<1> QED
    BY <1>1, <1>2, <1>4, <1>5, <1>7, <1>10, <1>11, <1>12
       DEF RegistryNext, RegistryStep, Statement

\* Service rows are never removed, never change organization and never come
\* back from deletion.
ServicesGrow ==
    \A s \in Services : services[s] # None =>
        /\ services'[s] # None
        /\ services'[s].org = services[s].org
        /\ services[s].deleted => services'[s].deleted

\* Key rows keep their service, organization and origin, and stay revoked.
KeysGrow ==
    \A k \in Keys : apiKeys[k] # None =>
        /\ apiKeys'[k] # None
        /\ apiKeys'[k].service = apiKeys[k].service
        /\ apiKeys'[k].org = apiKeys[k].org
        /\ apiKeys'[k].rotatedFrom = apiKeys[k].rotatedFrom
        /\ apiKeys[k].revoked => apiKeys'[k].revoked

\* Every statement keeps what is stored.
LEMMA RowsGrow ==
    ASSUME RegistryInv, [RegistryNext]_registryVars
    PROVE  ServicesGrow /\ KeysGrow
<1>0. /\ services \in [Services -> ServiceRow \cup {None}]
      /\ apiKeys \in [Keys -> KeyRow \cup {None}]
      /\ \A h \in Handlers : CallKnows(call[h])
    BY DEF RegistryInv, RegistryTypeOK, CallsInv
<1>1. None \notin ServiceRow /\ None \notin KeyRow
    BY RegistryConstants
<1>2. ASSUME UNCHANGED services
      PROVE  ServicesGrow
    BY <1>2 DEF ServicesGrow
<1>3. ASSUME UNCHANGED apiKeys
      PROVE  KeysGrow
    BY <1>3 DEF KeysGrow
<1>4. ASSUME NEW h \in Handlers, InsertService(h)
      PROVE  ServicesGrow /\ KeysGrow
    BY <1>0, <1>3, <1>4 DEF InsertService, ServicesGrow
<1>5. ASSUME NEW h \in Handlers, UpdateServiceRow(h) \/ SoftDeleteService(h)
      PROVE  ServicesGrow /\ KeysGrow
  <2> DEFINE s == call[h].service
  <2>1. ASSUME LiveService(s, call[h].org)
        PROVE  ServicesGrow
    <3>1. s \in Services /\ services[s] \in ServiceRow
      BY <1>0, <1>5, <2>1 DEF CallKnows, LiveService, UpdateServiceRow, SoftDeleteService
    <3>2. services' = [services EXCEPT ![s] = services'[s]]
      BY <1>0, <1>5, <3>1 DEF UpdateServiceRow, SoftDeleteService
    <3>3. \/ services'[s] = services[s]
          \/ services'[s] = [services[s] EXCEPT !.deleted = TRUE]
          \/ /\ call[h].name \in Names
             /\ services'[s] = [services[s] EXCEPT !.name = call[h].name]
      BY <1>0, <1>5, <3>1 DEF UpdateServiceRow, SoftDeleteService, CallKnows
    <3>4. /\ services'[s] \in ServiceRow
          /\ services'[s].org = services[s].org
          /\ services[s].deleted => services'[s].deleted
      BY <3>1, <3>3 DEF ServiceRow
    <3> QED
      BY <1>0, <1>1, <3>1, <3>2, <3>4 DEF ServicesGrow
  <2> QED
    BY <1>2, <1>3, <1>5, <2>1 DEF UpdateServiceRow, SoftDeleteService
<1>6. ASSUME NEW h \in Handlers, CreateAPIKey(h)
      PROVE  ServicesGrow /\ KeysGrow
    BY <1>0, <1>2, <1>6 DEF CreateAPIKey, KeysGrow
<1>7. ASSUME NEW k \in Keys, apiKeys[k] # None,
             NEW new, new = [apiKeys[k] EXCEPT !.revoked = TRUE]
      PROVE  /\ new # None /\ new.revoked
             /\ new.service = apiKeys[k].service /\ new.org = apiKeys[k].org
             /\ new.rotatedFrom = apiKeys[k].rotatedFrom
    BY <1>0, <1>1, <1>7 DEF KeyRow
<1>8. ASSUME NEW h \in Handlers, RevokeKeyRow(h) \/ RotateTx(h)
      PROVE  ServicesGrow /\ KeysGrow
  <2> DEFINE k == call[h].key
  <2>1. ASSUME ~UNCHANGED apiKeys
        PROVE  /\ k \in Keys /\ apiKeys[k] # None
               /\ apiKeys'[k] = [apiKeys[k] EXCEPT !.revoked = TRUE]
               /\ \A j \in Keys \ {k} : apiKeys[j] # None => apiKeys'[j] = apiKeys[j]
    BY <1>0, <1>8, <2>1 DEF RevokeKeyRow, RotateTx, Revocable, KeyOf, CallKnows
  <2>2. ASSUME ~UNCHANGED apiKeys
        PROVE  KeysGrow
    <3>1. /\ apiKeys'[k] # None /\ apiKeys'[k].revoked
          /\ apiKeys'[k].service = apiKeys[k].service /\ apiKeys'[k].org = apiKeys[k].org
          /\ apiKeys'[k].rotatedFrom = apiKeys[k].rotatedFrom
      BY <1>7, <2>1, <2>2
    <3> QED
      BY <2>1, <2>2, <3>1 DEF KeysGrow
  <2> QED
    BY <1>2, <1>3, <1>8, <2>2 DEF RevokeKeyRow, RotateTx
<1>10. ASSUME UNCHANGED <<services, apiKeys>>
       PROVE  ServicesGrow /\ KeysGrow
    BY <1>2, <1>3, <1>10
<1>11. ASSUME NEW h \in Handlers, Request(h)
       PROVE  UNCHANGED <<services, apiKeys>>
    BY <1>11, EnterCall DEF RegistryInv, RegistryTypeOK
<1> QED
    BY <1>4, <1>5, <1>6, <1>8, <1>10, <1>11
       DEF RegistryNext, RegistryStep, Statement, GetServiceByID, GetAPIKeyByID, WriteAudit,
           Abort, InvalidateKeyCache, registryVars

\* What a call that enters knows: its parameters and the caller's role.
LEMMA EnterKnows ==
    ASSUME call \in [Handlers -> Call], NEW h \in Handlers, Request(h)
    PROVE  /\ CallKnows(call'[h]) /\ call'[h].pc \in {"getService", "write"}
           /\ call'[h].op \in KeyOps => call'[h].pc = "getService"
           /\ \A g \in Handlers \ {h} : call'[g] = call[g]
<1> DEFINE Good(c) == /\ CallKnows(c) /\ c.pc \in {"getService", "write"}
                      /\ c.op \in KeyOps => c.pc = "getService"
<1>1. PICK u \in Users, o \in Orgs :
        \/ \E n \in Names : CreateService(h, u, o, n)
        \/ \E s \in Services :
             \/ \E n \in Names : UpdateService(h, u, o, s, n)
             \/ DeleteService(h, u, o, s)
             \/ GenerateAPIKey(h, u, o, s)
             \/ \E k \in Keys : RevokeAPIKey(h, u, o, s, k) \/ RotateAPIKey(h, u, o, s, k)
    BY DEF Request
<1>2. IsDeveloperRole(RoleOf[u][o])
    BY <1>1 DEF CreateService, UpdateService, DeleteService, GenerateAPIKey, RevokeAPIKey,
         RotateAPIKey, Enter
<1>3. ASSUME NEW n \in Names
      PROVE  Good([NoCall EXCEPT !.pc = "write", !.op = "createService",
                     !.user = u, !.org = o, !.name = n])
    BY <1>2 DEF NoCall, CallKnows, KeyOps
<1>4. ASSUME NEW s \in Services
      PROVE  /\ \A n \in Names :
                  Good([NoCall EXCEPT !.pc = "write", !.op = "updateService",
                     !.user = u, !.org = o, !.service = s, !.name = n])
             /\ Good([NoCall EXCEPT !.pc = "write", !.op = "deleteService",
                     !.user = u, !.org = o, !.service = s])
             /\ Good([NoCall EXCEPT !.pc = "getService", !.op = "generate",
                     !.user = u, !.org = o, !.service = s])
    BY <1>2 DEF NoCall, CallKnows, KeyOps
<1>5. ASSUME NEW s \in Services, NEW k \in Keys
      PROVE  /\ Good([NoCall EXCEPT !.pc = "getService", !.op = "revoke",
                         !.user = u, !.org = o, !.service = s, !.key = k])
             /\ Good([NoCall EXCEPT !.pc = "getService", !.op = "rotate",
                         !.user = u, !.org = o, !.service = s, !.key = k])
    BY <1>2 DEF NoCall, CallKnows, KeyOps
<1> HIDE DEF Good
<1>6. \E c : Good(c) /\ call' = [call EXCEPT ![h] = c]
    BY <1>1, <1>3, <1>4, <1>5 DEF CreateService, UpdateService, DeleteService,
         GenerateAPIKey, RevokeAPIKey, RotateAPIKey, Enter
<1>7. Good(call'[h]) /\ \A g \in Handlers \ {h} : call'[g] = call[g]
    BY <1>6
<1> QED
    BY <1>7 DEF Good

\* Handlers keep knowing what they checked.
LEMMA CallsStep ==
    ASSUME RegistryInv, [RegistryNext]_registryVars
    PROVE  CallsInv'
<1>0. /\ call \in [Handlers -> Call]
      /\ \A h \in Handlers : CallKnows(call[h]) /\ CallService(call[h])
    BY DEF RegistryInv, RegistryTypeOK, CallsInv
<1>1. ServicesGrow /\ call' \in [Handlers -> Call]
    BY RowsGrow, RegistryTypeStep DEF RegistryTypeOK
\* A handler that does not move keeps what it knows, rows only grow.
<1>2. ASSUME NEW g \in Handlers, call'[g] = call[g]
      PROVE  CallKnows(call'[g]) /\ CallService(call[g])'
    BY <1>0, <1>1, <1>2 DEF ServicesGrow, CallService, CallKnows
<1>3. ASSUME NEW g \in Handlers, call'[g].pc = "idle"
      PROVE  CallKnows(call'[g]) /\ CallService(call[g])'
    BY <1>3 DEF CallKnows, CallService
<1>4. ASSUME NEW h \in Handlers, EndCall(h)
      PROVE  CallsInv'
    <2>1. call'[h].pc = "idle" /\ \A g \in Handlers \ {h} : call'[g] = call[g]
      BY <1>0, <1>4 DEF EndCall, NoCall
    <2> QED
      BY <1>2, <1>3, <2>1 DEF CallsInv
<1>5. ASSUME NEW h \in Handlers, Request(h)
      PROVE  CallsInv'
    <2>1. CallService(call[h])'
      BY <1>0, <1>5, EnterKnows DEF CallService, KeyOps
    <2> QED
      BY <1>0, <1>2, <1>5, <2>1, EnterKnows DEF CallsInv
\* A handler that moves on with the same parameters.
<1>6. ASSUME NEW h \in Handlers, NEW pc \in PC, Goto(h, pc)
      PROVE  /\ call'[h] = [call[h] EXCEPT !.pc = pc]
             /\ \A g \in Handlers \ {h} : call'[g] = call[g]
    BY <1>0, <1>6 DEF Goto
<1>7. ASSUME NEW h \in Handlers, GetServiceByID(h)
      PROVE  CallsInv'
    <2>1. CASE EndCall(h)
      BY <1>4, <2>1
    <2>2. CASE ~EndCall(h)
      <3> DEFINE pc == IF call[h].op = "rotate" THEN "getKey" ELSE "write"
      <3>1. /\ LiveService(call[h].service, call[h].org)
            /\ Goto(h, pc) /\ pc \in PC /\ call[h].pc = "getService"
            /\ UNCHANGED services
        BY <1>7, <2>2 DEF GetServiceByID, PC
      <3>2. /\ call'[h] = [call[h] EXCEPT !.pc = pc]
            /\ \A g \in Handlers \ {h} : call'[g] = call[g]
        BY <1>6, <3>1
      <3>3. CallKnows(call'[h]) /\ CallService(call[h])'
        BY <1>0, <3>1, <3>2 DEF CallKnows, CallService, LiveService, Call
      <3> QED
        BY <1>2, <3>2, <3>3 DEF CallsInv
    <2> QED
      BY <2>1, <2>2
<1>8. ASSUME NEW h \in Handlers,
             \/ GetAPIKeyByID(h) \/ UpdateServiceRow(h) \/ SoftDeleteService(h)
             \/ WriteAudit(h)
      PROVE  CallsInv'
    <2>1. CASE EndCall(h)
      BY <1>4, <2>1
    <2>2. CASE ~EndCall(h)
      <3>1. PICK pc \in {"write", "audit", "invalidate"} :
              /\ Goto(h, pc)
              /\ \/ call[h].pc = "getKey" /\ pc = "write"
                 \/ /\ call[h].pc = "write" /\ pc = "audit"
                    /\ call[h].op \in {"updateService", "deleteService"}
                 \/ /\ call[h].pc = "audit" /\ pc = "invalidate"
                    /\ call[h].op \in {"revoke", "rotate"}
        BY <1>8, <2>2 DEF GetAPIKeyByID, UpdateServiceRow, SoftDeleteService, WriteAudit
      <3>2. /\ call'[h] = [call[h] EXCEPT !.pc = pc]
            /\ \A g \in Handlers \ {h} : call'[g] = call[g]
        BY <1>6, <3>1 DEF PC
      <3>3. CallKnows(call'[h])
        BY <1>0, <3>1, <3>2 DEF CallKnows, Call
      <3>4. CallService(call[h])'
        BY <1>0, <1>1, <3>1, <3>2 DEF CallKnows, CallService, Call, ServicesGrow
      <3> QED
        BY <1>2, <3>2, <3>3, <3>4 DEF CallsInv
    <2> QED
      BY <2>1, <2>2
<1>9. ASSUME NEW h \in Handlers, InsertService(h)
      PROVE  CallsInv'
    <2>1. CASE EndCall(h)
      BY <1>4, <2>1
    <2>2. CASE ~EndCall(h)
      <3>1. PICK s \in Services :
               call' = [call EXCEPT ![h].pc = "audit", ![h].service = s]
        BY <1>9, <2>2 DEF InsertService
      <3>2. /\ call'[h] = [call[h] EXCEPT !.pc = "audit", !.service = s]
            /\ \A g \in Handlers \ {h} : call'[g] = call[g]
        BY <1>0, <3>1
      <3>3. CallKnows(call'[h]) /\ CallService(call[h])'
        BY <1>0, <1>9, <3>2 DEF CallKnows, CallService, Call, InsertService
      <3> QED
        BY <1>2, <3>2, <3>3 DEF CallsInv
    <2> QED
      BY <2>1, <2>2
<1>10. ASSUME NEW h \in Handlers, CreateAPIKey(h) \/ RevokeKeyRow(h) \/ RotateTx(h)
       PROVE  CallsInv'
    <2>1. CASE EndCall(h)
      BY <1>4, <2>1
    <2>2. CASE ~EndCall(h)
      <3>1. /\ call[h].pc = "write" /\ call[h].op \in KeyOps
            /\ \E k \in Keys : Stored(h, k)
        BY <1>0, <1>10, <2>2 DEF CreateAPIKey, RevokeKeyRow, RotateTx, KeyOps, CallKnows
      <3>2. PICK k \in Keys : /\ call'[h] = [call[h] EXCEPT !.pc = "audit", !.stored = k]
                              /\ \A g \in Handlers \ {h} : call'[g] = call[g]
        BY <1>0, <3>1 DEF Stored
      <3>3. CallKnows(call'[h])
        BY <1>0, <3>1, <3>2 DEF CallKnows, Call, KeyOps
      <3>4. CallService(call[h])'
        BY <1>0, <1>1, <3>1, <3>2 DEF CallKnows, CallService, Call, ServicesGrow, KeyOps
      <3> QED
        BY <1>2, <3>2, <3>3, <3>4 DEF CallsInv
    <2> QED
      BY <2>1, <2>2
<1>11. ASSUME NEW h \in Handlers, Abort(h) \/ InvalidateKeyCache(h)
       PROVE  CallsInv'
    BY <1>4, <1>11 DEF Abort, InvalidateKeyCache
<1>12. CASE UNCHANGED registryVars
    BY <1>2, <1>12 DEF registryVars, CallsInv
<1> QED
    BY <1>5, <1>7, <1>8, <1>9, <1>10, <1>11, <1>12 DEF RegistryNext, RegistryStep, Statement

\* The three ways the key table changes.
KeyCreated(h, k) ==
    /\ call[h].op = "generate" /\ call[h].pc = "write"
    /\ apiKeys[k] = None
    /\ apiKeys'[k] = [service |-> call[h].service, org |-> call[h].org,
                      revoked |-> FALSE, rotatedFrom |-> None]
    /\ \A j \in Keys \ {k} : apiKeys'[j] = apiKeys[j]

KeyRevoked(h, k) ==
    /\ call[h].op = "revoke" /\ call[h].pc = "write" /\ call[h].key = k
    /\ apiKeys[k] # None /\ apiKeys[k].org = call[h].org /\ ~apiKeys[k].revoked
    /\ apiKeys'[k] # None /\ apiKeys'[k].revoked
    /\ \A j \in Keys \ {k} : apiKeys'[j] = apiKeys[j]

KeyRotated(h, k) ==
    LET old == call[h].key IN
    /\ call[h].op = "rotate" /\ call[h].pc = "write"
    /\ old \in Keys /\ old # k
    /\ apiKeys[old] # None /\ apiKeys[old].org = call[h].org /\ ~apiKeys[old].revoked
    /\ apiKeys'[old] # None /\ apiKeys'[old].revoked
    /\ apiKeys[k] = None
    /\ apiKeys'[k] = [service |-> call[h].service, org |-> call[h].org,
                      revoked |-> FALSE, rotatedFrom |-> old]
    /\ \A j \in Keys \ {old, k} : apiKeys'[j] = apiKeys[j]

\* A handler's write to the key table fails, or changes it in one of those ways.
LEMMA KeyWrite ==
    ASSUME RegistryInv, [RegistryNext]_registryVars, NEW h \in Handlers,
           CreateAPIKey(h) \/ RevokeKeyRow(h) \/ RotateTx(h)
    PROVE  /\ UNCHANGED <<services, audit>>
           /\ \/ EndCall(h) /\ UNCHANGED apiKeys
              \/ \E k \in Keys :
                    /\ KeyCreated(h, k) \/ KeyRevoked(h, k) \/ KeyRotated(h, k)
                    /\ Stored(h, k)
<1>0. /\ apiKeys \in [Keys -> KeyRow \cup {None}]
      /\ call \in [Handlers -> Call]
      /\ \A g \in Handlers : CallKnows(call[g])
    BY DEF RegistryInv, RegistryTypeOK, CallsInv
<1>1. KeysGrow
    BY RowsGrow
<1>2. ASSUME CreateAPIKey(h)
      PROVE  \E k \in Keys : KeyCreated(h, k) /\ Stored(h, k)
    BY <1>0, <1>2 DEF CreateAPIKey, KeyCreated
<1>3. ASSUME NEW k \in Keys, apiKeys[k] # None,
             NEW new, new = [apiKeys[k] EXCEPT !.revoked = TRUE]
      PROVE  new.revoked
    BY <1>0, <1>3 DEF KeyRow
<1>4. ASSUME RevokeKeyRow(h), ~(EndCall(h) /\ UNCHANGED apiKeys)
      PROVE  \E k \in Keys : KeyRevoked(h, k) /\ Stored(h, k)
  <2> DEFINE k == call[h].key
  <2>1. /\ call[h].op = "revoke" /\ call[h].pc = "write" /\ k \in Keys
        /\ apiKeys[k] # None /\ apiKeys[k].org = call[h].org /\ ~apiKeys[k].revoked
        /\ apiKeys'[k] = [apiKeys[k] EXCEPT !.revoked = TRUE]
        /\ \A j \in Keys \ {k} : apiKeys'[j] = apiKeys[j]
        /\ Stored(h, k)
    BY <1>0, <1>4 DEF RevokeKeyRow, CallKnows, Revocable, KeyOf
  <2>2. apiKeys'[k] # None /\ apiKeys'[k].revoked
    BY <1>1, <1>3, <2>1 DEF KeysGrow
  <2> QED
    BY <2>1, <2>2 DEF KeyRevoked
<1>5. ASSUME RotateTx(h), ~(EndCall(h) /\ UNCHANGED apiKeys)
      PROVE  \E k \in Keys : KeyRotated(h, k) /\ Stored(h, k)
  <2> DEFINE old == call[h].key
  <2>1. /\ call[h].op = "rotate" /\ call[h].pc = "write" /\ old \in Keys
        /\ apiKeys[old] # None /\ apiKeys[old].org = call[h].org /\ ~apiKeys[old].revoked
    BY <1>0, <1>5 DEF RotateTx, CallKnows, Revocable, KeyOf
  <2>2. PICK k \in Keys :
           /\ apiKeys[k] = None /\ k # old
           /\ apiKeys' = [apiKeys EXCEPT ![old].revoked = TRUE,
                 ![k] = [service |-> call[h].service, org |-> call[h].org,
                         revoked |-> FALSE, rotatedFrom |-> old]]
           /\ Stored(h, k)
    BY <1>5, <2>1 DEF RotateTx
  <2>3. /\ apiKeys'[old] = [apiKeys[old] EXCEPT !.revoked = TRUE]
        /\ apiKeys'[k] = [service |-> call[h].service, org |-> call[h].org,
                          revoked |-> FALSE, rotatedFrom |-> old]
        /\ \A j \in Keys \ {old, k} : apiKeys'[j] = apiKeys[j]
    BY <1>0, <2>1, <2>2
  <2>4. apiKeys'[old] # None /\ apiKeys'[old].revoked
    BY <1>1, <1>3, <2>1, <2>3 DEF KeysGrow
  <2> QED
    BY <2>1, <2>2, <2>3, <2>4 DEF KeyRotated
<1> QED
    BY <1>2, <1>4, <1>5 DEF CreateAPIKey, RevokeKeyRow, RotateTx

\* A step leaves the key table alone or changes it in one of those ways.
LEMMA KeyTableStep ==
    ASSUME RegistryInv, [RegistryNext]_registryVars
    PROVE  \/ UNCHANGED apiKeys
           \/ \E h \in Handlers, k \in Keys :
                 /\ KeyCreated(h, k) \/ KeyRevoked(h, k) \/ KeyRotated(h, k)
                 /\ UNCHANGED <<services, audit>>
<1>1. ASSUME NEW h \in Handlers, Request(h)
      PROVE  UNCHANGED apiKeys
    BY <1>1, EnterCall DEF RegistryInv, RegistryTypeOK
<1> QED
    BY <1>1, KeyWrite
       DEF RegistryNext, RegistryStep, Statement, GetServiceByID, GetAPIKeyByID, InsertService,
           UpdateServiceRow, SoftDeleteService, WriteAudit, Abort, InvalidateKeyCache,
           registryVars

\* Keys stay with the organization of their service.
LEMMA TenancyStep ==
    ASSUME RegistryInv, [RegistryNext]_registryVars
    PROVE  KeyTenancy'
<1>1. /\ KeyTenancy /\ ServicesGrow /\ KeysGrow
      /\ \A h \in Handlers : CallKnows(call[h]) /\ CallService(call[h])
      /\ apiKeys \in [Keys -> KeyRow \cup {None}]
    BY RowsGrow DEF RegistryInv, CallsInv, RegistryTypeOK
<1>2. ASSUME NEW k \in Keys, apiKeys[k] # None
      PROVE  /\ services'[apiKeys'[k].service] # None
             /\ services'[apiKeys'[k].service].org = apiKeys'[k].org
  <2>1. apiKeys[k].service \in Services
    BY <1>1, <1>2 DEF KeyRow
  <2> QED
    BY <1>1, <1>2, <2>1 DEF KeyTenancy, ServicesGrow, KeysGrow
<1>3. ASSUME NEW k \in Keys, apiKeys[k] = None, apiKeys'[k] # None
      PROVE  /\ services'[apiKeys'[k].service] # None
             /\ services'[apiKeys'[k].service].org = apiKeys'[k].org
  <2>1. PICK h \in Handlers : /\ KeyCreated(h, k) \/ KeyRotated(h, k)
                              /\ UNCHANGED services
    BY <1>3, KeyTableStep DEF KeyCreated, KeyRotated, KeyRevoked
  <2>2. apiKeys'[k].service = call[h].service /\ apiKeys'[k].org = call[h].org
    BY <2>1 DEF KeyCreated, KeyRotated
  <2>3. /\ services[call[h].service] # None
        /\ services[call[h].service].org = call[h].org
    BY <1>1, <2>1 DEF KeyCreated, KeyRotated, CallService
  <2> QED
    BY <2>1, <2>2, <2>3
<1> QED
    BY <1>2, <1>3 DEF KeyTenancy

\* A second rotation of a key finds it revoked.
LEMMA SuccessorStep ==
    ASSUME RegistryInv, [RegistryNext]_registryVars
    PROVE  SingleSuccessor'
<1>1. /\ SingleSuccessor /\ KeysGrow
      /\ apiKeys \in [Keys -> KeyRow \cup {None}] /\ apiKeys' \in [Keys -> KeyRow \cup {None}]
    BY RowsGrow, RegistryTypeStep DEF RegistryInv, RegistryTypeOK
<1>2. CASE UNCHANGED apiKeys
    BY <1>1, <1>2 DEF SingleSuccessor
<1>3. ASSUME NEW h \in Handlers, NEW n \in Keys,
             KeyCreated(h, n) \/ KeyRevoked(h, n)
      PROVE  SingleSuccessor'
  <2>1. \A k \in Keys : (apiKeys'[k] # None /\ apiKeys'[k].rotatedFrom # None) =>
            apiKeys[k] # None /\ apiKeys[k].rotatedFrom = apiKeys'[k].rotatedFrom
    BY <1>1, <1>3 DEF KeyCreated, KeyRevoked, KeysGrow
  <2>2. \A k \in Keys : (apiKeys[k] # None /\ apiKeys[k].rotatedFrom # None) =>
            apiKeys[k].rotatedFrom \in Keys
    BY <1>1 DEF KeyRow
  <2> QED
    BY <1>1, <2>1, <2>2 DEF SingleSuccessor, KeysGrow
<1>4. ASSUME NEW h \in Handlers, NEW n \in Keys, KeyRotated(h, n)
      PROVE  SingleSuccessor'
  <2> DEFINE old == call[h].key
  <2>1. \A k \in Keys \ {n} : (apiKeys'[k] # None /\ apiKeys'[k].rotatedFrom # None) =>
            apiKeys[k] # None /\ apiKeys[k].rotatedFrom = apiKeys'[k].rotatedFrom
    BY <1>1, <1>4 DEF KeyRotated, KeysGrow
  <2>2. apiKeys'[n].rotatedFrom = old /\ old \in Keys /\ ~apiKeys[old].revoked
        /\ apiKeys'[old] # None /\ apiKeys'[old].revoked
    BY <1>4 DEF KeyRotated
  <2>3. \A k \in Keys : (apiKeys[k] # None /\ apiKeys[k].rotatedFrom # None) =>
            apiKeys[k].rotatedFrom \in Keys
    BY <1>1 DEF KeyRow
  <2>4. old # None
    BY <2>2, RegistryConstants
  <2>5. \A k \in Keys : apiKeys[k] # None => apiKeys[k].rotatedFrom # old
    BY <1>1, <2>2, <2>4 DEF SingleSuccessor
  <2> QED
    BY <1>1, <2>1, <2>2, <2>3, <2>4, <2>5 DEF SingleSuccessor, KeysGrow
<1> QED
    BY <1>2, <1>3, <1>4, KeyTableStep

\* What an event says of a row stays true: rows are never undone, and a
\* revoked key gets no successor.
LEMMA RowSaysStable ==
    ASSUME RegistryInv, [RegistryNext]_registryVars,
           NEW op \in KeyOps, NEW k \in Keys, RowSays(op, k)
    PROVE  RowSays(op, k)'
<1>1. KeysGrow /\ apiKeys[k] # None
    BY RowsGrow DEF RowSays
<1>2. CASE op # "revoke"
    BY <1>1, <1>2 DEF RowSays, KeysGrow
<1>3. CASE op = "revoke"
  <2>1. apiKeys[k].revoked /\ k # None
    BY <1>3, RegistryConstants DEF RowSays
  <2>2. ASSUME NEW j \in Keys, apiKeys[j] = None, apiKeys'[j] # None
        PROVE  apiKeys'[j].rotatedFrom # k
    <3>1. PICK h \in Handlers : KeyCreated(h, j) \/ KeyRotated(h, j)
      BY <2>2, KeyTableStep DEF KeyCreated, KeyRotated, KeyRevoked
    <3>2. \/ apiKeys'[j].rotatedFrom = None
          \/ /\ apiKeys'[j].rotatedFrom = call[h].key
             /\ ~apiKeys[call[h].key].revoked
      BY <3>1 DEF KeyCreated, KeyRotated
    <3> QED
      BY <2>1, <3>2
  <2> QED
    BY <1>1, <1>3, <2>1, <2>2 DEF RowSays, KeysGrow
<1> QED
    BY <1>2, <1>3

\* Events are owed by the handler that made the change, and written once.
LEMMA AuditStep ==
    ASSUME RegistryInv, [RegistryNext]_registryVars
    PROVE  AuditInv'
<1>0. /\ AuditInv /\ SingleSuccessor
      /\ call \in [Handlers -> Call]
      /\ audit \in [AuditAction -> [Resources -> Nat]]
      /\ \A h \in Handlers : CallKnows(call[h])
    BY DEF RegistryInv, RegistryTypeOK, CallsInv
<1>1. \A op \in KeyOps, k \in Keys : audit[EventOf(op)][k] \in Nat
    BY <1>0 DEF KeyOps, EventOf, AuditAction, Resources
<1>2. \A op \in KeyOps, k \in Keys : RowSays(op, k) => RowSays(op, k)'
    BY RowSaysStable
<1>3. ASSUME UNCHANGED audit,
             \A g \in Handlers, op \in KeyOps, k \in Keys :
                AboutToAudit(g, op, k)' => AboutToAudit(g, op, k)
      PROVE  AuditInv'
    BY <1>0, <1>2, <1>3 DEF AuditInv
<1>4. ASSUME NEW h \in Handlers, NEW n \in Keys, Stored(h, n), UNCHANGED audit,
             KeyCreated(h, n) \/ KeyRevoked(h, n) \/ KeyRotated(h, n)
      PROVE  AuditInv'
  <2>1. PICK w \in KeyOps : w = call[h].op /\ call[h].pc = "write"
    BY <1>4 DEF KeyCreated, KeyRevoked, KeyRotated, KeyOps
  <2>2. /\ call'[h].pc = "audit" /\ call'[h].op = w /\ call'[h].stored = n
        /\ \A g \in Handlers \ {h} : call'[g] = call[g]
    BY <1>0, <1>4, <2>1 DEF Stored, Call
  <2>3. ~RowSays(w, n)
    BY <1>4, <2>1 DEF KeyCreated, KeyRevoked, KeyRotated, RowSays
  <2>4. RowSays(w, n)'
    <3>1. CASE KeyCreated(h, n)
      <4>1. call[h].service \in Services /\ call[h].org \in Orgs
        BY <1>0, <2>1, <3>1 DEF CallKnows, KeyCreated
      <4>2. apiKeys'[n] \in KeyRow /\ apiKeys'[n].rotatedFrom = None
        BY <3>1, <4>1 DEF KeyCreated, KeyRow
      <4>3. apiKeys'[n] # None /\ w = "generate"
        BY <2>1, <3>1, <4>2, RegistryConstants DEF KeyCreated
      <4> QED
        BY <4>2, <4>3 DEF RowSays
    <3>2. CASE KeyRotated(h, n)
      <4>1. call[h].service \in Services /\ call[h].org \in Orgs
        BY <1>0, <2>1, <3>2 DEF CallKnows, KeyRotated
      <4>2. /\ apiKeys'[n] \in KeyRow /\ apiKeys'[n].rotatedFrom = call[h].key
            /\ call[h].key \in Keys
        BY <3>2, <4>1 DEF KeyRotated, KeyRow
      <4>3. apiKeys'[n] # None /\ call[h].key # None /\ w = "rotate"
        BY <2>1, <3>2, <4>2, RegistryConstants DEF KeyRotated
      <4> QED
        BY <4>2, <4>3 DEF RowSays
    <3>3. CASE KeyRevoked(h, n)
      <4>1. n # None
        BY RegistryConstants
      <4>2. \A j \in Keys : apiKeys[j] # None => apiKeys[j].rotatedFrom # n
        BY <1>0, <3>3, <4>1 DEF SingleSuccessor, KeyRevoked
      <4>3. KeysGrow
        BY RowsGrow
      <4> QED
        BY <2>1, <3>3, <4>2, <4>3 DEF KeyRevoked, RowSays, KeysGrow
    <3> QED
      BY <1>4, <3>1, <3>2, <3>3
  <2>5. /\ audit[EventOf(w)][n] = 0
        /\ \A g \in Handlers : ~AboutToAudit(g, w, n)
    <3>1. /\ audit[EventOf(w)][n] \in Nat /\ audit[EventOf(w)][n] <= 1
          /\ audit[EventOf(w)][n] # 1
      BY <1>0, <1>1, <2>3 DEF AuditInv
    <3>2. \A g \in Handlers : ~AboutToAudit(g, w, n)
      BY <1>0, <2>3 DEF AuditInv
    <3> QED
      BY <3>1, <3>2
  <2>6. \A g \in Handlers, op \in KeyOps, k \in Keys :
           AboutToAudit(g, op, k)' => \/ AboutToAudit(g, op, k)
                                      \/ g = h /\ op = w /\ k = n
    BY <2>2 DEF AboutToAudit
  <2> QED
    BY <1>0, <1>2, <1>4, <2>1, <2>4, <2>5, <2>6 DEF AuditInv
<1>5. ASSUME NEW h \in Handlers, WriteAudit(h)
      PROVE  AuditInv'
  <2> DEFINE w == call[h].op
             id == ResourceOf(call[h])
  <2>1. call'[h].pc # "audit" /\ \A g \in Handlers \ {h} : call'[g] = call[g]
    BY <1>0, <1>5 DEF WriteAudit, Goto, EndCall, NoCall, Call
  <2>2. \A g \in Handlers, op \in KeyOps, k \in Keys :
           AboutToAudit(g, op, k)' => AboutToAudit(g, op, k) /\ g # h
    BY <2>1 DEF AboutToAudit
  <2>3. CASE UNCHANGED audit
    BY <1>3, <2>2, <2>3
  <2>4. CASE audit' = [audit EXCEPT ![EventOf(w)][id] = @ + 1]
    <3>1. CASE w \in KeyOps
      <4>1. id = call[h].stored /\ id \in Keys /\ AboutToAudit(h, w, id)
        BY <1>0, <1>5, <3>1 DEF ResourceOf, KeyOps, WriteAudit, AboutToAudit, CallKnows
      <4>2. audit[EventOf(w)][id] = 0 /\ RowSays(w, id)
            /\ \A g \in Handlers : AboutToAudit(g, w, id) => g = h
        BY <1>0, <3>1, <4>1 DEF AuditInv
      <4>3. EventOf(w) \in AuditAction /\ id \in Resources
        BY <3>1, <4>1 DEF KeyOps, EventOf, AuditAction, Resources
      <4>4. audit'[EventOf(w)][id] = 1
        BY <1>0, <2>4, <4>2, <4>3
      <4>5. \A op \in KeyOps, k \in Keys :
               (op # w \/ k # id) => audit'[EventOf(op)][k] = audit[EventOf(op)][k]
        BY <1>0, <2>4, <3>1, <4>3 DEF KeyOps, EventOf
      <4> QED
        BY <1>0, <1>2, <2>2, <3>1, <4>1, <4>2, <4>4, <4>5 DEF AuditInv
    <3>2. CASE w \notin KeyOps
      <4>1. \A op \in KeyOps, k \in Keys : EventOf(op) # EventOf(w)
        BY <1>0, <1>5, <3>2 DEF WriteAudit, CallKnows, Call, Op, KeyOps, EventOf
      <4>2. \A op \in KeyOps, k \in Keys : audit'[EventOf(op)][k] = audit[EventOf(op)][k]
        BY <1>0, <2>4, <4>1 DEF KeyOps, EventOf, AuditAction
      <4> QED
        BY <1>0, <1>2, <2>2, <4>2 DEF AuditInv
    <3> QED
      BY <3>1, <3>2
  <2> QED
    BY <1>5, <2>3, <2>4 DEF WriteAudit
<1>6. ASSUME NEW h \in Handlers, EndCall(h), UNCHANGED audit
      PROVE  AuditInv'
  <2>1. \A g \in Handlers, op \in KeyOps, k \in Keys :
           AboutToAudit(g, op, k)' => AboutToAudit(g, op, k)
    BY <1>0, <1>6 DEF EndCall, NoCall, AboutToAudit
  <2> QED
    BY <1>3, <1>6, <2>1
<1>7. ASSUME NEW h \in Handlers, Request(h)
      PROVE  AuditInv'
  <2>1. \A g \in Handlers, op \in KeyOps, k \in Keys :
           AboutToAudit(g, op, k)' => AboutToAudit(g, op, k)
    BY <1>0, <1>7, EnterKnows DEF AboutToAudit
  <2> QED
    BY <1>0, <1>3, <1>7, <2>1, EnterCall
<1>8. ASSUME NEW h \in Handlers,
             \/ GetServiceByID(h) \/ GetAPIKeyByID(h) \/ InsertService(h)
             \/ UpdateServiceRow(h) \/ SoftDeleteService(h)
      PROVE  AuditInv'
  <2>1. CASE EndCall(h)
    BY <1>6, <1>8, <2>1
       DEF GetServiceByID, GetAPIKeyByID, InsertService, UpdateServiceRow, SoftDeleteService
  <2>2. CASE ~EndCall(h)
    <3>1. /\ \/ call'[h].pc # "audit"
             \/ call'[h].op \notin KeyOps
          /\ \A g \in Handlers \ {h} : call'[g] = call[g]
      BY <1>0, <1>8, <2>2
         DEF GetServiceByID, GetAPIKeyByID, InsertService, UpdateServiceRow,
             SoftDeleteService, Goto, Call, KeyOps
    <3>2. \A g \in Handlers, op \in KeyOps, k \in Keys :
             AboutToAudit(g, op, k)' => AboutToAudit(g, op, k)
      BY <3>1 DEF AboutToAudit
    <3> QED
      BY <1>3, <1>8, <3>2
         DEF GetServiceByID, GetAPIKeyByID, InsertService, UpdateServiceRow, SoftDeleteService
  <2> QED
    BY <2>1, <2>2
<1>9. ASSUME NEW h \in Handlers, CreateAPIKey(h) \/ RevokeKeyRow(h) \/ RotateTx(h)
      PROVE  AuditInv'
    BY <1>4, <1>6, <1>9, KeyWrite
<1>10. ASSUME NEW h \in Handlers, Abort(h) \/ InvalidateKeyCache(h)
       PROVE  AuditInv'
    BY <1>6, <1>10 DEF Abort, InvalidateKeyCache
<1>11. CASE UNCHANGED registryVars
    BY <1>3, <1>11 DEF registryVars, AboutToAudit
<1> QED
    BY <1>5, <1>7, <1>8, <1>9, <1>10, <1>11 DEF RegistryNext, RegistryStep, Statement

-----------------------------------------------------------------------------
\* The invariant is inductive.
LEMMA RegistryInvStep ==
    ASSUME RegistryInv, [RegistryNext]_registryVars
    PROVE  RegistryInv'
  BY RegistryTypeStep, CallsStep, TenancyStep, SuccessorStep, AuditStep DEF RegistryInv

\* The invariant holds in every reachable state.
LEMMA RegistryInvariance == RegistrySpec => []RegistryInv
  BY RegistryInvInit, RegistryInvStep, PTL DEF RegistrySpec

\* The tables and the calls always have their types.
THEOREM RegistryTypes == RegistrySpec => []RegistryTypeOK
<1>1. RegistryInv => RegistryTypeOK
    BY DEF RegistryInv
<1> QED
    BY <1>1, RegistryInvariance, PTL

\* No interleaving of handlers files a key under another organization than its
\* service's.
THEOREM Tenancy == RegistrySpec => []KeyTenancy
<1>1. RegistryInv => KeyTenancy
    BY DEF RegistryInv
<1> QED
    BY <1>1, RegistryInvariance, PTL

\* No interleaving of rotations and revocations gives a key two successors, or
\* leaves a key with a successor active.
THEOREM AtMostOneSuccessor == RegistrySpec => []SingleSuccessor
<1>1. RegistryInv => SingleSuccessor
    BY DEF RegistryInv
<1> QED
    BY <1>1, RegistryInvariance, PTL

\* The audit trail records each issue and retirement of a key at most once and
\* only if it took place.
THEOREM AuditIsTrue == RegistrySpec => []AuditMatchesRows
<1>1. ASSUME RegistryInv PROVE AuditMatchesRows
  <2>1. ASSUME NEW k \in Keys, NEW op \in KeyOps
        PROVE  /\ audit[EventOf(op)][k] <= 1
               /\ audit[EventOf(op)][k] = 1 => RowSays(op, k)
    BY <1>1 DEF RegistryInv, AuditInv
  <2>2. EventOf("generate") = "api_key.created" /\ EventOf("revoke") = "api_key.revoked"
        /\ EventOf("rotate") = "api_key.rotated"
    BY DEF EventOf
  <2> QED
    BY <2>1, <2>2 DEF AuditMatchesRows, RowSays, KeyOps
<1> QED
    BY <1>1, RegistryInvariance, PTL

\* A dead key stays dead: a step cannot make it authenticate again.
LEMMA DeadStep ==
    ASSUME RegistryInv, [RegistryNext]_registryVars, NEW k \in Keys,
           apiKeys[k] # None, ~KeyAlive(k)
    PROVE  ~KeyAlive(k)'
<1>1. ServicesGrow /\ KeysGrow /\ KeyTenancy /\ apiKeys[k] \in KeyRow
    BY RowsGrow DEF RegistryInv, RegistryTypeOK
<1> QED
    BY <1>1 DEF ServicesGrow, KeysGrow, KeyTenancy, KeyAlive, KeyRow

\* The database never revives a key.
THEOREM NoRevival == RegistrySpec => DeadStaysDead
<1>1. ASSUME RegistryInv, [RegistryNext]_registryVars
      PROVE  [\A k \in Keys : (apiKeys[k] # None /\ ~KeyAlive(k)) => ~KeyAlive(k)']_registryVars
    BY <1>1, DeadStep
<1> QED
    BY <1>1, RegistryInvariance, PTL DEF RegistrySpec, DeadStaysDead

\* A key row that changes is changed by a handler at its write statement, whose
\* caller has a developer role in the organization of the row.
LEMMA WithinOrgStep ==
    ASSUME RegistryInv, [RegistryNext]_registryVars, NEW k \in Keys, apiKeys'[k] # apiKeys[k]
    PROVE  \E h \in Handlers :
              /\ call[h].pc = "write" /\ call'[h] # call[h]
              /\ IsDeveloperRole(RoleOf[call[h].user][apiKeys'[k].org])
<1>0. KeysGrow /\ call \in [Handlers -> Call] /\ \A h \in Handlers : CallKnows(call[h])
    BY RowsGrow DEF RegistryInv, RegistryTypeOK, CallsInv
<1>1. PICK h \in Handlers : CreateAPIKey(h) \/ RevokeKeyRow(h) \/ RotateTx(h)
  <2>1. ASSUME NEW g \in Handlers, Request(g)
        PROVE  UNCHANGED apiKeys
    BY <2>1, EnterCall DEF RegistryInv, RegistryTypeOK
  <2> QED
    BY <2>1
       DEF RegistryNext, RegistryStep, Statement, GetServiceByID, GetAPIKeyByID, InsertService,
           UpdateServiceRow, SoftDeleteService, WriteAudit, Abort, InvalidateKeyCache,
           registryVars
<1>2. PICK n \in Keys : /\ KeyCreated(h, n) \/ KeyRevoked(h, n) \/ KeyRotated(h, n)
                        /\ Stored(h, n)
    BY <1>1, KeyWrite
<1>3. call[h].pc = "write" /\ call'[h].pc = "audit"
    BY <1>0, <1>2 DEF KeyCreated, KeyRevoked, KeyRotated, Stored, Call
<1>4. IsDeveloperRole(RoleOf[call[h].user][call[h].org])
    BY <1>0, <1>3 DEF CallKnows
<1>5. apiKeys'[k].org = call[h].org
    BY <1>0, <1>2 DEF KeyCreated, KeyRevoked, KeyRotated, KeysGrow
<1> QED
    BY <1>3, <1>4, <1>5

\* No handler writes a key row for a caller who is not a developer of the
\* organization that owns the row.
THEOREM WritesStayWithinOrg == RegistrySpec => ActsWithinOrg
<1>1. ASSUME RegistryInv, [RegistryNext]_registryVars
      PROVE  [\A k \in Keys : apiKeys'[k] # apiKeys[k] =>
                \E h \in Handlers :
                   /\ call[h].pc = "write" /\ call'[h] # call[h]
                   /\ IsDeveloperRole(RoleOf[call[h].user][apiKeys'[k].org])]_registryVars
    BY <1>1, WithinOrgStep
<1> QED
    BY <1>1, RegistryInvariance, PTL DEF RegistrySpec, ActsWithinOrg

=============================================================================
