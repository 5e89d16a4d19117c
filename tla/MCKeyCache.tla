----------------------------- MODULE MCKeyCache -----------------------------
(* One organization and one developer.  Every key has its genuine token and *)
(* one forged token carries the prefix of one of them.                     *)
EXTENDS KeyCache, TLC

CONSTANTS k1, k2, raw1, raw2, forged1

MCRoleOf == [u \in Users |-> [o \in Orgs |-> "developer"]]
MCPrefixOf == [raw \in RawKeys |-> IF raw = raw2 THEN k2 ELSE k1]
MCSecretOf == [k \in Keys |-> IF k = k2 THEN raw2 ELSE raw1]

\* What the invariants of keycache_races can tell apart.  No action reads told,
\* afterTold or a finished request; RevokedImmediately alone reads the first two.
\* MarkedIsRefused asks for afterMark and blind together, and of a refused
\* request only erred is ever asked.
Seen(q) ==
    IF q.pc \in {"revoked", "invalid"}
    THEN [NoReq EXCEPT !.pc = q.pc, !.raw = q.raw, !.erred = q.erred]
    ELSE [q EXCEPT !.age = IF q.pc \in Pending THEN @ ELSE 0,
                   !.afterMark = @ /\ ~q.blind, !.blind = FALSE,
                   !.afterTold = FALSE]

View == <<registryVars, cacheVars, redisUp, deadFor, marked,
          [r \in Requests |-> Seen(req[r])]>>
=============================================================================
