-------------------------------- MODULE Orgs --------------------------------
(***************************************************************************)
(* Organisations, their members and the two ways to join one               *)
(* (internal/org): an email invite, whose token is stored in Postgres and  *)
(* in a Redis cache, and a shareable code.  JoinViaToken and JoinViaCode   *)
(* are sequences of calls to Redis and Postgres, without a transaction     *)
(* around them; any call may fail, one that took effect may report an      *)
(* error, and the process may die in between.                              *)
(***************************************************************************)
EXTENDS Naturals, FiniteSets

CONSTANTS
    Orgs, Users,
    Invites,     \* invite tokens (uuids; the table holds their hashes)
    Codes,       \* invite codes
    Handlers,    \* join requests served at the same time
    None

Roles == {"owner", "admin", "developer", "viewer"}
IsValidInviteRole(r) == r \in {"admin", "developer", "viewer"}
IsAdminRole(r) == r \in {"owner", "admin"}

VARIABLES
    creator,     \* creator[o]: created_by of o's row, None if there is no o
    role,        \* role[o][u]: u's row in org_members
    invite,      \* invite[i]: i's row in org_invites
    cached,      \* cached[i]: the payload Redis has for i
    code,        \* code[k]: k's row in org_invite_codes
    via,         \* history: via[o][u]: what let u into o
    job          \* job[h]: the join request h is serving

tables == <<creator, role, invite, code>>
vars == <<tables, cached, via, job>>

Payloads == [org : Orgs, role : Roles]
InviteRows == [org : Orgs, role : Roles, by : Users, accepted : BOOLEAN, expired : BOOLEAN]
CodeRows == [org : Orgs, by : Users]

\* What has let somebody into an organisation.
Founding == [how |-> "create"]
ByToken(i) == [how |-> "token", invite |-> i]
ByCode(k) == [how |-> "code", code |-> k]
Credentials == {ByToken(i) : i \in Invites} \cup {ByCode(k) : k \in Codes}

ASSUME OrgConstants ==
    /\ None \notin Orgs \cup Users \cup Invites \cup Codes \cup Roles
    /\ None \notin Payloads \cup InviteRows \cup CodeRows \cup {Founding} \cup Credentials

Idle == [pc |-> "idle"]

\* A join request: its credential, the organisation and role it has found out,
\* and whether the invite was used up or expired when the request came in.
Calls ==
    [pc : {"cache", "invite", "code", "member", "add", "mark", "uncache"}, user : Users,
     cred : Credentials, org : Orgs \cup {None}, role : Roles \cup {None}, late : BOOLEAN]
Jobs == {Idle} \cup Calls

Init ==
    /\ creator = [o \in Orgs |-> None]
    /\ role = [o \in Orgs |-> [u \in Users |-> None]]
    /\ invite = [i \in Invites |-> None]
    /\ cached = [i \in Invites |-> None]
    /\ code = [k \in Codes |-> None]
    /\ via = [o \in Orgs |-> [u \in Users |-> None]]
    /\ job = [h \in Handlers |-> Idle]

-----------------------------------------------------------------------------
(* Organisations and invitations.                                          *)

\* One transaction: the organisation and its owner's membership.
CreateOrganization(u, o) ==
    /\ creator[o] = None
    /\ creator' = [creator EXCEPT ![o] = u]
    /\ role' = [role EXCEPT ![o][u] = "owner"]
    /\ via' = [via EXCEPT ![o][u] = Founding]
    /\ UNCHANGED <<invite, code, cached, job>>

\* The middleware and the service both read the inviter's role, which no code
\* ever takes away.
RequireOrgAdmin(u, o) == IsAdminRole(role[o][u])

\* Mutant: the cached payload is built without its Role field.
StoreInviteRoleless(u, o, r, i) ==
    /\ invite[i] = None
    /\ invite' = [invite EXCEPT ![i] = [org |-> o, role |-> r, by |-> u,
                                        accepted |-> FALSE, expired |-> FALSE]]
    /\ \/ cached' = [cached EXCEPT ![i] = [org |-> o, role |-> None]]
       \/ UNCHANGED cached
    /\ UNCHANGED <<creator, role, code, via, job>>

\* The row, then the payload in Redis, whose error is ignored.
StoreInvite(u, o, r, i) ==
    /\ invite[i] = None
    /\ invite' = [invite EXCEPT ![i] = [org |-> o, role |-> r, by |-> u,
                                        accepted |-> FALSE, expired |-> FALSE]]
    /\ \/ cached' = [cached EXCEPT ![i] = [org |-> o, role |-> r]]
       \/ UNCHANGED cached
    /\ UNCHANGED <<creator, role, code, via, job>>

\* Mutant: the inviter's role is not looked at.
SendEmailInviteAnyone(u, o, r, i) ==
    /\ IsValidInviteRole(r)
    /\ role[o][u] # None
    /\ StoreInvite(u, o, r, i)

\* Mutant: any role may be given.
SendEmailInviteAnyRole(u, o, r, i) ==
    /\ RequireOrgAdmin(u, o)
    /\ StoreInvite(u, o, r, i)

\* The cache may not learn of the invite.
SendEmailInvite(u, o, r, i) ==
    /\ IsValidInviteRole(r)
    /\ RequireOrgAdmin(u, o)
    /\ StoreInvite(u, o, r, i)

\* A code is for the developer role and is never deactivated.
GenerateInviteCode(u, o, k) ==
    /\ RequireOrgAdmin(u, o)
    /\ code[k] = None
    /\ code' = [code EXCEPT ![k] = [org |-> o, by |-> u]]
    /\ UNCHANGED <<creator, role, invite, cached, via, job>>

-----------------------------------------------------------------------------
(* Joining.                                                                *)

Goto(h, pc) == job' = [job EXCEPT ![h].pc = pc]
Answer(h) == job' = [job EXCEPT ![h] = Idle]
Join(u, pc, cred, late) == [pc |-> pc, user |-> u, cred |-> cred, org |-> None, role |-> None,
                            late |-> late]

JoinViaToken(h, u, i) ==
    /\ job[h] = Idle /\ invite[i] # None
    /\ job' = [job EXCEPT ![h] =
                  Join(u, "cache", ByToken(i), invite[i].accepted \/ invite[i].expired)]
    /\ UNCHANGED <<tables, cached, via>>

\* Mutant: a cached payload is believed without a look at the table.
LookupInviteTokenTrusting(h) ==
    /\ job[h].pc = "cache"
    /\ LET i == job[h].cred.invite IN
       \/ /\ cached[i] # None
          /\ job' = [job EXCEPT ![h].org = cached[i].org, ![h].role = cached[i].role,
                                ![h].pc = "member"]
       \/ Goto(h, "invite")
    /\ UNCHANGED <<tables, cached, via>>

\* lookupInviteTokenInCache: a payload gives the organisation and the role.
LookupInviteToken(h) ==
    /\ job[h].pc = "cache"
    /\ LET i == job[h].cred.invite IN
       \/ /\ cached[i] # None
          /\ job' = [job EXCEPT ![h].org = cached[i].org, ![h].role = cached[i].role,
                                ![h].pc = "invite"]
       \/ Goto(h, "invite")
    /\ UNCHANGED <<tables, cached, via>>

\* GetInviteByToken, always; an accepted or expired invite is refused.
GetInviteByToken(h) ==
    /\ job[h].pc = "invite"
    /\ LET row == invite[job[h].cred.invite] IN
       IF row.accepted \/ row.expired THEN Answer(h)
       ELSE job' = [job EXCEPT ![h].org = IF @ = None THEN row.org ELSE @,
                               ![h].role = IF @ = None THEN row.role ELSE @,
                               ![h].pc = "member"]
    /\ UNCHANGED <<tables, cached, via>>

JoinViaCode(h, u, k) ==
    /\ job[h] = Idle /\ code[k] # None
    /\ job' = [job EXCEPT ![h] = Join(u, "code", ByCode(k), FALSE)]
    /\ UNCHANGED <<tables, cached, via>>

GetInviteCodeByCode(h) ==
    /\ job[h].pc = "code"
    /\ job' = [job EXCEPT ![h].org = code[job[h].cred.code].org, ![h].role = "developer",
                          ![h].pc = "member"]
    /\ UNCHANGED <<tables, cached, via>>

\* Mutant: the invite is marked before the member is added.
CheckMembershipMarking(h) ==
    /\ job[h].pc = "member"
    /\ \/ role[job[h].org][job[h].user] # None /\ Answer(h) /\ UNCHANGED invite
       \/ /\ role[job[h].org][job[h].user] = None /\ Goto(h, "add")
          /\ invite' = IF job[h].cred.how = "token"
                       THEN [invite EXCEPT ![job[h].cred.invite].accepted = TRUE] ELSE invite
    /\ UNCHANGED <<creator, role, code, cached, via>>

\* GetOrgMemberRole: a member cannot join again.
CheckMembership(h) ==
    /\ job[h].pc = "member"
    /\ IF role[job[h].org][job[h].user] # None THEN Answer(h) ELSE Goto(h, "add")
    /\ UNCHANGED <<tables, cached, via>>

Admit(j) == /\ role' = [role EXCEPT ![j.org][j.user] = j.role]
            /\ via' = [via EXCEPT ![j.org][j.user] = j.cred]

\* A token has to be marked next; with a code that is all.
AfterAdmission(h) == IF job[h].cred.how = "token" THEN Goto(h, "mark") ELSE Answer(h)

\* Mutant: ON CONFLICT DO UPDATE SET role.
AddOrgMemberUpserting(h) ==
    /\ job[h].pc = "add"
    /\ Admit(job[h])
    /\ AfterAdmission(h)
    /\ UNCHANGED <<creator, invite, code, cached>>

\* AddOrgMember.  The primary key turns a second membership into a refusal.
\* The answer to an insert that took place may be lost.
AddOrgMember(h) ==
    /\ job[h].pc = "add"
    /\ \/ /\ role[job[h].org][job[h].user] = None
          /\ Admit(job[h])
          /\ AfterAdmission(h) \/ Answer(h)
       \/ role[job[h].org][job[h].user] # None /\ Answer(h) /\ UNCHANGED <<role, via>>
    /\ UNCHANGED <<creator, invite, code, cached>>

\* MarkInviteAccepted.  That somebody else has marked it is no error.
MarkInviteAccepted(h) ==
    /\ job[h].pc = "mark"
    /\ invite' = [invite EXCEPT ![job[h].cred.invite].accepted = TRUE]
    /\ Goto(h, "uncache") \/ Answer(h)
    /\ UNCHANGED <<creator, role, code, cached, via>>

\* deleteInviteTokenFromCache, whose error is ignored, and the answer.
UncacheInvite(h) ==
    /\ job[h].pc = "uncache"
    /\ \/ cached' = [cached EXCEPT ![job[h].cred.invite] = None]
       \/ UNCHANGED cached
    /\ Answer(h)
    /\ UNCHANGED <<tables, via>>

-----------------------------------------------------------------------------
(* Failures and time.                                                      *)

\* A call fails with nothing done, the client goes away, or the process dies.
Abort(h) == job[h] # Idle /\ Answer(h) /\ UNCHANGED <<tables, cached, via>>

Expire(i) ==
    /\ invite[i] # None /\ ~invite[i].expired
    /\ invite' = [invite EXCEPT ![i].expired = TRUE]
    /\ UNCHANGED <<creator, role, code, cached, via, job>>

\* Redis drops an entry: its TTL, a restart or an eviction.
Evict(i) ==
    /\ cached[i] # None
    /\ cached' = [cached EXCEPT ![i] = None]
    /\ UNCHANGED <<tables, via, job>>

-----------------------------------------------------------------------------
HandlerStep(h) ==
    \/ LookupInviteToken(h) \/ GetInviteByToken(h) \/ GetInviteCodeByCode(h)
    \/ CheckMembership(h) \/ AddOrgMember(h) \/ MarkInviteAccepted(h) \/ UncacheInvite(h)

Next ==
    \/ \E u \in Users, o \in Orgs :
          \/ CreateOrganization(u, o)
          \/ \E i \in Invites, r \in Roles : SendEmailInvite(u, o, r, i)
          \/ \E k \in Codes : GenerateInviteCode(u, o, k)
    \/ \E h \in Handlers :
          \/ HandlerStep(h) \/ Abort(h)
          \/ \E u \in Users : \/ \E i \in Invites : JoinViaToken(h, u, i)
                              \/ \E k \in Codes : JoinViaCode(h, u, k)
    \/ \E i \in Invites : Expire(i) \/ Evict(i)

Spec == Init /\ [][Next]_vars

-----------------------------------------------------------------------------
(* Properties.                                                             *)

TypeOK ==
    /\ creator \in [Orgs -> Users \cup {None}]
    /\ role \in [Orgs -> [Users -> Roles \cup {None}]]
    /\ invite \in [Invites -> InviteRows \cup {None}]
    /\ cached \in [Invites -> Payloads \cup {None}]
    /\ code \in [Codes -> CodeRows \cup {None}]
    /\ via \in [Orgs -> [Users -> {None, Founding} \cup Credentials]]
    /\ job \in [Handlers -> Jobs]

\* Whatever is invited, joined and retried, an organisation has one owner, the
\* user who created it.
OwnerIsCreator ==
    \A o \in Orgs, u \in Users : role[o][u] = "owner" <=> creator[o] = u

\* Every member was let in by an admin of that very organisation, with the role
\* that admin chose, although JoinViaToken may take both from the cache.
GrantedByAdmin ==
    \A o \in Orgs, u \in Users :
        /\ via[o][u] = None <=> role[o][u] = None
        /\ \A i \in Invites : via[o][u] = ByToken(i) =>
              /\ invite[i].org = o /\ invite[i].role = role[o][u]
              /\ IsAdminRole(role[o][invite[i].by])
        /\ \A k \in Codes : via[o][u] = ByCode(k) =>
              /\ code[k].org = o /\ role[o][u] = "developer"
              /\ IsAdminRole(role[o][code[k].by])

\* An invite that was used up or had expired when the request came in admits
\* nobody, however stale the cache is.
UsedUpIsRefused ==
    \A h \in Handlers : (job[h] # Idle /\ job[h].late) => job[h].pc \in {"cache", "invite"}

\* An invite is marked accepted only if somebody did get in with it.
AcceptedAdmitted ==
    \A i \in Invites : (invite[i] # None /\ invite[i].accepted) =>
        \E o \in Orgs, u \in Users : via[o][u] = ByToken(i)

\* Nobody's role changes, not even when two invitations to the same
\* organisation are redeemed at once.
RolesAreStable ==
    [][\A o \in Orgs, u \in Users : role[o][u] # None => role'[o][u] = role[o][u]]_vars

\* docs/organisation.md: "Send email invite, returns one-time token".
OneTimeToken ==
    \A i \in Invites :
        Cardinality({m \in Orgs \X Users : via[m[1]][m[2]] = ByToken(i)}) <= 1

=============================================================================
