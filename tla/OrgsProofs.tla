------------------------------ MODULE OrgsProofs ------------------------------
(***************************************************************************)
(* Proofs about organisations, invitations and joining, for any number of  *)
(* organisations, users, invites, codes and requests.                      *)
(***************************************************************************)
EXTENDS Orgs, TLAPS

\* Members exist in organisations that exist, and are let in by something.
MembersInv ==
    /\ OwnerIsCreator
    /\ \A o \in Orgs, u \in Users : role[o][u] # None => creator[o] # None
    /\ \A o \in Orgs, u \in Users : via[o][u] = None <=> role[o][u] = None

\* Invites and codes were made by admins of the organisation they are for, and
\* the cache has what Postgres has.
OffersInv ==
    /\ \A i \in Invites : invite[i] # None =>
          /\ IsValidInviteRole(invite[i].role)
          /\ IsAdminRole(role[invite[i].org][invite[i].by])
    /\ \A k \in Codes : code[k] # None => IsAdminRole(role[code[k].org][code[k].by])
    /\ \A i \in Invites : cached[i] # None =>
          /\ invite[i] # None
          /\ cached[i].org = invite[i].org /\ cached[i].role = invite[i].role

\* Credential c offers role r in organisation o.
Offers(c, o, r) ==
    \/ \E i \in Invites : /\ c = ByToken(i) /\ invite[i] # None
                          /\ invite[i].org = o /\ invite[i].role = r
    \/ \E k \in Codes : /\ c = ByCode(k) /\ code[k] # None
                        /\ code[k].org = o /\ r = "developer"

\* Who has joined got what the credential offered.
JoinedInv ==
    \A o \in Orgs, u \in Users : via[o][u] \in Credentials => Offers(via[o][u], o, role[o][u])

\* A request whose credential is an invite, or a code.
TokenOK(j) ==
    \A i \in Invites : j.cred = ByToken(i) =>
        /\ j.pc # "code" /\ invite[i] # None
        /\ j.org \in {None, invite[i].org} /\ j.role \in {None, invite[i].role}
        /\ j.late => invite[i].accepted \/ invite[i].expired

CodeOK(j) ==
    \A k \in Codes : j.cred = ByCode(k) => j.pc \in {"code", "member", "add"} /\ code[k] # None

\* What a request has found out on its way.
CallOK(j) ==
    /\ TokenOK(j) /\ CodeOK(j)
    /\ j.late => j.pc \in {"cache", "invite"}
    /\ j.pc \in {"member", "add", "mark", "uncache"} => Offers(j.cred, j.org, j.role)
    /\ j.pc \in {"mark", "uncache"} => via[j.org][j.user] = j.cred

CallsInv == \A h \in Handlers : job[h] # Idle => CallOK(job[h])

OrgsInv == TypeOK /\ MembersInv /\ OffersInv /\ JoinedInv /\ CallsInv /\ AcceptedAdmitted

-----------------------------------------------------------------------------
(* Requests and their credentials.                                         *)

LEMMA CredentialsDiffer ==
    /\ Founding \notin Credentials
    /\ \A i \in Invites : ByToken(i).how = "token" /\ ByToken(i).invite = i
    /\ \A k \in Codes : ByCode(k).how = "code" /\ ByCode(k).code = k
    /\ \A i, j \in Invites : ByToken(i) = ByToken(j) => i = j
    /\ \A k, l \in Codes : ByCode(k) = ByCode(l) => k = l
    /\ \A i \in Invites, k \in Codes : ByToken(i) # ByCode(k)
BY DEF Founding, Credentials, ByToken, ByCode

LEMMA OrgsInvInit == Init => OrgsInv
<1> SUFFICES ASSUME Init PROVE OrgsInv
    OBVIOUS
<1>1. TypeOK
    BY DEF Init, TypeOK, Jobs
<1>2. MembersInv
    BY OrgConstants DEF Init, MembersInv, OwnerIsCreator, Roles
<1>3. OffersInv /\ CallsInv /\ AcceptedAdmitted
    BY DEF Init, OffersInv, CallsInv, AcceptedAdmitted
<1>4. JoinedInv
    BY OrgConstants DEF Init, JoinedInv
<1> QED
    BY <1>1, <1>2, <1>3, <1>4 DEF OrgsInv

\* A handler that is not idle is serving a join request.
LEMMA Serving ==
    ASSUME TypeOK, NEW h \in Handlers, job[h].pc # "idle" \/ job[h] # Idle
    PROVE  job[h] \in Calls /\ job[h] # Idle
BY DEF TypeOK, Jobs, Idle

\* Answering, and going on to another statement.
LEMMA Going ==
    ASSUME TypeOK, NEW h \in Handlers, job[h] \in Calls
    PROVE  /\ Answer(h) => job' \in [Handlers -> Jobs] /\ job'[h] = Idle
           /\ \A pc \in {"invite", "member", "add", "mark", "uncache"} :
                 Goto(h, pc) => /\ job' \in [Handlers -> Jobs]
                                /\ job'[h] = [job[h] EXCEPT !.pc = pc] /\ job'[h] \in Calls
<1>1. \A pc \in {"invite", "member", "add", "mark", "uncache"} : [job[h] EXCEPT !.pc = pc] \in Calls
    BY DEF Calls
<1> QED
    BY <1>1 DEF TypeOK, Answer, Goto, Jobs

\* The statements about an invite are reached with an invite that exists.
LEMMA WithToken ==
    ASSUME OrgsInv, NEW h \in Handlers, job[h].pc \in {"cache", "invite", "mark", "uncache"}
    PROVE  \E i \in Invites : /\ job[h].cred = ByToken(i) /\ job[h].cred.invite = i
                              /\ invite[i] \in InviteRows
<1>1. job[h] \in Calls /\ CallOK(job[h])
    BY Serving DEF OrgsInv, CallsInv
<1>2. \A k \in Codes : job[h].cred # ByCode(k)
    BY <1>1 DEF CallOK, CodeOK
<1>3. PICK i \in Invites : job[h].cred = ByToken(i)
    BY <1>1, <1>2 DEF Calls, Credentials
<1>4. invite[i] # None
    BY <1>1, <1>3 DEF CallOK, TokenOK
<1> QED
    BY <1>3, <1>4, CredentialsDiffer DEF OrgsInv, TypeOK

LEMMA WithCode ==
    ASSUME OrgsInv, NEW h \in Handlers, job[h].pc = "code"
    PROVE  \E k \in Codes : /\ job[h].cred = ByCode(k) /\ job[h].cred.code = k
                            /\ code[k] \in CodeRows
<1>1. job[h] \in Calls /\ CallOK(job[h])
    BY Serving DEF OrgsInv, CallsInv
<1>2. \A i \in Invites : job[h].cred # ByToken(i)
    BY <1>1 DEF CallOK, TokenOK
<1>3. PICK k \in Codes : job[h].cred = ByCode(k)
    BY <1>1, <1>2 DEF Calls, Credentials
<1>4. code[k] # None
    BY <1>1, <1>3 DEF CallOK, CodeOK
<1> QED
    BY <1>3, <1>4, CredentialsDiffer DEF OrgsInv, TypeOK

\* Past its lookups a request knows an organisation and a role that exist.
LEMMA WithOffer ==
    ASSUME OrgsInv, NEW h \in Handlers, job[h].pc \in {"member", "add", "mark", "uncache"}
    PROVE  /\ job[h] \in Calls /\ job[h].org \in Orgs /\ job[h].user \in Users
           /\ IsValidInviteRole(job[h].role) /\ job[h].role \in Roles
           /\ Offers(job[h].cred, job[h].org, job[h].role)
           /\ creator[job[h].org] # None
<1>1. job[h] \in Calls /\ CallOK(job[h])
    BY Serving DEF OrgsInv, CallsInv
<1>2. Offers(job[h].cred, job[h].org, job[h].role)
    BY <1>1 DEF CallOK
<1>3. CASE \E i \in Invites : /\ invite[i] # None
                              /\ invite[i].org = job[h].org /\ invite[i].role = job[h].role
  <2>1. PICK i \in Invites : /\ invite[i] # None
                             /\ invite[i].org = job[h].org /\ invite[i].role = job[h].role
    BY <1>3
  <2>2. invite[i] \in InviteRows /\ IsValidInviteRole(invite[i].role)
        /\ IsAdminRole(role[invite[i].org][invite[i].by])
    BY <2>1 DEF OrgsInv, TypeOK, OffersInv
  <2>3. role[invite[i].org][invite[i].by] # None
    BY <2>2, OrgConstants DEF IsAdminRole, Roles
  <2> QED
    BY <1>1, <1>2, <2>1, <2>2, <2>3 DEF InviteRows, Calls, OrgsInv, MembersInv
<1>4. CASE \E k \in Codes : code[k] # None /\ code[k].org = job[h].org /\ job[h].role = "developer"
  <2>1. PICK k \in Codes : code[k] # None /\ code[k].org = job[h].org /\ job[h].role = "developer"
    BY <1>4
  <2>2. code[k] \in CodeRows /\ IsAdminRole(role[code[k].org][code[k].by])
    BY <2>1 DEF OrgsInv, TypeOK, OffersInv
  <2>3. role[code[k].org][code[k].by] # None
    BY <2>2, OrgConstants DEF IsAdminRole, Roles
  <2> QED
    BY <1>1, <1>2, <2>1, <2>2, <2>3 DEF CodeRows, Calls, OrgsInv, MembersInv, IsValidInviteRole, Roles
<1> QED
    BY <1>2, <1>3, <1>4 DEF Offers

LEMMA TypeStep ==
    ASSUME OrgsInv, [Next]_vars
    PROVE  TypeOK'
<1>0. TypeOK
    BY DEF OrgsInv
<1>1. CASE UNCHANGED vars
    BY <1>0, <1>1 DEF TypeOK, vars, tables
<1>2. ASSUME NEW u \in Users, NEW o \in Orgs, CreateOrganization(u, o)
      PROVE  TypeOK'
    BY <1>0, <1>2 DEF TypeOK, CreateOrganization, Roles
<1>3. ASSUME NEW u \in Users, NEW o \in Orgs, NEW i \in Invites, NEW r \in Roles,
             SendEmailInvite(u, o, r, i)
      PROVE  TypeOK'
    BY <1>0, <1>3 DEF TypeOK, SendEmailInvite, StoreInvite, InviteRows, Payloads
<1>4. ASSUME NEW u \in Users, NEW o \in Orgs, NEW k \in Codes, GenerateInviteCode(u, o, k)
      PROVE  TypeOK'
    BY <1>0, <1>4 DEF TypeOK, GenerateInviteCode, CodeRows
<1>5. ASSUME NEW h \in Handlers, NEW u \in Users, NEW i \in Invites, JoinViaToken(h, u, i)
      PROVE  TypeOK'
  <2>1. PICK late \in BOOLEAN : late = (invite[i].accepted \/ invite[i].expired)
    OBVIOUS
  <2>2. Join(u, "cache", ByToken(i), late) \in Jobs
    BY DEF Join, Jobs, Calls, Credentials
  <2> QED
    BY <1>0, <1>5, <2>1, <2>2 DEF TypeOK, JoinViaToken, tables
<1>6. ASSUME NEW h \in Handlers, NEW u \in Users, NEW k \in Codes, JoinViaCode(h, u, k)
      PROVE  TypeOK'
  <2>1. Join(u, "code", ByCode(k), FALSE) \in Jobs
    BY DEF Join, Jobs, Calls, Credentials
  <2> QED
    BY <1>0, <1>6, <2>1 DEF TypeOK, JoinViaCode, tables
<1>7. ASSUME NEW h \in Handlers, LookupInviteToken(h) \/ GetInviteByToken(h)
      PROVE  TypeOK'
  <2>1. PICK i \in Invites : job[h].cred.invite = i /\ invite[i] \in InviteRows
    BY <1>7, WithToken DEF LookupInviteToken, GetInviteByToken
  <2>2. job[h] \in Calls /\ job[h] # Idle
    BY <1>0, <1>7, Serving DEF LookupInviteToken, GetInviteByToken
  <2>3. cached[i] # None => cached[i] \in Payloads
    BY <1>0 DEF TypeOK
  <2>4. ASSUME NEW o \in Orgs \cup {None}, NEW r \in Roles \cup {None}, NEW pc \in {"invite", "member"},
               job' = [job EXCEPT ![h] = [job[h] EXCEPT !.org = o, !.role = r, !.pc = pc]]
        PROVE  job' \in [Handlers -> Jobs]
    BY <1>0, <2>2, <2>4 DEF TypeOK, Jobs, Calls
  <2>5. CASE LookupInviteToken(h)
    <3>1. ASSUME Goto(h, "invite") PROVE job' \in [Handlers -> Jobs]
      BY <1>0, <2>2, <3>1, Going
    <3>2. ASSUME cached[i] # None,
                 job' = [job EXCEPT ![h].org = cached[i].org, ![h].role = cached[i].role,
                                    ![h].pc = "invite"]
          PROVE  job' \in [Handlers -> Jobs]
      <4>1. job' = [job EXCEPT ![h] = [job[h] EXCEPT !.org = cached[i].org, !.role = cached[i].role,
                                                     !.pc = "invite"]]
        BY <1>0, <2>2, <3>2 DEF TypeOK
      <4> QED
        BY <2>3, <2>4, <3>2, <4>1 DEF Payloads
    <3>3. job' \in [Handlers -> Jobs]
      BY <2>1, <2>5, <3>1, <3>2 DEF LookupInviteToken
    <3> QED
      BY <1>0, <2>5, <3>3 DEF TypeOK, LookupInviteToken, tables
  <2>6. CASE GetInviteByToken(h)
    <3>1. ASSUME Answer(h) PROVE job' \in [Handlers -> Jobs]
      BY <1>0, <2>2, <3>1, Going
    <3>2. ASSUME ~Answer(h) PROVE job' \in [Handlers -> Jobs]
      <4> DEFINE o == IF job[h].org = None THEN invite[i].org ELSE job[h].org
                 r == IF job[h].role = None THEN invite[i].role ELSE job[h].role
      <4>1. o \in Orgs \cup {None} /\ r \in Roles \cup {None}
        BY <2>1, <2>2 DEF Calls, InviteRows
      <4>2. job' = [job EXCEPT ![h].org = IF @ = None THEN invite[i].org ELSE @,
                               ![h].role = IF @ = None THEN invite[i].role ELSE @,
                               ![h].pc = "member"]
        BY <2>1, <2>6, <3>2 DEF GetInviteByToken
      <4>3. job' = [job EXCEPT ![h] = [job[h] EXCEPT !.org = o, !.role = r, !.pc = "member"]]
        BY <1>0, <2>2, <4>2 DEF TypeOK, Calls
      <4> QED
        BY <2>4, <4>1, <4>3
    <3>3. job' \in [Handlers -> Jobs]
      BY <3>1, <3>2
    <3> QED
      BY <1>0, <2>6, <3>3 DEF TypeOK, GetInviteByToken, tables
  <2> QED
    BY <1>7, <2>5, <2>6
<1>8. ASSUME NEW h \in Handlers, GetInviteCodeByCode(h)
      PROVE  TypeOK'
  <2>1. PICK k \in Codes : job[h].cred.code = k /\ code[k] \in CodeRows
    BY <1>8, WithCode DEF GetInviteCodeByCode
  <2>2. job[h] \in Calls /\ job[h] # Idle
    BY <1>0, <1>8, Serving DEF GetInviteCodeByCode
  <2> QED
    BY <1>0, <1>8, <2>1, <2>2 DEF TypeOK, GetInviteCodeByCode, Jobs, Calls, CodeRows, Roles, tables
<1>9. ASSUME NEW h \in Handlers, CheckMembership(h)
      PROVE  TypeOK'
  <2>1. job[h] \in Calls /\ job[h] # Idle
    BY <1>0, <1>9, Serving DEF CheckMembership
  <2> QED
    BY <1>0, <1>9, <2>1, Going DEF TypeOK, CheckMembership, tables
<1>10. ASSUME NEW h \in Handlers, AddOrgMember(h)
      PROVE  TypeOK'
  <2>1. /\ job[h] \in Calls /\ job[h] # Idle /\ job[h].org \in Orgs /\ job[h].user \in Users
        /\ job[h].role \in Roles /\ job[h].cred \in Credentials
    BY <1>0, <1>10, WithOffer, Serving DEF AddOrgMember, Calls
  <2>2. job' \in [Handlers -> Jobs]
    BY <1>0, <1>10, <2>1, Going DEF AddOrgMember, AfterAdmission
  <2>3. /\ role \in [Orgs -> [Users -> Roles \cup {None}]]
        /\ via \in [Orgs -> [Users -> {None, Founding} \cup Credentials]]
    BY <1>0 DEF TypeOK
  <2>4. \/ UNCHANGED <<role, via>>
        \/ /\ role' = [role EXCEPT ![job[h].org][job[h].user] = job[h].role]
           /\ via' = [via EXCEPT ![job[h].org][job[h].user] = job[h].cred]
    BY <1>10 DEF AddOrgMember, Admit
  <2>5. ASSUME NEW o \in Orgs, NEW u \in Users, NEW r \in Roles, NEW c \in Credentials,
               role' = [role EXCEPT ![o][u] = r], via' = [via EXCEPT ![o][u] = c]
        PROVE  /\ role' \in [Orgs -> [Users -> Roles \cup {None}]]
               /\ via' \in [Orgs -> [Users -> {None, Founding} \cup Credentials]]
    BY <2>3, <2>5
  <2>6. /\ role' \in [Orgs -> [Users -> Roles \cup {None}]]
        /\ via' \in [Orgs -> [Users -> {None, Founding} \cup Credentials]]
    <3>1. ASSUME UNCHANGED <<role, via>>
          PROVE  /\ role' \in [Orgs -> [Users -> Roles \cup {None}]]
                 /\ via' \in [Orgs -> [Users -> {None, Founding} \cup Credentials]]
      BY <2>3, <3>1
    <3>2. PICK o \in Orgs, u \in Users, r \in Roles, c \in Credentials :
             o = job[h].org /\ u = job[h].user /\ r = job[h].role /\ c = job[h].cred
      BY <2>1
    <3>3. ASSUME role' = [role EXCEPT ![o][u] = r], via' = [via EXCEPT ![o][u] = c]
          PROVE  /\ role' \in [Orgs -> [Users -> Roles \cup {None}]]
                 /\ via' \in [Orgs -> [Users -> {None, Founding} \cup Credentials]]
      BY <2>5, <3>3
    <3>4. \/ UNCHANGED <<role, via>>
          \/ role' = [role EXCEPT ![o][u] = r] /\ via' = [via EXCEPT ![o][u] = c]
      BY <2>4, <3>2
    <3> QED
      BY <3>1, <3>3, <3>4
  <2> QED
    BY <1>0, <1>10, <2>2, <2>6 DEF TypeOK, AddOrgMember
<1>11. ASSUME NEW h \in Handlers, MarkInviteAccepted(h) \/ UncacheInvite(h)
      PROVE  TypeOK'
  <2>1. PICK i \in Invites : job[h].cred.invite = i /\ invite[i] \in InviteRows
    BY <1>11, WithToken DEF MarkInviteAccepted, UncacheInvite
  <2>2. job[h] \in Calls /\ job[h] # Idle
    BY <1>0, <1>11, Serving DEF MarkInviteAccepted, UncacheInvite
  <2>3. job' \in [Handlers -> Jobs]
    BY <1>0, <1>11, <2>2, Going DEF MarkInviteAccepted, UncacheInvite
  <2>4. [invite[i] EXCEPT !.accepted = TRUE] \in InviteRows
    BY <2>1 DEF InviteRows
  <2>5. invite' = invite \/ invite' = [invite EXCEPT ![i] = [invite[i] EXCEPT !.accepted = TRUE]]
    BY <1>0, <1>11, <2>1 DEF MarkInviteAccepted, UncacheInvite, TypeOK, tables
  <2>6. invite' \in [Invites -> InviteRows \cup {None}]
    BY <1>0, <2>4, <2>5 DEF TypeOK
  <2> QED
    BY <1>0, <1>11, <2>1, <2>3, <2>6 DEF TypeOK, MarkInviteAccepted, UncacheInvite, tables
<1>12. ASSUME NEW h \in Handlers, Abort(h)
      PROVE  TypeOK'
    BY <1>0, <1>12 DEF TypeOK, Abort, Answer, Jobs, tables
<1>13. ASSUME NEW i \in Invites, Expire(i) \/ Evict(i)
      PROVE  TypeOK'
  <2>1. invite[i] # None => invite[i] \in InviteRows
    BY <1>0 DEF TypeOK
  <2> QED
    BY <1>0, <1>13, <2>1 DEF TypeOK, Expire, Evict, InviteRows, tables
<1> QED
    BY <1>1, <1>2, <1>3, <1>4, <1>5, <1>6, <1>7, <1>8, <1>9, <1>10, <1>11, <1>12, <1>13
       DEF Next, HandlerStep

-----------------------------------------------------------------------------
(* What a step does to the members.                                        *)

\* u becomes a member of o, and that is all.
Enters(o, u, r, c) ==
    /\ role[o][u] = None
    /\ role'[o][u] = r /\ via'[o][u] = c
    /\ \A p \in Orgs, w \in Users : (p # o \/ w # u) =>
          role'[p][w] = role[p][w] /\ via'[p][w] = via[p][w]

\* A step lets in at most one user: a new organisation's owner, or somebody
\* with a credential that offers the role.
LEMMA MembersStep ==
    ASSUME OrgsInv, [Next]_vars
    PROVE  \/ UNCHANGED <<creator, role, via>>
           \/ \E o \in Orgs, u \in Users :
                 /\ Enters(o, u, "owner", Founding)
                 /\ creator[o] = None /\ creator' = [creator EXCEPT ![o] = u]
           \/ \E o \in Orgs, u \in Users, r \in Roles, c \in Credentials :
                 /\ Enters(o, u, r, c)
                 /\ IsValidInviteRole(r) /\ Offers(c, o, r)
                 /\ creator[o] # None /\ creator' = creator
<1>0. /\ role \in [Orgs -> [Users -> Roles \cup {None}]]
      /\ via \in [Orgs -> [Users -> {None, Founding} \cup Credentials]]
    BY DEF OrgsInv, TypeOK
<1>1. ASSUME NEW u \in Users, NEW o \in Orgs, CreateOrganization(u, o)
      PROVE  /\ Enters(o, u, "owner", Founding)
             /\ creator[o] = None /\ creator' = [creator EXCEPT ![o] = u]
  <2>1. role[o][u] = None
    BY <1>1 DEF CreateOrganization, OrgsInv, MembersInv
  <2> QED
    BY <1>0, <1>1, <2>1 DEF CreateOrganization, Enters
<1>2. ASSUME NEW h \in Handlers, AddOrgMember(h), ~UNCHANGED <<role, via>>
      PROVE  \E o \in Orgs, u \in Users, r \in Roles, c \in Credentials :
                 /\ Enters(o, u, r, c)
                 /\ IsValidInviteRole(r) /\ Offers(c, o, r)
                 /\ creator[o] # None /\ creator' = creator
  <2>1. /\ job[h] \in Calls /\ job[h].org \in Orgs /\ job[h].user \in Users
        /\ job[h].role \in Roles /\ job[h].cred \in Credentials
        /\ IsValidInviteRole(job[h].role) /\ creator[job[h].org] # None
        /\ Offers(job[h].cred, job[h].org, job[h].role)
    BY <1>2, WithOffer DEF AddOrgMember, Calls
  <2>2. /\ role[job[h].org][job[h].user] = None /\ creator' = creator
        /\ role' = [role EXCEPT ![job[h].org][job[h].user] = job[h].role]
        /\ via' = [via EXCEPT ![job[h].org][job[h].user] = job[h].cred]
    BY <1>2 DEF AddOrgMember, Admit
  <2>3. Enters(job[h].org, job[h].user, job[h].role, job[h].cred)
    BY <1>0, <2>1, <2>2 DEF Enters
  <2> QED
    BY <2>1, <2>2, <2>3
<1>3. ASSUME NEW h \in Handlers, AddOrgMember(h) PROVE UNCHANGED creator
    BY <1>3 DEF AddOrgMember
<1> QED
    BY <1>1, <1>2, <1>3
       DEF Next, HandlerStep, SendEmailInvite, StoreInvite, GenerateInviteCode, JoinViaToken,
           JoinViaCode, LookupInviteToken, GetInviteByToken, GetInviteCodeByCode, CheckMembership,
           MarkInviteAccepted, UncacheInvite, Abort, Expire, Evict, vars, tables

\* Nothing is taken back: memberships and their origin, what an invite or a
\* code offers, and that an invite is used up.
Keeps ==
    /\ \A o \in Orgs, u \in Users : role[o][u] # None =>
          role'[o][u] = role[o][u] /\ via'[o][u] = via[o][u]
    /\ \A i \in Invites : invite[i] # None =>
          /\ invite'[i] # None
          /\ \A f \in {"org", "role", "by"} : invite'[i][f] = invite[i][f]
          /\ invite[i].accepted => invite'[i].accepted
          /\ invite[i].expired => invite'[i].expired
    /\ \A k \in Codes : code[k] # None => code'[k] = code[k]

LEMMA StepKeeps ==
    ASSUME OrgsInv, [Next]_vars
    PROVE  Keeps
<1>1. \A o \in Orgs, u \in Users : role[o][u] # None =>
          role'[o][u] = role[o][u] /\ via'[o][u] = via[o][u]
    BY MembersStep DEF Enters
<1>2. \A i \in Invites : invite[i] # None =>
          /\ invite'[i] # None
          /\ \A f \in {"org", "role", "by"} : invite'[i][f] = invite[i][f]
          /\ invite[i].accepted => invite'[i].accepted
          /\ invite[i].expired => invite'[i].expired
  <2> SUFFICES ASSUME NEW i \in Invites, invite[i] # None
               PROVE  /\ invite'[i] # None
                      /\ \A f \in {"org", "role", "by"} : invite'[i][f] = invite[i][f]
                      /\ invite[i].accepted => invite'[i].accepted
                      /\ invite[i].expired => invite'[i].expired
    OBVIOUS
  <2>0. invite \in [Invites -> InviteRows \cup {None}] /\ invite[i] \in InviteRows
    BY DEF OrgsInv, TypeOK
  <2>1. CASE invite'[i] = invite[i]
    BY <2>1
  <2>2. CASE invite'[i] = [invite[i] EXCEPT !.accepted = TRUE]
    <3>1. [invite[i] EXCEPT !.accepted = TRUE] \in InviteRows
      BY <2>0 DEF InviteRows
    <3> QED
      BY <2>0, <2>2, <3>1, OrgConstants DEF InviteRows
  <2>3. CASE invite'[i] = [invite[i] EXCEPT !.expired = TRUE]
    <3>1. [invite[i] EXCEPT !.expired = TRUE] \in InviteRows
      BY <2>0 DEF InviteRows
    <3> QED
      BY <2>0, <2>3, <3>1, OrgConstants DEF InviteRows
  <2>4. ASSUME NEW u \in Users, NEW o \in Orgs, NEW j \in Invites, NEW r \in Roles,
               SendEmailInvite(u, o, r, j)
        PROVE  invite'[i] = invite[i]
    BY <2>0, <2>4 DEF SendEmailInvite, StoreInvite
  <2>5. ASSUME NEW h \in Handlers, MarkInviteAccepted(h)
        PROVE  invite'[i] = invite[i] \/ invite'[i] = [invite[i] EXCEPT !.accepted = TRUE]
    <3>1. PICK j \in Invites : job[h].cred.invite = j
      BY <2>5, WithToken DEF MarkInviteAccepted
    <3> QED
      BY <2>0, <2>5, <3>1 DEF MarkInviteAccepted
  <2>6. ASSUME NEW j \in Invites, Expire(j)
        PROVE  invite'[i] = invite[i] \/ invite'[i] = [invite[i] EXCEPT !.expired = TRUE]
    BY <2>0, <2>6 DEF Expire
  <2>7. UNCHANGED invite => invite'[i] = invite[i]
    OBVIOUS
  <2> QED
    BY <2>1, <2>2, <2>3, <2>4, <2>5, <2>6, <2>7
       DEF Next, HandlerStep, CreateOrganization, GenerateInviteCode, JoinViaToken, JoinViaCode,
           LookupInviteToken, GetInviteByToken, GetInviteCodeByCode, CheckMembership,
           AddOrgMember, UncacheInvite, Abort, Evict, vars, tables
<1>3. \A k \in Codes : code[k] # None => code'[k] = code[k]
  <2>0. code \in [Codes -> CodeRows \cup {None}]
    BY DEF OrgsInv, TypeOK
  <2>1. ASSUME NEW u \in Users, NEW o \in Orgs, NEW j \in Codes, GenerateInviteCode(u, o, j)
        PROVE  \A k \in Codes : code[k] # None => code'[k] = code[k]
    BY <2>0, <2>1 DEF GenerateInviteCode
  <2> QED
    BY <2>1
       DEF Next, HandlerStep, CreateOrganization, SendEmailInvite, StoreInvite, JoinViaToken,
           JoinViaCode, LookupInviteToken, GetInviteByToken, GetInviteCodeByCode, CheckMembership,
           AddOrgMember, MarkInviteAccepted, UncacheInvite, Abort, Expire, Evict, vars, tables
<1> QED
    BY <1>1, <1>2, <1>3 DEF Keeps

\* What was offered is still offered.
LEMMA OffersKeep ==
    ASSUME Keeps, NEW c, NEW o, NEW r, Offers(c, o, r)
    PROVE  Offers(c, o, r)'
<1>1. \A i \in Invites : invite[i] # None =>
          invite'[i] # None /\ invite'[i].org = invite[i].org /\ invite'[i].role = invite[i].role
    BY DEF Keeps
<1> QED
    BY <1>1 DEF Keeps, Offers

-----------------------------------------------------------------------------
(* The invariant.                                                          *)

LEMMA MembersInvStep ==
    ASSUME OrgsInv, [Next]_vars
    PROVE  MembersInv'
<1>0. TypeOK /\ MembersInv
    BY DEF OrgsInv
<1>1. CASE UNCHANGED <<creator, role, via>>
    BY <1>0, <1>1 DEF MembersInv, OwnerIsCreator
<1>2. ASSUME NEW o \in Orgs, NEW u \in Users, Enters(o, u, "owner", Founding),
             creator[o] = None, creator' = [creator EXCEPT ![o] = u]
      PROVE  MembersInv'
  <2>1. /\ creator'[o] = u /\ u # None /\ \A p \in Orgs : p # o => creator'[p] = creator[p]
        /\ Founding # None /\ "owner" # None
    BY <1>0, <1>2, OrgConstants DEF TypeOK, Roles
  <2>2. \A w \in Users : role[o][w] = None
    BY <1>0, <1>2 DEF MembersInv
  <2> QED
    BY <1>0, <1>2, <2>1, <2>2 DEF MembersInv, OwnerIsCreator, Enters
<1>3. ASSUME NEW o \in Orgs, NEW u \in Users, NEW r \in Roles, NEW c \in Credentials,
             Enters(o, u, r, c), IsValidInviteRole(r), creator[o] # None, creator' = creator
      PROVE  MembersInv'
  <2>1. r # None /\ r # "owner" /\ c # None /\ "owner" # None
    BY <1>3, OrgConstants DEF IsValidInviteRole, Roles
  <2>2. creator[o] # u
    BY <1>0, <1>3, <2>1 DEF MembersInv, OwnerIsCreator, Enters
  <2> QED
    BY <1>0, <1>3, <2>1, <2>2 DEF MembersInv, OwnerIsCreator, Enters
<1> QED
    BY <1>1, <1>2, <1>3, MembersStep

LEMMA OffersInvStep ==
    ASSUME OrgsInv, [Next]_vars
    PROVE  OffersInv'
<1>0. TypeOK /\ OffersInv /\ Keeps
    BY StepKeeps DEF OrgsInv
<1>1. \A o \in Orgs, u \in Users : IsAdminRole(role[o][u]) => IsAdminRole(role'[o][u])
    BY <1>0, OrgConstants DEF Keeps, IsAdminRole, Roles
<1>2. \A i \in Invites : invite[i] # None =>
          /\ invite[i].org \in Orgs /\ invite[i].by \in Users
          /\ invite'[i] # None
          /\ invite'[i].org = invite[i].org /\ invite'[i].role = invite[i].role
          /\ invite'[i].by = invite[i].by
    BY <1>0 DEF Keeps, TypeOK, InviteRows
<1>3. \A i \in Invites : invite'[i] # None =>
          /\ IsValidInviteRole(invite'[i].role)
          /\ IsAdminRole(role'[invite'[i].org][invite'[i].by])
  <2>1. ASSUME NEW i \in Invites, invite[i] # None
        PROVE  /\ IsValidInviteRole(invite'[i].role)
               /\ IsAdminRole(role'[invite'[i].org][invite'[i].by])
    BY <1>0, <1>1, <1>2, <2>1 DEF OffersInv
  <2>2. ASSUME NEW u \in Users, NEW o \in Orgs, NEW j \in Invites, NEW r \in Roles,
               SendEmailInvite(u, o, r, j), NEW i \in Invites, invite[i] = None, invite'[i] # None
        PROVE  /\ IsValidInviteRole(invite'[i].role)
               /\ IsAdminRole(role'[invite'[i].org][invite'[i].by])
    <3>1. i = j /\ invite'[i] = [org |-> o, role |-> r, by |-> u, accepted |-> FALSE, expired |-> FALSE]
      BY <1>0, <2>2 DEF SendEmailInvite, StoreInvite, TypeOK
    <3>2. IsValidInviteRole(r) /\ IsAdminRole(role[o][u])
      BY <2>2 DEF SendEmailInvite, RequireOrgAdmin
    <3> QED
      BY <1>1, <3>1, <3>2
  <2>3. ASSUME NEW h \in Handlers, MarkInviteAccepted(h), NEW i \in Invites, invite[i] = None
        PROVE  invite'[i] = None
    <3>1. PICK j \in Invites : job[h].cred.invite = j /\ invite[j] \in InviteRows
      BY <2>3, WithToken DEF MarkInviteAccepted
    <3>2. i # j
      BY <2>3, <3>1, OrgConstants
    <3> QED
      BY <1>0, <2>3, <3>1, <3>2 DEF MarkInviteAccepted, TypeOK
  <2>4. ASSUME NEW j \in Invites, Expire(j), NEW i \in Invites, invite[i] = None
        PROVE  invite'[i] = None
    BY <1>0, <2>4 DEF Expire, TypeOK
  <2> QED
    BY <2>1, <2>2, <2>3, <2>4
       DEF Next, HandlerStep, CreateOrganization, GenerateInviteCode, JoinViaToken, JoinViaCode,
           LookupInviteToken, GetInviteByToken, GetInviteCodeByCode, CheckMembership,
           AddOrgMember, UncacheInvite, Abort, Evict, vars, tables
<1>4. \A k \in Codes : code'[k] # None => IsAdminRole(role'[code'[k].org][code'[k].by])
  <2>1. ASSUME NEW k \in Codes, code[k] # None
        PROVE  IsAdminRole(role'[code'[k].org][code'[k].by])
    <3>1. code[k] \in CodeRows /\ code'[k] = code[k]
      BY <1>0, <2>1 DEF TypeOK, Keeps
    <3> QED
      BY <1>0, <1>1, <2>1, <3>1 DEF OffersInv, CodeRows
  <2>2. ASSUME NEW u \in Users, NEW o \in Orgs, NEW j \in Codes, GenerateInviteCode(u, o, j),
               NEW k \in Codes, code[k] = None, code'[k] # None
        PROVE  IsAdminRole(role'[code'[k].org][code'[k].by])
    <3>1. k = j /\ code'[k] = [org |-> o, by |-> u]
      BY <1>0, <2>2 DEF GenerateInviteCode, TypeOK
    <3> QED
      BY <1>1, <2>2, <3>1 DEF GenerateInviteCode, RequireOrgAdmin
  <2> QED
    BY <2>1, <2>2
       DEF Next, HandlerStep, CreateOrganization, SendEmailInvite, StoreInvite, JoinViaToken,
           JoinViaCode, LookupInviteToken, GetInviteByToken, GetInviteCodeByCode, CheckMembership,
           AddOrgMember, MarkInviteAccepted, UncacheInvite, Abort, Expire, Evict, vars, tables
<1>5. \A i \in Invites : cached'[i] # None =>
          /\ invite'[i] # None
          /\ cached'[i].org = invite'[i].org /\ cached'[i].role = invite'[i].role
  <2>1. ASSUME NEW i \in Invites, cached'[i] = cached[i], cached'[i] # None
        PROVE  /\ invite'[i] # None
               /\ cached'[i].org = invite'[i].org /\ cached'[i].role = invite'[i].role
    BY <1>0, <1>2, <2>1 DEF OffersInv
  <2>2. ASSUME NEW u \in Users, NEW o \in Orgs, NEW j \in Invites, NEW r \in Roles,
               SendEmailInvite(u, o, r, j), NEW i \in Invites, cached'[i] # cached[i]
        PROVE  /\ invite'[i] # None
               /\ cached'[i].org = invite'[i].org /\ cached'[i].role = invite'[i].role
    <3>1. i = j /\ cached'[i] = [org |-> o, role |-> r]
      BY <1>0, <2>2 DEF SendEmailInvite, StoreInvite, TypeOK
    <3>2. invite'[i] = [org |-> o, role |-> r, by |-> u, accepted |-> FALSE, expired |-> FALSE]
      BY <1>0, <2>2, <3>1 DEF SendEmailInvite, StoreInvite, TypeOK
    <3>3. invite'[i] \in InviteRows
      BY <3>2 DEF InviteRows
    <3>4. invite'[i] # None
      BY <3>3, OrgConstants
    <3> QED
      BY <3>1, <3>2, <3>4
  <2>3. ASSUME NEW h \in Handlers, UncacheInvite(h), NEW i \in Invites, cached'[i] # cached[i]
        PROVE  cached'[i] = None
    BY <1>0, <2>3 DEF UncacheInvite, TypeOK
  <2>4. ASSUME NEW j \in Invites, Evict(j), NEW i \in Invites, cached'[i] # cached[i]
        PROVE  cached'[i] = None
    BY <1>0, <2>4 DEF Evict, TypeOK
  <2> QED
    BY <2>1, <2>2, <2>3, <2>4
       DEF Next, HandlerStep, CreateOrganization, GenerateInviteCode, JoinViaToken, JoinViaCode,
           LookupInviteToken, GetInviteByToken, GetInviteCodeByCode, CheckMembership,
           AddOrgMember, MarkInviteAccepted, Abort, Expire, vars, tables
<1> QED
    BY <1>3, <1>4, <1>5 DEF OffersInv

LEMMA JoinedInvStep ==
    ASSUME OrgsInv, [Next]_vars
    PROVE  JoinedInv'
<1>0. JoinedInv /\ MembersInv /\ Keeps
    BY StepKeeps DEF OrgsInv
<1> SUFFICES ASSUME NEW o \in Orgs, NEW u \in Users, via'[o][u] \in Credentials
             PROVE  Offers(via[o][u], o, role[o][u])'
    BY DEF JoinedInv
<1>1. CASE via'[o][u] = via[o][u] /\ role'[o][u] = role[o][u]
  <2>1. Offers(via[o][u], o, role[o][u])
    BY <1>0, <1>1 DEF JoinedInv
  <2> QED
    BY <1>0, <1>1, <2>1, OffersKeep
<1>2. CASE via'[o][u] = Founding
    BY <1>2, CredentialsDiffer
<1>3. ASSUME NEW r \in Roles, NEW c \in Credentials, via'[o][u] = c, role'[o][u] = r, Offers(c, o, r)
      PROVE  Offers(via[o][u], o, role[o][u])'
    BY <1>0, <1>3, OffersKeep
<1> QED
    BY <1>1, <1>2, <1>3, MembersStep DEF Enters

LEMMA AcceptedStep ==
    ASSUME OrgsInv, [Next]_vars
    PROVE  AcceptedAdmitted'
<1>0. TypeOK /\ AcceptedAdmitted /\ MembersInv /\ Keeps
    BY StepKeeps DEF OrgsInv
<1> SUFFICES ASSUME NEW i \in Invites, invite'[i] # None, invite'[i].accepted
             PROVE  \E o \in Orgs, u \in Users : via'[o][u] = ByToken(i)
    BY DEF AcceptedAdmitted
<1>1. \A o \in Orgs, u \in Users : via[o][u] = ByToken(i) => via'[o][u] = ByToken(i)
  <2>1. ByToken(i) # None
    BY OrgConstants DEF Credentials
  <2> QED
    BY <1>0, <2>1 DEF MembersInv, Keeps
<1>2. CASE invite[i] # None /\ invite[i].accepted
    BY <1>0, <1>1, <1>2 DEF AcceptedAdmitted
<1>3. ASSUME NEW h \in Handlers, MarkInviteAccepted(h), invite'[i] # invite[i]
      PROVE  \E o \in Orgs, u \in Users : via'[o][u] = ByToken(i)
  <2>1. PICK j \in Invites : job[h].cred = ByToken(j) /\ job[h].cred.invite = j
    BY <1>3, WithToken DEF MarkInviteAccepted
  <2>2. i = j
    BY <1>0, <1>3, <2>1 DEF MarkInviteAccepted, TypeOK
  <2>3. job[h].org \in Orgs /\ job[h].user \in Users /\ via[job[h].org][job[h].user] = job[h].cred
    BY <1>0, <1>3, WithOffer, Serving DEF MarkInviteAccepted, OrgsInv, CallsInv, CallOK
  <2> QED
    BY <1>1, <2>1, <2>2, <2>3
<1>4. ASSUME NEW u \in Users, NEW o \in Orgs, NEW j \in Invites, NEW r \in Roles,
             SendEmailInvite(u, o, r, j)
      PROVE  invite'[i] = invite[i]
    BY <1>0, <1>4 DEF SendEmailInvite, StoreInvite, TypeOK
<1>5. ASSUME NEW j \in Invites, Expire(j)
      PROVE  invite[i] # None /\ invite[i].accepted
  <2>1. CASE i = j
    <3>1. invite[i] \in InviteRows /\ invite'[i] = [invite[i] EXCEPT !.expired = TRUE]
      BY <1>0, <1>5, <2>1 DEF Expire, TypeOK
    <3> QED
      BY <1>5, <2>1, <3>1 DEF Expire, InviteRows
  <2>2. CASE i # j
    BY <1>0, <1>5, <2>2 DEF Expire, TypeOK
  <2> QED
    BY <2>1, <2>2
<1> QED
    BY <1>2, <1>3, <1>4, <1>5
       DEF Next, HandlerStep, CreateOrganization, GenerateInviteCode, JoinViaToken, JoinViaCode,
           LookupInviteToken, GetInviteByToken, GetInviteCodeByCode, CheckMembership,
           AddOrgMember, UncacheInvite, Abort, Evict, vars, tables

\* A request that did not move is still in order.
LEMMA OthersKeep ==
    ASSUME OrgsInv, Keeps, NEW g \in Handlers, job[g] # Idle
    PROVE  CallOK(job[g])'  \/ job'[g] # job[g]
<1> SUFFICES ASSUME job'[g] = job[g] PROVE CallOK(job[g])'
    OBVIOUS
<1>0. TypeOK /\ MembersInv /\ CallOK(job[g]) /\ job[g] \in Calls
    BY Serving DEF OrgsInv, CallsInv
<1>1. \A i \in Invites : invite[i] # None =>
          /\ invite'[i] # None
          /\ invite'[i].org = invite[i].org /\ invite'[i].role = invite[i].role
          /\ invite[i].accepted => invite'[i].accepted
          /\ invite[i].expired => invite'[i].expired
    BY DEF Keeps
<1>2. TokenOK(job[g])'
    BY <1>0, <1>1 DEF CallOK, TokenOK
<1>3. CodeOK(job[g])'
    BY <1>0 DEF CallOK, CodeOK, Keeps
<1>4. job[g].pc \in {"member", "add", "mark", "uncache"} => Offers(job[g].cred, job[g].org, job[g].role)'
    BY <1>0, OffersKeep DEF CallOK
<1>5. job[g].pc \in {"mark", "uncache"} => via'[job[g].org][job[g].user] = job[g].cred
  <2> SUFFICES ASSUME job[g].pc \in {"mark", "uncache"}
               PROVE  via'[job[g].org][job[g].user] = job[g].cred
    OBVIOUS
  <2>1. job[g].org \in Orgs /\ job[g].user \in Users /\ via[job[g].org][job[g].user] = job[g].cred
    BY <1>0, WithOffer DEF CallOK
  <2>2. job[g].cred # None
    BY <1>0, OrgConstants DEF Calls
  <2>3. role[job[g].org][job[g].user] # None
    BY <1>0, <2>1, <2>2 DEF MembersInv
  <2> QED
    BY <2>1, <2>3 DEF Keeps
<1>6. job[g].late => job[g].pc \in {"cache", "invite"}
    BY <1>0 DEF CallOK
<1> QED
    BY <1>2, <1>3, <1>4, <1>5, <1>6 DEF CallOK

\* A request that comes in or moves on is in order after the step.
LEMMA MovedOK ==
    ASSUME OrgsInv, [Next]_vars, NEW h \in Handlers, job'[h] # job[h], job'[h] # Idle
    PROVE  CallOK(job[h])'
<1>0. TypeOK /\ OffersInv /\ CallsInv
    BY DEF OrgsInv
<1>1. ASSUME NEW u \in Users, NEW i \in Invites, JoinViaToken(h, u, i)
      PROVE  CallOK(job[h])'
  <2>1. /\ job'[h].pc = "cache" /\ job'[h].cred = ByToken(i)
        /\ job'[h].org = None /\ job'[h].role = None
        /\ job'[h].late = (invite[i].accepted \/ invite[i].expired)
        /\ invite[i] # None /\ invite' = invite
    BY <1>0, <1>1 DEF JoinViaToken, Join, TypeOK, tables
  <2>2. TokenOK(job[h])'
    <3> SUFFICES ASSUME NEW x \in Invites, job'[h].cred = ByToken(x)
                 PROVE  /\ job'[h].pc # "code" /\ invite'[x] # None
                        /\ job'[h].org \in {None, invite'[x].org}
                        /\ job'[h].role \in {None, invite'[x].role}
                        /\ job'[h].late => invite'[x].accepted \/ invite'[x].expired
      BY DEF TokenOK
    <3>1. x = i
      BY <2>1, CredentialsDiffer
    <3> QED
      BY <2>1, <3>1
  <2>3. CodeOK(job[h])'
    BY <2>1, CredentialsDiffer DEF CodeOK
  <2> QED
    BY <2>1, <2>2, <2>3 DEF CallOK
<1>2. ASSUME NEW u \in Users, NEW k \in Codes, JoinViaCode(h, u, k)
      PROVE  CallOK(job[h])'
  <2>1. /\ job'[h].pc = "code" /\ job'[h].cred = ByCode(k) /\ job'[h].late = FALSE
        /\ code[k] # None /\ code' = code
    BY <1>0, <1>2 DEF JoinViaCode, Join, TypeOK, tables
  <2>2. TokenOK(job[h])'
    <3>1. \A i \in Invites : job'[h].cred # ByToken(i)
      BY <2>1, CredentialsDiffer
    <3> QED
      BY <3>1 DEF TokenOK
  <2>3. CodeOK(job[h])'
    <3> SUFFICES ASSUME NEW x \in Codes, job'[h].cred = ByCode(x)
                 PROVE  job'[h].pc \in {"code", "member", "add"} /\ code'[x] # None
      BY DEF CodeOK
    <3>1. x = k
      BY <2>1, CredentialsDiffer
    <3> QED
      BY <2>1, <3>1
  <2> QED
    BY <2>1, <2>2, <2>3 DEF CallOK
<1>3. ASSUME NEW i \in Invites, job[h] \in Calls, job[h].cred = ByToken(i), job'[h].cred = ByToken(i),
             job'[h].late = job[h].late, job'[h].pc \in {"invite", "member", "add", "mark", "uncache"},
             job'[h].org \in {None, invite[i].org}, job'[h].role \in {None, invite[i].role},
             job'[h].pc # "invite" => /\ job'[h].org = invite[i].org /\ job'[h].role = invite[i].role
                                      /\ ~job[h].late,
             job'[h].pc \in {"mark", "uncache"} => via'[job'[h].org][job'[h].user] = job'[h].cred,
             invite[i] # None, job[h] # Idle
      PROVE  CallOK(job[h])'
  <2>1. job[h].late => invite[i].accepted \/ invite[i].expired
    BY <1>0, <1>3 DEF CallsInv, CallOK, TokenOK
  <2>2. /\ invite'[i] # None
        /\ invite'[i].org = invite[i].org /\ invite'[i].role = invite[i].role
        /\ invite[i].accepted => invite'[i].accepted
        /\ invite[i].expired => invite'[i].expired
    BY <1>3, StepKeeps DEF Keeps
  <2>3. TokenOK(job[h])'
    <3> SUFFICES ASSUME NEW x \in Invites, job'[h].cred = ByToken(x)
                 PROVE  /\ job'[h].pc # "code" /\ invite'[x] # None
                        /\ job'[h].org \in {None, invite'[x].org}
                        /\ job'[h].role \in {None, invite'[x].role}
                        /\ job'[h].late => invite'[x].accepted \/ invite'[x].expired
      BY DEF TokenOK
    <3>1. ByToken(i) = ByToken(x)
      BY <1>3
    <3>2. x = i
      BY <3>1, CredentialsDiffer
    <3> QED
      BY <1>3, <2>1, <2>2, <3>2
  <2>4. CodeOK(job[h])'
    BY <1>3, CredentialsDiffer DEF CodeOK
  <2>5. job'[h].pc # "invite" => Offers(job[h].cred, job[h].org, job[h].role)'
    BY <1>3, <2>2 DEF Offers
  <2> QED
    BY <1>3, <2>3, <2>4, <2>5 DEF CallOK
<1>4. ASSUME LookupInviteToken(h) \/ GetInviteByToken(h)
      PROVE  CallOK(job[h])'
  <2>1. PICK i \in Invites : /\ job[h].cred = ByToken(i) /\ job[h].cred.invite = i
                             /\ invite[i] \in InviteRows
    BY <1>4, WithToken DEF LookupInviteToken, GetInviteByToken
  <2>2. job[h] \in Calls /\ job[h] # Idle /\ CallOK(job[h]) /\ invite[i] # None
    BY <1>0, <1>4, <2>1, Serving, OrgConstants DEF LookupInviteToken, GetInviteByToken, CallsInv
  <2>3. /\ job[h].org \in {None, invite[i].org} /\ job[h].role \in {None, invite[i].role}
        /\ job[h].late => invite[i].accepted \/ invite[i].expired
    BY <2>1, <2>2 DEF CallOK, TokenOK
  <2>4. CASE LookupInviteToken(h)
    <3>1. CASE job'[h] = [job[h] EXCEPT !.pc = "invite"]
      BY <1>3, <2>1, <2>2, <2>3, <3>1 DEF Calls
    <3>2. CASE /\ cached[i] # None
               /\ job'[h] = [job[h] EXCEPT !.org = cached[i].org, !.role = cached[i].role,
                                           !.pc = "invite"]
      <4>1. cached[i].org = invite[i].org /\ cached[i].role = invite[i].role
        BY <1>0, <3>2 DEF OffersInv
      <4> QED
        BY <1>3, <2>1, <2>2, <3>2, <4>1 DEF Calls
    <3> QED
      BY <1>0, <2>1, <2>2, <2>4, <3>1, <3>2 DEF LookupInviteToken, Goto, TypeOK
  <2>5. CASE GetInviteByToken(h)
    <3>1. ~(invite[i].accepted \/ invite[i].expired)
      BY <1>0, <2>1, <2>5 DEF GetInviteByToken, Answer, TypeOK
    <3>2. job' = [job EXCEPT ![h].org = IF @ = None THEN invite[i].org ELSE @,
                             ![h].role = IF @ = None THEN invite[i].role ELSE @,
                             ![h].pc = "member"]
      BY <2>1, <2>5, <3>1 DEF GetInviteByToken
    <3>3. job'[h] = [job[h] EXCEPT !.org = invite[i].org, !.role = invite[i].role, !.pc = "member"]
      BY <1>0, <2>2, <2>3, <3>2 DEF TypeOK, Calls
    <3> QED
      BY <1>3, <2>1, <2>2, <2>3, <3>1, <3>3 DEF Calls
  <2> QED
    BY <1>4, <2>4, <2>5
<1>5. CASE GetInviteCodeByCode(h)
  <2>1. PICK k \in Codes : /\ job[h].cred = ByCode(k) /\ job[h].cred.code = k
                           /\ code[k] \in CodeRows
    BY <1>5, WithCode DEF GetInviteCodeByCode
  <2>2. job[h] \in Calls /\ job[h] # Idle /\ CallOK(job[h]) /\ code[k] # None /\ code' = code
    BY <1>0, <1>5, <2>1, Serving, OrgConstants DEF GetInviteCodeByCode, CallsInv, tables
  <2>3. job'[h] = [job[h] EXCEPT !.org = code[k].org, !.role = "developer", !.pc = "member"]
    BY <1>0, <1>5, <2>1, <2>2 DEF GetInviteCodeByCode, TypeOK
  <2>4. /\ job'[h].cred = ByCode(k) /\ job'[h].pc = "member" /\ job'[h].org = code[k].org
        /\ job'[h].role = "developer" /\ job'[h].late = job[h].late
    BY <2>1, <2>2, <2>3 DEF Calls
  <2>5. ~job[h].late
    BY <1>5, <2>2 DEF GetInviteCodeByCode, CallOK
  <2>6. TokenOK(job[h])' /\ CodeOK(job[h])'
    BY <2>2, <2>4, CredentialsDiffer DEF TokenOK, CodeOK
  <2>7. Offers(job[h].cred, job[h].org, job[h].role)'
    BY <2>2, <2>4 DEF Offers
  <2> QED
    BY <2>4, <2>5, <2>6, <2>7 DEF CallOK
<1>6. ASSUME NEW pc \in {"add", "mark"}, job[h].pc \in {"member", "add"},
             job'[h] = [job[h] EXCEPT !.pc = pc],
             pc = "mark" => /\ via'[job[h].org][job[h].user] = job[h].cred
                            /\ job[h].cred.how = "token"
      PROVE  CallOK(job[h])'
  <2>1. job[h] \in Calls /\ job[h] # Idle /\ CallOK(job[h])
    BY <1>0, <1>6, Serving DEF CallsInv
  <2>2. ~job[h].late /\ Offers(job[h].cred, job[h].org, job[h].role)
    BY <1>6, <2>1 DEF CallOK
  <2>3. /\ job'[h].pc = pc /\ job'[h].cred = job[h].cred /\ job'[h].org = job[h].org
        /\ job'[h].role = job[h].role /\ job'[h].late = job[h].late /\ job'[h].user = job[h].user
    BY <1>6, <2>1 DEF Calls
  <2>4. Offers(job[h].cred, job[h].org, job[h].role)'
    BY <2>2, <2>3, StepKeeps, OffersKeep
  <2>5. \A i \in Invites : invite[i] # None =>
            /\ invite'[i] # None
            /\ invite'[i].org = invite[i].org /\ invite'[i].role = invite[i].role
    BY StepKeeps DEF Keeps
  <2>6. TokenOK(job[h])'
    BY <2>1, <2>2, <2>3, <2>5 DEF CallOK, TokenOK
  <2>7. CodeOK(job[h])'
    BY <1>6, <2>1, <2>3, StepKeeps, CredentialsDiffer DEF CallOK, CodeOK, Keeps
  <2> QED
    BY <1>6, <2>2, <2>3, <2>4, <2>6, <2>7 DEF CallOK
<1>7. CASE CheckMembership(h)
  <2>1. job[h].pc = "member" /\ job[h] # Idle
    BY <1>0, <1>7, Serving DEF CheckMembership
  <2>2. job'[h] = [job[h] EXCEPT !.pc = "add"]
    BY <1>0, <1>7, <2>1 DEF CheckMembership, Goto, Answer, TypeOK
  <2> QED
    BY <1>6, <2>1, <2>2
<1>8. CASE AddOrgMember(h)
  <2>1. /\ job[h].pc = "add" /\ job[h].org \in Orgs /\ job[h].user \in Users
    BY <1>8, WithOffer DEF AddOrgMember
  <2>2. job'[h] = [job[h] EXCEPT !.pc = "mark"] /\ job[h].cred.how = "token" /\ Admit(job[h])
    BY <1>0, <1>8, <2>1 DEF AddOrgMember, AfterAdmission, Goto, Answer, TypeOK
  <2>3. via'[job[h].org][job[h].user] = job[h].cred
    BY <1>0, <2>1, <2>2 DEF Admit, TypeOK
  <2> QED
    BY <1>6, <2>1, <2>2, <2>3
<1>9. CASE MarkInviteAccepted(h)
  <2>1. PICK i \in Invites : /\ job[h].cred = ByToken(i) /\ invite[i] \in InviteRows
    BY <1>9, WithToken DEF MarkInviteAccepted
  <2>2. /\ job[h] \in Calls /\ job[h] # Idle /\ CallOK(job[h]) /\ invite[i] # None
        /\ job[h].pc = "mark" /\ UNCHANGED via
    BY <1>0, <1>9, <2>1, Serving, OrgConstants DEF MarkInviteAccepted, CallsInv
  <2>3. job'[h] = [job[h] EXCEPT !.pc = "uncache"]
    BY <1>0, <1>9, <2>2 DEF MarkInviteAccepted, Goto, Answer, TypeOK
  <2>4. Offers(ByToken(i), job[h].org, job[h].role)
    BY <2>1, <2>2 DEF CallOK
  <2>5. job[h].org = invite[i].org /\ job[h].role = invite[i].role
    BY <2>4, CredentialsDiffer DEF Offers
  <2>6. ~job[h].late /\ via[job[h].org][job[h].user] = job[h].cred
    BY <2>2 DEF CallOK
  <2> QED
    BY <1>3, <2>1, <2>2, <2>3, <2>5, <2>6 DEF Calls
<1>10. CASE UncacheInvite(h) \/ Abort(h)
    BY <1>0, <1>10 DEF UncacheInvite, Abort, Answer, TypeOK
<1>11. ASSUME NEW g \in Handlers, g # h,
              \/ HandlerStep(g) \/ Abort(g)
              \/ \E u \in Users : \/ \E i \in Invites : JoinViaToken(g, u, i)
                                  \/ \E k \in Codes : JoinViaCode(g, u, k)
       PROVE  job'[h] = job[h]
    BY <1>0, <1>11
       DEF HandlerStep, LookupInviteToken, GetInviteByToken, GetInviteCodeByCode, CheckMembership,
           AddOrgMember, AfterAdmission, MarkInviteAccepted, UncacheInvite, Abort, JoinViaToken,
           JoinViaCode, Goto, Answer, TypeOK
<1>12. ASSUME \/ UNCHANGED vars
              \/ \E u \in Users, o \in Orgs :
                    \/ CreateOrganization(u, o)
                    \/ \E i \in Invites, r \in Roles : SendEmailInvite(u, o, r, i)
                    \/ \E k \in Codes : GenerateInviteCode(u, o, k)
              \/ \E i \in Invites : Expire(i) \/ Evict(i)
       PROVE  job' = job
    BY <1>12 DEF vars, CreateOrganization, SendEmailInvite, StoreInvite, GenerateInviteCode, Expire, Evict
<1> QED
    BY <1>1, <1>2, <1>4, <1>5, <1>7, <1>8, <1>9, <1>10, <1>11, <1>12 DEF Next, HandlerStep

LEMMA OrgsInvStep ==
    ASSUME OrgsInv, [Next]_vars
    PROVE  OrgsInv'
<1>1. CallsInv'
    BY StepKeeps, OthersKeep, MovedOK DEF CallsInv
<1> QED
    BY <1>1, TypeStep, MembersInvStep, OffersInvStep, JoinedInvStep, AcceptedStep DEF OrgsInv

LEMMA OrgsInvariance == Spec => []OrgsInv
<1>1. OrgsInv /\ [Next]_vars => OrgsInv'
    BY OrgsInvStep
<1> QED
    BY <1>1, OrgsInvInit, PTL DEF Spec

-----------------------------------------------------------------------------
(* Results.                                                                *)

\* The tables, the cache and the join requests always have the shape the code
\* gives them.
THEOREM OrgTypes == Spec => []TypeOK
<1>1. OrgsInv => TypeOK
    BY DEF OrgsInv
<1> QED
    BY <1>1, OrgsInvariance, PTL

\* An organisation's one owner is who created it, whatever is joined at once.
THEOREM OneOwner == Spec => []OwnerIsCreator
<1>1. OrgsInv => OwnerIsCreator
    BY DEF OrgsInv, MembersInv
<1> QED
    BY <1>1, OrgsInvariance, PTL

\* Every membership goes back to an admin of that organisation, with the role
\* that admin offered, also when the cache has answered for Postgres.
THEOREM MembersWereInvited == Spec => []GrantedByAdmin
<1>1. ASSUME OrgsInv PROVE GrantedByAdmin
  <2> SUFFICES ASSUME NEW o \in Orgs, NEW u \in Users
               PROVE  /\ via[o][u] = None <=> role[o][u] = None
                      /\ \A i \in Invites : via[o][u] = ByToken(i) =>
                            /\ invite[i].org = o /\ invite[i].role = role[o][u]
                            /\ IsAdminRole(role[o][invite[i].by])
                      /\ \A k \in Codes : via[o][u] = ByCode(k) =>
                            /\ code[k].org = o /\ role[o][u] = "developer"
                            /\ IsAdminRole(role[o][code[k].by])
    BY DEF GrantedByAdmin
  <2>1. via[o][u] = None <=> role[o][u] = None
    BY <1>1 DEF OrgsInv, MembersInv
  <2>2. \A c \in Credentials : via[o][u] = c => Offers(c, o, role[o][u])
    BY <1>1 DEF OrgsInv, JoinedInv
  <2>3. ASSUME NEW i \in Invites, via[o][u] = ByToken(i)
        PROVE  /\ invite[i].org = o /\ invite[i].role = role[o][u]
               /\ IsAdminRole(role[o][invite[i].by])
    <3>1. Offers(ByToken(i), o, role[o][u])
      BY <2>2, <2>3 DEF Credentials
    <3>2. invite[i] # None /\ invite[i].org = o /\ invite[i].role = role[o][u]
      BY <3>1, CredentialsDiffer DEF Offers
    <3> QED
      BY <1>1, <3>2 DEF OrgsInv, OffersInv
  <2>4. ASSUME NEW k \in Codes, via[o][u] = ByCode(k)
        PROVE  /\ code[k].org = o /\ role[o][u] = "developer"
               /\ IsAdminRole(role[o][code[k].by])
    <3>1. Offers(ByCode(k), o, role[o][u])
      BY <2>2, <2>4 DEF Credentials
    <3>2. code[k] # None /\ code[k].org = o /\ role[o][u] = "developer"
      BY <3>1, CredentialsDiffer DEF Offers
    <3> QED
      BY <1>1, <3>2 DEF OrgsInv, OffersInv
  <2> QED
    BY <2>1, <2>3, <2>4
<1> QED
    BY <1>1, OrgsInvariance, PTL

\* A join request with an invite that was used up or expired when it came in
\* never gets past the lookup, however stale the cache is.
THEOREM UsedUpStaysRefused == Spec => []UsedUpIsRefused
<1>1. OrgsInv => UsedUpIsRefused
    BY DEF OrgsInv, CallsInv, CallOK, UsedUpIsRefused
<1> QED
    BY <1>1, OrgsInvariance, PTL

\* No invite is marked accepted unless it has let somebody in, although the
\* two are separate statements.
THEOREM AcceptedWasUsed == Spec => []AcceptedAdmitted
<1>1. OrgsInv => AcceptedAdmitted
    BY DEF OrgsInv
<1> QED
    BY <1>1, OrgsInvariance, PTL

\* No step changes or removes the role of a member.
THEOREM RolesStay == Spec => RolesAreStable
<1>1. OrgsInv /\ [Next]_vars =>
          [\A o \in Orgs, u \in Users : role[o][u] # None => role'[o][u] = role[o][u]]_vars
    BY StepKeeps DEF Keeps
<1> QED
    BY <1>1, OrgsInvariance, PTL DEF Spec, RolesAreStable

=============================================================================
