------------------------ MODULE AccessControlProofs ------------------------
(* Proofs about AccessControl, for any pools of keys and any number of     *)
(* requests: what the gate and the handlers keep to, and the one reason    *)
(* why each of the notes' promises on admission and audit is broken.       *)
EXTENDS AccessControl, TLAPS

(* What a job's op says about its other fields. *)
LEMMA JobFields ==
    ASSUME NEW j \in Jobs
    PROVE  /\ j.op = "updateUser" => j.user \in UserIds /\ j.active \in {"active", "inactive"}
           /\ j.op = "deleteUser" => j.user \in UserIds
           /\ j.op = "deleteTenant" => j.tenant \in TenantIds
           /\ j.op = "createRole" => j.name \in RoleNames
           /\ j.op = "updateRole" => j.role \in RoleIds /\ j.name \in RoleNames
           /\ j.op = "deleteRole" => j.role \in RoleIds
           /\ j.op = "createMembership" => j.link \in Links
           /\ j.op = "deleteMembership" => j.membership \in MembershipIds
BY DEF Jobs, NoJob

(* A request that runs has a user, and only a count of roles that found    *)
(* none sets noRoles.                                                      *)
RequestsConsistent ==
    \A r \in Requests :
        /\ pc[r] \notin Free => actor[r] \in UserIds
        /\ pc[r] = "flushed" => job[r].op = "deleteRole"
        /\ noRoles[r] => pc[r] = "counted"

LEMMA GotoType ==
    ASSUME RequestTypeOK, NEW r \in Requests, NEW p \in Free \cup Checking \cup Admitted, Goto(r, p)
    PROVE  pc' \in [Requests -> Free \cup Checking \cup Admitted]
BY DEF Goto, RequestTypeOK

LEMMA ReleaseType ==
    ASSUME RequestTypeOK, NEW r \in Requests, NEW p \in Free, Release(r, p)
    PROVE  RequestTypeOK'
BY DEF Release, Goto, RequestTypeOK, Jobs

LEMMA LoadType ==
    ASSUME RequestTypeOK, NEW r \in Requests, NEW j \in Jobs, Load(r, j)
    PROVE  RequestTypeOK'
BY DEF Load, Goto, RequestTypeOK, Admitted

(* Every write of a request comes from inside its handler, needs its       *)
(* actor's row for the audit log, and ends the request.                    *)
LEMMA WritingReleases ==
    ASSUME NEW r \in Requests, Writing(r)
    PROVE  /\ Release(r, "idle")
           /\ \/ pc[r] \in Admitted
              \/ pc[r] = "identified" /\ UNCHANGED tables
           /\ UserExists(actor[r])
BY DEF Writing, Admitted, CreateUser, UpdateUser, DeleteUser, CreateTenant, DeleteTenant, CreateRole,
       UpdateRole, DeleteRole, CreateMembership, DeleteMembership, CommitElsewhere, IngestTraffic,
       Commit, Committing, InsertAudit, InsertAuditAndForget

(* A handler's reads leave the tables alone. *)
LEMMA LoadingLoads ==
    ASSUME NEW r \in Requests, Loading(r)
    PROVE  /\ UNCHANGED <<tables, audit, actor, noRoles>>
           /\ \/ \E j \in Jobs : Load(r, j)
              \/ FlushDeleteRole(r)
<1>1. ASSUME NEW u \in UserIds, LoadDeleteUser(r, u)
      PROVE  \E j \in Jobs : Load(r, j)
  BY <1>1 DEF LoadDeleteUser, Jobs
<1>2. ASSUME NEW u \in UserIds, NEW b \in {"active", "inactive"}, LoadUpdateUser(r, u, b)
      PROVE  \E j \in Jobs : Load(r, j)
  BY <1>2 DEF LoadUpdateUser, Jobs
<1>3. ASSUME NEW t \in TenantIds, LoadDeleteTenant(r, t)
      PROVE  \E j \in Jobs : Load(r, j)
  BY <1>3 DEF LoadDeleteTenant, Jobs
<1>4. ASSUME NEW n \in RoleNames, LoadCreateRole(r, n)
      PROVE  \E j \in Jobs : Load(r, j)
  BY <1>4 DEF LoadCreateRole, Jobs
<1>5. ASSUME NEW ro \in RoleIds, LoadDeleteRole(r, ro)
      PROVE  \E j \in Jobs : Load(r, j)
  BY <1>5 DEF LoadDeleteRole, Jobs
<1>6. ASSUME NEW ro \in RoleIds, NEW n \in RoleNames, LoadUpdateRole(r, ro, n)
      PROVE  \E j \in Jobs : Load(r, j)
  BY <1>6 DEF LoadUpdateRole, Jobs
<1>7. ASSUME NEW l \in Links, LoadCreateMembership(r, l)
      PROVE  \E j \in Jobs : Load(r, j)
  BY <1>7 DEF LoadCreateMembership, Jobs
<1>8. ASSUME NEW m \in MembershipIds, LoadDeleteMembership(r, m)
      PROVE  \E j \in Jobs : Load(r, j)
  BY <1>8 DEF LoadDeleteMembership, Jobs
<1>9. \/ \E j \in Jobs : Load(r, j)
      \/ FlushDeleteRole(r)
  BY <1>1, <1>2, <1>3, <1>4, <1>5, <1>6, <1>7, <1>8 DEF Loading
<1>10. QED
  BY <1>9 DEF Load, FlushDeleteRole

LEMMA RequestTypeStep ==
    ASSUME RequestTypeOK, Next
    PROVE  RequestTypeOK'
<1>1. ASSUME NEW u \in UserIds, Register(u)
      PROVE  RequestTypeOK'
  BY <1>1 DEF Register, RequestTypeOK
<1>2. ASSUME NEW r \in Requests, Gate(r)
      PROVE  RequestTypeOK'
  <2>1. ASSUME NEW u \in UserIds, GetCurrentUser(r, u)
        PROVE  RequestTypeOK'
    <3>1. CASE users[u] = "active"
      BY <2>1, <3>1, GotoType DEF GetCurrentUser, RequestTypeOK, Checking
    <3>2. CASE users[u] # "active"
      BY <2>1, <3>2, ReleaseType DEF GetCurrentUser, Free
    <3>3. QED
      BY <3>1, <3>2
  <2>2. CASE CountRoles(r)
    BY <2>2, GotoType DEF CountRoles, RequestTypeOK, Checking, NoRoles
  <2>3. CASE CountMemberships(r)
    BY <2>3, GotoType DEF CountMemberships, RequestTypeOK, Checking, Admitted
  <2>4. CASE QueryAdminRole(r)
    <3>1. CASE SoleAdminRow(actor[r])
      BY <2>4, <3>1, GotoType DEF QueryAdminRole, RequestTypeOK, Admitted
    <3>2. CASE ~ SoleAdminRow(actor[r])
      BY <2>4, <3>2, ReleaseType DEF QueryAdminRole, Free
    <3>3. QED
      BY <3>1, <3>2
  <2>5. CASE Abandon(r)
    BY <2>5, ReleaseType DEF Abandon, Free
  <2>6. QED
    BY <1>2, <2>1, <2>2, <2>3, <2>4, <2>5 DEF Gate
<1>3. ASSUME NEW r \in Requests, Loading(r)
      PROVE  RequestTypeOK'
  <2>1. CASE FlushDeleteRole(r)
    BY <2>1, GotoType DEF FlushDeleteRole, RequestTypeOK, Admitted
  <2>2. QED
    BY <1>3, <2>1, LoadingLoads, LoadType
<1>4. ASSUME NEW r \in Requests, Writing(r)
      PROVE  RequestTypeOK'
  BY <1>4, WritingReleases, ReleaseType DEF Free
<1>5. QED
  BY <1>1, <1>2, <1>3, <1>4 DEF Next

LEMMA RequestsConsistentStep ==
    ASSUME RequestTypeOK, RequestsConsistent, Next
    PROVE  RequestsConsistent'
<1>1. ASSUME NEW r \in Requests, NEW p \in Free, Release(r, p)
      PROVE  RequestsConsistent'
  BY <1>1 DEF Release, Goto, RequestTypeOK, RequestsConsistent, Free
<1>2. ASSUME NEW u \in UserIds, Register(u)
      PROVE  RequestsConsistent'
  BY <1>2 DEF Register, RequestsConsistent
<1>3. ASSUME NEW r \in Requests, Gate(r)
      PROVE  RequestsConsistent'
  <2>1. ASSUME NEW u \in UserIds, GetCurrentUser(r, u), users[u] = "active"
        PROVE  RequestsConsistent'
    BY <2>1 DEF GetCurrentUser, Goto, RequestTypeOK, RequestsConsistent, Free
  <2>2. ASSUME NEW u \in UserIds, GetCurrentUser(r, u), users[u] # "active"
        PROVE  RequestsConsistent'
    BY <2>2, <1>1 DEF GetCurrentUser, Free
  <2>3. CASE CountRoles(r)
    BY <2>3 DEF CountRoles, Goto, RequestTypeOK, RequestsConsistent, Free
  <2>4. CASE CountMemberships(r)
    BY <2>4 DEF CountMemberships, Goto, RequestTypeOK, RequestsConsistent, Free
  <2>5. CASE QueryAdminRole(r) /\ SoleAdminRow(actor[r])
    BY <2>5 DEF QueryAdminRole, Goto, RequestTypeOK, RequestsConsistent, Free
  <2>6. CASE QueryAdminRole(r) /\ ~ SoleAdminRow(actor[r])
    BY <2>6, <1>1 DEF QueryAdminRole, Free
  <2>7. CASE Abandon(r)
    BY <2>7, <1>1 DEF Abandon, Free
  <2>8. QED
    BY <1>3, <2>1, <2>2, <2>3, <2>4, <2>5, <2>6, <2>7 DEF Gate
<1>4. ASSUME NEW r \in Requests, Loading(r)
      PROVE  RequestsConsistent'
  <2>1. ASSUME NEW j \in Jobs, Load(r, j)
        PROVE  RequestsConsistent'
    BY <2>1 DEF Load, Goto, RequestTypeOK, RequestsConsistent, Free
  <2>2. CASE FlushDeleteRole(r)
    BY <2>2 DEF FlushDeleteRole, Committing, Goto, RequestTypeOK, RequestsConsistent, Free
  <2>3. QED
    BY <1>4, <2>1, <2>2, LoadingLoads
<1>5. ASSUME NEW r \in Requests, Writing(r)
      PROVE  RequestsConsistent'
  BY <1>1, <1>5, WritingReleases DEF Free
<1>6. QED
  BY <1>2, <1>3, <1>4, <1>5 DEF Next

-----------------------------------------------------------------------------
(* The tables *)

LEMMA GateIsQuiet ==
    ASSUME NEW r \in Requests, Gate(r)
    PROVE  UNCHANGED <<tables, audit>>
BY DEF Gate, GetCurrentUser, CountRoles, CountMemberships, QueryAdminRole, Abandon

(* Only registrations and commits change the database. *)
LEMMA OnlyWritesChange ==
    ASSUME Next
    PROVE  \/ \E u \in UserIds : Register(u)
           \/ \E r \in Requests : Writing(r)
           \/ UNCHANGED <<tables, audit>>
BY GateIsQuiet, LoadingLoads DEF Next

LEMMA DeleteMembersType ==
    ASSUME members \in [MembershipIds -> Links \cup {Null}], NEW gone, DeleteMembers(gone)
    PROVE  members' \in [MembershipIds -> Links \cup {Null}]
BY DEF DeleteMembers

LEMMA InsertAuditType ==
    ASSUME audit \in SUBSET (UserIds \cup {Null}), NEW a \in UserIds,
           InsertAudit(a) \/ \E u \in UserIds : InsertAuditAndForget(a, u)
    PROVE  audit' \in SUBSET (UserIds \cup {Null})
BY DEF InsertAudit, InsertAuditAndForget

(* What a write knows about its own request. *)
LEMMA WritersJob ==
    ASSUME RequestTypeOK, RequestsConsistent, NEW r \in Requests, Writing(r)
    PROVE  /\ actor[r] \in UserIds
           /\ job[r] \in Jobs
           /\ pc[r] = "flushed" => job[r].op = "deleteRole"
BY WritingReleases DEF RequestTypeOK, RequestsConsistent, Free, Admitted

LEMMA WritingType ==
    ASSUME DirectoryTypeOK, RequestTypeOK, RequestsConsistent, NEW r \in Requests, Writing(r)
    PROVE  DirectoryTypeOK'
<1>1. /\ actor[r] \in UserIds
      /\ job[r] \in Jobs
      /\ pc[r] = "flushed" => job[r].op = "deleteRole"
  BY WritersJob
<1>2. ASSUME NEW u \in UserIds, CreateUser(r, u)
      PROVE  DirectoryTypeOK'
  BY <1>1, <1>2, InsertAuditType DEF CreateUser, Commit, InsertUser, DirectoryTypeOK
<1>3. CASE UpdateUser(r)
  BY <1>1, <1>3, JobFields, InsertAuditType
     DEF UpdateUser, Committing, Commit, SetActive, DirectoryTypeOK
<1>4. CASE DeleteUser(r)
  BY <1>1, <1>4, JobFields, InsertAuditType, DeleteMembersType
     DEF DeleteUser, Committing, DropUser, DirectoryTypeOK
<1>5. ASSUME NEW t \in TenantIds, CreateTenant(r, t)
      PROVE  DirectoryTypeOK'
  BY <1>1, <1>5, InsertAuditType DEF CreateTenant, Commit, DirectoryTypeOK
<1>6. CASE DeleteTenant(r)
  BY <1>1, <1>6, InsertAuditType, DeleteMembersType
     DEF DeleteTenant, Commit, DropTenant, DirectoryTypeOK
<1>7. ASSUME NEW ro \in RoleIds, CreateRole(r, ro)
      PROVE  DirectoryTypeOK'
  BY <1>1, <1>7, JobFields, InsertAuditType
     DEF CreateRole, Committing, Commit, InsertRole, DirectoryTypeOK
<1>8. CASE UpdateRole(r)
  BY <1>1, <1>8, JobFields, InsertAuditType
     DEF UpdateRole, Committing, Commit, SetRoleName, DirectoryTypeOK
<1>9. CASE DeleteRole(r)
  BY <1>1, <1>9, InsertAuditType, DeleteMembersType
     DEF DeleteRole, Commit, DropRole, DirectoryTypeOK
<1>10. ASSUME NEW m \in MembershipIds, CreateMembership(r, m)
       PROVE  DirectoryTypeOK'
  BY <1>1, <1>10, JobFields, InsertAuditType
     DEF CreateMembership, Committing, Commit, InsertMember, DirectoryTypeOK
<1>11. CASE DeleteMembership(r)
  BY <1>1, <1>11, InsertAuditType
     DEF DeleteMembership, Commit, DropMember, DirectoryTypeOK
<1>12. CASE CommitElsewhere(r) \/ IngestTraffic(r)
  BY <1>1, <1>12, InsertAuditType DEF CommitElsewhere, IngestTraffic, Commit, tables, DirectoryTypeOK
<1>13. QED
  BY <1>2, <1>3, <1>4, <1>5, <1>6, <1>7, <1>8, <1>9, <1>10, <1>11, <1>12 DEF Writing

-----------------------------------------------------------------------------
(* Referential integrity: a step that removes no row members or audit      *)
(* refer to keeps it, and each cascade removes the references first.       *)
LEMMA MembersAnchoredKept ==
    ASSUME DirectoryTypeOK, MembersAnchored,
           \A u \in UserIds : users[u] # "absent" => users'[u] # "absent",
           tenants \subseteq tenants',
           \A ro \in RoleIds : roles[ro] # Null => roles'[ro] # Null,
           \A m \in MembershipIds : members'[m] \in {members[m], Null}
    PROVE  MembersAnchored'
BY DEF DirectoryTypeOK, Links, MembersAnchored, Anchored, UserExists

LEMMA AuditAnchoredKept ==
    ASSUME DirectoryTypeOK, AuditAnchored, NEW a \in UserIds, InsertAudit(a),
           \A u \in UserIds : users[u] # "absent" => users'[u] # "absent"
    PROVE  AuditAnchored'
BY DEF DirectoryTypeOK, AuditAnchored, InsertAudit, UserExists

LEMMA WritingIntegrity ==
    ASSUME DirectoryTypeOK, RequestTypeOK, RequestsConsistent, MembersAnchored, AuditAnchored,
           NEW r \in Requests, Writing(r)
    PROVE  MembersAnchored' /\ AuditAnchored'
<1>1. /\ actor[r] \in UserIds
      /\ job[r] \in Jobs
      /\ pc[r] = "flushed" => job[r].op = "deleteRole"
  BY WritersJob
<1>2. ASSUME NEW u \in UserIds, CreateUser(r, u)
      PROVE  MembersAnchored' /\ AuditAnchored'
  BY <1>1, <1>2, MembersAnchoredKept, AuditAnchoredKept
     DEF CreateUser, Commit, InsertUser, DirectoryTypeOK
<1>3. CASE UpdateUser(r)
  BY <1>1, <1>3, JobFields, MembersAnchoredKept, AuditAnchoredKept
     DEF UpdateUser, Committing, Commit, SetActive, DirectoryTypeOK
<1>4. CASE DeleteUser(r)
  <2>1. job[r].user \in UserIds /\ DropUser(job[r].user) /\ InsertAuditAndForget(actor[r], job[r].user)
    BY <1>1, <1>4, JobFields DEF DeleteUser, Committing
  <2>2. MembersAnchored'
    BY <1>4, <2>1 DEF DeleteUser, DropUser, DeleteMembers, MembersOfUser, MembersAnchored,
       DirectoryTypeOK, Anchored, UserExists, Links
  <2>3. AuditAnchored'
    BY <1>1, <2>1, NullIsNoUser
       DEF DropUser, InsertAuditAndForget, AuditAnchored, DirectoryTypeOK, UserExists
  <2>4. QED
    BY <2>2, <2>3
<1>5. ASSUME NEW t \in TenantIds, CreateTenant(r, t)
      PROVE  MembersAnchored' /\ AuditAnchored'
  BY <1>1, <1>5, MembersAnchoredKept, AuditAnchoredKept
     DEF CreateTenant, Commit, DirectoryTypeOK
<1>6. CASE DeleteTenant(r)
  <2>1. MembersAnchored'
    BY <1>6 DEF DeleteTenant, DropTenant, DeleteMembers, MembersOfTenant, MembersAnchored,
       DirectoryTypeOK, Anchored, UserExists, Links
  <2>2. AuditAnchored'
    BY <1>1, <1>6, AuditAnchoredKept DEF DeleteTenant, Commit
  <2>3. QED
    BY <2>1, <2>2
<1>7. ASSUME NEW ro \in RoleIds, CreateRole(r, ro)
      PROVE  MembersAnchored' /\ AuditAnchored'
  BY <1>1, <1>7, JobFields, NullIsNoName, MembersAnchoredKept, AuditAnchoredKept
     DEF CreateRole, Committing, Commit, InsertRole, DirectoryTypeOK
<1>8. CASE UpdateRole(r)
  BY <1>1, <1>8, JobFields, NullIsNoName, MembersAnchoredKept, AuditAnchoredKept
     DEF UpdateRole, Committing, Commit, SetRoleName, DirectoryTypeOK
<1>9. CASE DeleteRole(r)
  <2>1. MembersAnchored'
    BY <1>9 DEF DeleteRole, DropRole, DeleteMembers, MembersOfRole, MembersAnchored,
       DirectoryTypeOK, Anchored, UserExists, Links
  <2>2. AuditAnchored'
    BY <1>1, <1>9, AuditAnchoredKept DEF DeleteRole, Commit
  <2>3. QED
    BY <2>1, <2>2
<1>10. ASSUME NEW m \in MembershipIds, CreateMembership(r, m)
       PROVE  MembersAnchored' /\ AuditAnchored'
  <2>1. MembersAnchored'
    BY <1>10 DEF CreateMembership, InsertMember, MembersAnchored, DirectoryTypeOK,
       Anchored, UserExists
  <2>2. AuditAnchored'
    BY <1>1, <1>10, AuditAnchoredKept DEF CreateMembership, Commit
  <2>3. QED
    BY <2>1, <2>2
<1>11. CASE DeleteMembership(r)
  BY <1>1, <1>11, MembersAnchoredKept, AuditAnchoredKept
     DEF DeleteMembership, Commit, DropMember, DirectoryTypeOK
<1>12. CASE CommitElsewhere(r) \/ IngestTraffic(r)
  BY <1>1, <1>12, MembersAnchoredKept, AuditAnchoredKept
     DEF CommitElsewhere, IngestTraffic, Commit, tables, DirectoryTypeOK
<1>13. QED
  BY <1>2, <1>3, <1>4, <1>5, <1>6, <1>7, <1>8, <1>9, <1>10, <1>11, <1>12 DEF Writing

LEMMA LinksUniqueKept ==
    ASSUME LinksUnique, \A m \in MembershipIds : members'[m] \in {members[m], Null}
    PROVE  LinksUnique'
BY DEF LinksUnique

LEMMA DeleteMembersUnique ==
    ASSUME LinksUnique, NEW gone, DeleteMembers(gone)
    PROVE  LinksUnique'
BY LinksUniqueKept DEF DeleteMembers

LEMMA NamesUniqueKept ==
    ASSUME NamesUnique, UNCHANGED roles
    PROVE  NamesUnique'
BY DEF NamesUnique

LEMMA WritingUnique ==
    ASSUME DirectoryTypeOK, RequestTypeOK, RequestsConsistent, NamesUnique, LinksUnique,
           NEW r \in Requests, Writing(r)
    PROVE  NamesUnique' /\ LinksUnique'
<1>1. /\ job[r] \in Jobs
      /\ pc[r] = "flushed" => job[r].op = "deleteRole"
  BY WritersJob
<1>2. ASSUME UNCHANGED <<roles, members>>
      PROVE  NamesUnique' /\ LinksUnique'
  BY <1>2 DEF NamesUnique, LinksUnique
<1>3. ASSUME NEW u \in UserIds, CreateUser(r, u)
      PROVE  NamesUnique' /\ LinksUnique'
  BY <1>2, <1>3 DEF CreateUser
<1>4. CASE UpdateUser(r)
  BY <1>2, <1>4 DEF UpdateUser
<1>5. CASE DeleteUser(r)
  BY <1>5, DeleteMembersUnique, NamesUniqueKept DEF DeleteUser, DropUser
<1>6. ASSUME NEW t \in TenantIds, CreateTenant(r, t)
      PROVE  NamesUnique' /\ LinksUnique'
  BY <1>2, <1>6 DEF CreateTenant
<1>7. CASE DeleteTenant(r)
  BY <1>7, DeleteMembersUnique, NamesUniqueKept DEF DeleteTenant, DropTenant
<1>8. ASSUME NEW ro \in RoleIds, CreateRole(r, ro)
      PROVE  NamesUnique' /\ LinksUnique'
  BY <1>8, LinksUniqueKept DEF CreateRole, InsertRole, NameTaken, DirectoryTypeOK, NamesUnique
<1>9. CASE UpdateRole(r)
  <2>1. job[r].role \in RoleIds
    BY <1>1, <1>9, JobFields DEF UpdateRole, Committing
  <2>2. QED
    BY <1>9, <2>1, LinksUniqueKept DEF UpdateRole, SetRoleName, DirectoryTypeOK, NamesUnique
<1>10. CASE DeleteRole(r)
  BY <1>10, DeleteMembersUnique DEF DeleteRole, DropRole, DirectoryTypeOK, NamesUnique
<1>11. ASSUME NEW m \in MembershipIds, CreateMembership(r, m)
       PROVE  NamesUnique' /\ LinksUnique'
  BY <1>11, NamesUniqueKept
     DEF CreateMembership, InsertMember, LinkTaken, DirectoryTypeOK, LinksUnique
<1>12. CASE DeleteMembership(r)
  BY <1>12, LinksUniqueKept, NamesUniqueKept DEF DeleteMembership, DropMember, DirectoryTypeOK
<1>13. CASE CommitElsewhere(r) \/ IngestTraffic(r)
  BY <1>2, <1>13 DEF CommitElsewhere, IngestTraffic, tables
<1>14. QED
  BY <1>3, <1>4, <1>5, <1>6, <1>7, <1>8, <1>9, <1>10, <1>11, <1>12, <1>13 DEF Writing

-----------------------------------------------------------------------------
(* The gate *)

(* Why the gate is sound: bypassing needs a count that found the bootstrap *)
(* at that instant, and noRoles remembers that one of them did.            *)
GateInv ==
    \A r \in Requests : pc[r] \in Admitted \/ noRoles[r] => entitled[r]

LEMMA HistoryIsKept ==
    ASSUME Observe, NEW r \in Requests, pc'[r] \notin Free, entitled[r] \/ Entitled(actor[r])'
    PROVE  entitled'[r]
BY DEF Observe

LEMMA OthersUntouched ==
    ASSUME RequestTypeOK, NEW r \in Requests, NEW q \in Requests \ {r},
           Gate(r) \/ Loading(r) \/ Writing(r)
    PROVE  pc'[q] = pc[q] /\ noRoles'[q] = noRoles[q] /\ actor'[q] = actor[q]
<1>1. CASE Gate(r)
  BY <1>1 DEF Gate, GetCurrentUser, CountRoles, CountMemberships, QueryAdminRole, Abandon,
     Release, Goto, RequestTypeOK
<1>2. CASE Loading(r)
  BY <1>2, LoadingLoads DEF Load, FlushDeleteRole, Goto, RequestTypeOK
<1>3. CASE Writing(r)
  BY <1>3, WritingReleases DEF Release, Goto, RequestTypeOK
<1>4. QED
  BY <1>1, <1>2, <1>3

LEMMA GateStep ==
    ASSUME TypeOK, RequestsConsistent, GateInv, Next
    PROVE  GateInv'
<1> USE DEF TypeOK
<1>1. Observe
  BY DEF Next
<1>2. SUFFICES ASSUME NEW q \in Requests, pc'[q] \in Admitted \/ noRoles'[q]
               PROVE  entitled'[q]
  BY DEF GateInv
<1>3. RequestsConsistent' /\ RequestTypeOK'
  BY RequestsConsistentStep, RequestTypeStep
<1>4. pc'[q] \notin Free
  BY <1>2, <1>3 DEF RequestsConsistent, Admitted, Free
<1>5. ASSUME pc[q] \in Admitted \/ noRoles[q]
      PROVE  entitled'[q]
  BY <1>1, <1>4, <1>5, HistoryIsKept DEF GateInv
<1>6. ASSUME pc'[q] = pc[q], noRoles'[q] = noRoles[q]
      PROVE  entitled'[q]
  BY <1>2, <1>5, <1>6
<1>7. ASSUME NEW u \in UserIds, Register(u)
      PROVE  entitled'[q]
  BY <1>6, <1>7 DEF Register
<1>8. ASSUME NEW r \in Requests, Gate(r) \/ Loading(r) \/ Writing(r), r # q
      PROVE  entitled'[q]
  BY <1>6, <1>8, OthersUntouched
<1>9. ASSUME Gate(q)
      PROVE  entitled'[q]
  <2>1. ASSUME NEW u \in UserIds, GetCurrentUser(q, u)
        PROVE  entitled'[q]
    BY <1>2, <1>5, <2>1 DEF GetCurrentUser, Release, Goto, RequestTypeOK, Admitted
  <2>2. CASE CountRoles(q)
    <3>1. NoRoles
      BY <1>2, <2>2 DEF CountRoles, Goto, RequestTypeOK, Admitted
    <3>2. Entitled(actor[q])'
      BY <2>2, <3>1 DEF CountRoles, tables, Entitled, Bootstrap, NoRoles
    <3>3. QED
      BY <1>1, <1>4, <3>2, HistoryIsKept
  <2>3. CASE CountMemberships(q)
    <3>1. CASE noRoles[q]
      BY <1>5, <3>1
    <3>2. CASE NoMembers
      <4>1. Entitled(actor[q])'
        BY <2>3, <3>2 DEF CountMemberships, tables, Entitled, Bootstrap, NoMembers
      <4>2. QED
        BY <1>1, <1>4, <4>1, HistoryIsKept
    <3>3. QED
      BY <1>2, <2>3, <3>1, <3>2 DEF CountMemberships, Goto, RequestTypeOK, Admitted
  <2>4. CASE QueryAdminRole(q)
    <3>1. SoleAdminRow(actor[q]) /\ UNCHANGED <<tables, actor>>
      BY <1>4, <2>4 DEF QueryAdminRole, Release, Goto, RequestTypeOK, Free
    <3>2. Entitled(actor[q])'
      BY <3>1 DEF SoleAdminRow, Entitled, AdminRows, MembersOfUser, tables
    <3>3. QED
      BY <1>1, <1>4, <3>2, HistoryIsKept
  <2>5. CASE Abandon(q)
    BY <1>4, <2>5 DEF Abandon, Release, Goto, RequestTypeOK, Free
  <2>6. QED
    BY <1>9, <2>1, <2>2, <2>3, <2>4, <2>5 DEF Gate
<1>10. ASSUME Loading(q)
       PROVE  entitled'[q]
  <2>1. pc[q] \in Admitted
    BY <1>10, LoadingLoads DEF Load, FlushDeleteRole, Committing, Admitted
  <2>2. QED
    BY <1>5, <2>1
<1>11. ~ Writing(q)
  BY <1>4, WritingReleases DEF Release, Goto, RequestTypeOK, Free
<1>12. QED
  BY <1>7, <1>8, <1>9, <1>10, <1>11 DEF Next

-----------------------------------------------------------------------------
(* The inductive invariant and what follows from it *)

IInv ==
    /\ TypeOK
    /\ RequestsConsistent
    /\ ReferentialIntegrity
    /\ RowsAreUnique
    /\ GateInv

LEMMA IInvInit == Init => IInv
BY DEF Init, DirectoryInit, IInv, TypeOK, DirectoryTypeOK, RequestTypeOK, Jobs, Free,
   RequestsConsistent, ReferentialIntegrity, MembersAnchored, AuditAnchored,
   RowsAreUnique, NamesUnique, LinksUnique, GateInv, Admitted

(* A registration adds a user; nothing refers to its row yet. *)
LEMMA RegisterKeepsTables ==
    ASSUME DirectoryTypeOK, ReferentialIntegrity, RowsAreUnique, NEW u \in UserIds, Register(u)
    PROVE  DirectoryTypeOK' /\ ReferentialIntegrity' /\ RowsAreUnique'
<1>1. DirectoryTypeOK'
  BY DEF Register, InsertUser, DirectoryTypeOK
<1>2. ReferentialIntegrity'
  <2>1. MembersAnchored'
    BY MembersAnchoredKept DEF Register, InsertUser, DirectoryTypeOK, ReferentialIntegrity
  <2>2. AuditAnchored'
    BY DEF Register, InsertUser, DirectoryTypeOK, ReferentialIntegrity, AuditAnchored, UserExists
  <2>3. QED
    BY <2>1, <2>2 DEF ReferentialIntegrity
<1>3. RowsAreUnique'
  BY DEF Register, RowsAreUnique, NamesUnique, LinksUnique
<1>4. QED
  BY <1>1, <1>2, <1>3

LEMMA UnchangedKeepsTables ==
    ASSUME DirectoryTypeOK, ReferentialIntegrity, RowsAreUnique, UNCHANGED <<tables, audit>>
    PROVE  DirectoryTypeOK' /\ ReferentialIntegrity' /\ RowsAreUnique'
BY DEF tables, DirectoryTypeOK, ReferentialIntegrity, RowsAreUnique, MembersAnchored,
   AuditAnchored, NamesUnique, LinksUnique, Anchored, UserExists

LEMMA IInvStep == IInv /\ [Next]_vars => IInv'
<1>1. ASSUME IInv, UNCHANGED vars
      PROVE  IInv'
  BY <1>1, UnchangedKeepsTables
     DEF vars, tables, IInv, TypeOK, RequestTypeOK, RequestsConsistent, GateInv
<1>2. ASSUME IInv, Next
      PROVE  IInv'
  <2>1. DirectoryTypeOK' /\ ReferentialIntegrity' /\ RowsAreUnique'
    <3>1. ASSUME NEW u \in UserIds, Register(u)
          PROVE  DirectoryTypeOK' /\ ReferentialIntegrity' /\ RowsAreUnique'
      BY <1>2, <3>1, RegisterKeepsTables DEF IInv, TypeOK
    <3>2. ASSUME NEW r \in Requests, Writing(r)
          PROVE  DirectoryTypeOK' /\ ReferentialIntegrity' /\ RowsAreUnique'
      BY <1>2, <3>2, WritingType, WritingIntegrity, WritingUnique
         DEF IInv, TypeOK, ReferentialIntegrity, RowsAreUnique
    <3>3. CASE UNCHANGED <<tables, audit>>
      BY <1>2, <3>3, UnchangedKeepsTables DEF IInv, TypeOK
    <3>4. QED
      BY <1>2, <3>1, <3>2, <3>3, OnlyWritesChange
  <2>2. RequestTypeOK' /\ RequestsConsistent'
    BY <1>2, RequestTypeStep, RequestsConsistentStep DEF IInv, TypeOK
  <2>3. GateInv'
    BY <1>2, GateStep DEF IInv
  <2>4. (entitled \in [Requests -> BOOLEAN])'
    BY <1>2 DEF Next, Observe
  <2>5. QED
    BY <2>1, <2>2, <2>3, <2>4 DEF IInv, TypeOK
<1>3. QED
  BY <1>1, <1>2

(* The inductive invariant holds in every reachable state. *)
THEOREM Invariance == Spec => []IInv
BY IInvInit, IInvStep, PTL DEF Spec

(* Tables, requests and history keep their types whatever requests         *)
(* interleave: no commit of models.py's rows produces an untyped row.      *)
THEOREM TypeCorrect == Spec => []TypeOK
<1>1. IInv => TypeOK
  BY DEF IInv
<1>2. QED
  BY <1>1, Invariance, PTL

(* No membership and no audit row dangles (models.py's foreign keys and    *)
(* their cascades), for any pools and any number of requests.              *)
THEOREM IntegrityHolds == Spec => []ReferentialIntegrity
<1>1. IInv => ReferentialIntegrity
  BY DEF IInv
<1>2. QED
  BY <1>1, Invariance, PTL

(* Role names and membership triples stay unique under racing requests.    *)
THEOREM UniquenessHolds == Spec => []RowsAreUnique
<1>1. IInv => RowsAreUnique
  BY DEF IInv
<1>2. QED
  BY <1>1, Invariance, PTL

(* require_admin lets nobody in who was not entitled while it ran.         *)
THEOREM GateSound == Spec => []AdmittedWereEntitled
<1>1. IInv => AdmittedWereEntitled
  BY DEF IInv, GateInv, AdmittedWereEntitled
<1>2. QED
  BY <1>1, Invariance, PTL

-----------------------------------------------------------------------------
(* Action properties *)

(* What a step that changes the directory looks like. *)
AuthorisedWrite ==
    \/ /\ UNCHANGED <<tenants, roles, members, audit, pc>>
       /\ \A u \in UserIds : users'[u] # users[u] => ~ UserExists(u)
    \/ \E r \in Requests :
          /\ pc[r] \in Admitted /\ pc'[r] = "idle"
          /\ entitled[r]
          /\ UserExists(actor[r])
          /\ (IF users'[actor[r]] = "absent" THEN Null ELSE actor[r]) \in audit'

(* Only the deletion of a user touches earlier audit rows. *)
LEMMA OthersInsertAudit ==
    ASSUME NEW r \in Requests, Writing(r), ~ DeleteUser(r)
    PROVE  InsertAudit(actor[r])
BY DEF Writing, CreateUser, UpdateUser, CreateTenant, DeleteTenant, CreateRole, UpdateRole,
   DeleteRole, CreateMembership, DeleteMembership, CommitElsewhere, IngestTraffic, Commit

(* A commit leaves its actor in the audit log, or Null if that was deleted. *)
LEMMA WritingLeavesAudit ==
    ASSUME DirectoryTypeOK, RequestTypeOK, RequestsConsistent, NEW r \in Requests, Writing(r)
    PROVE  (IF users'[actor[r]] = "absent" THEN Null ELSE actor[r]) \in audit'
<1>1. actor[r] \in UserIds /\ job[r] \in Jobs
  BY WritersJob
<1>2. CASE DeleteUser(r)
  <2>1. job[r].user \in UserIds
    BY <1>1, <1>2, JobFields DEF DeleteUser, Committing
  <2>2. QED
    BY <1>1, <1>2, <2>1 DEF DeleteUser, DropUser, InsertAuditAndForget, DirectoryTypeOK, UserExists
<1>3. ASSUME InsertAudit(actor[r]), users'[actor[r]] # "absent"
      PROVE  actor[r] \in audit'
  BY <1>3 DEF InsertAudit
<1>4. ASSUME ~ DeleteUser(r)
      PROVE  InsertAudit(actor[r]) /\ users'[actor[r]] # "absent"
  <2>1. InsertAudit(actor[r])
    BY <1>4, OthersInsertAudit
  <2>2. ASSUME NEW u \in UserIds, CreateUser(r, u)
        PROVE  users'[actor[r]] # "absent"
    BY <1>1, <2>1, <2>2 DEF CreateUser, InsertUser, InsertAudit, UserExists, DirectoryTypeOK
  <2>3. CASE UpdateUser(r)
    BY <1>1, <2>1, <2>3, JobFields
       DEF UpdateUser, Committing, SetActive, InsertAudit, UserExists, DirectoryTypeOK
  <2>4. CASE UNCHANGED users
    BY <2>1, <2>4 DEF InsertAudit, UserExists
  <2>5. QED
    BY <1>4, <2>1, <2>2, <2>3, <2>4 DEF Writing, CreateTenant, DeleteTenant, CreateRole,
       UpdateRole, DeleteRole, CreateMembership, DeleteMembership, CommitElsewhere, IngestTraffic, tables
<1>5. QED
  BY <1>2, <1>3, <1>4

(* Every change of the directory is a registration or the commit of an     *)
(* entitled request whose actor is on record for it.                       *)
THEOREM WritesAuthorised == Spec => WritesAreAuthorised
<1>1. IInv /\ [Next]_vars => [tables' # tables => AuthorisedWrite]_vars
  <2>1. SUFFICES ASSUME IInv, Next, tables' # tables
                 PROVE  AuthorisedWrite
    OBVIOUS
  <2>2. ASSUME NEW u \in UserIds, Register(u)
        PROVE  AuthorisedWrite
    BY <2>1, <2>2 DEF AuthorisedWrite, Register, InsertUser, IInv, TypeOK, DirectoryTypeOK
  <2>3. ASSUME NEW r \in Requests, Writing(r)
        PROVE  AuthorisedWrite
    <3>1. pc[r] \in Admitted /\ pc'[r] = "idle" /\ UserExists(actor[r])
      BY <2>1, <2>3, WritingReleases DEF Release, Goto, IInv, TypeOK, RequestTypeOK
    <3>2. entitled[r]
      BY <2>1, <3>1 DEF IInv, GateInv
    <3>3. (IF users'[actor[r]] = "absent" THEN Null ELSE actor[r]) \in audit'
      BY <2>1, <2>3, WritingLeavesAudit DEF IInv, TypeOK
    <3>4. QED
      BY <3>1, <3>2, <3>3 DEF AuthorisedWrite
  <2>4. QED
    BY <2>1, <2>2, <2>3, OnlyWritesChange
<1>2. QED
  BY <1>1, Invariance, PTL DEF Spec, WritesAreAuthorised, AuthorisedWrite

LEMMA SoleAdminRowKept ==
    ASSUME UNCHANGED <<roles, members>>, NEW u
    PROVE  SoleAdminRow(u)' <=> SoleAdminRow(u)
BY DEF SoleAdminRow, AdminRows, MembersOfUser

(* One step from a locked-out state leads to a locked-out state. *)
LEMMA LockoutStep ==
    ASSUME IInv, Next, LockedOut
    PROVE  LockedOut'
<1>1. RequestTypeOK /\ DirectoryTypeOK /\ MembersAnchored
  BY DEF IInv, TypeOK, ReferentialIntegrity
<1>2. ASSUME NEW r \in Requests
      PROVE  /\ ~ Loading(r)
             /\ Writing(r) => Release(r, "idle") /\ UNCHANGED tables
             /\ pc[r] \notin Admitted /\ noRoles[r] = FALSE
             /\ pc[r] \in Checking => ~ SoleAdminRow(actor[r])
  BY <1>1, <1>2, LoadingLoads, WritingReleases
     DEF LockedOut, MayPass, Load, FlushDeleteRole, Committing, Admitted, RequestTypeOK
<1>3. ~ NoRoles
  BY <1>1 DEF LockedOut, NoMembers, NoRoles, MembersAnchored, Anchored, DirectoryTypeOK, Links
<1>4. UNCHANGED <<tenants, roles, members>>
  BY <1>2, GateIsQuiet DEF Next, Register, tables
<1>5. ~ NoMembers'
  BY <1>4 DEF LockedOut, NoMembers
<1>6. ASSUME NEW u \in UserIds, users'[u] = "active"
      PROVE  ~ SoleAdminRow(u)'
  <2>1. CASE users[u] = "active"
    BY <1>4, <2>1, SoleAdminRowKept DEF LockedOut
  <2>2. CASE users[u] # "active"
    <3>1. PICK v \in UserIds : Register(v)
      BY <1>2, <1>6, <2>2, GateIsQuiet DEF Next, tables
    <3>2. ~ UserExists(u)
      BY <1>1, <1>6, <2>2, <3>1 DEF Register, InsertUser, DirectoryTypeOK
    <3>3. AdminRows(u) = {}
      BY <1>1, <3>2 DEF AdminRows, MembersOfUser, MembersAnchored, Anchored
    <3>4. QED
      BY <1>4, <3>3, SoleAdminRowKept DEF SoleAdminRow
  <2>3. QED
    BY <2>1, <2>2
<1>7. ASSUME NEW q \in Requests
      PROVE  ~ MayPass(q)'
  <2>1. ASSUME pc'[q] = pc[q], actor'[q] = actor[q], noRoles'[q] = noRoles[q]
        PROVE  ~ MayPass(q)'
    BY <1>2, <1>4, <2>1, SoleAdminRowKept DEF MayPass
  <2>2. ASSUME NEW u \in UserIds, Register(u)
        PROVE  ~ MayPass(q)'
    BY <2>1, <2>2 DEF Register
  <2>3. ASSUME NEW r \in Requests, Gate(r), r # q
        PROVE  ~ MayPass(q)'
    BY <1>1, <2>1, <2>3, OthersUntouched
  <2>4. ASSUME NEW p \in Free, Release(q, p)
        PROVE  ~ MayPass(q)'
    BY <1>1, <2>4 DEF Release, Goto, RequestTypeOK, MayPass, Free, Checking, Admitted
  <2>5. CASE Gate(q)
    <3>1. ASSUME NEW u \in UserIds, GetCurrentUser(q, u), users[u] = "active"
          PROVE  ~ MayPass(q)'
      <4>1. ~ SoleAdminRow(u)'
        BY <1>4, <3>1, SoleAdminRowKept DEF LockedOut
      <4>2. pc'[q] = "identified" /\ actor'[q] = u /\ noRoles'[q] = FALSE
        BY <1>1, <1>2, <3>1 DEF GetCurrentUser, Goto, RequestTypeOK
      <4>3. QED
        BY <4>1, <4>2 DEF MayPass, Admitted
    <3>2. ASSUME NEW u \in UserIds, GetCurrentUser(q, u), users[u] # "active"
          PROVE  ~ MayPass(q)'
      BY <2>4, <3>2 DEF GetCurrentUser, Free
    <3>3. CASE CountRoles(q)
      <4>1. pc'[q] = "counted" /\ actor'[q] = actor[q] /\ noRoles'[q] = FALSE
        BY <1>1, <1>3, <3>3 DEF CountRoles, Goto, RequestTypeOK
      <4>2. ~ SoleAdminRow(actor[q])
        BY <1>2, <3>3 DEF CountRoles, Checking
      <4>3. QED
        BY <1>4, <4>1, <4>2, SoleAdminRowKept DEF MayPass, Admitted
    <3>4. CASE CountMemberships(q)
      <4>1. pc'[q] = "needsAdmin" /\ actor'[q] = actor[q] /\ noRoles'[q] = FALSE
        BY <1>1, <1>2, <3>4 DEF CountMemberships, Goto, RequestTypeOK, LockedOut
      <4>2. ~ SoleAdminRow(actor[q])
        BY <1>2, <3>4 DEF CountMemberships, Checking
      <4>3. QED
        BY <1>4, <4>1, <4>2, SoleAdminRowKept DEF MayPass, Admitted
    <3>5. CASE QueryAdminRole(q)
      BY <1>2, <2>4, <3>5 DEF QueryAdminRole, Checking, Free
    <3>6. CASE Abandon(q)
      BY <2>4, <3>6 DEF Abandon, Free
    <3>7. QED
      BY <2>5, <3>1, <3>2, <3>3, <3>4, <3>5, <3>6 DEF Gate
  <2>6. ASSUME NEW r \in Requests, Writing(r)
        PROVE  ~ MayPass(q)'
    BY <1>1, <1>2, <2>1, <2>4, <2>6, OthersUntouched DEF Free
  <2>7. QED
    BY <1>2, <2>2, <2>3, <2>5, <2>6 DEF Next
<1>8. QED
  BY <1>5, <1>6, <1>7 DEF LockedOut

(* Nobody passes the gate again once memberships exist, no active user     *)
(* holds exactly one admin membership and no request in flight may pass.   *)
THEOREM LockoutPermanent == Spec => LockoutIsPermanent
<1>1. IInv /\ [Next]_vars => [LockedOut => LockedOut']_vars
  BY LockoutStep
<1>2. QED
  BY <1>1, Invariance, PTL DEF Spec, LockoutIsPermanent

-----------------------------------------------------------------------------
(* What a step takes from the audit log *)
Forgotten == \A x \in audit \ audit' : UserExists(x) /\ users'[x] = "absent" /\ Null \in audit'

(* An actor's name leaves the audit log only with the actor's row, and a   *)
(* row without a name stays: for any number of requests that commit and    *)
(* delete each other's actors.                                             *)
THEOREM AuditForgets == Spec => AuditForgetsTheDeleted
<1>1. ASSUME IInv, NEW r \in Requests, DeleteUser(r)
      PROVE  Forgotten
  <2>1. job[r] \in Jobs /\ DirectoryTypeOK /\ AuditAnchored
    BY <1>1 DEF IInv, TypeOK, RequestTypeOK, ReferentialIntegrity
  <2>2. job[r].user \in UserIds
    BY <1>1, <2>1, JobFields DEF DeleteUser, Committing
  <2>3. audit' = {IF x = job[r].user THEN Null ELSE x : x \in audit \cup {actor[r]}}
    BY <1>1 DEF DeleteUser, InsertAuditAndForget
  <2>4. users'[job[r].user] = "absent"
    BY <1>1, <2>1, <2>2 DEF DeleteUser, DropUser, DirectoryTypeOK
  <2>5. \A x \in audit \ audit' : x = job[r].user /\ Null \in audit'
    BY <2>3
  <2>6. QED
    BY <2>1, <2>2, <2>4, <2>5, NullIsNoUser DEF Forgotten, AuditAnchored
<1>2. IInv /\ [Next]_vars
        => [\A x \in audit \ audit' : UserExists(x) /\ users'[x] = "absent" /\ Null \in audit']_vars
  <2>1. SUFFICES ASSUME IInv, Next
                 PROVE  Forgotten
    BY DEF Forgotten
  <2>2. ASSUME NEW r \in Requests, Writing(r)
        PROVE  Forgotten
    <3>1. CASE DeleteUser(r)
      BY <1>1, <2>1, <3>1
    <3>2. CASE ~ DeleteUser(r)
      BY <2>2, <3>2, OthersInsertAudit DEF InsertAudit, Forgotten
    <3>3. QED
      BY <3>1, <3>2
  <2>3. CASE UNCHANGED audit
    BY <2>3 DEF Forgotten
  <2>4. QED
    BY <2>1, <2>2, <2>3, OnlyWritesChange DEF Register
<1>3. QED
  BY <1>2, Invariance, PTL DEF Spec, AuditForgetsTheDeleted

(* What the notes say of the audit log holds as long as no user is         *)
(* deleted: nothing but ON DELETE SET NULL takes a name from it.           *)
THEOREM AppendOnlyWhileUsersStay ==
    Spec /\ [][\A u \in UserIds : UserExists(u) => users'[u] # "absent"]_vars
        => AuditIsAppendOnly
<1> DEFINE Stay == \A u \in UserIds : UserExists(u) => users'[u] # "absent"
           Forget == \A x \in audit \ audit' :
                        UserExists(x) /\ users'[x] = "absent" /\ Null \in audit'
<1>1. IInv /\ [Stay]_vars /\ [Forget]_vars => [audit \subseteq audit']_vars
  <2>1. SUFFICES ASSUME IInv, Stay, Forget, NEW x \in audit, x \notin audit'
                 PROVE  FALSE
    OBVIOUS
  <2>2. UserExists(x) /\ users'[x] = "absent" /\ x # Null
    BY <2>1
  <2>3. x \in UserIds
    BY <2>1, <2>2 DEF IInv, TypeOK, DirectoryTypeOK
  <2>4. QED
    BY <2>1, <2>2, <2>3
<1>2. QED
  BY <1>1, AuditForgets, Invariance, PTL DEF Spec, AuditForgetsTheDeleted, AuditIsAppendOnly

-----------------------------------------------------------------------------
(* Admission: AdminsAreAdmitted is not true of the code, and this is why. *)

(* Nobody is an admin in two tenants. *)
OneAdminRowEach == \A u \in UserIds : \A m, n \in AdminRows(u) : m = n

(* Only its own last query turns a request away that waits for it. *)
LEMMA DeniedByQuery ==
    ASSUME RequestTypeOK, Next, NEW r \in Requests, pc[r] = "needsAdmin", pc'[r] = "denied"
    PROVE  ~ SoleAdminRow(actor[r])
<1>1. ASSUME NEW q \in Requests, q # r, Gate(q) \/ Loading(q) \/ Writing(q)
      PROVE  pc'[r] = pc[r]
  BY <1>1, OthersUntouched
<1>2. ASSUME NEW u \in UserIds, Register(u)
      PROVE  pc'[r] = pc[r]
  BY <1>2 DEF Register
<1>3. CASE Gate(r)
  <2>1. CASE QueryAdminRole(r)
    BY <2>1 DEF QueryAdminRole, Goto, RequestTypeOK
  <2>2. CASE Abandon(r)
    BY <2>2 DEF Abandon, Release, Goto, RequestTypeOK
  <2>3. QED
    BY <1>3, <2>1, <2>2 DEF Gate, GetCurrentUser, CountRoles, CountMemberships, Free
<1>4. CASE Loading(r)
  BY <1>4, LoadingLoads DEF Load, FlushDeleteRole, Committing
<1>5. CASE Writing(r)
  BY <1>5, WritingReleases DEF Admitted
<1>6. QED
  BY <1>1, <1>2, <1>3, <1>4, <1>5 DEF Next

(* As long as nobody is an admin in two tenants, the gate's last query     *)
(* turns away only users with no admin membership at all: the second       *)
(* membership is the one thing that locks an admin out there.              *)
THEOREM AdminsAdmittedWhileInOneTenant ==
    Spec /\ []OneAdminRowEach => AdminsAreAdmitted
<1> DEFINE Admits == \A r \in Requests :
                        pc[r] = "needsAdmin" /\ pc'[r] = "denied" => AdminRows(actor[r]) = {}
<1>1. IInv /\ OneAdminRowEach /\ [Next]_vars => [Admits]_vars
  <2>1. SUFFICES ASSUME IInv, OneAdminRowEach, Next,
                        NEW r \in Requests, pc[r] = "needsAdmin", pc'[r] = "denied",
                        NEW m \in AdminRows(actor[r])
                 PROVE  FALSE
    OBVIOUS
  <2>2. actor[r] \in UserIds
    BY <2>1 DEF IInv, RequestsConsistent, Checking, Free
  <2>3. m \in MembershipIds /\ AdminRows(actor[r]) = {m}
    BY <2>1, <2>2 DEF OneAdminRowEach, AdminRows, MembersOfUser
  <2>4. QED
    BY <2>1, <2>3, DeniedByQuery DEF SoleAdminRow, IInv, TypeOK
<1>2. QED
  BY <1>1, Invariance, PTL DEF Spec, AdminsAreAdmitted
=============================================================================
