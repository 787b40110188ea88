--------------------------- MODULE AccessControl ---------------------------
(***************************************************************************)
(* The control API's access gate (security.py) in front of the handlers    *)
(* that write the directory (routers auth, users, tenants, roles,          *)
(* memberships).                                                           *)
(*                                                                         *)
(* A request is a coroutine with a database session of its own.  Every     *)
(* SELECT of the gate is a step with a snapshot of its own (READ           *)
(* COMMITTED) and takes no lock, so other requests commit between any two  *)
(* of them.  The SELECTs of a handler are one step, Load: they only turn   *)
(* the request away, and what they looked at is looked at again by the     *)
(* constraints when the writes take effect, all together, at the commit.   *)
(* A request may be abandoned anywhere: an HTTP error, a failed            *)
(* constraint, a lost connection and a crash of the worker all roll its    *)
(* transaction back.                                                       *)
(*                                                                         *)
(* The gate does not depend on what is asked, so a request chooses its     *)
(* operation only when the gate has let it through.                        *)
(***************************************************************************)
EXTENDS Directory

CONSTANTS
    Requests,  \* slots for requests being served at the same time
    Admin      \* the role name 'admin'

VARIABLES
    pc,       \* how far the request of a slot has come
    actor,    \* the user get_current_user returned to it, or Null
    noRoles,  \* did its count of roles find none?
    job,      \* what its handler has read and is about to write
    entitled  \* history: has its actor been entitled while the request ran?

vars == <<users, tenants, roles, members, audit, pc, actor, noRoles, job, entitled>>

ASSUME AdminIsAName == Admin \in RoleNames

Free == {"idle", "denied"}                          \* the slot awaits a request
Checking == {"identified", "counted", "needsAdmin"} \* inside require_admin
Admitted == {"authorised", "loaded", "flushed"}     \* inside the handler

NoJob == [op |-> "none"]

Jobs == {NoJob}
    \cup [op : {"updateUser"}, user : UserIds, active : {"active", "inactive"}]
    \cup [op : {"deleteUser"}, user : UserIds]
    \cup [op : {"deleteTenant"}, tenant : TenantIds]
    \cup [op : {"createRole"}, name : RoleNames]
    \cup [op : {"updateRole"}, role : RoleIds, name : RoleNames]
    \cup [op : {"deleteRole"}, role : RoleIds]
    \cup [op : {"createMembership"}, link : Links]
    \cup [op : {"deleteMembership"}, membership : MembershipIds]

RequestTypeOK ==
    /\ pc \in [Requests -> Free \cup Checking \cup Admitted]
    /\ actor \in [Requests -> UserIds \cup {Null}]
    /\ noRoles \in [Requests -> BOOLEAN]
    /\ job \in [Requests -> Jobs]

TypeOK ==
    /\ DirectoryTypeOK
    /\ RequestTypeOK
    /\ entitled \in [Requests -> BOOLEAN]

-----------------------------------------------------------------------------
(* What the gate is for. *)

(* The rows the admin query joins for user u. *)
AdminRows(u) == {m \in MembersOfUser(u) : roles[members[m].role] = Admin}

(* Mutant of SoleAdminRow: the join without its filter on the role's name. *)
SoleRow(u) == \E m \in MembershipIds : MembersOfUser(u) = {m}

(* What scalar_one_or_none accepts: exactly one row. *)
SoleAdminRow(u) == \E m \in MembershipIds : AdminRows(u) = {m}

Bootstrap == NoRoles \/ NoMembers

Entitled(u) == Bootstrap \/ AdminRows(u) # {}

-----------------------------------------------------------------------------
(* A primary key is a fresh uuid4.  Keys are taken from a small pool, so a *)
(* key is fresh again when neither a row nor a request mentions it.        *)

Mentions(row, column, key) == column \in DOMAIN row /\ row[column] = key

Unmentioned(column, key) ==
    \A r \in Requests :
        /\ ~ Mentions(job[r], column, key)
        /\ "link" \in DOMAIN job[r] => ~ Mentions(job[r].link, column, key)

FreshUser(u) == Unmentioned("user", u) /\ \A r \in Requests : actor[r] # u

-----------------------------------------------------------------------------
(* The steps of a request *)

Goto(r, p) == pc' = [pc EXCEPT ![r] = p]

Release(r, p) ==
    /\ Goto(r, p)
    /\ actor' = [actor EXCEPT ![r] = Null]
    /\ noRoles' = [noRoles EXCEPT ![r] = FALSE]
    /\ job' = [job EXCEPT ![r] = NoJob]

(* get_current_user: the row of the token's subject, which must be active. *)
GetCurrentUser(r, u) ==
    /\ pc[r] \in Free
    /\ IF users[u] = "active"
       THEN /\ Goto(r, "identified")
            /\ actor' = [actor EXCEPT ![r] = u]
            /\ UNCHANGED <<noRoles, job>>
       ELSE Release(r, "denied")
    /\ UNCHANGED <<tables, audit>>

(* require_admin, first query: the number of roles *)
CountRoles(r) ==
    /\ pc[r] = "identified"
    /\ noRoles' = [noRoles EXCEPT ![r] = NoRoles]
    /\ Goto(r, "counted")
    /\ UNCHANGED <<tables, audit, actor, job>>

(* Mutant of CountMemberships: it counts the caller's memberships only. *)
CountOwnMemberships(r) ==
    /\ pc[r] = "counted"
    /\ IF noRoles[r] \/ MembersOfUser(actor[r]) = {}
       THEN Goto(r, "authorised") ELSE Goto(r, "needsAdmin")
    /\ noRoles' = [noRoles EXCEPT ![r] = FALSE]
    /\ UNCHANGED <<tables, audit, actor, job>>

(* require_admin, second query, the number of memberships, and the bypass  *)
(* that lets anybody in while there are no roles or no memberships.        *)
CountMemberships(r) ==
    /\ pc[r] = "counted"
    /\ IF noRoles[r] \/ NoMembers THEN Goto(r, "authorised") ELSE Goto(r, "needsAdmin")
    /\ noRoles' = [noRoles EXCEPT ![r] = FALSE]
    /\ UNCHANGED <<tables, audit, actor, job>>

(* require_admin, the join: no row is a 403, more than one a 500 *)
QueryAdminRole(r) ==
    /\ pc[r] = "needsAdmin"
    /\ IF SoleAdminRow(actor[r])
       THEN Goto(r, "authorised") /\ UNCHANGED <<actor, noRoles, job>>
       ELSE Release(r, "denied")
    /\ UNCHANGED <<tables, audit>>

(* Rollback: the request ends and leaves nothing behind. *)
Abandon(r) ==
    /\ pc[r] \notin Free
    /\ Release(r, "idle")
    /\ UNCHANGED <<tables, audit>>

(* The reads of a handler that precede its writes. *)
Load(r, j) ==
    /\ pc[r] = "authorised"
    /\ job' = [job EXCEPT ![r] = j]
    /\ Goto(r, "loaded")
    /\ UNCHANGED <<tables, audit, actor, noRoles>>

(* A handler's commit. *)
Commit(r) == Release(r, "idle") /\ InsertAudit(actor[r])

Committing(r, op) == pc[r] = "loaded" /\ job[r].op = op

(* A handler that leaves the tables alone but writes its audit row: those  *)
(* of the other routers, a rename of a tenant, a change of a password or a *)
(* description, and an update that sets columns to what they are.          *)
CommitElsewhere(r) ==
    /\ pc[r] = "authorised"
    /\ Commit(r)
    /\ UNCHANGED tables

(* POST /traffic/events: any user's, it never asks require_admin. *)
IngestTraffic(r) ==
    /\ pc[r] = "identified"
    /\ Commit(r)
    /\ UNCHANGED tables

-----------------------------------------------------------------------------
(* The handlers *)

(* Open registration: no token, no gate, no audit row. *)
Register(u) ==
    /\ FreshUser(u)
    /\ InsertUser(u)
    /\ UNCHANGED <<tenants, roles, members, audit, pc, actor, noRoles, job>>

CreateUser(r, u) ==
    /\ pc[r] = "authorised"
    /\ FreshUser(u)
    /\ InsertUser(u)
    /\ Commit(r)
    /\ UNCHANGED <<tenants, roles, members>>

(* The session's identity map hands the actor's own row back as it was     *)
(* when get_current_user read it.                                          *)
IsActiveAsLoaded(r, u) == IF u = actor[r] THEN "active" ELSE users[u]

(* The ORM writes a column only if the handler changes what it loaded. *)
LoadUpdateUser(r, u, b) ==
    /\ UserExists(u)
    /\ b # IsActiveAsLoaded(r, u)
    /\ Load(r, [op |-> "updateUser", user |-> u, active |-> b])

UpdateUser(r) ==
    /\ Committing(r, "updateUser")
    /\ SetActive(job[r].user, job[r].active)
    /\ Commit(r)
    /\ UNCHANGED <<tenants, roles, members>>

LoadDeleteUser(r, u) ==
    /\ UserExists(u)
    /\ Load(r, [op |-> "deleteUser", user |-> u])

(* Deleting a row that another request has deleted meanwhile is no error. *)
DeleteUser(r) ==
    /\ Committing(r, "deleteUser")
    /\ DropUser(job[r].user)
    /\ InsertAuditAndForget(actor[r], job[r].user)
    /\ Release(r, "idle")
    /\ UNCHANGED <<tenants, roles>>

CreateTenant(r, t) ==
    /\ pc[r] = "authorised"
    /\ t \notin tenants /\ Unmentioned("tenant", t)
    /\ tenants' = tenants \cup {t}
    /\ Commit(r)
    /\ UNCHANGED <<users, roles, members>>

LoadDeleteTenant(r, t) ==
    /\ t \in tenants
    /\ Load(r, [op |-> "deleteTenant", tenant |-> t])

DeleteTenant(r) ==
    /\ Committing(r, "deleteTenant")
    /\ DropTenant(job[r].tenant)
    /\ Commit(r)
    /\ UNCHANGED <<users, roles>>

LoadCreateRole(r, n) ==
    /\ ~ NameTaken(n)
    /\ Load(r, [op |-> "createRole", name |-> n])

CreateRole(r, ro) ==
    /\ Committing(r, "createRole")
    /\ Unmentioned("role", ro)
    /\ InsertRole(ro, job[r].name)
    /\ Commit(r)
    /\ UNCHANGED <<users, tenants, members>>

LoadUpdateRole(r, ro, n) ==
    /\ roles[ro] \notin {Null, n}
    /\ Load(r, [op |-> "updateRole", role |-> ro, name |-> n])

UpdateRole(r) ==
    /\ Committing(r, "updateRole")
    /\ SetRoleName(job[r].role, job[r].name)
    /\ Commit(r)
    /\ UNCHANGED <<users, tenants, members>>

LoadDeleteRole(r, ro) ==
    /\ roles[ro] # Null
    /\ Load(r, [op |-> "deleteRole", role |-> ro])

(* The flush loads Role.memberships, which does not cascade, and sets the  *)
(* role_id of every row it finds to NULL: the column is NOT NULL, so any   *)
(* row fails the request.                                                  *)
FlushDeleteRole(r) ==
    /\ Committing(r, "deleteRole")
    /\ MembersOfRole(job[r].role) = {}
    /\ Goto(r, "flushed")
    /\ UNCHANGED <<tables, audit, actor, noRoles, job>>

(* Memberships inserted since the flush looked go with the role. *)
DeleteRole(r) ==
    /\ pc[r] = "flushed"
    /\ DropRole(job[r].role)
    /\ Commit(r)
    /\ UNCHANGED <<users, tenants>>

LoadCreateMembership(r, l) ==
    /\ Anchored(l)
    /\ ~ LinkTaken(l)
    /\ Load(r, [op |-> "createMembership", link |-> l])

CreateMembership(r, m) ==
    /\ Committing(r, "createMembership")
    /\ Unmentioned("membership", m)
    /\ InsertMember(m, job[r].link)
    /\ Commit(r)
    /\ UNCHANGED <<users, tenants, roles>>

LoadDeleteMembership(r, m) ==
    /\ members[m] # Null
    /\ Load(r, [op |-> "deleteMembership", membership |-> m])

DeleteMembership(r) ==
    /\ Committing(r, "deleteMembership")
    /\ DropMember(job[r].membership)
    /\ Commit(r)
    /\ UNCHANGED <<users, tenants, roles>>

-----------------------------------------------------------------------------
Init ==
    /\ DirectoryInit
    /\ pc = [r \in Requests |-> "idle"]
    /\ actor = [r \in Requests |-> Null]
    /\ noRoles = [r \in Requests |-> FALSE]
    /\ job = [r \in Requests |-> NoJob]
    /\ entitled = [r \in Requests |-> FALSE]

Gate(r) ==
    \/ \E u \in UserIds : GetCurrentUser(r, u)
    \/ CountRoles(r)
    \/ CountMemberships(r)
    \/ QueryAdminRole(r)
    \/ Abandon(r)

Loading(r) ==
    \/ \E u \in UserIds : LoadDeleteUser(r, u)
    \/ \E u \in UserIds, b \in {"active", "inactive"} : LoadUpdateUser(r, u, b)
    \/ \E t \in TenantIds : LoadDeleteTenant(r, t)
    \/ \E n \in RoleNames : LoadCreateRole(r, n)
    \/ \E ro \in RoleIds : LoadDeleteRole(r, ro)
    \/ \E ro \in RoleIds, n \in RoleNames : LoadUpdateRole(r, ro, n)
    \/ \E l \in Links : LoadCreateMembership(r, l)
    \/ \E m \in MembershipIds : LoadDeleteMembership(r, m)
    \/ FlushDeleteRole(r)

Writing(r) ==
    \/ \E u \in UserIds : CreateUser(r, u)
    \/ UpdateUser(r) \/ DeleteUser(r)
    \/ \E t \in TenantIds : CreateTenant(r, t)
    \/ DeleteTenant(r)
    \/ \E ro \in RoleIds : CreateRole(r, ro)
    \/ UpdateRole(r) \/ DeleteRole(r)
    \/ \E m \in MembershipIds : CreateMembership(r, m)
    \/ DeleteMembership(r)
    \/ CommitElsewhere(r)
    \/ IngestTraffic(r)

(* The history variable: entitled at this instant or at an earlier one of  *)
(* the same request.                                                       *)
Observe ==
    entitled' = [r \in Requests |->
        pc'[r] \notin Free /\ (entitled[r] \/ Entitled(actor[r])')]

Next ==
    /\ \/ \E u \in UserIds : Register(u)
       \/ \E r \in Requests : Gate(r) \/ Loading(r) \/ Writing(r)
    /\ Observe

Spec == Init /\ [][Next]_vars

-----------------------------------------------------------------------------
(* Properties *)

(* A request the gate let through was entitled at some instant while it    *)
(* ran, although no two of the gate's three queries see the same database. *)
AdmittedWereEntitled == \A r \in Requests : pc[r] \in Admitted => entitled[r]

(* Every change of the directory is a registration, which only adds a      *)
(* user, or the end of a request the gate had admitted, which was entitled *)
(* at some instant and whose actor, not deleted meanwhile, the audit log   *)
(* then names (with no name left if what it deleted is itself; the log is  *)
(* kept as the set of names it holds, so it may have named the actor       *)
(* before).                                                                *)
WritesAreAuthorised ==
    [][tables' # tables =>
        \/ /\ UNCHANGED <<tenants, roles, members, audit, pc>>
           /\ \A u \in UserIds : users'[u] # users[u] => ~ UserExists(u)
        \/ \E r \in Requests :
              /\ pc[r] \in Admitted /\ pc'[r] = "idle"
              /\ entitled[r]
              /\ UserExists(actor[r])
              /\ (IF users'[actor[r]] = "absent" THEN Null ELSE actor[r]) \in audit']_vars

MayPass(r) ==
    \/ pc[r] \in Admitted
    \/ noRoles[r]
    \/ pc[r] \in Checking /\ SoleAdminRow(actor[r])

LockedOut ==
    /\ ~ NoMembers
    /\ \A u \in UserIds : users[u] = "active" => ~ SoleAdminRow(u)
    /\ \A r \in Requests : ~ MayPass(r)

(* When memberships exist, no active user holds exactly one admin          *)
(* membership and no request in flight can still pass the gate, nobody     *)
(* ever passes it again: registering does not reopen the bootstrap.        *)
LockoutIsPermanent == [][LockedOut => LockedOut']_vars

(* auth.py's comment: registration is open only while there are no users.  *)
RegistrationOnlyBootstraps ==
    [][\A u \in UserIds :
          users'[u] # users[u] /\ pc' = pc => \A v \in UserIds : ~ UserExists(v)]_vars

(* The endpoint test's comment: a membership in role admin makes its user  *)
(* an admin, so the admin query turns none of its holders away.            *)
AdminsAreAdmitted ==
    [][\A r \in Requests :
          pc[r] = "needsAdmin" /\ pc'[r] = "denied" => AdminRows(actor[r]) = {}]_vars

(* An actor's name leaves the audit log only when the actor's user row is  *)
(* deleted, and leaves a row without a name behind: no entry is lost, and  *)
(* nobody who stays is forgotten (models.py:254).                          *)
AuditForgetsTheDeleted ==
    [][\A x \in audit \ audit' :
          UserExists(x) /\ users'[x] = "absent" /\ Null \in audit']_vars

(* The security notes: the audit log is append-only and names its actors.  *)
AuditIsAppendOnly == [][audit \subseteq audit']_vars
=============================================================================
