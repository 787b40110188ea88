----------------------------- MODULE Directory -----------------------------
(***************************************************************************)
(* The directory tables of the panel's database as                         *)
(* packages/common/vpnpanel_common/db/models.py declares them: tenants,    *)
(* users, roles, memberships, and the audit log that points at users.      *)
(*                                                                         *)
(* The operators below are what one committed transaction does to them.    *)
(* A uniqueness, foreign-key or NOT NULL constraint is a guard: where it   *)
(* does not hold the transaction raises IntegrityError and changes         *)
(* nothing.  Deleting a row takes its dependants along, which the ORM      *)
(* cascade and the ON DELETE clause of the foreign key both do.            *)
(*                                                                         *)
(* Columns no property looks at (emails, password hashes, tenant names,    *)
(* descriptions, timestamps) are left out.                                 *)
(***************************************************************************)

CONSTANTS
    UserIds,        \* primary keys of users
    TenantIds,      \* primary keys of tenants
    RoleIds,        \* primary keys of roles
    MembershipIds,  \* primary keys of memberships
    RoleNames,      \* values of Role.name
    Null            \* SQL's NULL, and the row of a key that has none

VARIABLES
    users,    \* for every key of users: no row, or the row's is_active
    tenants,  \* the keys of tenants that have a row
    roles,    \* for every key of roles: Role.name, or Null
    members,  \* for every key of memberships: its three foreign keys, or Null
    audit     \* the actor_user_id values found in audit_logs

tables == <<users, tenants, roles, members>>

Links == [tenant : TenantIds, user : UserIds, role : RoleIds]

ASSUME NullIsNoUser == Null \notin UserIds
ASSUME NullIsNoName == Null \notin RoleNames
ASSUME NullIsNoLink == Null \notin Links

DirectoryTypeOK ==
    /\ users \in [UserIds -> {"absent", "active", "inactive"}]
    /\ tenants \in SUBSET TenantIds
    /\ roles \in [RoleIds -> RoleNames \cup {Null}]
    /\ members \in [MembershipIds -> Links \cup {Null}]
    /\ audit \in SUBSET (UserIds \cup {Null})

NoRoles == \A ro \in RoleIds : roles[ro] = Null

NoMembers == \A m \in MembershipIds : members[m] = Null

UserExists(u) == users[u] # "absent"

DirectoryInit ==
    /\ users = [u \in UserIds |-> "absent"]
    /\ tenants = {}
    /\ roles = [ro \in RoleIds |-> Null]
    /\ members = [m \in MembershipIds |-> Null]
    /\ audit = {}

(* The foreign keys of a membership all point at rows. *)
Anchored(l) == UserExists(l.user) /\ l.tenant \in tenants /\ roles[l.role] # Null

NameTaken(n) == \E ro \in RoleIds : roles[ro] = n

LinkTaken(l) == \E m \in MembershipIds : members[m] = l

(* The audit row of a transaction: its actor must still have a row. *)
InsertAudit(a) ==
    /\ UserExists(a)
    /\ audit' = audit \cup {a}

InsertUser(u) ==
    /\ ~ UserExists(u)
    /\ users' = [users EXCEPT ![u] = "active"]

SetActive(u, b) ==
    /\ UserExists(u)
    /\ users' = [users EXCEPT ![u] = b]

(* Mutant of InsertRole: no UniqueConstraint, the router's look-up alone. *)
InsertRoleUnguarded(ro, n) ==
    /\ roles[ro] = Null
    /\ roles' = [roles EXCEPT ![ro] = n]

InsertRole(ro, n) ==
    /\ roles[ro] = Null
    /\ ~ NameTaken(n)
    /\ roles' = [roles EXCEPT ![ro] = n]

SetRoleName(ro, n) ==
    /\ roles[ro] # Null
    /\ ~ \E other \in RoleIds \ {ro} : roles[other] = n
    /\ roles' = [roles EXCEPT ![ro] = n]

(* Mutant of InsertMember: no foreign keys, the router's look-ups alone. *)
InsertMemberUnguarded(m, l) ==
    /\ members[m] = Null
    /\ ~ LinkTaken(l)
    /\ members' = [members EXCEPT ![m] = l]

InsertMember(m, l) ==
    /\ members[m] = Null
    /\ Anchored(l)
    /\ ~ LinkTaken(l)
    /\ members' = [members EXCEPT ![m] = l]

MembersOfUser(u) == {m \in MembershipIds : members[m] # Null /\ members[m].user = u}

MembersOfTenant(t) == {m \in MembershipIds : members[m] # Null /\ members[m].tenant = t}

MembersOfRole(ro) == {m \in MembershipIds : members[m] # Null /\ members[m].role = ro}

DeleteMembers(gone) ==
    members' = [m \in MembershipIds |-> IF m \in gone THEN Null ELSE members[m]]

DropUser(u) ==
    /\ users' = [users EXCEPT ![u] = "absent"]
    /\ DeleteMembers(MembersOfUser(u))

(* Mutant of InsertAuditAndForget: ON DELETE CASCADE. *)
InsertAuditAndDelete(a, u) ==
    /\ UserExists(a)
    /\ audit' = (audit \cup {a}) \ {u}

(* The audit row of a transaction that deletes user u: that row and every  *)
(* earlier one of u lose their actor (ON DELETE SET NULL).                 *)
InsertAuditAndForget(a, u) ==
    /\ UserExists(a)
    /\ audit' = {IF x = u THEN Null ELSE x : x \in audit \cup {a}}

DropTenant(t) ==
    /\ tenants' = tenants \ {t}
    /\ DeleteMembers(MembersOfTenant(t))

(* Mutant of DropRole: the ORM's default, with a nullable role_id. *)
DropRoleNulling(ro) ==
    /\ roles' = [roles EXCEPT ![ro] = Null]
    /\ members' = [m \in MembershipIds |->
                     IF m \in MembersOfRole(ro) THEN [members[m] EXCEPT !.role = Null]
                                                ELSE members[m]]

DropRole(ro) ==
    /\ roles' = [roles EXCEPT ![ro] = Null]
    /\ DeleteMembers(MembersOfRole(ro))

DropMember(m) == members' = [members EXCEPT ![m] = Null]

MembersAnchored == \A m \in MembershipIds : members[m] # Null => Anchored(members[m])

AuditAnchored == \A u \in audit : u # Null => UserExists(u)

NamesUnique ==
    \A r1, r2 \in RoleIds : roles[r1] # Null /\ roles[r1] = roles[r2] => r1 = r2

LinksUnique ==
    \A m1, m2 \in MembershipIds :
        members[m1] # Null /\ members[m1] = members[m2] => m1 = m2

(* Every foreign key points at a row that exists: the cascades and the     *)
(* NOT NULL columns of models.py leave no dangling membership, and no      *)
(* audit row names a user who is gone, whichever order requests commit in. *)
ReferentialIntegrity == MembersAnchored /\ AuditAnchored

(* Role.name and (tenant, user, role) are unique although every router     *)
(* looks for a duplicate in one statement and inserts in a later one.      *)
RowsAreUnique == NamesUnique /\ LinksUnique
=============================================================================
