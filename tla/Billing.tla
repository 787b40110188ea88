------------------------------ MODULE Billing ------------------------------
(***************************************************************************)
(* Plans and subscriptions (routers plans and subscriptions, tables plans  *)
(* and subscriptions of models.py).                                        *)
(*                                                                         *)
(* Requests have passed the gate (AccessControl).  A creation and an       *)
(* update have a step that reads and a step that commits; constraints are  *)
(* guards of the commit.  A deletion is one step: one that finds its row   *)
(* gone changes nothing.  Quotas, durations, expiry and consumed bytes are *)
(* left out, since nothing in the repository reads them.                   *)
(***************************************************************************)

CONSTANTS
    Tenants,   \* primary keys of tenants
    Users,     \* primary keys of users
    Plans,     \* primary keys of plans
    Names,     \* values of Plan.name
    Subs,      \* primary keys of subscriptions
    Requests,  \* slots for requests being served at the same time
    Null       \* SQL's NULL, and the row of a key that has none

VARIABLES
    tenants,  \* the tenants that have a row
    users,    \* the users that have a row
    plans,    \* for every key of plans: its tenant and name, or Null
    subs,     \* for every key of subscriptions: its row, or Null
    job       \* what the request of a slot has read and is about to write

tables == <<tenants, users, plans, subs>>

vars == <<tenants, users, plans, subs, job>>

PlanRows == [tenant : Tenants, name : Names]

SubRows == [tenant : Tenants, user : Users, plan : Plans \cup {Null}, active : BOOLEAN]

ASSUME NullIsNoPlan == Null \notin Plans
ASSUME NullIsNoPlanRow == Null \notin PlanRows
ASSUME NullIsNoSubRow == Null \notin SubRows

NoJob == [op |-> "none"]

Jobs == {NoJob}
    \cup [op : {"createPlan"}, row : PlanRows]
    \cup [op : {"updatePlan"}, plan : Plans, name : Names]
    \cup [op : {"createSub"}, row : SubRows]
    \cup [op : {"updateSub"}, sub : Subs, plan : Plans \cup {Null}, active : BOOLEAN,
          dirty : SUBSET {"plan", "active"}]

TypeOK ==
    /\ tenants \in SUBSET Tenants
    /\ users \in SUBSET Users
    /\ plans \in [Plans -> PlanRows \cup {Null}]
    /\ subs \in [Subs -> SubRows \cup {Null}]
    /\ job \in [Requests -> Jobs]

LivePlans == {p \in Plans : plans[p] # Null}

LiveSubs == {s \in Subs : subs[s] # Null}

ActiveSubs == {s \in LiveSubs : subs[s].active}

(* The foreign keys of a subscription; a plan it may do without. *)
Anchored(row) ==
    /\ row.tenant \in tenants
    /\ row.user \in users
    /\ row.plan \in LivePlans \cup {Null}

(* uq_plan_tenant_name, for a row that key p is to have *)
PlanFits(p, row) == \A q \in LivePlans \ {p} : plans[q] # row

(* uq_subscription_user_active_true, for a row that key s is to have *)
SubFits(s, row) == row.active => \A o \in ActiveSubs \ {s} : subs[o].user # row.user

(* A key is fresh when neither a row nor a request mentions it. *)
Mentions(row, column, key) == column \in DOMAIN row /\ row[column] = key

Unmentioned(column, key) ==
    \A r \in Requests :
        /\ ~ Mentions(job[r], column, key)
        /\ "row" \in DOMAIN job[r] => ~ Mentions(job[r].row, column, key)

(* Subscriptions in gone are deleted; of the others, those with a plan in  *)
(* lost lose it (ON DELETE SET NULL).                                      *)
Cascade(gone, lost) ==
    subs' = [s \in Subs |->
        IF s \in LiveSubs \ gone /\ subs[s].plan \in lost
        THEN [subs[s] EXCEPT !.plan = Null]
        ELSE IF s \in gone THEN Null ELSE subs[s]]

-----------------------------------------------------------------------------
(* Tenants and users come and go (routers tenants and users). *)

AddTenant(t) ==
    /\ t \notin tenants /\ Unmentioned("tenant", t)
    /\ tenants' = tenants \cup {t}
    /\ UNCHANGED <<users, plans, subs, job>>

PlansOf(t) == {p \in LivePlans : plans[p].tenant = t}

(* Mutant of DropTenant: the plans stay, with tenant_id set to NULL. *)
DropTenantNulling(t) ==
    /\ t \in tenants
    /\ tenants' = tenants \ {t}
    /\ plans' = [p \in Plans |->
                   IF p \in PlansOf(t) THEN [plans[p] EXCEPT !.tenant = Null] ELSE plans[p]]
    /\ Cascade({s \in LiveSubs : subs[s].tenant = t}, {})
    /\ UNCHANGED <<users, job>>

DropTenant(t) ==
    /\ t \in tenants
    /\ tenants' = tenants \ {t}
    /\ plans' = [p \in Plans |-> IF p \in PlansOf(t) THEN Null ELSE plans[p]]
    /\ Cascade({s \in LiveSubs : subs[s].tenant = t}, PlansOf(t))
    /\ UNCHANGED <<users, job>>

AddUser(u) ==
    /\ u \notin users /\ Unmentioned("user", u)
    /\ users' = users \cup {u}
    /\ UNCHANGED <<tenants, plans, subs, job>>

DropUser(u) ==
    /\ u \in users
    /\ users' = users \ {u}
    /\ Cascade({s \in LiveSubs : subs[s].user = u}, {})
    /\ UNCHANGED <<tenants, plans, job>>

-----------------------------------------------------------------------------
Load(r, j) ==
    /\ job[r] = NoJob
    /\ job' = [job EXCEPT ![r] = j]
    /\ UNCHANGED tables

Finish(r) == job' = [job EXCEPT ![r] = NoJob]

Abandon(r) ==
    /\ job[r] # NoJob
    /\ Finish(r)
    /\ UNCHANGED tables

-----------------------------------------------------------------------------
(* Plans *)

(* The handler does not look for the tenant. *)
LoadCreatePlan(r, row) ==
    /\ PlanFits(Null, row)
    /\ Load(r, [op |-> "createPlan", row |-> row])

CreatePlan(r, p) ==
    /\ job[r].op = "createPlan"
    /\ plans[p] = Null /\ Unmentioned("plan", p)
    /\ job[r].row.tenant \in tenants
    /\ PlanFits(p, job[r].row)
    /\ plans' = [plans EXCEPT ![p] = job[r].row]
    /\ Finish(r)
    /\ UNCHANGED <<tenants, users, subs>>

(* No look-up of the new name: uniqueness is the constraint's alone. *)
LoadUpdatePlan(r, p, name) ==
    /\ p \in LivePlans
    /\ plans[p].name # name
    /\ Load(r, [op |-> "updatePlan", plan |-> p, name |-> name])

UpdatePlan(r) ==
    /\ job[r].op = "updatePlan"
    /\ job[r].plan \in LivePlans
    /\ LET p == job[r].plan
           row == [plans[p] EXCEPT !.name = job[r].name]
       IN  PlanFits(p, row) /\ plans' = [plans EXCEPT ![p] = row]
    /\ Finish(r)
    /\ UNCHANGED <<tenants, users, subs>>

(* Mutant of DeletePlan: nothing is done about the subscriptions. *)
DeletePlanOnly(p) ==
    /\ p \in LivePlans
    /\ plans' = [plans EXCEPT ![p] = Null]
    /\ UNCHANGED <<tenants, users, subs, job>>

DeletePlan(p) ==
    /\ p \in LivePlans
    /\ plans' = [plans EXCEPT ![p] = Null]
    /\ Cascade({}, {p})
    /\ UNCHANGED <<tenants, users, job>>

-----------------------------------------------------------------------------
(* Subscriptions *)

(* The handler looks for the plan and for the user, but not for the tenant *)
(* and not for another active subscription.                                *)
LoadCreateSub(r, row) ==
    /\ row.active
    /\ row.plan \in LivePlans \cup {Null}
    /\ row.user \in users
    /\ Load(r, [op |-> "createSub", row |-> row])

(* Mutant of CreateSub: it retires the active subscription on its own. *)
CreateSubReplacing(r, s) ==
    /\ job[r].op = "createSub"
    /\ subs[s] = Null /\ Unmentioned("sub", s)
    /\ Anchored(job[r].row)
    /\ subs' = [o \in Subs |->
                 IF o = s THEN job[r].row
                 ELSE IF o \in ActiveSubs /\ subs[o].user = job[r].row.user
                      THEN [subs[o] EXCEPT !.active = FALSE] ELSE subs[o]]
    /\ Finish(r)
    /\ UNCHANGED <<tenants, users, plans>>

CreateSub(r, s) ==
    /\ job[r].op = "createSub"
    /\ subs[s] = Null /\ Unmentioned("sub", s)
    /\ Anchored(job[r].row)
    /\ SubFits(s, job[r].row)
    /\ subs' = [subs EXCEPT ![s] = job[r].row]
    /\ Finish(r)
    /\ UNCHANGED <<tenants, users, plans>>

(* A field the body leaves out has the value loaded.  A plan is not looked *)
(* for; the ORM writes the columns that differ from what it loaded.        *)
LoadUpdateSub(r, s, plan, active) ==
    /\ s \in LiveSubs
    /\ LET dirty == {c \in {"plan", "active"} :
                        CASE c = "plan" -> plan # subs[s].plan
                          [] c = "active" -> active # subs[s].active}
       IN  /\ dirty # {}
           /\ Load(r, [op |-> "updateSub", sub |-> s, plan |-> plan, active |-> active,
                       dirty |-> dirty])

(* Mutant of Updated: the whole row is written, as it was when loaded. *)
UpdatedWhole(row, j) == [row EXCEPT !.plan = j.plan, !.active = j.active]

(* The row an update makes of the one it finds at the commit. *)
Updated(row, j) ==
    [row EXCEPT !.plan = IF "plan" \in j.dirty THEN j.plan ELSE row.plan,
                !.active = IF "active" \in j.dirty THEN j.active ELSE row.active]

(* Mutant of UpdateSub: no partial unique index on active rows. *)
UpdateSubUnguarded(r) ==
    /\ job[r].op = "updateSub"
    /\ job[r].sub \in LiveSubs
    /\ LET s == job[r].sub
           row == Updated(subs[s], job[r])
       IN  Anchored(row) /\ subs' = [subs EXCEPT ![s] = row]
    /\ Finish(r)
    /\ UNCHANGED <<tenants, users, plans>>

UpdateSub(r) ==
    /\ job[r].op = "updateSub"
    /\ job[r].sub \in LiveSubs
    /\ LET s == job[r].sub
           row == Updated(subs[s], job[r])
       IN  Anchored(row) /\ SubFits(s, row) /\ subs' = [subs EXCEPT ![s] = row]
    /\ Finish(r)
    /\ UNCHANGED <<tenants, users, plans>>

DeleteSub(s) ==
    /\ s \in LiveSubs
    /\ Cascade({s}, {})
    /\ UNCHANGED <<tenants, users, plans, job>>

-----------------------------------------------------------------------------
Init ==
    /\ tenants = {} /\ users = {}
    /\ plans = [p \in Plans |-> Null]
    /\ subs = [s \in Subs |-> Null]
    /\ job = [r \in Requests |-> NoJob]

DirectoryStep ==
    \/ \E t \in Tenants : AddTenant(t) \/ DropTenant(t)
    \/ \E u \in Users : AddUser(u) \/ DropUser(u)

LoadStep(r) ==
    \/ \E row \in PlanRows : LoadCreatePlan(r, row)
    \/ \E p \in Plans, name \in Names : LoadUpdatePlan(r, p, name)
    \/ \E row \in SubRows : LoadCreateSub(r, row)
    \/ \E s \in Subs, p \in Plans \cup {Null}, b \in BOOLEAN : LoadUpdateSub(r, s, p, b)

CommitStep(r) ==
    \/ \E p \in Plans : CreatePlan(r, p)
    \/ UpdatePlan(r)
    \/ \E s \in Subs : CreateSub(r, s)
    \/ UpdateSub(r)

DeleteStep ==
    \/ \E p \in Plans : DeletePlan(p)
    \/ \E s \in Subs : DeleteSub(s)

Next ==
    \/ DirectoryStep
    \/ DeleteStep
    \/ \E r \in Requests : LoadStep(r) \/ CommitStep(r) \/ Abandon(r)

Spec == Init /\ [][Next]_vars

-----------------------------------------------------------------------------
(* Properties *)

(* No plan outlives its tenant and no subscription its tenant, its user or *)
(* its plan, although create_plan and create_subscription never look for   *)
(* the tenant and update_subscription not for the plan.                    *)
NothingDangles ==
    /\ \A p \in LivePlans : plans[p].tenant \in tenants
    /\ \A s \in LiveSubs : Anchored(subs[s])

(* A tenant has no two plans of one name, and a user has at most one       *)
(* active subscription over all tenants, whichever creations, renames and  *)
(* re-activations race: the handlers look for a plan's name at its         *)
(* creation only, and for an active subscription never.                    *)
RowsAreUnique ==
    /\ \A p, q \in LivePlans : plans[p] = plans[q] => p = q
    /\ \A s, o \in ActiveSubs : subs[s].user = subs[o].user => s = o

InForce == {<<subs[s].user, s>> : s \in ActiveSubs}

Current == INSTANCE CurrentSubscription WITH current <- InForce

(* The active subscriptions behave as CurrentSubscription: none takes      *)
(* another's place in one step, and merging an update into a row that has  *)
(* changed since it was loaded never activates a second one.               *)
OneAtATime == Current!Spec

(* The architecture notes: "Plan -> Subscription (per tenant)".  The plan  *)
(* of a subscription belongs to the subscription's tenant.                 *)
PlansStayInTenant ==
    \A s \in LiveSubs :
        subs[s].plan # Null => plans[subs[s].plan].tenant = subs[s].tenant

Foreign(s) ==
    /\ s \in LiveSubs
    /\ subs[s].plan \in LivePlans
    /\ plans[subs[s].plan].tenant # subs[s].tenant

(* The body of request r names plan p, for a subscription of tenant t. *)
AsksFor(r, p, t) ==
    \/ job[r].op = "createSub" /\ job[r].row.plan = p /\ job[r].row.tenant = t
    \/ /\ job[r].op = "updateSub" /\ "plan" \in job[r].dirty /\ job[r].plan = p
       /\ job[r].sub \in LiveSubs /\ subs[job[r].sub].tenant = t

AsksForForeign(r) ==
    \E p \in LivePlans, t \in Tenants : AsksFor(r, p, t) /\ plans[p].tenant # t

(* A subscription comes to another tenant's plan only by the commit of a   *)
(* request whose body names that plan, and the plan was another tenant's   *)
(* already when that request loaded.  No rename, cascade or new row under  *)
(* an old key makes a plan foreign, and no update of the active flag, made *)
(* from a row loaded earlier, brings back a plan replaced since.           *)
ForeignPlansAreAskedFor ==
    [][/\ \A s \in Subs : Foreign(s)' /\ ~ Foreign(s) =>
              \E r \in Requests :
                  job'[r] # job[r] /\ AsksFor(r, subs'[s].plan, subs'[s].tenant)
       /\ \A r \in Requests :
              job'[r] = job[r] /\ AsksForForeign(r)' => AsksForForeign(r)]_vars
=============================================================================
