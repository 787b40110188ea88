--------------------------- MODULE BillingProofs ---------------------------
(* Proofs about Billing: types, foreign keys and uniqueness, that it       *)
(* implements CurrentSubscription, and how a subscription comes to another *)
(* tenant's plan, for any pools of keys and any requests.                  *)
EXTENDS Billing, TLAPS

IInv == TypeOK /\ NothingDangles /\ RowsAreUnique

-----------------------------------------------------------------------------
(* Types *)

(* What a job's op says about its other fields. *)
LEMMA JobFields ==
    ASSUME NEW j \in Jobs
    PROVE  /\ j.op = "createPlan" => j.row \in PlanRows
           /\ j.op = "updatePlan" => j.plan \in Plans /\ j.name \in Names
           /\ j.op = "createSub" => j.row \in SubRows
           /\ j.op = "updateSub" => /\ j.sub \in Subs
                                    /\ j.plan \in Plans \cup {Null}
                                    /\ j.active \in BOOLEAN
BY DEF Jobs, NoJob

LEMMA LoadType ==
    ASSUME TypeOK, NEW r \in Requests, NEW j \in Jobs, Load(r, j)
    PROVE  TypeOK'
BY DEF Load, tables, TypeOK

LEMMA FinishType ==
    ASSUME TypeOK, NEW r \in Requests, Finish(r)
    PROVE  job' \in [Requests -> Jobs]
BY DEF Finish, TypeOK, Jobs

(* A handler's reads change no table. *)
LEMMA LoadStepLoads ==
    ASSUME NEW r \in Requests, LoadStep(r)
    PROVE  \E j \in Jobs : Load(r, j)
<1>1. ASSUME NEW row \in PlanRows, LoadCreatePlan(r, row)
      PROVE  \E j \in Jobs : Load(r, j)
  BY <1>1 DEF LoadCreatePlan, Jobs
<1>2. ASSUME NEW p \in Plans, NEW name \in Names, LoadUpdatePlan(r, p, name)
      PROVE  \E j \in Jobs : Load(r, j)
  BY <1>2 DEF LoadUpdatePlan, Jobs
<1>3. ASSUME NEW row \in SubRows, LoadCreateSub(r, row)
      PROVE  \E j \in Jobs : Load(r, j)
  BY <1>3 DEF LoadCreateSub, Jobs
<1>4. ASSUME NEW s \in Subs, NEW p \in Plans \cup {Null}, NEW b \in BOOLEAN, LoadUpdateSub(r, s, p, b)
      PROVE  \E j \in Jobs : Load(r, j)
  <2> DEFINE dirty == {c \in {"plan", "active"} :
                          CASE c = "plan" -> p # subs[s].plan
                            [] c = "active" -> b # subs[s].active}
             j == [op |-> "updateSub", sub |-> s, plan |-> p, active |-> b, dirty |-> dirty]
  <2>1. Load(r, j)
    BY <1>4 DEF LoadUpdateSub
  <2>2. dirty \in SUBSET {"plan", "active"}
    OBVIOUS
  <2> HIDE DEF dirty
  <2>3. j \in Jobs
    BY <2>2 DEF Jobs
  <2>4. QED
    BY <2>1, <2>3
<1>5. QED
  BY <1>1, <1>2, <1>3, <1>4 DEF LoadStep

LEMMA CascadeType ==
    ASSUME TypeOK, NEW gone, NEW lost, Cascade(gone, lost)
    PROVE  subs' \in [Subs -> SubRows \cup {Null}]
<1>1. ASSUME NEW s \in Subs
      PROVE  (IF s \in LiveSubs \ gone /\ subs[s].plan \in lost
              THEN [subs[s] EXCEPT !.plan = Null]
              ELSE IF s \in gone THEN Null ELSE subs[s]) \in SubRows \cup {Null}
  BY DEF TypeOK, LiveSubs, SubRows
<1>2. QED
  BY <1>1 DEF Cascade

(* An update makes a row of a row, on the same tenant and user. *)
LEMMA UpdatedRow ==
    ASSUME NEW row \in SubRows, NEW j \in Jobs, j.op = "updateSub"
    PROVE  /\ Updated(row, j) \in SubRows
           /\ Updated(row, j).tenant = row.tenant
           /\ Updated(row, j).user = row.user
BY JobFields DEF Updated, SubRows

LEMMA LiveRows ==
    ASSUME TypeOK
    PROVE  /\ \A p \in LivePlans : plans[p] \in PlanRows /\ plans[p].tenant \in Tenants
           /\ \A s \in LiveSubs : subs[s] \in SubRows /\ subs[s].user \in Users
BY DEF TypeOK, LivePlans, LiveSubs, PlanRows, SubRows

LEMMA TypeStep ==
    ASSUME TypeOK, Next
    PROVE  TypeOK'
<1>1. CASE DirectoryStep
  <2>1. ASSUME NEW t \in Tenants, AddTenant(t)
        PROVE  TypeOK'
    BY <2>1 DEF AddTenant, TypeOK
  <2>2. ASSUME NEW t \in Tenants, DropTenant(t)
        PROVE  TypeOK'
    BY <2>2, CascadeType DEF DropTenant, TypeOK
  <2>3. ASSUME NEW u \in Users, AddUser(u)
        PROVE  TypeOK'
    BY <2>3 DEF AddUser, TypeOK
  <2>4. ASSUME NEW u \in Users, DropUser(u)
        PROVE  TypeOK'
    BY <2>4, CascadeType DEF DropUser, TypeOK
  <2>5. QED
    BY <1>1, <2>1, <2>2, <2>3, <2>4 DEF DirectoryStep
<1>2. CASE DeleteStep
  <2>1. ASSUME NEW p \in Plans, DeletePlan(p)
        PROVE  TypeOK'
    BY <2>1, CascadeType DEF DeletePlan, TypeOK
  <2>2. ASSUME NEW s \in Subs, DeleteSub(s)
        PROVE  TypeOK'
    BY <2>2, CascadeType DEF DeleteSub, TypeOK
  <2>3. QED
    BY <1>2, <2>1, <2>2 DEF DeleteStep
<1>3. ASSUME NEW r \in Requests, LoadStep(r)
      PROVE  TypeOK'
  BY <1>3, LoadStepLoads, LoadType
<1>4. ASSUME NEW r \in Requests, CommitStep(r)
      PROVE  TypeOK'
  <2>1. job[r] \in Jobs
    BY DEF TypeOK
  <2>2. ASSUME NEW p \in Plans, CreatePlan(r, p)
        PROVE  TypeOK'
    BY <2>1, <2>2, JobFields, FinishType DEF CreatePlan, TypeOK
  <2>3. CASE UpdatePlan(r)
    <3>1. [plans[job[r].plan] EXCEPT !.name = job[r].name] \in PlanRows
      BY <2>1, <2>3, JobFields, LiveRows DEF UpdatePlan, PlanRows
    <3>2. QED
      BY <2>3, <3>1, FinishType DEF UpdatePlan, TypeOK
  <2>4. ASSUME NEW s \in Subs, CreateSub(r, s)
        PROVE  TypeOK'
    BY <2>1, <2>4, JobFields, FinishType DEF CreateSub, TypeOK
  <2>5. CASE UpdateSub(r)
    <3>1. Updated(subs[job[r].sub], job[r]) \in SubRows
      BY <2>1, <2>5, LiveRows, UpdatedRow DEF UpdateSub
    <3>2. QED
      BY <2>5, <3>1, FinishType DEF UpdateSub, TypeOK
  <2>6. QED
    BY <1>4, <2>2, <2>3, <2>4, <2>5 DEF CommitStep
<1>5. ASSUME NEW r \in Requests, Abandon(r)
      PROVE  TypeOK'
  BY <1>5, FinishType DEF Abandon, tables, TypeOK
<1>6. QED
  BY <1>1, <1>2, <1>3, <1>4, <1>5 DEF Next

-----------------------------------------------------------------------------
(* Foreign keys and uniqueness *)

LEMMA InitIntact == Init => IInv
BY DEF Init, IInv, TypeOK, NothingDangles, RowsAreUnique, LivePlans, LiveSubs, ActiveSubs, Jobs

(* Steps that leave plans and subscriptions alone and take no tenant and   *)
(* no user away.                                                           *)
LEMMA GrowthIntact ==
    ASSUME IInv, UNCHANGED <<plans, subs>>, tenants \subseteq tenants', users \subseteq users'
    PROVE  NothingDangles' /\ RowsAreUnique'
BY DEF IInv, NothingDangles, RowsAreUnique, LivePlans, LiveSubs, ActiveSubs, Anchored

(* What a deletion leaves of the subscriptions. *)
LEMMA CascadeRows ==
    ASSUME TypeOK, NEW gone, NEW lost, Cascade(gone, lost)
    PROVE  /\ LiveSubs' = LiveSubs \ gone
           /\ \A s \in LiveSubs \ gone :
                  /\ subs'[s].tenant = subs[s].tenant
                  /\ subs'[s].user = subs[s].user
                  /\ subs'[s].active = subs[s].active
                  /\ subs'[s].plan = IF subs[s].plan \in lost THEN Null ELSE subs[s].plan
<1>1. \A s \in LiveSubs \ gone :
         subs'[s] = IF subs[s].plan \in lost THEN [subs[s] EXCEPT !.plan = Null] ELSE subs[s]
  BY DEF Cascade, LiveSubs
<1>2. \A s \in LiveSubs \ gone : subs[s] \in SubRows /\ subs'[s] \in SubRows
  BY <1>1, LiveRows DEF SubRows
<1>3. \A s \in Subs \ (LiveSubs \ gone) : subs'[s] = Null
  BY DEF Cascade, LiveSubs
<1>4. LiveSubs' = LiveSubs \ gone
  BY <1>2, <1>3, NullIsNoSubRow DEF LiveSubs
<1>5. QED
  BY <1>1, <1>2, <1>4 DEF SubRows

(* A deletion takes along whatever refers to what it deletes. *)
LEMMA CascadeIntact ==
    ASSUME IInv, NEW gone, NEW lost, Cascade(gone, lost),
           LivePlans' = LivePlans \ lost,
           \A p \in LivePlans' : plans'[p] = plans[p] /\ plans[p].tenant \in tenants',
           \A s \in LiveSubs \ gone : subs[s].tenant \in tenants' /\ subs[s].user \in users'
    PROVE  NothingDangles' /\ RowsAreUnique'
<1>1. \A p \in LivePlans' : plans'[p].tenant \in tenants'
  OBVIOUS
<1>2. \A s \in LiveSubs' : Anchored(subs[s]) /\ s \in LiveSubs \ gone
  BY CascadeRows DEF IInv, NothingDangles
<1>3. \A s \in LiveSubs' : /\ subs'[s].tenant \in tenants'
                           /\ subs'[s].user \in users'
                           /\ subs'[s].plan \in LivePlans' \cup {Null}
  BY <1>2, CascadeRows DEF IInv, Anchored
<1>4. \A p, q \in LivePlans' : plans'[p] = plans'[q] => p = q
  BY DEF IInv, RowsAreUnique
<1>5. \A s \in ActiveSubs' : s \in ActiveSubs /\ subs'[s].user = subs[s].user
  BY CascadeRows DEF ActiveSubs, IInv
<1>6. \A s, o \in ActiveSubs' : subs'[s].user = subs'[o].user => s = o
  BY <1>5 DEF IInv, RowsAreUnique
<1>7. QED
  BY <1>1, <1>3, <1>4, <1>6 DEF NothingDangles, RowsAreUnique, Anchored

(* Writing a plan the constraints accept. *)
LEMMA PlanWriteIntact ==
    ASSUME IInv, NEW p \in Plans, NEW row \in PlanRows,
           PlanFits(p, row), row.tenant \in tenants,
           plans' = [plans EXCEPT ![p] = row], UNCHANGED <<tenants, users, subs>>
    PROVE  NothingDangles' /\ RowsAreUnique'
<1>1. LivePlans' = LivePlans \cup {p}
  BY NullIsNoPlanRow DEF LivePlans, IInv, TypeOK
<1>2. plans'[p] = row /\ \A q \in LivePlans \ {p} : plans'[q] = plans[q] /\ plans[q] # row
  BY DEF PlanFits, LivePlans, IInv, TypeOK
<1>3. \A q \in LivePlans' : plans'[q].tenant \in tenants'
  BY <1>1, <1>2 DEF IInv, NothingDangles
<1>4. LiveSubs' = LiveSubs /\ ActiveSubs' = ActiveSubs
  BY DEF LiveSubs, ActiveSubs
<1>5. \A s \in LiveSubs' : Anchored(subs[s])'
  BY <1>1, <1>4 DEF IInv, NothingDangles, Anchored
<1>6. \A q, o \in LivePlans' : plans'[q] = plans'[o] => q = o
  BY <1>1, <1>2 DEF IInv, RowsAreUnique
<1>7. QED
  BY <1>3, <1>4, <1>5, <1>6 DEF IInv, NothingDangles, RowsAreUnique

(* Which subscriptions are live and active once one is written. *)
LEMMA SubWriteRows ==
    ASSUME TypeOK, NEW s \in Subs, NEW row \in SubRows, subs' = [subs EXCEPT ![s] = row]
    PROVE  /\ LiveSubs' = LiveSubs \cup {s}
           /\ ActiveSubs' = (ActiveSubs \ {s}) \cup (IF row.active THEN {s} ELSE {})
           /\ subs'[s] = row
           /\ \A o \in LiveSubs \ {s} : subs'[o] = subs[o]
<1>1. LiveSubs' = LiveSubs \cup {s}
  BY NullIsNoSubRow DEF LiveSubs, TypeOK
<1>2. subs'[s] = row /\ \A o \in LiveSubs \ {s} : subs'[o] = subs[o]
  BY DEF LiveSubs, TypeOK
<1>3. \A o : o \in ActiveSubs' <=> \/ o \in ActiveSubs \ {s}
                                   \/ o = s /\ row.active
  BY <1>1, <1>2 DEF ActiveSubs
<1>4. QED
  BY <1>1, <1>2, <1>3

(* Writing a subscription the constraints accept. *)
LEMMA SubWriteIntact ==
    ASSUME IInv, NEW s \in Subs, NEW row \in SubRows,
           Anchored(row), SubFits(s, row),
           subs' = [subs EXCEPT ![s] = row], UNCHANGED <<tenants, users, plans>>
    PROVE  NothingDangles' /\ RowsAreUnique'
<1>1. LivePlans' = LivePlans
  BY DEF LivePlans
<1>2. /\ LiveSubs' = LiveSubs \cup {s}
      /\ ActiveSubs' = (ActiveSubs \ {s}) \cup (IF row.active THEN {s} ELSE {})
      /\ subs'[s] = row
      /\ \A o \in LiveSubs \ {s} : subs'[o] = subs[o]
  BY SubWriteRows DEF IInv
<1>3. \A o \in LiveSubs' : Anchored(subs[o])'
  BY <1>1, <1>2 DEF IInv, NothingDangles, Anchored
<1>4. \A o \in ActiveSubs' \ {s} : o \in ActiveSubs /\ subs'[o].user = subs[o].user
  BY <1>2 DEF ActiveSubs
<1>5. s \in ActiveSubs' => \A o \in ActiveSubs' \ {s} : subs'[o].user # subs'[s].user
  BY <1>2, <1>4 DEF SubFits
<1>6. \A q, o \in ActiveSubs' : subs'[q].user = subs'[o].user => q = o
  BY <1>4, <1>5 DEF IInv, RowsAreUnique
<1>7. QED
  BY <1>1, <1>3, <1>6 DEF IInv, NothingDangles, RowsAreUnique

LEMMA DirectoryIntact ==
    ASSUME IInv, DirectoryStep \/ DeleteStep
    PROVE  NothingDangles' /\ RowsAreUnique'
<1> DEFINE Goal == NothingDangles' /\ RowsAreUnique'
<1>1. \A p \in LivePlans : plans[p].tenant \in tenants
  BY DEF IInv, NothingDangles
<1>2. \A s \in LiveSubs : subs[s].tenant \in tenants /\ subs[s].user \in users
  BY DEF IInv, NothingDangles, Anchored
<1>3. ASSUME NEW t \in Tenants, AddTenant(t)
      PROVE  Goal
  BY <1>3, GrowthIntact DEF AddTenant
<1>4. ASSUME NEW u \in Users, AddUser(u)
      PROVE  Goal
  BY <1>4, GrowthIntact DEF AddUser
<1>5. ASSUME NEW t \in Tenants, DropTenant(t)
      PROVE  Goal
  <2> DEFINE gone == {s \in LiveSubs : subs[s].tenant = t}
  <2>1. LivePlans' = LivePlans \ PlansOf(t) /\ \A p \in LivePlans' : plans'[p] = plans[p]
    BY <1>5 DEF DropTenant, LivePlans, PlansOf
  <2>2. \A p \in LivePlans' : plans[p].tenant \in tenants'
    BY <1>1, <1>5, <2>1 DEF DropTenant, PlansOf
  <2>3. \A s \in LiveSubs \ gone : subs[s].tenant \in tenants' /\ subs[s].user \in users'
    BY <1>2, <1>5 DEF DropTenant
  <2>4. Cascade(gone, PlansOf(t))
    BY <1>5 DEF DropTenant
  <2> HIDE DEF gone
  <2>5. QED
    BY <2>1, <2>2, <2>3, <2>4, CascadeIntact
<1>6. ASSUME NEW u \in Users, DropUser(u)
      PROVE  Goal
  <2> DEFINE gone == {s \in LiveSubs : subs[s].user = u}
  <2>1. LivePlans' = LivePlans \ {}
    BY <1>6 DEF DropUser, LivePlans
  <2>2. \A p \in LivePlans' : plans'[p] = plans[p] /\ plans[p].tenant \in tenants'
    BY <1>1, <1>6, <2>1 DEF DropUser
  <2>3. \A s \in LiveSubs \ gone : subs[s].tenant \in tenants' /\ subs[s].user \in users'
    BY <1>2, <1>6 DEF DropUser
  <2>4. Cascade(gone, {})
    BY <1>6 DEF DropUser
  <2> HIDE DEF gone
  <2>5. QED
    BY <2>1, <2>2, <2>3, <2>4, CascadeIntact
<1>7. ASSUME NEW p \in Plans, DeletePlan(p)
      PROVE  Goal
  <2>1. LivePlans' = LivePlans \ {p} /\ \A q \in LivePlans' : plans'[q] = plans[q]
    BY <1>7 DEF DeletePlan, LivePlans, IInv, TypeOK
  <2>2. \A q \in LivePlans' : plans[q].tenant \in tenants'
    BY <1>1, <1>7, <2>1 DEF DeletePlan
  <2>3. QED
    BY <1>2, <1>7, <2>1, <2>2, CascadeIntact DEF DeletePlan
<1>8. ASSUME NEW s \in Subs, DeleteSub(s)
      PROVE  Goal
  <2>1. LivePlans' = LivePlans \ {} /\ \A p \in LivePlans' : plans'[p] = plans[p]
    BY <1>8 DEF DeleteSub, LivePlans
  <2>2. QED
    BY <1>1, <1>2, <1>8, <2>1, CascadeIntact DEF DeleteSub
<1>9. QED
  BY <1>3, <1>4, <1>5, <1>6, <1>7, <1>8 DEF DirectoryStep, DeleteStep

LEMMA CommitIntact ==
    ASSUME IInv, NEW r \in Requests, CommitStep(r)
    PROVE  NothingDangles' /\ RowsAreUnique'
<1> DEFINE Goal == NothingDangles' /\ RowsAreUnique'
<1>1. job[r] \in Jobs /\ TypeOK
  BY DEF IInv, TypeOK
<1>2. ASSUME NEW p \in Plans, CreatePlan(r, p)
      PROVE  Goal
  BY <1>1, <1>2, JobFields, PlanWriteIntact DEF CreatePlan
<1>3. CASE UpdatePlan(r)
  <2> DEFINE p == job[r].plan
             row == [plans[p] EXCEPT !.name = job[r].name]
  <2>1. p \in Plans /\ p \in LivePlans /\ job[r].name \in Names
    BY <1>1, <1>3, JobFields DEF UpdatePlan
  <2>2. row \in PlanRows /\ row.tenant = plans[p].tenant
    BY <1>1, <2>1, LiveRows DEF PlanRows
  <2>3. row.tenant \in tenants
    BY <2>1, <2>2 DEF IInv, NothingDangles
  <2>4. PlanFits(p, row) /\ plans' = [plans EXCEPT ![p] = row]
    BY <1>3 DEF UpdatePlan
  <2>5. UNCHANGED <<tenants, users, subs>>
    BY <1>3 DEF UpdatePlan
  <2> HIDE DEF p, row
  <2>6. QED
    BY <2>1, <2>2, <2>3, <2>4, <2>5, PlanWriteIntact
<1>4. ASSUME NEW s \in Subs, CreateSub(r, s)
      PROVE  Goal
  BY <1>1, <1>4, JobFields, SubWriteIntact DEF CreateSub
<1>5. CASE UpdateSub(r)
  <2>1. job[r].sub \in Subs /\ Updated(subs[job[r].sub], job[r]) \in SubRows
    BY <1>1, <1>5, JobFields, LiveRows, UpdatedRow DEF UpdateSub
  <2>2. QED
    BY <1>5, <2>1, SubWriteIntact DEF UpdateSub
<1>6. QED
  BY <1>2, <1>3, <1>4, <1>5 DEF CommitStep

LEMMA Invariance == Spec => []IInv
<1>1. IInv /\ [Next]_vars => IInv'
  <2>1. ASSUME IInv, NEW r \in Requests, LoadStep(r) \/ Abandon(r)
        PROVE  NothingDangles' /\ RowsAreUnique'
    <3>1. UNCHANGED tables
      BY <2>1, LoadStepLoads DEF Load, Abandon
    <3>2. QED
      BY <2>1, <3>1, GrowthIntact DEF tables
  <2>2. ASSUME IInv, Next
        PROVE  NothingDangles' /\ RowsAreUnique'
    BY <2>1, <2>2, DirectoryIntact, CommitIntact DEF Next
  <2>3. ASSUME IInv, UNCHANGED vars
        PROVE  IInv'
    BY <2>3, GrowthIntact DEF vars, IInv, TypeOK
  <2>4. QED
    BY <2>2, <2>3, TypeStep DEF IInv
<1>2. QED
  BY <1>1, InitIntact, PTL DEF Spec

(* Whatever requests race, the tables of billing keep their types. *)
THEOREM TypeCorrect == Spec => []TypeOK
BY Invariance, PTL DEF IInv

(* No plan and no subscription refers to a tenant, user or plan that is    *)
(* gone, although creations look up only some of them and updates none.    *)
THEOREM Integrity == Spec => []NothingDangles
BY Invariance, PTL DEF IInv

(* However creations, renames and re-activations interleave, a tenant has  *)
(* no two plans of one name and a user no two active subscriptions.        *)
THEOREM Uniqueness == Spec => []RowsAreUnique
BY Invariance, PTL DEF IInv

-----------------------------------------------------------------------------
(* Active subscriptions implement CurrentSubscription *)

LEMMA InForceUnchanged ==
    ASSUME UNCHANGED subs
    PROVE  InForce' = InForce
BY DEF InForce, ActiveSubs, LiveSubs

(* Deleting ends what is deleted and nothing else. *)
LEMMA CascadeEnds ==
    ASSUME TypeOK, NEW gone, NEW lost, Cascade(gone, lost)
    PROVE  Current!Next \/ UNCHANGED InForce
<1> DEFINE ended == {c \in InForce : c[2] \in gone}
<1>1. ActiveSubs' = ActiveSubs \ gone /\ \A s \in ActiveSubs \ gone : subs'[s].user = subs[s].user
  BY CascadeRows DEF ActiveSubs
<1>2. \A c : c \in InForce' <=> c \in InForce \ ended
  BY <1>1 DEF InForce
<1>3. ended \in SUBSET InForce
  OBVIOUS
<1> HIDE DEF ended
<1>4. CASE ended = {}
  BY <1>2, <1>4
<1>5. CASE ended # {}
  <2>1. InForce' = InForce \ ended
    BY <1>2
  <2>2. Current!End(ended)
    BY <1>5, <2>1 DEF Current!End
  <2>3. QED
    BY <1>3, <2>2 DEF Current!Next
<1>6. QED
  BY <1>4, <1>5

(* Writing one subscription begins it, ends it or leaves it as it was, as  *)
(* long as its user stays and the unique index holds.                      *)
LEMMA SubWriteMaps ==
    ASSUME IInv, NEW s \in Subs, NEW row \in SubRows,
           SubFits(s, row), s \in LiveSubs => subs[s].user = row.user,
           subs' = [subs EXCEPT ![s] = row]
    PROVE  Current!Next \/ UNCHANGED InForce
<1> DEFINE c == <<row.user, s>>
<1>1. /\ ActiveSubs' = (ActiveSubs \ {s}) \cup (IF row.active THEN {s} ELSE {})
      /\ subs'[s] = row
      /\ \A o \in ActiveSubs \ {s} : subs'[o] = subs[o]
  BY SubWriteRows DEF IInv, ActiveSubs
<1>2. \A x : x \in InForce' <=> \/ \E o \in ActiveSubs \ {s} : x = <<subs[o].user, o>>
                                \/ x = c /\ row.active
  <2>1. \A x : x \in InForce' <=> \E o \in ActiveSubs' : x = <<subs'[o].user, o>>
    BY DEF InForce
  <2>2. \A o : o \in ActiveSubs' <=> o \in ActiveSubs \ {s} \/ (o = s /\ row.active)
    BY <1>1
  <2>3. QED
    BY <1>1, <2>1, <2>2
<1>3. \A x : x \in InForce <=> \/ \E o \in ActiveSubs \ {s} : x = <<subs[o].user, o>>
                               \/ x = c /\ s \in ActiveSubs
  BY DEF InForce, ActiveSubs
<1>4. row.user \in Users
  BY DEF SubRows
<1>5. CASE row.active /\ s \notin ActiveSubs
  <2>1. \A x \in InForce : x[1] # row.user /\ x[2] # s
    BY <1>5 DEF SubFits, InForce
  <2>2. InForce' = InForce \cup {c}
    BY <1>2, <1>3, <1>5
  <2>3. Current!Begin(row.user, s)
    BY <2>1, <2>2 DEF Current!Begin
  <2>4. QED
    BY <1>4, <2>3 DEF Current!Next
<1>6. CASE ~ row.active /\ s \in ActiveSubs
  <2>1. c \in InForce /\ \A o \in ActiveSubs \ {s} : <<subs[o].user, o>> # c
    BY <1>3, <1>6
  <2>2. InForce' = InForce \ {c}
    BY <1>2, <1>3, <1>6, <2>1
  <2>3. Current!End({c})
    BY <2>2 DEF Current!End
  <2>4. QED
    BY <2>1, <2>3 DEF Current!Next
<1>7. CASE row.active <=> s \in ActiveSubs
  BY <1>2, <1>3, <1>7
<1>8. QED
  BY <1>5, <1>6, <1>7 DEF SubRows

LEMMA StepMaps ==
    ASSUME IInv, Next
    PROVE  Current!Next \/ UNCHANGED InForce
<1> DEFINE Goal == Current!Next \/ UNCHANGED InForce
<1>1. TypeOK
  BY DEF IInv
<1>2. CASE DirectoryStep
  BY <1>1, <1>2, CascadeEnds, InForceUnchanged
  DEF DirectoryStep, AddTenant, DropTenant, AddUser, DropUser
<1>3. CASE DeleteStep
  BY <1>1, <1>3, CascadeEnds DEF DeleteStep, DeletePlan, DeleteSub
<1>4. ASSUME NEW r \in Requests, LoadStep(r) \/ Abandon(r)
      PROVE  Goal
  BY <1>4, LoadStepLoads, InForceUnchanged DEF Load, Abandon, tables
<1>5. ASSUME NEW r \in Requests, CommitStep(r)
      PROVE  Goal
  <2>1. job[r] \in Jobs
    BY <1>1 DEF TypeOK
  <2>2. CASE (\E p \in Plans : CreatePlan(r, p)) \/ UpdatePlan(r)
    BY <2>2, InForceUnchanged DEF CreatePlan, UpdatePlan
  <2>3. ASSUME NEW s \in Subs, CreateSub(r, s)
        PROVE  Goal
    <3>1. s \notin LiveSubs /\ job[r].row \in SubRows
      BY <2>1, <2>3, JobFields DEF CreateSub, LiveSubs
    <3>2. QED
      BY <2>3, <3>1, SubWriteMaps DEF CreateSub
  <2>4. CASE UpdateSub(r)
    <3>1. /\ job[r].sub \in Subs
          /\ Updated(subs[job[r].sub], job[r]) \in SubRows
          /\ Updated(subs[job[r].sub], job[r]).user = subs[job[r].sub].user
      BY <1>1, <2>1, <2>4, JobFields, LiveRows, UpdatedRow DEF UpdateSub
    <3>2. QED
      BY <2>4, <3>1, SubWriteMaps DEF UpdateSub
  <2>5. QED
    BY <1>5, <2>2, <2>3, <2>4 DEF CommitStep
<1>6. QED
  BY <1>2, <1>3, <1>4, <1>5 DEF Next

(* The active subscriptions begin one at a time and end before their       *)
(* user's next begins: the unique index turns the unguarded writes of      *)
(* create_subscription and update_subscription into such steps.            *)
THEOREM Refinement == Spec => OneAtATime
<1>1. Init => Current!Init
  BY DEF Init, Current!Init, InForce, ActiveSubs, LiveSubs
<1>2. IInv /\ [Next]_vars => [Current!Next]_InForce
  BY StepMaps, InForceUnchanged DEF vars
<1>3. QED
  BY <1>1, <1>2, Invariance, PTL DEF Spec, OneAtATime, Current!Spec
-----------------------------------------------------------------------------
(* Foreign plans *)

(* Plans and subscriptions keep their tenants, and a key that a request    *)
(* mentions is not used again.                                             *)
KeepsTenants ==
    /\ \A p \in LivePlans' : \/ Unmentioned("plan", p)
                             \/ p \in LivePlans /\ plans'[p].tenant = plans[p].tenant
    /\ \A s \in LiveSubs' : \/ Unmentioned("sub", s)
                            \/ s \in LiveSubs /\ subs'[s].tenant = subs[s].tenant

(* So a request that asks for another tenant's plan asked for one before.  *)
LEMMA AskingStays ==
    ASSUME TypeOK, KeepsTenants, NEW r \in Requests, job'[r] = job[r], AsksForForeign(r)'
    PROVE  AsksForForeign(r)
<1>1. PICK p \in LivePlans', t \in Tenants : AsksFor(r, p, t)' /\ plans'[p].tenant # t
  BY DEF AsksForForeign
<1>2. job[r] \in Jobs
  BY DEF TypeOK
<1>3. CASE job[r].op = "createSub" /\ job[r].row.plan = p /\ job[r].row.tenant = t
  <2>1. "row" \in DOMAIN job[r] /\ "plan" \in DOMAIN job[r].row
    BY <1>2, <1>3 DEF Jobs, NoJob, SubRows
  <2>2. ~ Unmentioned("plan", p)
    BY <1>3, <2>1 DEF Unmentioned, Mentions
  <2>3. p \in LivePlans /\ plans'[p].tenant = plans[p].tenant
    BY <2>2 DEF KeepsTenants
  <2>4. AsksFor(r, p, t)
    BY <1>3 DEF AsksFor
  <2>5. QED
    BY <1>1, <2>3, <2>4 DEF AsksForForeign
<1>4. CASE /\ job[r].op = "updateSub" /\ "plan" \in job[r].dirty /\ job[r].plan = p
           /\ job[r].sub \in LiveSubs' /\ subs'[job[r].sub].tenant = t
  <2>1. "plan" \in DOMAIN job[r] /\ "sub" \in DOMAIN job[r]
    BY <1>2, <1>4 DEF Jobs, NoJob
  <2>2. ~ Unmentioned("plan", p) /\ ~ Unmentioned("sub", job[r].sub)
    BY <1>4, <2>1 DEF Unmentioned, Mentions
  <2>3. /\ p \in LivePlans /\ plans'[p].tenant = plans[p].tenant
        /\ job[r].sub \in LiveSubs /\ subs[job[r].sub].tenant = t
    BY <1>4, <2>2 DEF KeepsTenants
  <2>4. AsksFor(r, p, t)
    BY <1>4, <2>3 DEF AsksFor
  <2>5. QED
    BY <1>1, <2>3, <2>4 DEF AsksForForeign
<1>5. QED
  BY <1>1, <1>3, <1>4 DEF AsksFor

(* What ForeignPlansAreAskedFor says of the subscriptions. *)
NewlyForeignAskedFor ==
    \A s \in Subs : Foreign(s)' /\ ~ Foreign(s) =>
        \E r \in Requests : job'[r] # job[r] /\ AsksFor(r, subs'[s].plan, subs'[s].tenant)

(* Steps that change no plan and no subscription *)
LEMMA QuietForeign ==
    ASSUME UNCHANGED <<plans, subs>>
    PROVE  KeepsTenants /\ NewlyForeignAskedFor
<1>1. LivePlans' = LivePlans /\ LiveSubs' = LiveSubs
  BY DEF LivePlans, LiveSubs
<1>2. QED
  BY <1>1 DEF KeepsTenants, NewlyForeignAskedFor, Foreign

(* Deletions *)
LEMMA CascadeForeign ==
    ASSUME IInv, NEW gone, NEW lost, Cascade(gone, lost),
           LivePlans' = LivePlans \ lost,
           \A p \in LivePlans' : plans'[p] = plans[p]
    PROVE  KeepsTenants /\ NewlyForeignAskedFor
<1>1. /\ LiveSubs' = LiveSubs \ gone
      /\ \A s \in LiveSubs' :
             /\ subs'[s].tenant = subs[s].tenant
             /\ subs'[s].plan = IF subs[s].plan \in lost THEN Null ELSE subs[s].plan
  BY CascadeRows DEF IInv
<1>2. KeepsTenants
  BY <1>1 DEF KeepsTenants
<1>3. ASSUME NEW s \in Subs, Foreign(s)'
      PROVE  Foreign(s)
  <2>1. s \in LiveSubs' /\ subs'[s].plan \in LivePlans' /\ subs'[s].plan # Null
    BY <1>3, NullIsNoPlan DEF Foreign, LivePlans
  <2>2. s \in LiveSubs /\ subs'[s].plan = subs[s].plan /\ subs'[s].tenant = subs[s].tenant
    BY <1>1, <2>1
  <2>3. QED
    BY <1>3, <2>1, <2>2 DEF Foreign
<1>4. QED
  BY <1>2, <1>3 DEF NewlyForeignAskedFor

LEMMA DeletionsForeign ==
    ASSUME IInv, DirectoryStep \/ DeleteStep
    PROVE  KeepsTenants /\ NewlyForeignAskedFor
<1> DEFINE Goal == KeepsTenants /\ NewlyForeignAskedFor
<1>1. ASSUME NEW t \in Tenants, AddTenant(t)
      PROVE  Goal
  BY <1>1, QuietForeign DEF AddTenant
<1>2. ASSUME NEW u \in Users, AddUser(u)
      PROVE  Goal
  BY <1>2, QuietForeign DEF AddUser
<1>3. ASSUME NEW t \in Tenants, DropTenant(t)
      PROVE  Goal
  <2>1. LivePlans' = LivePlans \ PlansOf(t) /\ \A p \in LivePlans' : plans'[p] = plans[p]
    BY <1>3 DEF DropTenant, LivePlans, PlansOf
  <2>2. QED
    BY <1>3, <2>1, CascadeForeign DEF DropTenant
<1>4. ASSUME NEW u \in Users, DropUser(u)
      PROVE  Goal
  <2>1. LivePlans' = LivePlans \ {} /\ \A p \in LivePlans' : plans'[p] = plans[p]
    BY <1>4 DEF DropUser, LivePlans
  <2>2. QED
    BY <1>4, <2>1, CascadeForeign DEF DropUser
<1>5. ASSUME NEW p \in Plans, DeletePlan(p)
      PROVE  Goal
  <2>1. LivePlans' = LivePlans \ {p} /\ \A q \in LivePlans' : plans'[q] = plans[q]
    BY <1>5 DEF DeletePlan, LivePlans, IInv, TypeOK
  <2>2. QED
    BY <1>5, <2>1, CascadeForeign DEF DeletePlan
<1>6. ASSUME NEW s \in Subs, DeleteSub(s)
      PROVE  Goal
  <2>1. LivePlans' = LivePlans \ {} /\ \A p \in LivePlans' : plans'[p] = plans[p]
    BY <1>6 DEF DeleteSub, LivePlans
  <2>2. QED
    BY <1>6, <2>1, CascadeForeign DEF DeleteSub
<1>7. QED
  BY <1>1, <1>2, <1>3, <1>4, <1>5, <1>6 DEF DirectoryStep, DeleteStep

(* A plan is written: no subscription and no request knows a new one, and  *)
(* a renamed one keeps its tenant.                                         *)
LEMMA PlanWriteForeign ==
    ASSUME IInv, NEW p \in Plans, NEW row \in PlanRows,
           plans' = [plans EXCEPT ![p] = row], UNCHANGED subs,
           IF p \in LivePlans THEN row.tenant = plans[p].tenant ELSE Unmentioned("plan", p)
    PROVE  KeepsTenants /\ NewlyForeignAskedFor
<1>1. TypeOK /\ LiveSubs' = LiveSubs
  BY DEF IInv, LiveSubs
<1>2. /\ plans'[p] = row
      /\ \A q \in Plans \ {p} : plans'[q] = plans[q]
  BY <1>1 DEF TypeOK
<1>3. \A q \in LivePlans : plans'[q].tenant = plans[q].tenant
  BY <1>2 DEF LivePlans
<1>4. \A q \in LivePlans' : Unmentioned("plan", q) \/ q \in LivePlans
  BY <1>2 DEF LivePlans
<1>5. KeepsTenants
  BY <1>1, <1>3, <1>4 DEF KeepsTenants
<1>6. ASSUME NEW s \in Subs, Foreign(s)'
      PROVE  Foreign(s)
  <2>1. s \in LiveSubs /\ subs[s].plan \in LivePlans' /\ plans'[subs[s].plan].tenant # subs[s].tenant
    BY <1>1, <1>6 DEF Foreign
  <2>2. subs[s].plan \in LivePlans
    BY <2>1, NullIsNoPlan DEF IInv, NothingDangles, Anchored, LivePlans
  <2>3. QED
    BY <1>3, <2>1, <2>2 DEF Foreign
<1>7. QED
  BY <1>5, <1>6 DEF NewlyForeignAskedFor

(* A subscription is written by a request that asked for its plan, or with *)
(* the plan it has.                                                        *)
LEMMA SubWriteForeign ==
    ASSUME IInv, NEW r \in Requests, job'[r] # job[r],
           NEW s \in Subs, NEW row \in SubRows,
           subs' = [subs EXCEPT ![s] = row], UNCHANGED plans,
           \/ AsksFor(r, row.plan, row.tenant)
           \/ s \in LiveSubs /\ row.plan = subs[s].plan,
           IF s \in LiveSubs THEN row.tenant = subs[s].tenant ELSE Unmentioned("sub", s)
    PROVE  KeepsTenants /\ NewlyForeignAskedFor
<1>1. TypeOK /\ LivePlans' = LivePlans
  BY DEF IInv, LivePlans
<1>2. /\ LiveSubs' = LiveSubs \cup {s}
      /\ subs'[s] = row
      /\ \A o \in LiveSubs \ {s} : subs'[o] = subs[o]
  BY <1>1, SubWriteRows
<1>3. KeepsTenants
  BY <1>1, <1>2 DEF KeepsTenants
<1>4. ASSUME NEW o \in Subs \ {s}, Foreign(o)'
      PROVE  Foreign(o)
  BY <1>1, <1>2, <1>4 DEF Foreign
<1>5. ASSUME Foreign(s)', ~ Foreign(s)
      PROVE  AsksFor(r, subs'[s].plan, subs'[s].tenant)
  BY <1>1, <1>2, <1>5 DEF Foreign
<1>6. QED
  BY <1>3, <1>4, <1>5 DEF NewlyForeignAskedFor

LEMMA CommitForeign ==
    ASSUME IInv, NEW r \in Requests, CommitStep(r)
    PROVE  KeepsTenants /\ NewlyForeignAskedFor
<1> DEFINE Goal == KeepsTenants /\ NewlyForeignAskedFor
<1>1. TypeOK /\ job[r] \in Jobs
  BY DEF IInv, TypeOK
<1>2. ASSUME NEW p \in Plans, CreatePlan(r, p)
      PROVE  Goal
  <2>1. p \notin LivePlans /\ job[r].row \in PlanRows
    BY <1>1, <1>2, JobFields DEF CreatePlan, LivePlans
  <2>2. QED
    BY <1>2, <2>1, PlanWriteForeign DEF CreatePlan
<1>3. CASE UpdatePlan(r)
  <2> DEFINE p == job[r].plan
             row == [plans[p] EXCEPT !.name = job[r].name]
  <2>1. p \in Plans /\ p \in LivePlans /\ job[r].name \in Names
    BY <1>1, <1>3, JobFields DEF UpdatePlan
  <2>2. row \in PlanRows /\ row.tenant = plans[p].tenant
    BY <1>1, <2>1, LiveRows DEF PlanRows
  <2>3. plans' = [plans EXCEPT ![p] = row] /\ UNCHANGED subs
    BY <1>3 DEF UpdatePlan
  <2> HIDE DEF p, row
  <2>4. QED
    BY <2>1, <2>2, <2>3, PlanWriteForeign
<1>4. ASSUME NEW s \in Subs, CreateSub(r, s)
      PROVE  Goal
  <2>1. s \notin LiveSubs /\ job[r].row \in SubRows
    BY <1>1, <1>4, JobFields DEF CreateSub, LiveSubs
  <2>2. job'[r] # job[r]
    BY <1>1, <1>4 DEF CreateSub, Finish, NoJob, TypeOK
  <2>3. AsksFor(r, job[r].row.plan, job[r].row.tenant)
    BY <1>4 DEF CreateSub, AsksFor
  <2>4. QED
    BY <1>4, <2>1, <2>2, <2>3, SubWriteForeign DEF CreateSub
<1>5. CASE UpdateSub(r)
  <2> DEFINE s == job[r].sub
             row == Updated(subs[s], job[r])
  <2>1. s \in Subs /\ s \in LiveSubs
    BY <1>1, <1>5, JobFields DEF UpdateSub
  <2>2. row \in SubRows /\ row.tenant = subs[s].tenant
    BY <1>1, <1>5, <2>1, LiveRows, UpdatedRow DEF UpdateSub
  <2>3. row.plan = IF "plan" \in job[r].dirty THEN job[r].plan ELSE subs[s].plan
    BY <1>1, <2>1, LiveRows DEF Updated, SubRows
  <2>4. job'[r] # job[r]
    BY <1>1, <1>5 DEF UpdateSub, Finish, NoJob, TypeOK
  <2>5. AsksFor(r, row.plan, row.tenant) \/ row.plan = subs[s].plan
    BY <1>5, <2>1, <2>2, <2>3 DEF UpdateSub, AsksFor
  <2>6. subs' = [subs EXCEPT ![s] = row] /\ UNCHANGED plans
    BY <1>5 DEF UpdateSub
  <2> HIDE DEF s, row
  <2>7. QED
    BY <2>1, <2>2, <2>4, <2>5, <2>6, SubWriteForeign
<1>6. QED
  BY <1>2, <1>3, <1>4, <1>5 DEF CommitStep

(* A subscription comes to another tenant's plan only by the commit of a   *)
(* request that named the plan when it loaded, whatever is renamed,        *)
(* deleted, created or merged in between: what create_subscription and     *)
(* update_subscription lack is a comparison in the handler.                *)
THEOREM ForeignPlansAskedFor == Spec => ForeignPlansAreAskedFor
<1>1. ASSUME IInv, [Next]_vars
      PROVE  KeepsTenants /\ NewlyForeignAskedFor
  <2>1. ASSUME NEW r \in Requests, LoadStep(r) \/ Abandon(r)
        PROVE  UNCHANGED <<plans, subs>>
    BY <2>1, LoadStepLoads DEF Load, Abandon, tables
  <2>2. QED
    BY <1>1, <2>1, QuietForeign, DeletionsForeign, CommitForeign DEF Next, vars
<1>2. IInv /\ [Next]_vars
        => /\ NewlyForeignAskedFor
           /\ \A r \in Requests : job'[r] = job[r] /\ AsksForForeign(r)' => AsksForForeign(r)
  BY <1>1, AskingStays DEF IInv
<1>3. QED
  BY <1>2, Invariance, PTL DEF Spec, ForeignPlansAreAskedFor, NewlyForeignAskedFor
=============================================================================
