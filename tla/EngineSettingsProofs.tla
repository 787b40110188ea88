------------------------ MODULE EngineSettingsProofs ------------------------
(* Proofs about EngineSettings, for any users, requests and engines: what  *)
(* updates and configurations keep to, and that the two things they do not *)
(* keep to fail for one reason each: updates that overlap, and a deletion  *)
(* between two SELECTs.                                                    *)
EXTENDS EngineSettings, TLAPS

LEMMA BecomeType ==
    ASSUME TypeOK, NEW r \in Requests, NEW p \in Over \cup Running, NEW j \in Jobs, Become(r, p, j)
    PROVE  /\ pc' \in [Requests -> Over \cup Running] /\ job' \in [Requests -> Jobs]
           /\ pc'[r] = p /\ job'[r] = j
           /\ \A q \in Requests \ {r} : pc'[q] = pc[q] /\ job'[q] = job[q]
BY DEF Become, TypeOK

LEMMA TypeStep ==
    ASSUME TypeOK, Next
    PROVE  TypeOK'
<1> USE DEF TypeOK
<1>1. /\ met' \in [Requests -> SUBSET Engines]
      /\ whole' \in [Requests -> BOOLEAN]
      /\ seen' \in [Requests -> SUBSET Engines]
  BY DEF Next, Observe
<1>2. ASSUME UserStep
      PROVE  TypeOK'
  BY <1>1, <1>2 DEF UserStep, Register, CreateUser, DeleteUser
<1>3. ASSUME NEW r \in Requests, UpdateStep(r)
      PROVE  TypeOK'
  <2>1. ASSUME NEW u \in Users, NEW asked \in SUBSET Engines, LoadEngines(r, u, asked)
        PROVE  TypeOK'
    <3>1. Differing(allowed[u], asked) \in SUBSET Engines
      BY <2>1 DEF LoadEngines, HasRow, Differing
    <3>2. QED
      BY <1>1, <2>1, <3>1, BecomeType DEF LoadEngines, Jobs, Running
  <2>2. CASE CommitEngines(r)
    <3>1. job[r] \in Jobs
      OBVIOUS
    <3>2. allowed' \in [Users -> {NoRow} \cup SUBSET Engines]
      BY <2>2, <3>1 DEF CommitEngines, HasRow, Jobs
    <3>3. QED
      BY <1>1, <2>2, <3>1, <3>2, BecomeType DEF CommitEngines, Over
  <2>3. QED
    BY <1>3, <2>1, <2>2 DEF UpdateStep
<1>4. ASSUME NEW r \in Requests, ServeStep(r)
      PROVE  TypeOK'
  <2>1. ASSUME NEW u \in Users, SelectUser(r, u)
        PROVE  TypeOK'
    BY <1>1, <2>1, BecomeType DEF SelectUser, NoJob, Jobs, Running
  <2>2. ASSUME NEW u \in Users, ServeQR(r, u)
        PROVE  TypeOK'
    BY <1>1, <2>2, WireguardIsAnEngine, BecomeType DEF ServeQR, NoJob, Jobs, Over
  <2>3. CASE ServeConfigs(r)
    <3>1. job[r] \in Jobs /\ Granted(job[r].user) \in SUBSET Engines
      BY DEF Jobs, Granted, HasRow
    <3>2. [job[r] EXCEPT !.asked = Granted(job[r].user)] \in Jobs
      BY <3>1 DEF Jobs
    <3>3. "configured" \in Over \cup Running
      BY DEF Over
    <3>4. pc' \in [Requests -> Over \cup Running] /\ job' \in [Requests -> Jobs]
      BY <2>3, <3>2, <3>3, BecomeType DEF ServeConfigs
    <3>5. QED
      BY <1>1, <2>3, <3>4 DEF ServeConfigs
  <2>4. QED
    BY <1>4, <2>1, <2>2, <2>3 DEF ServeStep
<1>5. ASSUME NEW r \in Requests, Abandon(r)
      PROVE  TypeOK'
  BY <1>1, <1>5, BecomeType DEF Abandon, NoJob, Jobs, Over
<1>6. QED
  BY <1>2, <1>3, <1>4, <1>5 DEF Next

LEMMA JobOfSlot ==
    ASSUME TypeOK, NEW r \in Requests
    PROVE  /\ job[r] \in Jobs /\ job[r].user \in Users
           /\ job[r].asked \in SUBSET Engines /\ job[r].dirty \in SUBSET Engines
BY DEF TypeOK, Jobs

(* A step moves one slot, or none. *)
LEMMA OneSlotMoves ==
    ASSUME TypeOK, Next, NEW q \in Requests
    PROVE  \/ pc'[q] = pc[q] /\ job'[q] = job[q]
           \/ UpdateStep(q) \/ ServeStep(q) \/ Abandon(q)
<1>1. ASSUME UserStep
      PROVE  pc'[q] = pc[q] /\ job'[q] = job[q]
  BY <1>1 DEF UserStep, Register, CreateUser, DeleteUser
<1>2. ASSUME NEW r \in Requests \ {q}, UpdateStep(r) \/ ServeStep(r) \/ Abandon(r)
      PROVE  pc'[q] = pc[q] /\ job'[q] = job[q]
  BY <1>2 DEF UpdateStep, LoadEngines, CommitEngines, ServeStep, SelectUser, ServeQR, ServeConfigs,
     Abandon, Become, TypeOK
<1>3. QED
  BY <1>1, <1>2 DEF Next

-----------------------------------------------------------------------------
(* Updates *)

(* A flag that is not dirty was as asked when the row was loaded. *)
FlagInv ==
    \A r \in Requests :
        /\ pc[r] = "updating" => Engines \ job[r].dirty \subseteq met[r]
        /\ pc[r] = "acknowledged" => met[r] = Engines

LEMMA MetGrows ==
    ASSUME TypeOK, Observe, NEW q \in Requests, pc'[q] \in {"updating", "acknowledged"}
    PROVE  /\ pc[q] \in Over /\ pc'[q] = pc[q] /\ job'[q] = job[q] => met'[q] = met[q]
           /\ ~ (pc[q] \in Over /\ pc'[q] = pc[q] /\ job'[q] = job[q]) =>
                 /\ \A e \in Engines : e \in Agreeing(q)' => e \in met'[q]
                 /\ pc[q] \notin Over => \A e \in Engines : e \in met[q] => e \in met'[q]
BY DEF Observe, TypeOK

LEMMA FlagStep ==
    ASSUME TypeOK, FlagInv, Next
    PROVE  FlagInv'
<1> USE DEF Over
<1>1. TypeOK' /\ Observe
  BY TypeStep DEF Next
<1>2. SUFFICES ASSUME NEW q \in Requests
               PROVE  /\ pc'[q] = "updating" => Engines \ job'[q].dirty \subseteq met'[q]
                      /\ pc'[q] = "acknowledged" => met'[q] = Engines
  BY DEF FlagInv
<1>3. met[q] \in SUBSET Engines /\ met'[q] \in SUBSET Engines
  BY <1>1 DEF TypeOK
<1>4. CASE pc'[q] = pc[q] /\ job'[q] = job[q]
  <2>1. /\ pc[q] = "updating" => Engines \ job[q].dirty \subseteq met[q]
        /\ pc[q] = "acknowledged" => met[q] = Engines
    BY DEF FlagInv
  <2>2. QED
    BY <1>1, <1>3, <1>4, <2>1, MetGrows
<1>5. CASE UpdateStep(q)
  <2>1. ASSUME NEW u \in Users, NEW asked \in SUBSET Engines, LoadEngines(q, u, asked),
               job'[q] # job[q] \/ pc'[q] # pc[q]
        PROVE  pc'[q] = "updating" /\ Engines \ job'[q].dirty \subseteq met'[q]
    <3>1. /\ pc'[q] = "updating" /\ UNCHANGED allowed /\ HasRow(u)
          /\ job'[q] = [user |-> u, asked |-> asked, dirty |-> Differing(allowed[u], asked)]
      BY <2>1 DEF LoadEngines, Become, TypeOK
    <3>2. \A e \in Engines \ job'[q].dirty : e \in Agreeing(q)'
      BY <3>1 DEF Agreeing, Differing, HasRow
    <3>3. QED
      BY <1>1, <2>1, <3>1, <3>2, MetGrows
  <2>2. CASE CommitEngines(q)
    <3>1. pc[q] = "updating" /\ pc'[q] = "acknowledged" /\ job'[q] = job[q]
      BY <2>2 DEF CommitEngines, Become, TypeOK
    <3>2. Engines \ job[q].dirty \subseteq met[q]
      BY <3>1 DEF FlagInv
    <3>3. \A e \in job[q].dirty : e \in Agreeing(q)'
      <4>1. CASE job[q].dirty = {}
        BY <4>1
      <4>2. CASE job[q].dirty # {}
        <5>1. HasRow(job[q].user) /\ allowed[job[q].user] \in SUBSET Engines
          BY <2>2, <4>2, JobOfSlot DEF CommitEngines, HasRow, TypeOK
        <5>2. allowed'[job[q].user] =
                (allowed[job[q].user] \ job[q].dirty) \cup (job[q].dirty \cap job[q].asked)
          BY <2>2, <4>2, JobOfSlot DEF CommitEngines, TypeOK
        <5>3. allowed'[job[q].user] \in SUBSET Engines
          BY <5>1, <5>2, JobOfSlot
        <5>4. HasRow(job[q].user)'
          BY <3>1, <5>3, NoRowIsNoSetting DEF HasRow
        <5>5. QED
          BY <3>1, <5>2, <5>4, JobOfSlot DEF Agreeing
      <4>3. QED
        BY <4>1, <4>2
    <3>4. QED
      BY <1>1, <1>3, <3>1, <3>2, <3>3, MetGrows, JobOfSlot
  <2>3. QED
    BY <1>4, <1>5, <2>1, <2>2 DEF UpdateStep
<1>6. CASE ServeStep(q) \/ Abandon(q)
  BY <1>6 DEF ServeStep, SelectUser, ServeQR, ServeConfigs, Abandon, Become, TypeOK
<1>7. QED
  BY <1>4, <1>5, <1>6, OneSlotMoves

-----------------------------------------------------------------------------
(* Configurations *)

LEMMA SeenGrows ==
    ASSUME TypeOK, Observe, NEW q \in Requests, pc'[q] \in {"configured", "qrShown"}
    PROVE  /\ pc[q] \in Over /\ pc'[q] = pc[q] /\ job'[q] = job[q] => seen'[q] = seen[q]
           /\ ~ (pc[q] \in Over /\ pc'[q] = pc[q] /\ job'[q] = job[q]) =>
                 \A e \in Engines : e \in Effective(job[q].user)' => e \in seen'[q]
BY DEF Observe, TypeOK

LEMMA ServedStep ==
    ASSUME TypeOK, ServedWasAllowed, Next
    PROVE  ServedWasAllowed'
<1> USE DEF Over
<1>1. TypeOK' /\ Observe
  BY TypeStep DEF Next
<1>2. SUFFICES ASSUME NEW q \in Requests, pc'[q] \in {"configured", "qrShown"},
                      job'[q].user \in exists'
               PROVE  job'[q].asked \subseteq seen'[q]
  BY DEF ServedWasAllowed
<1>3. CASE pc'[q] = pc[q] /\ job'[q] = job[q]
  <2>1. job[q].user \in exists
    <3>1. ASSUME NEW u \in Users, Register(u) \/ CreateUser(u)
          PROVE  job[q].user \in exists
      <4>1. job[q].user # u /\ exists' = exists \cup {u}
        BY <1>2, <1>3, <3>1 DEF Register, CreateUser, Fresh
      <4>2. QED
        BY <1>2, <1>3, <4>1
    <3>2. ASSUME NEW u \in Users, DeleteUser(u)
          PROVE  job[q].user \in exists
      BY <1>2, <1>3, <3>2 DEF DeleteUser
    <3>3. ASSUME NEW r \in Requests, UpdateStep(r) \/ ServeStep(r) \/ Abandon(r)
          PROVE  UNCHANGED exists
      BY <3>3 DEF UpdateStep, LoadEngines, CommitEngines, ServeStep, SelectUser, ServeQR,
         ServeConfigs, Abandon
    <3>4. QED
      BY <1>2, <1>3, <3>1, <3>2, <3>3 DEF Next, UserStep
  <2>2. QED
    BY <1>1, <1>2, <1>3, <2>1, SeenGrows DEF ServedWasAllowed
<1>4. ASSUME ~ (pc'[q] = pc[q] /\ job'[q] = job[q]), ServeStep(q)
      PROVE  job'[q].asked \subseteq seen'[q]
  <2>1. /\ UNCHANGED <<exists, allowed>>
        /\ job'[q].asked \subseteq Granted(job'[q].user)
        /\ job'[q].asked \subseteq Engines
    <3>1. ASSUME NEW u \in Users, ServeQR(q, u)
          PROVE  /\ UNCHANGED <<exists, allowed>>
                 /\ job'[q].asked \subseteq Granted(job'[q].user)
                 /\ job'[q].asked \subseteq Engines
      BY <3>1, WireguardIsAnEngine DEF ServeQR, Become, NoJob, TypeOK
    <3>2. CASE ServeConfigs(q)
      BY <3>2, JobOfSlot DEF ServeConfigs, Become, Granted, HasRow, TypeOK, Jobs
    <3>3. ASSUME NEW u \in Users, SelectUser(q, u)
          PROVE  FALSE
      BY <1>2, <3>3 DEF SelectUser, Become, TypeOK
    <3>4. QED
      BY <1>4, <3>1, <3>2, <3>3 DEF ServeStep
  <2>2. job'[q].asked \subseteq Effective(job[q].user)'
    BY <1>2, <2>1 DEF Granted, Effective, HasRow
  <2>3. QED
    BY <1>1, <1>2, <1>4, <2>1, <2>2, SeenGrows
<1>5. ASSUME UpdateStep(q) \/ Abandon(q)
      PROVE  FALSE
  BY <1>2, <1>5 DEF UpdateStep, LoadEngines, CommitEngines, Abandon, Become, TypeOK
<1>6. QED
  BY <1>3, <1>4, <1>5, OneSlotMoves

-----------------------------------------------------------------------------
IInv == TypeOK /\ FlagInv /\ ServedWasAllowed

LEMMA IInvInit == Init => IInv
<1>1. Init => TypeOK
  BY DEF Init, TypeOK, NoJob, Jobs, Over
<1>2. QED
  BY <1>1 DEF Init, IInv, FlagInv, ServedWasAllowed

LEMMA IInvStep == IInv /\ [Next]_vars => IInv'
<1>1. ASSUME IInv, UNCHANGED vars
      PROVE  IInv'
  BY <1>1 DEF vars, IInv, TypeOK, FlagInv, ServedWasAllowed
<1>2. ASSUME IInv, Next
      PROVE  IInv'
  BY <1>2, TypeStep, FlagStep, ServedStep DEF IInv
<1>3. QED
  BY <1>1, <1>2

LEMMA Invariance == Spec => []IInv
BY IInvInit, IInvStep, PTL DEF Spec

(* The variables keep their types: in particular a configuration is always *)
(* made of engines, with or without a row of user_engines.                 *)
THEOREM TypeCorrect == Spec => []TypeOK
BY Invariance, PTL DEF IInv

(* Every flag of an acknowledged POST /users/{id}/engines was as asked at  *)
(* some instant of the request, for any set of engines.                    *)
THEOREM EachFlagAtomic == Spec => []EveryFlagTookEffect
<1>1. IInv => EveryFlagTookEffect
  BY DEF IInv, FlagInv, EveryFlagTookEffect
<1>2. QED
  BY <1>1, Invariance, PTL

(* No user who still exists is served an engine that was forbidden all the *)
(* time the request ran.                                                   *)
THEOREM ServedAllowed == Spec => []ServedWasAllowed
<1>1. IInv => ServedWasAllowed
  BY DEF IInv
<1>2. QED
  BY <1>1, Invariance, PTL

-----------------------------------------------------------------------------
(* Subsets: SubsetTookEffect is not true of the code, and this is why. *)

(* No two updates of one user are under way at the same time. *)
OneUpdatePerUser ==
    \A r, q \in Requests :
        pc[r] = "updating" /\ pc[q] = "updating" /\ job[r].user = job[q].user => r = q

(* The flags an update will not write are as it asks as long as the row is *)
(* there; one that writes none has had its way already.                    *)
SubsetInv ==
    /\ SubsetTookEffect
    /\ \A r \in Requests : pc[r] = "updating" =>
           /\ job[r].dirty = {} => whole[r]
           /\ HasRow(job[r].user) => Engines \ job[r].dirty \subseteq Agreeing(r)

LEMMA WholeGrows ==
    ASSUME TypeOK, Observe, NEW q \in Requests, pc'[q] \in {"updating", "acknowledged"}
    PROVE  /\ pc[q] \in Over /\ pc'[q] = pc[q] /\ job'[q] = job[q] => whole'[q] = whole[q]
           /\ ~ (pc[q] \in Over /\ pc'[q] = pc[q] /\ job'[q] = job[q]) =>
                 /\ Agreeing(q)' = Engines => whole'[q]
                 /\ pc[q] \notin Over /\ whole[q] => whole'[q]
BY DEF Observe, TypeOK

(* The row of a user whose update is under way changes by that update, or  *)
(* goes with the user.                                                     *)
LEMMA RowWaits ==
    ASSUME TypeOK, OneUpdatePerUser, Next,
           NEW q \in Requests, pc[q] = "updating", pc'[q] = "updating",
           HasRow(job[q].user)'
    PROVE  allowed'[job[q].user] = allowed[job[q].user]
<1>1. ASSUME NEW u \in Users, Register(u) \/ CreateUser(u)
      PROVE  allowed'[job[q].user] = allowed[job[q].user]
  <2>1. job[q].user # u
    BY <1>1 DEF Register, CreateUser, Fresh
  <2>2. QED
    BY <1>1, <2>1, JobOfSlot DEF Register, CreateUser, TypeOK
<1>2. ASSUME NEW u \in Users, DeleteUser(u)
      PROVE  allowed'[job[q].user] = allowed[job[q].user]
  BY <1>2, JobOfSlot DEF DeleteUser, HasRow, TypeOK
<1>3. ASSUME NEW r \in Requests, CommitEngines(r)
      PROVE  allowed'[job[q].user] = allowed[job[q].user]
  <2>1. r # q
    BY <1>3 DEF CommitEngines, Become, TypeOK
  <2>2. job[r].user # job[q].user
    BY <1>3, <2>1 DEF CommitEngines, OneUpdatePerUser
  <2>3. QED
    BY <1>3, <2>2, JobOfSlot DEF CommitEngines, TypeOK
<1>4. ASSUME NEW r \in Requests, ServeStep(r) \/ Abandon(r)
      PROVE  UNCHANGED allowed
  BY <1>4 DEF ServeStep, SelectUser, ServeQR, ServeConfigs, Abandon
<1>5. ASSUME NEW r \in Requests, NEW u \in Users, NEW asked \in SUBSET Engines,
             LoadEngines(r, u, asked)
      PROVE  UNCHANGED allowed
  BY <1>5 DEF LoadEngines
<1>6. QED
  BY <1>1, <1>2, <1>3, <1>4, <1>5 DEF Next, UserStep, UpdateStep

LEMMA SubsetStep ==
    ASSUME TypeOK, SubsetInv, OneUpdatePerUser, Next
    PROVE  SubsetInv'
<1> USE DEF Over
<1>1. TypeOK' /\ Observe
  BY TypeStep DEF Next
<1>2. SUFFICES ASSUME NEW q \in Requests
               PROVE  /\ pc'[q] = "acknowledged" => whole'[q]
                      /\ pc'[q] = "updating" =>
                            /\ job'[q].dirty = {} => whole'[q]
                            /\ HasRow(job[q].user)' => Engines \ job'[q].dirty \subseteq Agreeing(q)'
  BY DEF SubsetInv, SubsetTookEffect
<1>3. /\ pc[q] = "acknowledged" => whole[q]
      /\ pc[q] = "updating" =>
            /\ job[q].dirty = {} => whole[q]
            /\ HasRow(job[q].user) => Engines \ job[q].dirty \subseteq Agreeing(q)
  BY DEF SubsetInv, SubsetTookEffect
<1>4. CASE pc'[q] = pc[q] /\ job'[q] = job[q]
  <2>1. CASE pc[q] = "updating"
    <3>1. job[q].dirty = {} => whole'[q]
      BY <1>1, <1>3, <1>4, <2>1, WholeGrows
    <3>2. ASSUME HasRow(job[q].user)'
          PROVE  Engines \ job[q].dirty \subseteq Agreeing(q)'
      <4>1. allowed'[job[q].user] = allowed[job[q].user]
        BY <1>4, <2>1, <3>2, RowWaits
      <4>2. HasRow(job[q].user) /\ Engines \ job[q].dirty \subseteq Agreeing(q)
        BY <1>3, <1>4, <2>1, <3>2, <4>1 DEF HasRow
      <4>3. QED
        BY <1>4, <3>2, <4>1, <4>2 DEF Agreeing
    <3>3. QED
      BY <1>4, <2>1, <3>1, <3>2
  <2>2. CASE pc[q] # "updating"
    BY <1>1, <1>3, <1>4, <2>2, WholeGrows
  <2>3. QED
    BY <2>1, <2>2
<1>5. ASSUME NEW u \in Users, NEW asked \in SUBSET Engines, LoadEngines(q, u, asked)
      PROVE  /\ pc'[q] = "updating"
             /\ job'[q].dirty = {} => whole'[q]
             /\ Engines \ job'[q].dirty \subseteq Agreeing(q)'
  <2>1. /\ pc[q] # "updating" /\ pc'[q] = "updating" /\ UNCHANGED allowed /\ HasRow(u)
        /\ job'[q] = [user |-> u, asked |-> asked, dirty |-> Differing(allowed[u], asked)]
    BY <1>5 DEF LoadEngines, Become, TypeOK
  <2>2. Engines \ job'[q].dirty \subseteq Agreeing(q)'
    BY <2>1 DEF Agreeing, Differing, HasRow
  <2>3. ASSUME job'[q].dirty = {}
        PROVE  whole'[q]
    <3>1. Agreeing(q)' = Engines
      BY <2>2, <2>3 DEF Agreeing
    <3>2. QED
      BY <1>1, <2>1, <3>1, WholeGrows
  <2>4. QED
    BY <2>1, <2>2, <2>3
<1>6. CASE CommitEngines(q)
  <2>1. pc[q] = "updating" /\ pc'[q] = "acknowledged" /\ job'[q] = job[q]
    BY <1>6 DEF CommitEngines, Become, TypeOK
  <2>2. CASE job[q].dirty = {}
    BY <1>1, <1>3, <2>1, <2>2, WholeGrows
  <2>3. CASE job[q].dirty # {}
    <3>1. HasRow(job[q].user) /\ allowed[job[q].user] \in SUBSET Engines
      BY <1>6, <2>3, JobOfSlot DEF CommitEngines, HasRow, TypeOK
    <3>2. allowed'[job[q].user] =
            (allowed[job[q].user] \ job[q].dirty) \cup (job[q].dirty \cap job[q].asked)
      BY <1>6, <2>3, JobOfSlot DEF CommitEngines, TypeOK
    <3>3. HasRow(job[q].user)'
      <4>1. allowed'[job[q].user] \in SUBSET Engines
        BY <3>1, <3>2, JobOfSlot
      <4>2. QED
        BY <2>1, <4>1, NoRowIsNoSetting DEF HasRow
    <3>4. \A e \in Engines \ job[q].dirty : e \in allowed[job[q].user] <=> e \in job[q].asked
      BY <1>3, <2>1, <3>1 DEF Agreeing
    <3>5. Agreeing(q)' = Engines
      BY <2>1, <3>2, <3>3, <3>4, JobOfSlot DEF Agreeing
    <3>6. QED
      BY <1>1, <2>1, <3>5, WholeGrows
  <2>4. QED
    BY <2>2, <2>3
<1>7. CASE ServeStep(q) \/ Abandon(q)
  BY <1>7 DEF ServeStep, SelectUser, ServeQR, ServeConfigs, Abandon, Become, TypeOK
<1>8. QED
  BY <1>4, <1>5, <1>6, <1>7, OneSlotMoves DEF UpdateStep

(* As long as no two updates of one user overlap, every acknowledged       *)
(* subset was once in force as a whole, whatever else happens, deletions   *)
(* of the user included: the mixtures come from overlapping updates alone. *)
THEOREM SerialUpdatesTakeEffect == Spec /\ []OneUpdatePerUser => []SubsetTookEffect
<1>1. Init => SubsetInv
  BY DEF Init, SubsetInv, SubsetTookEffect
<1>2. TypeOK /\ SubsetInv /\ OneUpdatePerUser /\ [Next]_vars => SubsetInv'
  <2>1. ASSUME SubsetInv, UNCHANGED vars
        PROVE  SubsetInv'
    BY <2>1 DEF vars, SubsetInv, SubsetTookEffect, HasRow, Agreeing
  <2>2. QED
    BY <2>1, SubsetStep
<1>3. SubsetInv => SubsetTookEffect
  BY DEF SubsetInv
<1>4. QED
  BY <1>1, <1>2, <1>3, TypeCorrect, PTL DEF Spec

-----------------------------------------------------------------------------
(* Filters: ConfigsHonourFilter is not true of the code, and this is why.  *)

(* Nobody whose configurations are being served is deleted. *)
ServedUsersStay ==
    \A r \in Requests : pc[r] = "serving" /\ job[r].user \in exists => job[r].user \in exists'

FilterInv ==
    /\ ConfigsHonourFilter
    /\ \A r \in Requests : pc[r] = "serving" => job[r].user \in exists

LEMMA FilterStep ==
    ASSUME TypeOK, FilterInv, ServedUsersStay, Next
    PROVE  FilterInv'
<1> USE DEF Over
<1>1. TypeOK' /\ Observe
  BY TypeStep DEF Next
<1>2. SUFFICES ASSUME NEW q \in Requests
               PROVE  /\ pc'[q] = "configured" => job'[q].asked \subseteq seen'[q]
                      /\ pc'[q] = "serving" => job'[q].user \in exists'
  BY DEF FilterInv, ConfigsHonourFilter
<1>3. CASE pc'[q] = pc[q] /\ job'[q] = job[q]
  <2>1. pc'[q] = "configured" => seen'[q] = seen[q]
    BY <1>1, <1>3, SeenGrows
  <2>2. QED
    BY <1>3, <2>1 DEF FilterInv, ConfigsHonourFilter, ServedUsersStay
<1>4. ASSUME NEW u \in Users, SelectUser(q, u)
      PROVE  pc'[q] = "serving" /\ job'[q].user \in exists'
  BY <1>4 DEF SelectUser, Become, NoJob, TypeOK
<1>5. ASSUME NEW u \in Users, ServeQR(q, u)
      PROVE  pc'[q] = "qrShown"
  BY <1>5 DEF ServeQR, Become, TypeOK
<1>6. CASE ServeConfigs(q)
  <2>1. /\ pc[q] = "serving" /\ pc'[q] = "configured"
        /\ job'[q].asked = Granted(job[q].user) /\ job'[q].user = job[q].user
    BY <1>6, JobOfSlot DEF ServeConfigs, Become, TypeOK, Jobs
  <2>2. job[q].user \in exists /\ UNCHANGED <<exists, allowed>>
    BY <1>6, <2>1 DEF FilterInv, ServeConfigs
  <2>3. job'[q].asked = Effective(job[q].user)'
    BY <2>1, <2>2 DEF Granted, Effective, HasRow
  <2>4. job'[q].asked \subseteq Engines
    BY <1>1 DEF TypeOK, Jobs
  <2>5. \A e \in Engines : e \in Effective(job[q].user)' => e \in seen'[q]
    BY <1>1, <2>1, SeenGrows
  <2>6. QED
    BY <2>1, <2>3, <2>4, <2>5
<1>7. CASE UpdateStep(q) \/ Abandon(q)
  BY <1>7 DEF UpdateStep, LoadEngines, CommitEngines, Abandon, Become, TypeOK
<1>8. QED
  BY <1>3, <1>4, <1>5, <1>6, <1>7, OneSlotMoves DEF ServeStep

(* As long as nobody is deleted between the two SELECTs of a request for   *)
(* their configurations, every configuration honours the filter, whatever  *)
(* happens to the user afterwards and however updates race with it.        *)
THEOREM FilterHonouredWhileUsersStay ==
    Spec /\ [][ServedUsersStay]_vars => []ConfigsHonourFilter
<1>1. Init => FilterInv
  BY DEF Init, FilterInv, ConfigsHonourFilter
<1>2. TypeOK /\ FilterInv /\ [ServedUsersStay]_vars /\ [Next]_vars => FilterInv'
  <2>1. ASSUME FilterInv, UNCHANGED vars
        PROVE  FilterInv'
    BY <2>1 DEF vars, FilterInv, ConfigsHonourFilter
  <2>2. QED
    BY <2>1, FilterStep
<1>3. FilterInv => ConfigsHonourFilter
  BY DEF FilterInv
<1>4. QED
  BY <1>1, <1>2, <1>3, TypeCorrect, PTL DEF Spec
=============================================================================
