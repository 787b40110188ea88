------------------------- MODULE PanelStartupProofs -------------------------
(* Proofs about PanelStartup: types, unique names, the bootstrapped        *)
(* superuser, survival of a start without crashes, that only a crash can   *)
(* spoil a start, and distinct addresses, for any workers, slots, names    *)
(* and ids and any number of crashes.                                      *)
EXTENDS PanelStartup, AddressProofs

(* A registration under way is of another name than the superuser's, and   *)
(* only a panel that configures a superuser inserts one.                   *)
RequestsConsistent ==
    /\ \A r \in Requests : job[r] # NoJob => job[r].name # FirstSuperuser
    /\ \A w \in Workers : pc[w] = "inserting" => FirstSuperuser # Null

IdsInOrder == \A i \in Live : i <= lastId

Late == {"looking", "inserting", "serving"}

(* Before the first crash, the worker that made the tables is past them,   *)
(* the one that inserted the superuser serves, and whoever failed has left *)
(* one of them behind.                                                     *)
WinnersStay ==
    crashes = 0 =>
        /\ tables => \E w \in Workers : pc[w] \in Late
        /\ FirstSuperuser # Null /\ Taken(FirstSuperuser) => Serving # {}
        /\ (\E w \in Workers : pc[w] = "failed") => \E w \in Workers : pc[w] \in Late

-----------------------------------------------------------------------------
(* What steps do to users, jobs and workers *)

LEMMA BusyJob ==
    ASSUME TypeOK, NEW r \in Requests, job[r] # NoJob
    PROVE  job[r].name \in Names /\ job[r].worker \in Workers
BY DEF TypeOK, Jobs

(* A new user has an id and a name nobody has, and changes nobody else. *)
LEMMA Created ==
    ASSUME TypeOK, IdsInOrder, NEW id \in Ids, NEW name \in Names, NEW super \in BOOLEAN,
           CreateUser(id, name, super)
    PROVE  /\ users' \in [Ids -> Rows \cup {Null}]
           /\ lastId' \in Nat
           /\ id \notin Live
           /\ Live' = Live \cup {id}
           /\ users'[id].name = name /\ users'[id].is_superuser = super
           /\ \A i \in Live : users'[i] = users[i] /\ users[i].name # name
<1>1. [name |-> name, is_superuser |-> super] \in Rows
  BY DEF Rows
<1>2. [name |-> name, is_superuser |-> super] # Null
  BY <1>1, NullIsNoRow
<1>3. lastId' \in Nat
  BY IdsAreNumbers DEF CreateUser
<1>4. id \notin Live
  BY IdsAreNumbers DEF CreateUser, IdsInOrder, TypeOK
<1>5. QED
  BY <1>1, <1>2, <1>3, <1>4 DEF CreateUser, TypeOK, Live, Taken

LEMMA TakenByNew ==
    ASSUME TypeOK, IdsInOrder, NEW id \in Ids, NEW name \in Names, NEW super \in BOOLEAN,
           CreateUser(id, name, super), NEW CONSTANT other
    PROVE  Taken(other)' <=> Taken(other) \/ other = name
<1>1. /\ Live' = Live \cup {id}
      /\ users'[id].name = name
      /\ \A i \in Live : users'[i] = users[i]
  BY Created
<1>2. QED
  BY <1>1 DEF Taken

(* Steps of a worker that leave the users alone *)
WorkerOnly(w) ==
    \/ Start(w)
    \/ CheckTables(w)
    \/ CreateTables(w)
    \/ LookForSuperuser(w)
    \/ Crash(w)

LEMMA UsersUnchanged ==
    ASSUME UNCHANGED users
    PROVE  Live' = Live /\ \A name : Taken(name)' <=> Taken(name)
BY DEF Live, Taken

(* The only steps that create a user *)
LEMMA Creations ==
    ASSUME TypeOK, RequestsConsistent, Next, ~ UNCHANGED <<users, lastId>>
    PROVE  \E id \in Ids, name \in Names, super \in BOOLEAN :
               /\ CreateUser(id, name, super)
               /\ super <=> name = FirstSuperuser
<1>1. ASSUME NEW w \in Workers, InsertSuperuser(w)
      PROVE  \E id \in Ids : CreateUser(id, FirstSuperuser, TRUE) /\ FirstSuperuser \in Names
  <2>1. FirstSuperuser \in Names
    BY <1>1, SettingIsName DEF InsertSuperuser, RequestsConsistent
  <2>2. QED
    BY <1>1, <2>1 DEF InsertSuperuser
<1>2. ASSUME NEW r \in Requests, NEW id \in Ids, Register(r, id)
      PROVE  /\ CreateUser(id, job[r].name, FALSE)
             /\ job[r].name \in Names
             /\ job[r].name # FirstSuperuser
  BY <1>2, BusyJob DEF Register, RequestsConsistent
<1>3. ASSUME NEW w \in Workers, WorkerOnly(w)
      PROVE  FALSE
  BY <1>3 DEF WorkerOnly, Start, CheckTables, CreateTables, LookForSuperuser, Crash
<1>4. ASSUME NEW r \in Requests, NEW w \in Workers, NEW name \in Names, LoadRegister(r, w, name)
      PROVE  FALSE
  BY <1>4 DEF LoadRegister
<1>5. ASSUME NEW r \in Requests, Abandon(r)
      PROVE  FALSE
  BY <1>5 DEF Abandon
<1>6. QED
  BY <1>1, <1>2, <1>3, <1>4, <1>5 DEF Next, BootStep, RequestStep, WorkerOnly

-----------------------------------------------------------------------------
(* Types *)

LEMMA TypeStep ==
    ASSUME TypeOK, IdsInOrder, RequestsConsistent, Next
    PROVE  TypeOK'
<1>1. users' \in [Ids -> Rows \cup {Null}] /\ lastId' \in Nat
  <2>1. CASE UNCHANGED <<users, lastId>>
    BY <2>1 DEF TypeOK
  <2>2. CASE ~ UNCHANGED <<users, lastId>>
    BY <2>2, Creations, Created
  <2>3. QED
    BY <2>1, <2>2
<1>2. ASSUME NEW w \in Workers, WorkerOnly(w) \/ InsertSuperuser(w)
      PROVE  TypeOK'
  <2>1. pc' \in [Workers -> Booting \cup {"down", "failed", "serving"}]
    BY <1>2 DEF WorkerOnly, Start, CheckTables, CreateTables, LookForSuperuser,
       InsertSuperuser, Crash, Goto, Booting, TypeOK
  <2>2. tables' \in BOOLEAN
    BY <1>2 DEF WorkerOnly, Start, CheckTables, CreateTables, LookForSuperuser,
       InsertSuperuser, Crash, TypeOK
  <2>3. job' \in [Requests -> Jobs]
    <3>1. NoJob \in Jobs
      BY DEF Jobs
    <3>2. CASE Crash(w)
      BY <3>1, <3>2 DEF Crash, TypeOK
    <3>3. CASE UNCHANGED job
      BY <3>3 DEF TypeOK
    <3>4. QED
      BY <1>2, <3>2, <3>3 DEF WorkerOnly, Start, CheckTables, CreateTables, LookForSuperuser,
         InsertSuperuser
  <2>4. crashes' \in 0 .. MaxCrashes
    <3>1. CASE Crash(w)
      BY <3>1, MaxCrashesIsNumber DEF Crash, TypeOK
    <3>2. CASE UNCHANGED crashes
      BY <3>2 DEF TypeOK
    <3>3. QED
      BY <1>2, <3>1, <3>2 DEF WorkerOnly, Start, CheckTables, CreateTables, LookForSuperuser,
         InsertSuperuser
  <2>5. QED
    BY <1>1, <2>1, <2>2, <2>3, <2>4 DEF TypeOK
<1>3. ASSUME NEW r \in Requests, RequestStep(r)
      PROVE  TypeOK'
  <2>1. job' \in [Requests -> Jobs]
    <3>1. ASSUME NEW w \in Workers, NEW name \in Names, LoadRegister(r, w, name)
          PROVE  job' \in [Requests -> Jobs]
      <4>1. [op |-> "register", worker |-> w, name |-> name] \in Jobs
        BY DEF Jobs
      <4>2. QED
        BY <3>1, <4>1 DEF LoadRegister, TypeOK
    <3>2. CASE Finish(r)
      <4>1. NoJob \in Jobs
        BY DEF Jobs
      <4>2. QED
        BY <3>2, <4>1 DEF Finish, TypeOK
    <3>3. QED
      BY <1>3, <3>1, <3>2 DEF RequestStep, Register, Abandon
  <2>2. UNCHANGED <<tables, pc, crashes>>
    BY <1>3 DEF RequestStep, LoadRegister, Register, Abandon
  <2>3. QED
    BY <1>1, <2>1, <2>2 DEF TypeOK
<1>4. QED
  BY <1>2, <1>3 DEF Next, BootStep, WorkerOnly

LEMMA IdsStep ==
    ASSUME TypeOK, IdsInOrder, RequestsConsistent, Next
    PROVE  IdsInOrder'
<1>1. CASE UNCHANGED <<users, lastId>>
  BY <1>1 DEF IdsInOrder, Live
<1>2. ASSUME NEW id \in Ids, NEW name \in Names, NEW super \in BOOLEAN,
             CreateUser(id, name, super)
      PROVE  IdsInOrder'
  <2>1. Live' = Live \cup {id}
    BY <1>2, Created
  <2>2. id > lastId /\ lastId' = id /\ id \in Nat
    BY <1>2, IdsAreNumbers DEF CreateUser
  <2>3. \A i \in Live : i \in Nat /\ i <= lastId
    BY IdsAreNumbers DEF IdsInOrder, Live
  <2>4. QED
    BY <2>1, <2>2, <2>3 DEF IdsInOrder, TypeOK
<1>3. QED
  BY <1>1, <1>2, Creations

LEMMA NamesStep ==
    ASSUME TypeOK, IdsInOrder, RequestsConsistent, NamesAreUnique, Next
    PROVE  NamesAreUnique'
<1>1. CASE UNCHANGED <<users, lastId>>
  BY <1>1 DEF NamesAreUnique, Live
<1>2. ASSUME NEW id \in Ids, NEW name \in Names, NEW super \in BOOLEAN,
             CreateUser(id, name, super)
      PROVE  NamesAreUnique'
  <2>1. /\ Live' = Live \cup {id}
        /\ users'[id].name = name
        /\ \A i \in Live : users'[i] = users[i] /\ users[i].name # name
    BY <1>2, Created
  <2>2. QED
    BY <2>1 DEF NamesAreUnique
<1>3. QED
  BY <1>1, <1>2, Creations

-----------------------------------------------------------------------------
(* The superuser *)

(* Taken names stay taken. *)
LEMMA TakenStays ==
    ASSUME TypeOK, IdsInOrder, RequestsConsistent, Next, NEW CONSTANT name, Taken(name)
    PROVE  Taken(name)'
<1>1. CASE UNCHANGED <<users, lastId>>
  BY <1>1, UsersUnchanged
<1>2. CASE ~ UNCHANGED <<users, lastId>>
  BY <1>2, Creations, TakenByNew
<1>3. QED
  BY <1>1, <1>2

LEMMA RequestsStep ==
    ASSUME TypeOK, RequestsConsistent, SuperuserIsBootstrapped, Next
    PROVE  RequestsConsistent'
<1>1. ASSUME NEW w \in Workers, WorkerOnly(w) \/ InsertSuperuser(w)
      PROVE  RequestsConsistent'
  <2>1. \A r \in Requests : job'[r] = job[r] \/ job'[r] = NoJob
    BY <1>1 DEF WorkerOnly, Start, CheckTables, CreateTables, LookForSuperuser,
       InsertSuperuser, Crash, TypeOK
  <2>2. \A v \in Workers : pc'[v] = "inserting" => FirstSuperuser # Null
    BY <1>1 DEF WorkerOnly, Start, CheckTables, CreateTables, LookForSuperuser,
       InsertSuperuser, Crash, Goto, TypeOK, RequestsConsistent
  <2>3. QED
    BY <2>1, <2>2 DEF RequestsConsistent
<1>2. ASSUME NEW r \in Requests, NEW w \in Workers, NEW name \in Names, LoadRegister(r, w, name)
      PROVE  RequestsConsistent'
  <2>1. name # FirstSuperuser
    BY <1>2, NullIsNoName DEF LoadRegister, SuperuserIsBootstrapped, Serving
  <2>2. QED
    BY <1>2, <2>1 DEF LoadRegister, RequestsConsistent, TypeOK
<1>3. ASSUME NEW r \in Requests, (\E id \in Ids : Register(r, id)) \/ Abandon(r)
      PROVE  RequestsConsistent'
  BY <1>3 DEF Register, Abandon, Finish, RequestsConsistent, TypeOK
<1>4. QED
  BY <1>1, <1>2, <1>3 DEF Next, BootStep, RequestStep, WorkerOnly

LEMMA SuperuserStep ==
    ASSUME TypeOK, IdsInOrder, RequestsConsistent, SuperuserIsBootstrapped, Next
    PROVE  SuperuserIsBootstrapped'
<1>1. \A i \in Live' : users'[i].is_superuser <=> users'[i].name = FirstSuperuser
  <2>1. CASE UNCHANGED <<users, lastId>>
    BY <2>1 DEF SuperuserIsBootstrapped, Live
  <2>2. ASSUME NEW id \in Ids, NEW name \in Names, NEW super \in BOOLEAN,
               CreateUser(id, name, super), super <=> name = FirstSuperuser
        PROVE  \A i \in Live' : users'[i].is_superuser <=> users'[i].name = FirstSuperuser
    <3>1. /\ Live' = Live \cup {id}
          /\ users'[id].name = name /\ users'[id].is_superuser = super
          /\ \A i \in Live : users'[i] = users[i]
      BY <2>2, Created
    <3>2. \A i \in Live : users[i].is_superuser <=> users[i].name = FirstSuperuser
      BY DEF SuperuserIsBootstrapped
    <3>3. users'[id].is_superuser <=> users'[id].name = FirstSuperuser
      BY <2>2, <3>1
    <3>4. QED
      BY <3>1, <3>2, <3>3
  <2>3. QED
    BY <2>1, <2>2, Creations
<1>2. ASSUME NEW w \in Workers, pc'[w] = "serving", FirstSuperuser # Null
      PROVE  Taken(FirstSuperuser)'
  <2>1. CASE pc[w] = "serving"
    BY <1>2, <2>1, TakenStays DEF SuperuserIsBootstrapped, Serving
  <2>2. CASE LookForSuperuser(w)
    BY <1>2, <2>2, TakenStays DEF LookForSuperuser, Goto, TypeOK
  <2>3. CASE InsertSuperuser(w)
    <3>1. FirstSuperuser \in Names
      BY <1>2, SettingIsName
    <3>2. PICK id \in Ids : CreateUser(id, FirstSuperuser, TRUE)
      BY <1>2, <2>3 DEF InsertSuperuser, Goto, TypeOK
    <3>3. QED
      BY <3>1, <3>2, TakenByNew
  <2>4. CASE pc[w] # "serving" /\ ~ LookForSuperuser(w) /\ ~ InsertSuperuser(w)
    BY <1>2, <2>4 DEF Next, BootStep, RequestStep, Start, CheckTables, CreateTables,
       LookForSuperuser, InsertSuperuser, Crash, LoadRegister, Register, Abandon, Goto, TypeOK
  <2>5. QED
    BY <2>1, <2>2, <2>3, <2>4
<1>3. QED
  BY <1>1, <1>2 DEF SuperuserIsBootstrapped, Serving

-----------------------------------------------------------------------------
(* Survival *)

LEMMA WinnersStep ==
    ASSUME TypeOK, IdsInOrder, RequestsConsistent, WinnersStay, Next
    PROVE  WinnersStay'
<1>1. SUFFICES ASSUME crashes' = 0
               PROVE  /\ tables' => \E w \in Workers : pc'[w] \in Late
                      /\ FirstSuperuser # Null /\ Taken(FirstSuperuser)' => Serving' # {}
                      /\ (\E w \in Workers : pc'[w] = "failed")
                           => \E w \in Workers : pc'[w] \in Late
  BY DEF WinnersStay
<1>2. ASSUME NEW w \in Workers, Crash(w)
      PROVE  FALSE
  BY <1>1, <1>2 DEF Crash, TypeOK
<1>3. crashes = 0
  BY <1>1, <1>2 DEF Next, BootStep, RequestStep, Start, CheckTables, CreateTables,
     LookForSuperuser, InsertSuperuser, LoadRegister, Register, Abandon
<1>4. /\ tables => \E w \in Workers : pc[w] \in Late
      /\ FirstSuperuser # Null /\ Taken(FirstSuperuser) => Serving # {}
      /\ (\E w \in Workers : pc[w] = "failed") => \E w \in Workers : pc[w] \in Late
  BY <1>3 DEF WinnersStay
<1>5. ASSUME NEW r \in Requests, RequestStep(r)
      PROVE  /\ UNCHANGED <<tables, pc>>
             /\ Taken(FirstSuperuser)' => Taken(FirstSuperuser)
  <2>1. CASE UNCHANGED users
    BY <1>5, <2>1, UsersUnchanged DEF RequestStep, LoadRegister, Register, Abandon
  <2>2. ASSUME NEW id \in Ids, Register(r, id)
        PROVE  Taken(FirstSuperuser)' => Taken(FirstSuperuser)
    BY <2>2, BusyJob, TakenByNew DEF Register, RequestsConsistent
  <2>3. QED
    BY <1>5, <2>1, <2>2 DEF RequestStep, LoadRegister, Register, Abandon
<1>6. ASSUME NEW w \in Workers, CreateTables(w)
      PROVE  /\ \E v \in Workers : pc'[v] \in Late
             /\ Taken(FirstSuperuser)' => Taken(FirstSuperuser)
             /\ Serving \subseteq Serving'
  <2>1. Taken(FirstSuperuser)' => Taken(FirstSuperuser)
    BY <1>6, UsersUnchanged DEF CreateTables
  <2>2. Serving \subseteq Serving'
    BY <1>6 DEF CreateTables, Goto, TypeOK, Serving
  <2>3. CASE tables
    <3>1. PICK v \in Workers : pc[v] \in Late
      BY <1>4, <2>3
    <3>2. pc'[v] = pc[v]
      BY <1>6, <3>1 DEF CreateTables, Goto, TypeOK, Late
    <3>3. QED
      BY <2>1, <2>2, <3>1, <3>2
  <2>4. CASE ~ tables
    <3>1. pc'[w] \in Late
      BY <1>6, <2>4 DEF CreateTables, Goto, TypeOK, Late
    <3>2. QED
      BY <2>1, <2>2, <3>1
  <2>5. QED
    BY <2>3, <2>4
<1>7. ASSUME NEW w \in Workers, InsertSuperuser(w)
      PROVE  \E v \in Workers : pc'[v] = "serving"
  <2>1. CASE Goto(w, "serving")
    BY <2>1 DEF Goto, TypeOK
  <2>2. CASE Taken(FirstSuperuser)
    <3>1. FirstSuperuser # Null
      BY <1>7 DEF InsertSuperuser, RequestsConsistent
    <3>2. PICK v \in Workers : pc[v] = "serving"
      BY <1>4, <2>2, <3>1 DEF Serving
    <3>3. pc'[v] = "serving"
      BY <1>7, <3>2 DEF InsertSuperuser, Goto, TypeOK
    <3>4. QED
      BY <3>3
  <2>3. QED
    BY <1>7, <2>1, <2>2 DEF InsertSuperuser
<1>8. ASSUME NEW w \in Workers, Start(w) \/ CheckTables(w) \/ LookForSuperuser(w)
      PROVE  /\ tables' => \E v \in Workers : pc'[v] \in Late
             /\ FirstSuperuser # Null /\ Taken(FirstSuperuser)' => Serving' # {}
             /\ (\E v \in Workers : pc'[v] = "failed")
                  => \E v \in Workers : pc'[v] \in Late
  <2>1. UNCHANGED <<tables, users>>
    BY <1>8 DEF Start, CheckTables, LookForSuperuser
  <2>2. Taken(FirstSuperuser)' => Taken(FirstSuperuser)
    BY <2>1, UsersUnchanged
  <2>3. \A v \in Workers : /\ pc[v] \in Late => pc'[v] \in Late
                           /\ pc[v] = "serving" => pc'[v] = "serving"
                           /\ pc'[v] = "failed" => pc[v] = "failed"
    BY <1>8 DEF Start, CheckTables, LookForSuperuser, Goto, TypeOK, Late
  <2>4. FirstSuperuser # Null /\ Taken(FirstSuperuser)' => Serving' # {}
    BY <1>4, <2>2, <2>3 DEF Serving
  <2>5. (\E v \in Workers : pc[v] \in Late) => \E v \in Workers : pc'[v] \in Late
    BY <2>3
  <2>6. (\E v \in Workers : pc'[v] = "failed") => \E v \in Workers : pc[v] = "failed"
    BY <2>3
  <2>7. QED
    BY <1>4, <2>1, <2>4, <2>5, <2>6
<1>9. CASE \E r \in Requests : RequestStep(r)
  BY <1>4, <1>5, <1>9 DEF Serving
<1>10. CASE \E w \in Workers : CreateTables(w)
  BY <1>4, <1>6, <1>10
<1>11. CASE \E w \in Workers : InsertSuperuser(w)
  BY <1>7, <1>11 DEF Serving, Late
<1>12. QED
  BY <1>2, <1>8, <1>9, <1>10, <1>11 DEF Next, BootStep

-----------------------------------------------------------------------------
(* Starts that can succeed *)

(* The disjuncts of CanComeUp, for one worker *)
Hopeful(w) ==
    \/ pc[w] \in {"serving", "checking", "looking"}
    \/ pc[w] = "creating" /\ ~ tables
    \/ pc[w] = "inserting" /\ ~ Taken(FirstSuperuser)

LEMMA HopeIsSomeones == CanComeUp <=> \E w \in Workers : Hopeful(w)
BY DEF CanComeUp, Hopeful, Serving

(* Of a worker that takes no step itself, only a winner takes the hope,    *)
(* and then the winner has it.                                             *)
LEMMA HopeOfOthers ==
    ASSUME TypeOK, IdsInOrder, RequestsConsistent, NEW w \in Workers, Hopeful(w),
           NEW v \in Workers \ {w}, Start(v) \/ BootStep(v)
    PROVE  Hopeful(w)' \/ Hopeful(v)'
<1>1. pc'[w] = pc[w]
  BY DEF Start, BootStep, CheckTables, CreateTables, LookForSuperuser, InsertSuperuser,
     Goto, TypeOK
<1>2. CASE UNCHANGED <<tables, users>>
  BY <1>1, <1>2, UsersUnchanged DEF Hopeful
<1>3. CASE CreateTables(v) /\ ~ tables
  BY <1>3 DEF CreateTables, Goto, TypeOK, Hopeful
<1>4. ASSUME NEW id \in Ids, CreateUser(id, FirstSuperuser, TRUE), Goto(v, "serving")
      PROVE  Hopeful(v)'
  BY <1>4 DEF Goto, TypeOK, Hopeful
<1>5. QED
  BY <1>2, <1>3, <1>4
  DEF Start, BootStep, CheckTables, CreateTables, LookForSuperuser, InsertSuperuser

(* A step of its own leaves a worker with the hope it had. *)
LEMMA HopeOfOneself ==
    ASSUME TypeOK, NEW w \in Workers, Hopeful(w), BootStep(w)
    PROVE  Hopeful(w)'
<1>1. CASE CheckTables(w)
  BY <1>1 DEF CheckTables, Goto, TypeOK, Hopeful
<1>2. CASE CreateTables(w)
  BY <1>2 DEF CreateTables, Goto, TypeOK, Hopeful
<1>3. CASE LookForSuperuser(w)
  <2>1. Taken(FirstSuperuser)' <=> Taken(FirstSuperuser)
    BY <1>3, UsersUnchanged DEF LookForSuperuser
  <2>2. QED
    BY <1>3, <2>1 DEF LookForSuperuser, Goto, TypeOK, Hopeful
<1>4. CASE InsertSuperuser(w)
  BY <1>4 DEF InsertSuperuser, Goto, TypeOK, Hopeful
<1>5. QED
  BY <1>1, <1>2, <1>3, <1>4 DEF BootStep

LEMMA HopeStep ==
    ASSUME TypeOK, IdsInOrder, RequestsConsistent, Next, CanComeUp, crashes' = crashes
    PROVE  CanComeUp'
<1>1. PICK w \in Workers : Hopeful(w)
  BY HopeIsSomeones
<1>2. SUFFICES \E v \in Workers : Hopeful(v)'
  BY DEF CanComeUp, Hopeful, Serving
<1>3. ASSUME NEW v \in Workers, Crash(v)
      PROVE  FALSE
  BY <1>3, MaxCrashesIsNumber DEF Crash, TypeOK
<1>4. ASSUME NEW v \in Workers, Start(v) \/ BootStep(v)
      PROVE  \E x \in Workers : Hopeful(x)'
  <2>1. ~ Start(w)
    BY <1>1 DEF Start, Hopeful
  <2>2. QED
    BY <1>1, <1>4, <2>1, HopeOfOthers, HopeOfOneself
<1>5. ASSUME NEW r \in Requests, RequestStep(r)
      PROVE  Hopeful(w)'
  <2>1. UNCHANGED <<tables, pc>>
    BY <1>5 DEF RequestStep, LoadRegister, Register, Abandon
  <2>2. Taken(FirstSuperuser)' => Taken(FirstSuperuser)
    <3>1. CASE UNCHANGED users
      BY <3>1, UsersUnchanged
    <3>2. ASSUME NEW id \in Ids, Register(r, id)
          PROVE  Taken(FirstSuperuser)' => Taken(FirstSuperuser)
      BY <3>2, BusyJob, TakenByNew DEF Register, RequestsConsistent
    <3>3. QED
      BY <1>5, <3>1, <3>2 DEF RequestStep, LoadRegister, Abandon
  <2>3. QED
    BY <1>1, <2>1, <2>2 DEF Hopeful
<1>6. QED
  BY <1>3, <1>4, <1>5 DEF Next

IInv ==
    /\ TypeOK
    /\ IdsInOrder
    /\ NamesAreUnique
    /\ SuperuserIsBootstrapped
    /\ RequestsConsistent
    /\ WinnersStay

LEMMA Invariance == Spec => []IInv
<1>1. Init => IInv
  <2>1. Init => TypeOK
    <3>1. NoJob \in Jobs
      BY DEF Jobs
    <3>2. 0 \in 0 .. MaxCrashes
      BY MaxCrashesIsNumber
    <3>3. Init => users \in [Ids -> Rows \cup {Null}]
      BY DEF Init
    <3>4. Init => pc \in [Workers -> Booting \cup {"down", "failed", "serving"}]
      BY DEF Init
    <3>5. Init => job \in [Requests -> Jobs]
      BY <3>1 DEF Init
    <3>6. Init => lastId \in Nat /\ crashes \in 0 .. MaxCrashes
      BY <3>2 DEF Init
    <3>7. Init => tables \in BOOLEAN
      BY DEF Init
    <3>8. QED
      BY <3>3, <3>4, <3>5, <3>6, <3>7 DEF TypeOK
  <2>2. Init => Live = {} /\ Serving = {} /\ tables = FALSE
    <3>1. Init => \A i \in Ids : users[i] = Null
      BY DEF Init
    <3>2. Init => \A w \in Workers : pc[w] = "down"
      BY DEF Init
    <3>3. QED
      BY <3>1, <3>2 DEF Init, Live, Serving
  <2>3. Init => RequestsConsistent
    BY DEF Init, RequestsConsistent
  <2>4. Init => ~ \E w \in Workers : pc[w] = "failed"
    BY DEF Init
  <2>5. QED
    <3>1. Init => IdsInOrder /\ NamesAreUnique /\ SuperuserIsBootstrapped
      BY <2>2 DEF IdsInOrder, NamesAreUnique, SuperuserIsBootstrapped
    <3>2. Init => WinnersStay
      BY <2>2, <2>4 DEF WinnersStay, Taken
    <3>3. QED
      BY <2>1, <2>3, <3>1, <3>2 DEF IInv
<1>2. IInv /\ Next => IInv'
  BY TypeStep, IdsStep, NamesStep, SuperuserStep, RequestsStep, WinnersStep DEF IInv
<1>3. IInv /\ UNCHANGED vars => IInv'
  BY DEF IInv, vars, TypeOK, IdsInOrder, NamesAreUnique, SuperuserIsBootstrapped,
     RequestsConsistent, WinnersStay, Live, Taken, Serving
<1>4. QED
  BY <1>1, <1>2, <1>3, PTL DEF Spec

-----------------------------------------------------------------------------
(* Theorems *)

(* The variables keep their types. *)
THEOREM TypeCorrect == Spec => []TypeOK
BY Invariance, PTL DEF IInv

(* No two users have one name, for any overlap of starts and               *)
(* registrations.                                                          *)
THEOREM UniqueNames == Spec => []NamesAreUnique
BY Invariance, PTL DEF IInv

(* The configured name is the superuser's and nobody else is one, whatever *)
(* crashes and starts again; a worker that serves has found or made it.    *)
THEOREM Bootstrapped == Spec => []SuperuserIsBootstrapped
BY Invariance, PTL DEF IInv

(* Workers that start together do not all fail, however many they are.     *)
THEOREM Survival == Spec => []SomeoneSurvives
<1>1. IInv => SomeoneSurvives
  BY DEF IInv, WinnersStay, SomeoneSurvives, Late, Booting
<1>2. QED
  BY <1>1, Invariance, PTL

(* The safety half of BootServes: once some worker can come up, one can    *)
(* until a worker crashes, for any number of workers in any order, and     *)
(* whatever is registered meanwhile.                                       *)
THEOREM HopeKept == Spec => HopeIsKept
<1>1. IInv /\ [Next]_vars => [CanComeUp /\ crashes' = crashes => CanComeUp']_vars
  BY HopeStep DEF IInv
<1>2. QED
  BY <1>1, Invariance, PTL DEF Spec, HopeIsKept

(* Users whose ids lie between 253 and 64514 have addresses of their own.  *)
THEOREM OwnAddresses == Spec => []AddressesAreDistinct
<1>1. AddressesAreDistinct
  BY Distinct DEF AddressesAreDistinct
<1>2. QED
  BY <1>1, PTL
=============================================================================
