---------------------------- MODULE PanelStartup ----------------------------
(***************************************************************************)
(* The panel of app/ while it starts: workers that start, crash and start  *)
(* again on one database, each creating the tables and the first superuser *)
(* if they are missing (app/main.py), and registrations served by the      *)
(* workers that are up (routes/auth.py).  Users are never deleted.         *)
(***************************************************************************)
EXTENDS Addresses

CONSTANTS
    Workers,         \* processes of the panel on one database
    Requests,        \* slots for registrations being served at the same time
    Names,           \* user names
    FirstSuperuser,  \* settings.first_superuser, or Null when it is not set
    Ids,             \* values of users.id
    MaxCrashes,      \* bound: how many workers crash
    Null             \* no user, no setting

VARIABLES
    tables,   \* whether the tables exist
    users,    \* for every id, its user or Null
    lastId,   \* the last id given out
    pc,       \* how far each worker is
    job,      \* the registration of a slot: its worker and the name, looked up
    crashes   \* how many workers have crashed

vars == <<tables, users, lastId, pc, job, crashes>>

Rows == [name : Names, is_superuser : BOOLEAN]

NoJob == [op |-> "none"]

Jobs == {NoJob} \cup [op : {"register"}, worker : Workers, name : Names]

ASSUME IdsAreNumbers == Ids \in SUBSET (Nat \ {0})
ASSUME NullIsNoRow == Null \notin Rows
ASSUME NullIsNoName == Null \notin Names
ASSUME SettingIsName == FirstSuperuser \in Names \cup {Null}
ASSUME MaxCrashesIsNumber == MaxCrashes \in Nat

Booting == {"checking", "creating", "looking", "inserting"}

TypeOK ==
    /\ tables \in BOOLEAN
    /\ users \in [Ids -> Rows \cup {Null}]
    /\ lastId \in Nat
    /\ pc \in [Workers -> Booting \cup {"down", "failed", "serving"}]
    /\ job \in [Requests -> Jobs]
    /\ crashes \in 0 .. MaxCrashes

Live == {i \in Ids : users[i] # Null}

Taken(name) == \E i \in Live : users[i].name = name

Serving == {w \in Workers : pc[w] = "serving"}

Goto(w, step) == pc' = [pc EXCEPT ![w] = step]

(* crud.user.create_user: the id comes from a sequence, and the unique     *)
(* name is the database's to check.                                        *)
CreateUser(id, name, super) ==
    /\ ~ Taken(name)
    /\ id > lastId
    /\ users' = [users EXCEPT ![id] = [name |-> name, is_superuser |-> super]]
    /\ lastId' = id

-----------------------------------------------------------------------------
(* Workers *)

Start(w) ==
    /\ pc[w] \in {"down", "failed"}
    /\ Goto(w, "checking")
    /\ UNCHANGED <<tables, users, lastId, job, crashes>>

(* Mutant of CheckTables: the superuser is created with the tables only. *)
CheckTablesOnce(w) ==
    /\ pc[w] = "checking"
    /\ Goto(w, IF tables THEN "serving" ELSE "creating")
    /\ UNCHANGED <<tables, users, lastId, job, crashes>>

(* create_all: the look at what exists ... *)
CheckTables(w) ==
    /\ pc[w] = "checking"
    /\ Goto(w, IF tables THEN "looking" ELSE "creating")
    /\ UNCHANGED <<tables, users, lastId, job, crashes>>

(* ... and CREATE TABLE, which fails when the tables exist by now: the     *)
(* lifespan raises and the worker exits.                                   *)
CreateTables(w) ==
    /\ pc[w] = "creating"
    /\ Goto(w, IF tables THEN "failed" ELSE "looking")
    /\ tables' = TRUE
    /\ UNCHANGED <<users, lastId, job, crashes>>

(* Mutant of LookForSuperuser: it does not look. *)
LookForSuperuserNever(w) ==
    /\ pc[w] = "looking"
    /\ Goto(w, IF FirstSuperuser = Null THEN "serving" ELSE "inserting")
    /\ UNCHANGED <<tables, users, lastId, job, crashes>>

LookForSuperuser(w) ==
    /\ pc[w] = "looking"
    /\ Goto(w, IF FirstSuperuser = Null \/ Taken(FirstSuperuser) THEN "serving" ELSE "inserting")
    /\ UNCHANGED <<tables, users, lastId, job, crashes>>

(* Mutant of InsertSuperuser: refreshing the new user raises. *)
InsertSuperuserRaising(w) ==
    /\ pc[w] = "inserting"
    /\ \/ \E id \in Ids : CreateUser(id, FirstSuperuser, TRUE)
       \/ Taken(FirstSuperuser) /\ UNCHANGED <<users, lastId>>
    /\ Goto(w, "failed")
    /\ UNCHANGED <<tables, job, crashes>>

(* The loser of a race fails on the unique name, and exits. *)
InsertSuperuser(w) ==
    /\ pc[w] = "inserting"
    /\ \/ \E id \in Ids : CreateUser(id, FirstSuperuser, TRUE) /\ Goto(w, "serving")
       \/ Taken(FirstSuperuser) /\ Goto(w, "failed") /\ UNCHANGED <<users, lastId>>
    /\ UNCHANGED <<tables, job, crashes>>

(* A crash, which takes the requests of the worker along *)
Crash(w) ==
    /\ pc[w] \notin {"down", "failed"}
    /\ crashes < MaxCrashes
    /\ crashes' = crashes + 1
    /\ Goto(w, "down")
    /\ job' = [r \in Requests |->
                 IF job[r] # NoJob /\ job[r].worker = w THEN NoJob ELSE job[r]]
    /\ UNCHANGED <<tables, users, lastId>>

-----------------------------------------------------------------------------
(* Registrations *)

Finish(r) == job' = [job EXCEPT ![r] = NoJob]

(* 400 when the name is taken, which changes nothing *)
LoadRegister(r, w, name) ==
    /\ pc[w] = "serving"
    /\ job[r] = NoJob
    /\ ~ Taken(name)
    /\ job' = [job EXCEPT ![r] = [op |-> "register", worker |-> w, name |-> name]]
    /\ UNCHANGED <<tables, users, lastId, pc, crashes>>

(* Mutant of Register: is_superuser has no default. *)
RegisterNoDefault(r, id) ==
    /\ job[r] # NoJob
    /\ CreateUser(id, job[r].name, Null)
    /\ Finish(r)
    /\ UNCHANGED <<tables, pc, crashes>>

(* Mutant of Register: the name is not unique in the database. *)
RegisterUnguarded(r, id) ==
    /\ job[r] # NoJob
    /\ id > lastId
    /\ users' = [users EXCEPT ![id] = [name |-> job[r].name, is_superuser |-> FALSE]]
    /\ lastId' = id
    /\ Finish(r)
    /\ UNCHANGED <<tables, pc, crashes>>

Register(r, id) ==
    /\ job[r] # NoJob
    /\ CreateUser(id, job[r].name, FALSE)
    /\ Finish(r)
    /\ UNCHANGED <<tables, pc, crashes>>

(* The client goes, or the name has been taken meanwhile. *)
Abandon(r) ==
    /\ job[r] # NoJob
    /\ Finish(r)
    /\ UNCHANGED <<tables, users, lastId, pc, crashes>>

-----------------------------------------------------------------------------
Init ==
    /\ tables = FALSE
    /\ users = [i \in Ids |-> Null]
    /\ lastId = 0
    /\ pc = [w \in Workers |-> "down"]
    /\ job = [r \in Requests |-> NoJob]
    /\ crashes = 0

BootStep(w) ==
    \/ CheckTables(w)
    \/ CreateTables(w)
    \/ LookForSuperuser(w)
    \/ InsertSuperuser(w)

RequestStep(r) ==
    \/ \E w \in Workers, name \in Names : LoadRegister(r, w, name)
    \/ \E id \in Ids : Register(r, id)
    \/ Abandon(r)

Next ==
    \/ \E w \in Workers : Start(w) \/ BootStep(w) \/ Crash(w)
    \/ \E r \in Requests : RequestStep(r)

Spec == Init /\ [][Next]_vars

FairSpec == Spec /\ \A w \in Workers : WF_vars(BootStep(w))

-----------------------------------------------------------------------------
(* Properties *)

(* Log-ins look a user up by name and accept one row (crud/user.py:9): no  *)
(* two users have one name, although bootstraps and registrations look     *)
(* first and insert later.                                                 *)
NamesAreUnique ==
    \A i, j \in Live : users[i].name = users[j].name => i = j

(* Whoever has the configured name is the superuser, and nobody else is:   *)
(* no registration gets there first, whatever crashed between creating the *)
(* tables and inserting the superuser, because no worker serves before     *)
(* there is one (app/main.py:15-22).                                       *)
SuperuserIsBootstrapped ==
    /\ \A i \in Live : users[i].is_superuser <=> users[i].name = FirstSuperuser
    /\ Serving # {} /\ FirstSuperuser # Null => Taken(FirstSuperuser)

(* Workers that start together can make each other fail, at the tables and *)
(* at the superuser, but never all of them: as long as none has crashed,   *)
(* a failed one leaves another that is up or on its way (app/main.py:16-   *)
(* 22).                                                                    *)
SomeoneSurvives ==
    crashes = 0 /\ (\E w \in Workers : pc[w] = "failed")
        => \E w \in Workers : pc[w] \in Booting \cup {"serving"}

(* Users whose ids lie between 253 and 64514 have addresses of their own   *)
(* (app/services/wireguard.py:34-36).                                      *)
AddressesAreDistinct ==
    \A i, j \in Live \cap OneToOne : allocate_ip(i) = allocate_ip(j) => i = j

(* A worker serves, or one is at a step it will not fail at and that       *)
(* nobody but a winner takes from it.                                      *)
CanComeUp ==
    \/ Serving # {}
    \/ \E w \in Workers :
          \/ pc[w] \in {"checking", "looking"}
          \/ pc[w] = "creating" /\ ~ tables
          \/ pc[w] = "inserting" /\ ~ Taken(FirstSuperuser)

(* A panel that can come up still can after every step but a crash: no     *)
(* order of look-ups, CREATE TABLEs, insertions, starts and registrations  *)
(* spoils the start of the last worker that can succeed (app/main.py:      *)
(* 15-22).                                                                 *)
HopeIsKept == [][CanComeUp /\ crashes' = crashes => CanComeUp']_vars

(* A start leads to a worker that serves, unless a worker crashes after it *)
(* began: the losers of the races fail only because of a winner, and what  *)
(* an earlier crash left half done is completed (app/main.py:13-23).  Of a *)
(* worker that began before the crash this is not true: it may have missed *)
(* the tables and fail on those of a winner that is gone.                  *)
BootServes ==
    \A n \in 0 .. MaxCrashes :
        (crashes = n /\ \E w \in Workers : pc[w] = "checking")
            ~> (Serving # {} \/ crashes > n)
=============================================================================
