--------------------------- MODULE EngineSettings ---------------------------
(***************************************************************************)
(* Which engines a user may use: the table user_engines, its update by     *)
(* POST /users/{id}/engines, and the two endpoints that hand out           *)
(* configurations (routers/users.py).                                      *)
(*                                                                         *)
(* Requests have passed the gate (AccessControl).  Every SELECT is a step  *)
(* with its own snapshot; what a request writes is computed from the row   *)
(* it loaded and written at its commit, column by column: the ORM updates  *)
(* only the columns whose value differs from the one loaded.  A row of     *)
(* user_engines is the set of engines it allows.                           *)
(***************************************************************************)

CONSTANTS
    Users,      \* primary keys of users
    Requests,   \* slots for requests being served at the same time
    Engines,    \* the two columns, allow_xray and allow_wireguard
    Wireguard,  \* the engine whose QR code an endpoint serves
    NoRow       \* no row of user_engines

ASSUME NoRowIsNoSetting == \A row \in SUBSET Engines : row # NoRow
ASSUME WireguardIsAnEngine == Wireguard \in Engines

VARIABLES
    exists,   \* the users that have a row in users
    allowed,  \* for every user, the row of user_engines or NoRow
    pc,       \* how far the request of a slot has come
    job,      \* what it works on
    met,      \* history: engines whose flag was as the update asks at some instant
    whole,    \* history: were all flags as the update asks at one instant?
    seen      \* history: engines the user was allowed at some instant

vars == <<exists, allowed, pc, job, met, whole, seen>>

Jobs == [user : Users, asked : SUBSET Engines, dirty : SUBSET Engines]

NoJob(u) == [user |-> u, asked |-> {}, dirty |-> {}]

(* Slots between two requests, and the outcome of the last one. *)
Over == {"idle", "acknowledged", "configured", "qrShown"}

Running == {"updating", "serving"}

TypeOK ==
    /\ exists \in SUBSET Users
    /\ allowed \in [Users -> {NoRow} \cup SUBSET Engines]
    /\ pc \in [Requests -> Over \cup Running]
    /\ job \in [Requests -> Jobs]
    /\ met \in [Requests -> SUBSET Engines]
    /\ whole \in [Requests -> BOOLEAN]
    /\ seen \in [Requests -> SUBSET Engines]

HasRow(u) == allowed[u] # NoRow

(* A user without a row of user_engines has all engines. *)
Effective(u) == IF HasRow(u) THEN allowed[u] ELSE IF u \in exists THEN Engines ELSE {}

Become(r, p, j) == pc' = [pc EXCEPT ![r] = p] /\ job' = [job EXCEPT ![r] = j]

-----------------------------------------------------------------------------
(* Users come and go; a key is fresh while no slot mentions it. *)

Fresh(u) == u \notin exists /\ \A r \in Requests : pc[r] = "idle" \/ job[r].user # u

(* POST /auth/register writes no row of user_engines. *)
Register(u) ==
    /\ Fresh(u)
    /\ exists' = exists \cup {u}
    /\ UNCHANGED <<allowed, pc, job>>

(* POST /users writes one that allows both engines. *)
CreateUser(u) ==
    /\ Fresh(u)
    /\ exists' = exists \cup {u}
    /\ allowed' = [allowed EXCEPT ![u] = Engines]
    /\ UNCHANGED <<pc, job>>

(* DELETE /users/{id} takes the row along. *)
DeleteUser(u) ==
    /\ u \in exists
    /\ exists' = exists \ {u}
    /\ allowed' = [allowed EXCEPT ![u] = NoRow]
    /\ UNCHANGED <<pc, job>>

-----------------------------------------------------------------------------
(* POST /users/{id}/engines *)

(* Mutant of Differing: only flags that the request turns on are written. *)
TurnedOn(row, asked) == asked \ row

(* The columns the handler changes. *)
Differing(row, asked) == (asked \ row) \cup (row \ asked)

LoadEngines(r, u, asked) ==
    /\ pc[r] \in Over
    /\ HasRow(u)
    /\ Become(r, "updating",
              [user |-> u, asked |-> asked, dirty |-> Differing(allowed[u], asked)])
    /\ UNCHANGED <<exists, allowed>>

(* An UPDATE of the dirty columns, which must find the row; nothing dirty, *)
(* no UPDATE.                                                              *)
CommitEngines(r) ==
    /\ pc[r] = "updating"
    /\ LET j == job[r] IN
        IF j.dirty = {}
        THEN UNCHANGED allowed
        ELSE /\ HasRow(j.user)
             /\ allowed' = [allowed EXCEPT
                    ![j.user] = (@ \ j.dirty) \cup (j.dirty \cap j.asked)]
    /\ Become(r, "acknowledged", job[r])
    /\ UNCHANGED exists

-----------------------------------------------------------------------------
(* GET /users/{id}/configs: two SELECTs *)

SelectUser(r, u) ==
    /\ pc[r] \in Over
    /\ u \in exists
    /\ Become(r, "serving", NoJob(u))
    /\ UNCHANGED <<exists, allowed>>

(* What a configuration endpoint makes of the row it reads, if any. *)
Granted(u) == IF HasRow(u) THEN allowed[u] ELSE Engines

(* Mutant of ServeConfigs: no default for a user without a row. *)
ServeConfigsNoDefault(r) ==
    /\ pc[r] = "serving"
    /\ Become(r, "configured", [job[r] EXCEPT !.asked = allowed[job[r].user]])
    /\ UNCHANGED <<exists, allowed>>

ServeConfigs(r) ==
    /\ pc[r] = "serving"
    /\ Become(r, "configured", [job[r] EXCEPT !.asked = Granted(job[r].user)])
    /\ UNCHANGED <<exists, allowed>>

(* Mutant of ServeQR: the flag is not looked at. *)
ServeQRUnchecked(r, u) ==
    /\ pc[r] \in Over
    /\ Become(r, "qrShown", [NoJob(u) EXCEPT !.asked = {Wireguard}])
    /\ UNCHANGED <<exists, allowed>>

(* GET /users/{id}/wireguard/qr: one SELECT, and no look at users *)
ServeQR(r, u) ==
    /\ pc[r] \in Over
    /\ Wireguard \in Granted(u)
    /\ Become(r, "qrShown", [NoJob(u) EXCEPT !.asked = {Wireguard}])
    /\ UNCHANGED <<exists, allowed>>

Abandon(r) ==
    /\ pc[r] \in Running
    /\ Become(r, "idle", NoJob(job[r].user))
    /\ UNCHANGED <<exists, allowed>>

-----------------------------------------------------------------------------
Init ==
    /\ exists = {}
    /\ allowed = [u \in Users |-> NoRow]
    /\ pc = [r \in Requests |-> "idle"]
    /\ \E u \in Users : job = [r \in Requests |-> NoJob(u)]
    /\ met = [r \in Requests |-> {}]
    /\ whole = [r \in Requests |-> FALSE]
    /\ seen = [r \in Requests |-> {}]

UserStep == \E u \in Users : Register(u) \/ CreateUser(u) \/ DeleteUser(u)

UpdateStep(r) ==
    \/ \E u \in Users, asked \in SUBSET Engines : LoadEngines(r, u, asked)
    \/ CommitEngines(r)

ServeStep(r) ==
    \/ \E u \in Users : SelectUser(r, u) \/ ServeQR(r, u)
    \/ ServeConfigs(r)

(* The flags that are as slot r asks. *)
Agreeing(r) ==
    {e \in Engines : HasRow(job[r].user)
                    /\ (e \in allowed[job[r].user] <=> e \in job[r].asked)}

(* The history variables: a request that runs or ends adds what holds now, *)
(* one that begins forgets its predecessor, a finished one stays as it is. *)
Observe ==
    LET rests(r) == pc[r] \in Over /\ pc'[r] = pc[r] /\ job'[r] = job[r]
        begins(r) == pc[r] \in Over
        updates(r) == pc'[r] \in {"updating", "acknowledged"}
        serves(r) == pc'[r] \in {"serving", "configured", "qrShown"}
    IN  /\ met' = [r \in Requests |->
                IF rests(r) THEN met[r]
                ELSE {e \in Engines : /\ updates(r)
                                      /\ e \in Agreeing(r)' \/ (~ begins(r) /\ e \in met[r])}]
        /\ whole' = [r \in Requests |->
                IF rests(r) THEN whole[r]
                ELSE /\ updates(r)
                     /\ Agreeing(r)' = Engines \/ (~ begins(r) /\ whole[r])]
        /\ seen' = [r \in Requests |->
                IF rests(r) THEN seen[r]
                ELSE {e \in Engines : /\ serves(r)
                                      /\ e \in Effective(job[r].user)' \/ (~ begins(r) /\ e \in seen[r])}]

Next ==
    /\ \/ UserStep
       \/ \E r \in Requests : UpdateStep(r) \/ ServeStep(r) \/ Abandon(r)
    /\ Observe

Spec == Init /\ [][Next]_vars

-----------------------------------------------------------------------------
(* Properties *)

(* An acknowledged update had its way with every single flag: each was as  *)
(* asked at some instant between the load and the commit, although columns *)
(* that looked unchanged at the load are never written.                    *)
EveryFlagTookEffect ==
    \A r \in Requests : pc[r] = "acknowledged" => met[r] = Engines

(* A configuration or QR code of a user who has not been deleted holds no  *)
(* engine that was forbidden to the user all the time the request ran.     *)
ServedWasAllowed ==
    \A r \in Requests :
        pc[r] \in {"configured", "qrShown"} /\ job[r].user \in exists => job[r].asked \subseteq seen[r]

(* The architecture notes: the endpoint sets the allowed subset.  An       *)
(* acknowledged subset was, as a whole, what the database held at some     *)
(* instant.                                                                *)
SubsetTookEffect ==
    \A r \in Requests : pc[r] = "acknowledged" => whole[r]

(* The architecture notes: generated configurations honour the filter, so  *)
(* they hold no engine forbidden all the time the request ran.             *)
ConfigsHonourFilter ==
    \A r \in Requests : pc[r] = "configured" => job[r].asked \subseteq seen[r]
=============================================================================
