------------------------------ MODULE Traffic ------------------------------
(***************************************************************************)
(* Traffic ingestion (router traffic, table traffic_events) with a client  *)
(* that repeats a batch until it is acknowledged, while users and nodes    *)
(* are deleted, users are switched off and on, and requests or their       *)
(* answers get lost.                                                       *)
(*                                                                         *)
(* The client is outside the repository: the model has what the endpoint   *)
(* lets one do.  Byte counts are left out: the sums of GET                 *)
(* /traffic/summary are represented by the sets of rows they add up.       *)
(***************************************************************************)
EXTENDS Integers

CONSTANTS
    Users,      \* primary keys of users
    Nodes,      \* primary keys of nodes
    Batches,    \* the batches clients want counted
    Events,     \* the events in them
    Batch,      \* for every batch, its events
    Origin,     \* for every event, the user and the node it names, or Null
    Unfit,      \* the events whose byte counts do not fit their columns
    Sender,     \* for every batch, the user whose token its client sends
    Requests,   \* slots for requests being served at the same time
    MaxSends,   \* bound: how often a batch is sent
    MaxFaults,  \* bound: how many requests are lost
    Null        \* SQL's NULL

VARIABLES
    users,    \* the users that have a row
    active,   \* those of them who are active
    nodes,    \* the nodes that have a row
    rows,     \* table traffic_events: from keys <<batch, sending, event>> to rows
    sends,    \* how often every batch has been sent
    acked,    \* the batches some client has seen a 202 for
    request,  \* what each slot is serving and how far it is
    faults    \* how many requests have been lost

tables == <<users, active, nodes, rows>>

vars == <<users, active, nodes, rows, sends, acked, request, faults>>

Rows == [user : Users \cup {Null}, node : Nodes \cup {Null}]

ASSUME BatchesHaveEvents == Batch \in [Batches -> (SUBSET Events) \ {{}}]
ASSUME EventsHaveOrigins == Origin \in [Events -> Rows]
ASSUME ClientsAreUsers == Sender \in [Batches -> Users]
ASSUME BoundsAreNumbers == MaxSends \in Nat /\ MaxFaults \in Nat
ASSUME NullIsNoKey == Null \notin Users \cup Nodes

Sendings == 1 .. MaxSends

Keys == Batches \X Sendings \X Events

Idle == [stage |-> "idle"]

Serving == [stage : {"sent", "admitted", "stored"}, batch : Batches, sending : Sendings]

TypeOK ==
    /\ users \in SUBSET Users
    /\ active \in SUBSET users
    /\ nodes \in SUBSET Nodes
    /\ DOMAIN rows \in SUBSET Keys
    /\ rows \in [DOMAIN rows -> Rows]
    /\ sends \in [Batches -> 0 .. MaxSends]
    /\ acked \in SUBSET Batches
    /\ request \in [Requests -> Serving \cup {Idle}]
    /\ faults \in 0 .. MaxFaults

(* The foreign keys of a row *)
Anchored(row) ==
    /\ row.user \in users \cup {Null}
    /\ row.node \in nodes \cup {Null}

(* Whether the database takes the rows of a batch and the audit row of its *)
(* sender.                                                                 *)
Storable(b) ==
    /\ Sender[b] \in users
    /\ \A e \in Batch[b] : e \notin Unfit /\ Anchored(Origin[e])

KeysOf(b, n) == {<<b, n, e>> : e \in Batch[b]}

-----------------------------------------------------------------------------
(* Users and nodes go; their traffic stays, attributed to nobody. *)

DropUser(u) ==
    /\ u \in users
    /\ users' = users \ {u}
    /\ active' = active \ {u}
    /\ rows' = [k \in DOMAIN rows |->
                  IF rows[k].user = u THEN [rows[k] EXCEPT !.user = Null] ELSE rows[k]]
    /\ UNCHANGED <<nodes, sends, acked, request, faults>>

(* update_user switches a user off or on. *)
UpdateUser(u) ==
    /\ u \in users
    /\ active' \in {active \ {u}, active \cup {u}}
    /\ UNCHANGED <<users, nodes, rows, sends, acked, request, faults>>

(* Mutant of DropNode: the user of an event is forgotten with its node. *)
DropNodeForgetting(nd) ==
    /\ nd \in nodes
    /\ nodes' = nodes \ {nd}
    /\ rows' = [k \in DOMAIN rows |->
                  IF rows[k].node = nd THEN [user |-> Null, node |-> Null] ELSE rows[k]]
    /\ UNCHANGED <<users, active, sends, acked, request, faults>>

DropNode(nd) ==
    /\ nd \in nodes
    /\ nodes' = nodes \ {nd}
    /\ rows' = [k \in DOMAIN rows |->
                  IF rows[k].node = nd THEN [rows[k] EXCEPT !.node = Null] ELSE rows[k]]
    /\ UNCHANGED <<users, active, sends, acked, request, faults>>

-----------------------------------------------------------------------------
(* The client *)

(* A batch that is not acknowledged may be sent again, also while an       *)
(* earlier sending is still being served.                                  *)
Send(b, r) ==
    /\ request[r] = Idle
    /\ b \notin acked
    /\ sends[b] < MaxSends
    /\ sends' = [sends EXCEPT ![b] = @ + 1]
    /\ request' = [request EXCEPT ![r] =
                     [stage |-> "sent", batch |-> b, sending |-> sends[b] + 1]]
    /\ UNCHANGED <<users, active, nodes, rows, acked, faults>>

-----------------------------------------------------------------------------
(* The handler *)

At(r, stage) == request[r].stage = stage

Reach(r, stage) == request' = [request EXCEPT ![r].stage = stage]

Finish(r) == request' = [request EXCEPT ![r] = Idle]

(* get_current_user, and 401 when the sender is gone or not active *)
GetCurrentUser(r) ==
    /\ At(r, "sent")
    /\ IF Sender[request[r].batch] \in active THEN Reach(r, "admitted") ELSE Finish(r)
    /\ UNCHANGED <<users, active, nodes, rows, sends, acked, faults>>

Insert(new) ==
    rows' = [k \in DOMAIN rows \cup new |-> IF k \in DOMAIN rows THEN rows[k] ELSE Origin[k[3]]]

(* Mutant of IngestEvents: user and node change places. *)
IngestEventsSwapped(r) ==
    LET b == request[r].batch
        new == KeysOf(b, request[r].sending)
    IN  /\ At(r, "admitted")
        /\ Storable(b)
        /\ rows' = [k \in DOMAIN rows \cup new |->
                      IF k \in DOMAIN rows THEN rows[k]
                      ELSE [user |-> Origin[k[3]].node, node |-> Origin[k[3]].user]]
        /\ Reach(r, "stored")
        /\ UNCHANGED <<users, active, nodes, sends, acked, faults>>

(* Mutant of IngestEvents: traffic_events has no foreign keys. *)
IngestEventsUnguarded(r) ==
    LET b == request[r].batch
    IN  /\ At(r, "admitted")
        /\ Sender[b] \in users
        /\ Insert(KeysOf(b, request[r].sending))
        /\ Reach(r, "stored")
        /\ UNCHANGED <<users, active, nodes, sends, acked, faults>>

(* Mutant of IngestEvents: events the database does not take are skipped. *)
IngestEventsSkipping(r) ==
    LET b == request[r].batch
    IN  /\ At(r, "admitted")
        /\ Sender[b] \in users
        /\ Insert({k \in KeysOf(b, request[r].sending) :
                     k[3] \notin Unfit /\ Anchored(Origin[k[3]])})
        /\ Reach(r, "stored")
        /\ UNCHANGED <<users, active, nodes, sends, acked, faults>>

(* Mutant of IngestEvents: a unique key on events, unhandled. *)
IngestEventsUnique(r) ==
    LET b == request[r].batch
    IN  /\ At(r, "admitted")
        /\ Storable(b)
        /\ \A n \in Sendings : KeysOf(b, n) \cap DOMAIN rows = {}
        /\ Insert(KeysOf(b, request[r].sending))
        /\ Reach(r, "stored")
        /\ UNCHANGED <<users, active, nodes, sends, acked, faults>>

(* The whole batch and its audit row are one transaction. *)
IngestEvents(r) ==
    LET b == request[r].batch
    IN  /\ At(r, "admitted")
        /\ Storable(b)
        /\ Insert(KeysOf(b, request[r].sending))
        /\ Reach(r, "stored")
        /\ UNCHANGED <<users, active, nodes, sends, acked, faults>>

(* A constraint fails: 500, and nothing is stored. *)
Reject(r) ==
    /\ At(r, "admitted")
    /\ ~ Storable(request[r].batch)
    /\ Finish(r)
    /\ UNCHANGED <<tables, sends, acked, faults>>

(* Mutant of Answer: accepted first, stored later. *)
AnswerEarly(r) ==
    /\ At(r, "admitted") \/ At(r, "stored")
    /\ acked' = acked \cup {request[r].batch}
    /\ Finish(r)
    /\ UNCHANGED <<tables, sends, faults>>

(* 202, seen by the client *)
Answer(r) ==
    /\ At(r, "stored")
    /\ acked' = acked \cup {request[r].batch}
    /\ Finish(r)
    /\ UNCHANGED <<tables, sends, faults>>

(* The request, its worker, its connection to the database or its answer   *)
(* is lost.                                                                *)
Lose(r) ==
    /\ request[r] # Idle
    /\ faults < MaxFaults
    /\ faults' = faults + 1
    /\ Finish(r)
    /\ UNCHANGED <<tables, sends, acked>>

-----------------------------------------------------------------------------
(* An empty table of events.  The users and nodes a batch may name are     *)
(* there, created by the other routers before; from here on they only go.  *)
Init ==
    /\ users = Users
    /\ active = Users
    /\ nodes = Nodes
    /\ rows = [k \in {} |-> Null]
    /\ sends = [b \in Batches |-> 0]
    /\ acked = {}
    /\ request = [r \in Requests |-> Idle]
    /\ faults = 0

HandlerStep(r) ==
    \/ GetCurrentUser(r)
    \/ IngestEvents(r)
    \/ Reject(r)
    \/ Answer(r)

ClientStep(b) == \E r \in Requests : Send(b, r)

Next ==
    \/ \E u \in Users : DropUser(u) \/ UpdateUser(u)
    \/ \E nd \in Nodes : DropNode(nd)
    \/ \E b \in Batches : ClientStep(b)
    \/ \E r \in Requests : HandlerStep(r) \/ Lose(r)

Fairness ==
    /\ \A b \in Batches : WF_vars(ClientStep(b))
    /\ \A r \in Requests : WF_vars(HandlerStep(r))

Spec == Init /\ [][Next]_vars

FairSpec == Spec /\ Fairness

-----------------------------------------------------------------------------
(* Properties *)

(* Traffic is attributed to users and nodes that exist, or to none: GET    *)
(* /traffic/summary groups it under the users of today and NULL, although  *)
(* users and nodes go between a batch's look-up of its sender and its      *)
(* commit (traffic.py:22-25, models.py:225-226).                           *)
NothingDangles == \A k \in DOMAIN rows : Anchored(rows[k])

Counted(b, n) == KeysOf(b, n) \subseteq DOMAIN rows

(* A sending is counted as a whole or not at all, and its repetition       *)
(* cannot complete it: when one event is not taken, none of the batch is   *)
(* (the single commit of traffic.py:25).                                   *)
BatchesAreWhole ==
    \A b \in Batches, n \in Sendings :
        Counted(b, n) \/ KeysOf(b, n) \cap DOMAIN rows = {}

(* The rows summed up for a user, or for the users that are gone *)
SummaryOf(u) == {k \in DOMAIN rows : rows[k].user = u}

(* What is summed up for a user who stays, and for those who are gone,     *)
(* never shrinks, whoever else goes: deleting a node takes no traffic from *)
(* any user, and deleting a user moves the traffic to NULL (the SET NULL   *)
(* of models.py:225-226, the GROUP BY of traffic.py:30).                   *)
SummaryKeepsCounting ==
    [][\A u \in users' \cup {Null} : SummaryOf(u) \subseteq SummaryOf(u)']_vars

(* Ingestion with repetition is at least once (docs/architecture.md:81),   *)
(* also through losses and deletions: what a client has a 202 for is in    *)
(* the sums and stays there (traffic.py:22-26).                            *)
Ledger == INSTANCE AtLeastOnce WITH
    sent <- {d \in Batches \X Sendings : d[2] <= sends[d[1]]},
    counted <- {d \in Batches \X Sendings : Counted(d[1], d[2])}

IngestsAtLeastOnce == Ledger!Spec

Doomed(b) ==
    /\ ~ Storable(b)
    /\ b \notin acked
    /\ \A r \in Requests : At(r, "stored") => request[r].batch # b

(* A batch that the database cannot take, and that no request has stored   *)
(* before, is never acknowledged, however often it is repeated and         *)
(* whatever goes besides: none of it is ever taken, so the traffic of the  *)
(* events that could be stored is lost with it (traffic.py:20-25).         *)
DoomIsPermanent == [][\A b \in Batches : Doomed(b) => Doomed(b)']_vars

(* A client that keeps sending a batch has it acknowledged, however        *)
(* answers get lost and sendings overlap, unless its sender is switched    *)
(* off at some time or the database cannot take the batch: then the batch  *)
(* stays refused for good because of one deleted user or node              *)
(* (security.py:50 and traffic.py:23, one transaction for all events).     *)
EveryBatchSettles ==
    \A b \in Batches : <>(b \in acked \/ Sender[b] \notin active \/ ~ Storable(b))
=============================================================================
