----------------------------- MODULE Placement -----------------------------
(***************************************************************************)
(* Nodes and the assignments of users to them (routers nodes and           *)
(* assignments, tables nodes and assignments of models.py).                *)
(*                                                                         *)
(* Requests have passed the gate (AccessControl).  As there, the SELECTs   *)
(* of a handler are a step, its writes take effect together when it        *)
(* commits, a constraint is a guard of the commit and any request may be   *)
(* abandoned.  Columns of a node other than its name (region, capacities,  *)
(* policy, is_enabled) are left out: a write of them changes nothing here. *)
(***************************************************************************)

CONSTANTS
    Users,          \* primary keys of users
    Nodes,          \* primary keys of nodes
    Names,          \* values of Node.name
    AssignmentIds,  \* primary keys of assignments
    Requests,       \* slots for requests being served at the same time
    Null            \* the row of a key that has none

VARIABLES
    users,    \* the users that have a row
    nodes,    \* for every key of nodes: Node.name, or Null
    assigns,  \* for every key of assignments: its user and node, or Null
    pc,       \* how far the request of a slot has come
    job       \* what its handler has read and is about to write

vars == <<users, nodes, assigns, pc, job>>

Pairs == [user : Users, node : Nodes]

ASSUME NullIsNoName == Null \notin Names
ASSUME NullIsNoPair == Null \notin Pairs

NoJob == [op |-> "none"]

Jobs == {NoJob}
    \cup [op : {"createNode"}, name : Names]
    \cup [op : {"renameNode"}, node : Nodes, name : Names]
    \cup [op : {"deleteNode"}, node : Nodes]
    \cup [op : {"createAssignment"}, pair : Pairs]
    \cup [op : {"moveAssignment"}, assignment : AssignmentIds, node : Nodes]
    \cup [op : {"deleteAssignment"}, assignment : AssignmentIds]

TypeOK ==
    /\ users \in SUBSET Users
    /\ nodes \in [Nodes -> Names \cup {Null}]
    /\ assigns \in [AssignmentIds -> Pairs \cup {Null}]
    /\ pc \in [Requests -> {"idle", "loaded"}]
    /\ job \in [Requests -> Jobs]

LiveNodes == {n \in Nodes : nodes[n] # Null}

Rows == {a \in AssignmentIds : assigns[a] # Null}

Anchored(p) == p.user \in users /\ p.node \in LiveNodes

PairTaken(p) == \E a \in Rows : assigns[a] = p

(* Rows with a key in gone are deleted. *)
DeleteRows(gone) == assigns' = [a \in AssignmentIds |-> IF a \in gone THEN Null ELSE assigns[a]]

(* A key is fresh when neither a row nor a request mentions it. *)
Mentions(row, column, key) == column \in DOMAIN row /\ row[column] = key

Unmentioned(column, key) ==
    \A r \in Requests :
        /\ ~ Mentions(job[r], column, key)
        /\ "pair" \in DOMAIN job[r] => ~ Mentions(job[r].pair, column, key)

-----------------------------------------------------------------------------
(* Users come and go (routers auth and users); assignments go with them. *)

AddUser(u) ==
    /\ u \notin users /\ Unmentioned("user", u)
    /\ users' = users \cup {u}
    /\ UNCHANGED <<nodes, assigns, pc, job>>

DropUser(u) ==
    /\ u \in users
    /\ users' = users \ {u}
    /\ DeleteRows({a \in Rows : assigns[a].user = u})
    /\ UNCHANGED <<nodes, pc, job>>

-----------------------------------------------------------------------------
Load(r, j) ==
    /\ pc[r] = "idle"
    /\ pc' = [pc EXCEPT ![r] = "loaded"]
    /\ job' = [job EXCEPT ![r] = j]
    /\ UNCHANGED <<users, nodes, assigns>>

(* The request ends; without a commit, its transaction is rolled back. *)
Finish(r) ==
    /\ pc[r] = "loaded"
    /\ pc' = [pc EXCEPT ![r] = "idle"]
    /\ job' = [job EXCEPT ![r] = NoJob]

Abandon(r) == Finish(r) /\ UNCHANGED <<users, nodes, assigns>>

Committing(r, op) == job[r].op = op /\ Finish(r)

LoadCreateNode(r, name) ==
    /\ \A n \in Nodes : nodes[n] # name
    /\ Load(r, [op |-> "createNode", name |-> name])

CreateNode(r, n) ==
    /\ Committing(r, "createNode")
    /\ nodes[n] = Null /\ Unmentioned("node", n)
    /\ \A other \in Nodes : nodes[other] # job[r].name
    /\ nodes' = [nodes EXCEPT ![n] = job[r].name]
    /\ UNCHANGED <<users, assigns>>

(* No look-up of the new name: uniqueness is the constraint's alone. *)
LoadRenameNode(r, n, name) ==
    /\ nodes[n] \notin {Null, name}
    /\ Load(r, [op |-> "renameNode", node |-> n, name |-> name])

RenameNode(r) ==
    /\ Committing(r, "renameNode")
    /\ nodes[job[r].node] # Null
    /\ \A other \in Nodes \ {job[r].node} : nodes[other] # job[r].name
    /\ nodes' = [nodes EXCEPT ![job[r].node] = job[r].name]
    /\ UNCHANGED <<users, assigns>>

LoadDeleteNode(r, n) ==
    /\ n \in LiveNodes
    /\ Load(r, [op |-> "deleteNode", node |-> n])

(* Mutant of DeleteNode: the assignments are left behind. *)
DeleteNodeOnly(r) ==
    /\ Committing(r, "deleteNode")
    /\ nodes' = [nodes EXCEPT ![job[r].node] = Null]
    /\ UNCHANGED <<users, assigns>>

(* Mutant of DeleteNode: ON DELETE SET NULL instead of CASCADE. *)
DeleteNodeNulling(r) ==
    /\ Committing(r, "deleteNode")
    /\ nodes' = [nodes EXCEPT ![job[r].node] = Null]
    /\ assigns' = [a \in AssignmentIds |->
                     IF a \in Rows /\ assigns[a].node = job[r].node
                     THEN [assigns[a] EXCEPT !.node = Null] ELSE assigns[a]]
    /\ UNCHANGED users

DeleteNode(r) ==
    /\ Committing(r, "deleteNode")
    /\ nodes' = [nodes EXCEPT ![job[r].node] = Null]
    /\ DeleteRows({a \in Rows : assigns[a].node = job[r].node})
    /\ UNCHANGED users

LoadCreateAssignment(r, p) ==
    /\ Anchored(p)
    /\ ~ PairTaken(p)
    /\ Load(r, [op |-> "createAssignment", pair |-> p])

CreateAssignment(r, a) ==
    /\ Committing(r, "createAssignment")
    /\ assigns[a] = Null /\ Unmentioned("assignment", a)
    /\ Anchored(job[r].pair)
    /\ ~ PairTaken(job[r].pair)
    /\ assigns' = [assigns EXCEPT ![a] = job[r].pair]
    /\ UNCHANGED <<users, nodes>>

(* A move to the node the row is on when loaded writes nothing. *)
LoadMoveAssignment(r, a, n) ==
    /\ a \in Rows
    /\ n \in LiveNodes \ {assigns[a].node}
    /\ Load(r, [op |-> "moveAssignment", assignment |-> a, node |-> n])

(* Mutant of MoveAssignment: no unique constraint on (user, node). *)
MoveAssignmentUnguarded(r) ==
    LET a == job[r].assignment
    IN  /\ Committing(r, "moveAssignment")
        /\ a \in Rows
        /\ job[r].node \in LiveNodes
        /\ assigns' = [assigns EXCEPT ![a].node = job[r].node]
        /\ UNCHANGED <<users, nodes>>

(* The handler does not look whether the user is on that node already: the *)
(* unique constraint does, and the foreign key whether the node is there.  *)
MoveAssignment(r) ==
    LET a == job[r].assignment
        n == job[r].node
    IN  /\ Committing(r, "moveAssignment")
        /\ a \in Rows
        /\ n \in LiveNodes
        /\ \A b \in Rows \ {a} : assigns[b] # [assigns[a] EXCEPT !.node = n]
        /\ assigns' = [assigns EXCEPT ![a].node = n]
        /\ UNCHANGED <<users, nodes>>

LoadDeleteAssignment(r, a) ==
    /\ a \in Rows
    /\ Load(r, [op |-> "deleteAssignment", assignment |-> a])

DeleteAssignment(r) ==
    /\ Committing(r, "deleteAssignment")
    /\ DeleteRows({job[r].assignment})
    /\ UNCHANGED <<users, nodes>>

-----------------------------------------------------------------------------
Init ==
    /\ users = {}
    /\ nodes = [n \in Nodes |-> Null]
    /\ assigns = [a \in AssignmentIds |-> Null]
    /\ pc = [r \in Requests |-> "idle"]
    /\ job = [r \in Requests |-> NoJob]

UserStep == \E u \in Users : AddUser(u) \/ DropUser(u)

LoadStep(r) ==
    \/ \E name \in Names : LoadCreateNode(r, name)
    \/ \E n \in Nodes, name \in Names : LoadRenameNode(r, n, name)
    \/ \E n \in Nodes : LoadDeleteNode(r, n)
    \/ \E p \in Pairs : LoadCreateAssignment(r, p)
    \/ \E a \in AssignmentIds, n \in Nodes : LoadMoveAssignment(r, a, n)
    \/ \E a \in AssignmentIds : LoadDeleteAssignment(r, a)

CommitStep(r) ==
    \/ \E n \in Nodes : CreateNode(r, n)
    \/ RenameNode(r) \/ DeleteNode(r)
    \/ \E a \in AssignmentIds : CreateAssignment(r, a)
    \/ MoveAssignment(r) \/ DeleteAssignment(r)

Next ==
    \/ UserStep
    \/ \E r \in Requests : LoadStep(r) \/ CommitStep(r) \/ Abandon(r)

Spec == Init /\ [][Next]_vars

-----------------------------------------------------------------------------
(* Properties *)

(* Rows as pairs. *)
Placed == {<<assigns[a].user, assigns[a].node>> : a \in Rows}

Map == INSTANCE PlacementMap WITH nodes <- LiveNodes, placed <- Placed

(* The table of assignments behaves as the relation PlacementMap: racing   *)
(* creates, moves, deletions of users and of nodes change it as if one at  *)
(* a time, and none leaves two rows for one pair.                          *)
MapSpec == Map!Spec

(* At most one row per user and node, and none of a node or user that is   *)
(* gone, although move_assignment looks for neither.                       *)
AssignmentsSound ==
    /\ \A a, b \in Rows : assigns[a] = assigns[b] => a = b
    /\ \A a \in Rows : Anchored(assigns[a])
=============================================================================
