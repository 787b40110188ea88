---------------------------- MODULE PlacementMap ----------------------------
(***************************************************************************)
(* What node placement promises: a relation between the users and the      *)
(* nodes there are.  Every operation changes it in one step: a pair is     *)
(* placed, moved or removed, or a user or a node goes and takes exactly    *)
(* its own pairs along.                                                    *)
(***************************************************************************)

CONSTANTS Users, Nodes

VARIABLES
    users,   \* the users there are
    nodes,   \* the nodes there are
    placed   \* the pairs <<user, node>> of the relation

vars == <<users, nodes, placed>>

Init == users = {} /\ nodes = {} /\ placed = {}

AddUser(u) == u \notin users /\ users' = users \cup {u} /\ UNCHANGED <<nodes, placed>>

DropUser(u) ==
    /\ u \in users
    /\ users' = users \ {u}
    /\ placed' = placed \ ({u} \X Nodes)
    /\ UNCHANGED nodes

AddNode(n) == n \notin nodes /\ nodes' = nodes \cup {n} /\ UNCHANGED <<users, placed>>

DropNode(n) ==
    /\ n \in nodes
    /\ nodes' = nodes \ {n}
    /\ placed' = placed \ (Users \X {n})
    /\ UNCHANGED users

Place(u, n) ==
    /\ u \in users /\ n \in nodes
    /\ <<u, n>> \notin placed
    /\ placed' = placed \cup {<<u, n>>}
    /\ UNCHANGED <<users, nodes>>

Move(u, from, to) ==
    /\ <<u, from>> \in placed
    /\ to \in nodes
    /\ <<u, to>> \notin placed
    /\ placed' = (placed \ {<<u, from>>}) \cup {<<u, to>>}
    /\ UNCHANGED <<users, nodes>>

Remove(u, n) ==
    /\ <<u, n>> \in placed
    /\ placed' = placed \ {<<u, n>>}
    /\ UNCHANGED <<users, nodes>>

Next ==
    \/ \E u \in Users : AddUser(u) \/ DropUser(u)
    \/ \E n \in Nodes : AddNode(n) \/ DropNode(n)
    \/ \E u \in Users, n \in Nodes : Place(u, n) \/ Remove(u, n)
    \/ \E u \in Users, from, to \in Nodes : Move(u, from, to)

Spec == Init /\ [][Next]_vars
=============================================================================
