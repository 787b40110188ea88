-------------------------- MODULE PlacementProofs --------------------------
(* Proofs about Placement: types, soundness of the rows, and that it       *)
(* implements PlacementMap, for any pools of keys and any requests.        *)
EXTENDS Placement, TLAPS

(* What a job's op says about its other fields. *)
LEMMA JobFields ==
    ASSUME NEW j \in Jobs
    PROVE  /\ j.op = "createNode" => j.name \in Names
           /\ j.op = "renameNode" => j.node \in Nodes /\ j.name \in Names
           /\ j.op = "deleteNode" => j.node \in Nodes
           /\ j.op = "createAssignment" => j.pair \in Pairs
           /\ j.op = "moveAssignment" => j.assignment \in AssignmentIds /\ j.node \in Nodes
           /\ j.op = "deleteAssignment" => j.assignment \in AssignmentIds
BY DEF Jobs, NoJob

LEMMA LoadType ==
    ASSUME TypeOK, NEW r \in Requests, NEW j \in Jobs, Load(r, j)
    PROVE  TypeOK'
BY DEF Load, TypeOK

LEMMA FinishType ==
    ASSUME TypeOK, NEW r \in Requests, Finish(r)
    PROVE  pc' \in [Requests -> {"idle", "loaded"}] /\ job' \in [Requests -> Jobs]
BY DEF Finish, TypeOK, Jobs

(* A handler's reads change no table. *)
LEMMA LoadStepLoads ==
    ASSUME NEW r \in Requests, LoadStep(r)
    PROVE  \E j \in Jobs : Load(r, j)
BY DEF LoadStep, LoadCreateNode, LoadRenameNode, LoadDeleteNode, LoadCreateAssignment,
   LoadMoveAssignment, LoadDeleteAssignment, LiveNodes, Jobs

LEMMA TypeStep ==
    ASSUME TypeOK, Next
    PROVE  TypeOK'
<1>1. ASSUME UserStep
      PROVE  TypeOK'
  BY <1>1 DEF UserStep, AddUser, DropUser, DeleteRows, TypeOK
<1>2. ASSUME NEW r \in Requests, LoadStep(r)
      PROVE  TypeOK'
  BY <1>2, LoadStepLoads, LoadType
<1>3. ASSUME NEW r \in Requests, CommitStep(r)
      PROVE  TypeOK'
  <2>1. job[r] \in Jobs
    BY DEF TypeOK
  <2>2. ASSUME NEW n \in Nodes, CreateNode(r, n)
        PROVE  TypeOK'
    BY <2>1, <2>2, JobFields, FinishType DEF CreateNode, Committing, TypeOK
  <2>3. CASE RenameNode(r)
    BY <2>1, <2>3, JobFields, FinishType DEF RenameNode, Committing, TypeOK
  <2>4. CASE DeleteNode(r)
    BY <2>1, <2>4, FinishType DEF DeleteNode, Committing, DeleteRows, TypeOK
  <2>5. ASSUME NEW a \in AssignmentIds, CreateAssignment(r, a)
        PROVE  TypeOK'
    BY <2>1, <2>5, JobFields, FinishType DEF CreateAssignment, Committing, TypeOK
  <2>6. CASE MoveAssignment(r)
    <3>1. job[r].assignment \in AssignmentIds /\ job[r].node \in Nodes
      BY <2>1, <2>6, JobFields DEF MoveAssignment, Committing
    <3>2. [assigns[job[r].assignment] EXCEPT !.node = job[r].node] \in Pairs
      BY <2>6, <3>1 DEF MoveAssignment, Rows, Pairs, TypeOK
    <3>3. QED
      BY <2>6, <3>1, <3>2, FinishType DEF MoveAssignment, Committing, TypeOK
  <2>7. CASE DeleteAssignment(r)
    BY <2>7, FinishType DEF DeleteAssignment, Committing, DeleteRows, TypeOK
  <2>8. QED
    BY <1>3, <2>2, <2>3, <2>4, <2>5, <2>6, <2>7 DEF CommitStep
<1>4. ASSUME NEW r \in Requests, Abandon(r)
      PROVE  TypeOK'
  BY <1>4, FinishType DEF Abandon, TypeOK
<1>5. QED
  BY <1>1, <1>2, <1>3, <1>4 DEF Next

-----------------------------------------------------------------------------
(* The strengthening the refinement rests on: moving or deleting one row   *)
(* takes its pair away only because no other row holds the same pair, and  *)
(* deleting a node that is gone changes nothing only because none of its   *)
(* rows is left.                                                           *)
IInv == TypeOK /\ AssignmentsSound

LEMMA InitSound == Init => IInv
BY NullIsNoPair DEF Init, IInv, TypeOK, AssignmentsSound, Rows, Anchored, Jobs, NoJob

(* A row's user and node are keys; a node is live when it has a name. *)
LEMMA RowFields ==
    ASSUME TypeOK
    PROVE  /\ \A a \in Rows : assigns[a] \in Pairs
           /\ \A a \in Rows : assigns[a].user \in Users /\ assigns[a].node \in Nodes
BY DEF TypeOK, Rows, Pairs

(* Deleting rows, then users or nodes no remaining row refers to. *)
LEMMA DeletionKeepsSound ==
    ASSUME IInv, NEW gone, DeleteRows(gone),
           \A a \in Rows \ gone : assigns[a].user \in users' /\ assigns[a].node \in LiveNodes'
    PROVE  AssignmentsSound'
<1>1. Rows' = Rows \ gone
  BY DEF DeleteRows, Rows
<1>2. \A a \in Rows' : assigns'[a] = assigns[a]
  BY <1>1 DEF DeleteRows, Rows
<1>3. QED
  BY <1>1, <1>2 DEF IInv, AssignmentsSound, Anchored

(* Steps that leave the rows in place and take no user or node away. *)
LEMMA GrowthKeepsSound ==
    ASSUME IInv, UNCHANGED assigns, users \subseteq users', LiveNodes \subseteq LiveNodes'
    PROVE  AssignmentsSound'
BY DEF IInv, AssignmentsSound, Anchored, Rows

LEMMA CommitSound ==
    ASSUME IInv, NEW r \in Requests, CommitStep(r)
    PROVE  AssignmentsSound'
<1>1. job[r] \in Jobs
  BY DEF IInv, TypeOK
<1>2. ASSUME NEW n \in Nodes, CreateNode(r, n)
      PROVE  AssignmentsSound'
  <2>1. LiveNodes \subseteq LiveNodes'
    BY <1>2 DEF CreateNode, LiveNodes, IInv, TypeOK
  <2>2. QED
    BY <1>2, <2>1, GrowthKeepsSound DEF CreateNode
<1>3. CASE RenameNode(r)
  <2>1. job[r].name # Null
    BY <1>1, <1>3, JobFields, NullIsNoName DEF RenameNode, Committing
  <2>2. LiveNodes \subseteq LiveNodes'
    BY <1>3, <2>1 DEF RenameNode, LiveNodes, IInv, TypeOK
  <2>3. QED
    BY <1>3, <2>2, GrowthKeepsSound DEF RenameNode
<1>4. CASE DeleteNode(r)
  <2> DEFINE gone == {a \in Rows : assigns[a].node = job[r].node}
  <2>1. LiveNodes \ {job[r].node} \subseteq LiveNodes'
    BY <1>4 DEF DeleteNode, LiveNodes, IInv, TypeOK
  <2>2. \A a \in Rows \ gone : assigns[a].user \in users' /\ assigns[a].node \in LiveNodes'
    BY <1>4, <2>1 DEF DeleteNode, IInv, AssignmentsSound, Anchored
  <2>3. QED
    BY <1>4, <2>2, DeletionKeepsSound DEF DeleteNode
<1>5. ASSUME NEW a \in AssignmentIds, CreateAssignment(r, a)
      PROVE  AssignmentsSound'
  <2>1. job[r].pair \in Pairs
    BY <1>1, <1>5, JobFields DEF CreateAssignment, Committing
  <2>2. Rows' = Rows \cup {a}
    BY <1>5, <2>1, NullIsNoPair DEF CreateAssignment, Rows, IInv, TypeOK
  <2>3. assigns'[a] = job[r].pair /\ \A b \in Rows : assigns'[b] = assigns[b]
    BY <1>5 DEF CreateAssignment, Rows, IInv, TypeOK
  <2>4. users' = users /\ LiveNodes' = LiveNodes
    BY <1>5 DEF CreateAssignment, LiveNodes
  <2>5. QED
    BY <1>5, <2>2, <2>3, <2>4 DEF CreateAssignment, PairTaken, Anchored, IInv, AssignmentsSound
<1>6. CASE MoveAssignment(r)
  <2> DEFINE a == job[r].assignment
             q == [assigns[a] EXCEPT !.node = job[r].node]
  <2>1. a \in Rows /\ job[r].node \in LiveNodes /\ assigns' = [assigns EXCEPT ![a] = q]
    BY <1>6 DEF MoveAssignment
  <2>2. q.user = assigns[a].user /\ q.node = job[r].node /\ q \in Pairs
    BY <2>1, RowFields DEF Pairs, LiveNodes, IInv
  <2>3. Rows' = Rows
    BY <2>1, <2>2, NullIsNoPair DEF Rows, IInv, TypeOK
  <2>4. assigns'[a] = q /\ \A b \in Rows \ {a} : assigns'[b] = assigns[b] /\ assigns[b] # q
    BY <1>6, <2>1 DEF MoveAssignment, Rows, IInv, TypeOK
  <2>5. users' = users /\ LiveNodes' = LiveNodes
    BY <1>6 DEF MoveAssignment, LiveNodes
  <2>6. \A b, c \in Rows : assigns'[b] = assigns'[c] => b = c
    BY <2>4 DEF IInv, AssignmentsSound
  <2>7. \A b \in Rows : assigns'[b].user \in users /\ assigns'[b].node \in LiveNodes
    BY <2>1, <2>2, <2>4 DEF IInv, AssignmentsSound, Anchored
  <2>8. QED
    BY <2>3, <2>5, <2>6, <2>7 DEF AssignmentsSound, Anchored
<1>7. CASE DeleteAssignment(r)
  <2>1. users' = users /\ LiveNodes' = LiveNodes
    BY <1>7 DEF DeleteAssignment, LiveNodes
  <2>2. QED
    BY <1>7, <2>1, DeletionKeepsSound DEF DeleteAssignment, IInv, AssignmentsSound, Anchored
<1>8. QED
  BY <1>2, <1>3, <1>4, <1>5, <1>6, <1>7 DEF CommitStep

LEMMA SoundStep ==
    ASSUME IInv, Next
    PROVE  AssignmentsSound'
<1>1. ASSUME NEW u \in Users, AddUser(u)
      PROVE  AssignmentsSound'
  BY <1>1, GrowthKeepsSound DEF AddUser, LiveNodes
<1>2. ASSUME NEW u \in Users, DropUser(u)
      PROVE  AssignmentsSound'
  BY <1>2, DeletionKeepsSound DEF DropUser, LiveNodes, IInv, AssignmentsSound, Anchored
<1>3. ASSUME NEW r \in Requests, LoadStep(r)
      PROVE  AssignmentsSound'
  BY <1>3, LoadStepLoads, GrowthKeepsSound DEF Load, LiveNodes
<1>4. ASSUME NEW r \in Requests, Abandon(r)
      PROVE  AssignmentsSound'
  BY <1>4, GrowthKeepsSound DEF Abandon, LiveNodes
<1>5. QED
  BY <1>1, <1>2, <1>3, <1>4, CommitSound DEF Next, UserStep

LEMMA Invariance == Spec => []IInv
<1>1. IInv /\ [Next]_vars => IInv'
  <2>1. CASE Next
    BY <2>1, TypeStep, SoundStep DEF IInv
  <2>2. CASE UNCHANGED vars
    BY <2>2 DEF vars, IInv, TypeOK, AssignmentsSound, Rows, Anchored, LiveNodes
  <2>3. QED
    BY <2>1, <2>2
<1>2. QED
  BY <1>1, InitSound, PTL DEF Spec

(* Whatever requests race, every table of placement keeps its types. *)
THEOREM TypeCorrect == Spec => []TypeOK
BY Invariance, PTL DEF IInv

(* However creates, moves and deletions of users, nodes and assignments    *)
(* interleave, no pair of user and node has two rows and no row refers to  *)
(* a user or a node that is gone.                                          *)
THEOREM Soundness == Spec => []AssignmentsSound
BY Invariance, PTL DEF IInv

-----------------------------------------------------------------------------
(* The table implements the relation *)

LEMMA PlacedPairs ==
    ASSUME IInv
    PROVE  Placed \subseteq users \X LiveNodes /\ Placed \subseteq Users \X Nodes
BY RowFields DEF Placed, IInv, AssignmentsSound, Anchored

(* Two rows with one user and one node are one row. *)
LEMMA RowOfPair ==
    ASSUME IInv, NEW a \in Rows, NEW b \in Rows,
           assigns[a].user = assigns[b].user, assigns[a].node = assigns[b].node
    PROVE  a = b
<1>1. assigns[a] = assigns[b]
  BY RowFields DEF IInv, Pairs
<1>2. QED
  BY <1>1 DEF IInv, AssignmentsSound

LEMMA PlacedUnchanged ==
    ASSUME UNCHANGED assigns
    PROVE  Placed' = Placed
BY DEF Placed, Rows

(* What deleting rows leaves of the relation. *)
LEMMA PlacedAfterDelete ==
    ASSUME NEW gone, DeleteRows(gone)
    PROVE  Placed' = {<<assigns[a].user, assigns[a].node>> : a \in Rows \ gone}
<1>1. Rows' = Rows \ gone
  BY DEF DeleteRows, Rows
<1>2. \A a \in Rows' : assigns'[a] = assigns[a]
  BY <1>1 DEF DeleteRows, Rows
<1>3. \A p : p \in Placed' <=> p \in {<<assigns[a].user, assigns[a].node>> : a \in Rows \ gone}
  BY <1>1, <1>2 DEF Placed
<1>4. QED
  BY <1>3

LEMMA UserStepMaps ==
    ASSUME IInv, NEW u \in Users, AddUser(u) \/ DropUser(u)
    PROVE  Map!Next
<1>1. LiveNodes' = LiveNodes
  BY DEF AddUser, DropUser, LiveNodes
<1>2. CASE AddUser(u)
  BY <1>1, <1>2, PlacedUnchanged DEF AddUser, Map!Next, Map!AddUser
<1>3. CASE DropUser(u)
  <2> DEFINE gone == {a \in Rows : assigns[a].user = u}
  <2>1. Placed' = {<<assigns[a].user, assigns[a].node>> : a \in Rows \ gone}
    BY <1>3, PlacedAfterDelete DEF DropUser
  <2>2. Placed' = Placed \ ({u} \X Nodes)
    BY <2>1, RowFields DEF Placed, IInv
  <2>3. QED
    BY <1>1, <1>3, <2>2 DEF DropUser, Map!Next, Map!DropUser
<1>4. QED
  BY <1>2, <1>3

LEMMA CommitStepMaps ==
    ASSUME IInv, NEW r \in Requests, CommitStep(r)
    PROVE  Map!Next \/ UNCHANGED Map!vars
<1>1. job[r] \in Jobs
  BY DEF IInv, TypeOK
<1>2. ASSUME NEW n \in Nodes, CreateNode(r, n)
      PROVE  Map!Next
  <2>1. job[r].name \in Names /\ job[r].name # Null
    BY <1>1, <1>2, JobFields, NullIsNoName DEF CreateNode, Committing
  <2>2. n \notin LiveNodes /\ LiveNodes' = LiveNodes \cup {n}
    BY <1>2, <2>1 DEF CreateNode, LiveNodes, IInv, TypeOK
  <2>3. QED
    BY <1>2, <2>2, PlacedUnchanged DEF CreateNode, Map!Next, Map!AddNode
<1>3. CASE RenameNode(r)
  <2>1. job[r].node \in Nodes /\ job[r].name # Null
    BY <1>1, <1>3, JobFields, NullIsNoName DEF RenameNode, Committing
  <2>2. LiveNodes' = LiveNodes
    BY <1>3, <2>1 DEF RenameNode, LiveNodes, IInv, TypeOK
  <2>3. QED
    BY <1>3, <2>2, PlacedUnchanged DEF RenameNode, Map!vars
<1>4. CASE DeleteNode(r)
  <2> DEFINE n == job[r].node
             gone == {a \in Rows : assigns[a].node = n}
  <2>1. n \in Nodes
    BY <1>1, <1>4, JobFields DEF DeleteNode, Committing
  <2>2. LiveNodes' = LiveNodes \ {n} /\ users' = users
    BY <1>4, <2>1 DEF DeleteNode, LiveNodes, IInv, TypeOK
  <2>3. Placed' = {<<assigns[a].user, assigns[a].node>> : a \in Rows \ gone}
    BY <1>4, PlacedAfterDelete DEF DeleteNode
  <2>4. Placed' = Placed \ (Users \X {n})
    BY <2>3, RowFields DEF Placed, IInv
  <2>5. CASE n \in LiveNodes
    BY <2>1, <2>2, <2>4, <2>5 DEF Map!Next, Map!DropNode
  <2>6. CASE n \notin LiveNodes
    <3>1. Placed' = Placed /\ LiveNodes' = LiveNodes
      BY <2>2, <2>4, <2>6, PlacedPairs
    <3>2. QED
      BY <2>2, <3>1 DEF Map!vars
  <2>7. QED
    BY <2>5, <2>6
<1>5. ASSUME NEW a \in AssignmentIds, CreateAssignment(r, a)
      PROVE  Map!Next
  <2> DEFINE p == job[r].pair
  <2>1. p \in Pairs /\ p.user \in Users /\ p.node \in Nodes
    BY <1>1, <1>5, JobFields DEF CreateAssignment, Committing, Pairs
  <2>2. Rows' = Rows \cup {a} /\ a \notin Rows
    BY <1>5, <2>1, NullIsNoPair DEF CreateAssignment, Rows, IInv, TypeOK
  <2>3. assigns'[a] = p /\ \A b \in Rows : assigns'[b] = assigns[b]
    BY <1>5 DEF CreateAssignment, Rows, IInv, TypeOK
  <2>4. Placed' = Placed \cup {<<p.user, p.node>>}
    BY <2>2, <2>3 DEF Placed
  <2>5. \A b \in Rows : assigns[b].user = p.user /\ assigns[b].node = p.node => assigns[b] = p
    BY <2>1, RowFields DEF IInv, Pairs
  <2>6. <<p.user, p.node>> \notin Placed
    BY <1>5, <2>5 DEF CreateAssignment, PairTaken, Placed
  <2>7. Map!Place(p.user, p.node)
    BY <1>5, <2>4, <2>6 DEF CreateAssignment, Anchored, LiveNodes, Map!Place
  <2>8. QED
    BY <2>1, <2>7 DEF Map!Next
<1>6. CASE MoveAssignment(r)
  <2> DEFINE a == job[r].assignment
             n == job[r].node
             q == [assigns[a] EXCEPT !.node = n]
  <2>1. a \in Rows /\ n \in LiveNodes /\ n \in Nodes /\ assigns' = [assigns EXCEPT ![a] = q]
    BY <1>6 DEF MoveAssignment, LiveNodes
  <2>2. q.user = assigns[a].user /\ q.node = n /\ q \in Pairs
    BY <2>1, RowFields DEF Pairs, IInv
  <2>3. Rows' = Rows
    BY <2>1, <2>2, NullIsNoPair DEF Rows, IInv, TypeOK
  <2>4. assigns'[a] = q /\ \A b \in Rows \ {a} : assigns'[b] = assigns[b] /\ assigns[b] # q
    BY <1>6, <2>1 DEF MoveAssignment, Rows, IInv, TypeOK
  <2>5. \A b \in Rows \ {a} : <<assigns[b].user, assigns[b].node>> # <<assigns[a].user, assigns[a].node>>
    BY <2>1, RowOfPair
  <2>6. Placed' = (Placed \ {<<assigns[a].user, assigns[a].node>>}) \cup {<<assigns[a].user, n>>}
    <3>1. \A p : p \in Placed' <=> \E b \in Rows : p = <<assigns'[b].user, assigns'[b].node>>
      BY <2>3 DEF Placed
    <3>2. \A p : p \in Placed' <=> \/ p = <<assigns[a].user, n>>
                                   \/ \E b \in Rows \ {a} : p = <<assigns[b].user, assigns[b].node>>
      <4>1. assigns'[a].user = assigns[a].user /\ assigns'[a].node = n
        BY <2>2, <2>4
      <4>2. \A b \in Rows \ {a} : assigns'[b] = assigns[b]
        BY <2>4
      <4> HIDE DEF a, n, q
      <4>3. QED
        BY <2>1, <3>1, <4>1, <4>2
    <3>3. \A p : (\E b \in Rows \ {a} : p = <<assigns[b].user, assigns[b].node>>)
                 <=> p \in Placed \ {<<assigns[a].user, assigns[a].node>>}
      BY <2>1, <2>5 DEF Placed
    <3>4. QED
      BY <3>2, <3>3
  <2>7. \A b \in Rows \ {a} : ~ (assigns[b].user = assigns[a].user /\ assigns[b].node = n)
    <3>1. SUFFICES ASSUME NEW b \in Rows \ {a}, assigns[b].user = assigns[a].user, assigns[b].node = n
                   PROVE  FALSE
      OBVIOUS
    <3>2. assigns[b] = q
      BY <2>2, <3>1, RowFields DEF IInv, Pairs
    <3>3. QED
      BY <2>4, <3>2
  <2>8. CASE n # assigns[a].node
    <3>1. <<assigns[a].user, n>> \notin Placed
      BY <2>7, <2>8 DEF Placed
    <3>2. Map!Move(assigns[a].user, assigns[a].node, n)
      BY <1>6, <2>1, <2>6, <3>1 DEF MoveAssignment, Map!Move, Placed, LiveNodes
    <3>3. QED
      BY <2>1, <3>2, RowFields DEF Map!Next, IInv
  <2>9. CASE n = assigns[a].node
    <3>1. Placed' = Placed
      BY <2>1, <2>6, <2>9 DEF Placed
    <3>2. QED
      BY <1>6, <3>1 DEF MoveAssignment, Map!vars, LiveNodes
  <2>10. QED
    BY <2>8, <2>9
<1>7. CASE DeleteAssignment(r)
  <2> DEFINE a == job[r].assignment
  <2>1. Placed' = {<<assigns[b].user, assigns[b].node>> : b \in Rows \ {a}}
    BY <1>7, PlacedAfterDelete DEF DeleteAssignment
  <2>2. users' = users /\ LiveNodes' = LiveNodes
    BY <1>7 DEF DeleteAssignment, LiveNodes
  <2>3. CASE a \in Rows
    <3>1. \A b \in Rows \ {a} : <<assigns[b].user, assigns[b].node>> # <<assigns[a].user, assigns[a].node>>
      BY <2>3, RowOfPair
    <3>2. Placed' = Placed \ {<<assigns[a].user, assigns[a].node>>}
      BY <2>1, <3>1 DEF Placed
    <3>3. Map!Remove(assigns[a].user, assigns[a].node)
      BY <2>2, <2>3, <3>2 DEF Map!Remove, Placed
    <3>4. QED
      BY <2>3, <3>3, RowFields DEF Map!Next, IInv
  <2>4. CASE a \notin Rows
    BY <2>1, <2>2, <2>4 DEF Map!vars, Placed
  <2>5. QED
    BY <2>3, <2>4
<1>8. QED
  BY <1>2, <1>3, <1>4, <1>5, <1>6, <1>7 DEF CommitStep

(* Requests on the tables of placement change the relation PlacementMap    *)
(* only by its operations, one at a time, or not at all: the races between *)
(* reading and committing in routers nodes and assignments are invisible   *)
(* to whoever sees only which user is on which node.                       *)
THEOREM Refinement == Spec => MapSpec
<1>1. Init => Map!Init
  BY DEF Init, Map!Init, LiveNodes, Placed, Rows
<1>2. IInv /\ [Next]_vars => [Map!Next]_(Map!vars)
  <2>1. ASSUME IInv, NEW r \in Requests, LoadStep(r) \/ Abandon(r)
        PROVE  UNCHANGED Map!vars
    <3>1. UNCHANGED <<users, nodes, assigns>>
      BY <2>1, LoadStepLoads DEF Load, Abandon
    <3>2. QED
      BY <3>1, PlacedUnchanged DEF Map!vars, LiveNodes
  <2>2. CASE IInv /\ UNCHANGED vars
    BY <2>2, PlacedUnchanged DEF vars, Map!vars, LiveNodes
  <2>3. QED
    BY <2>1, <2>2, UserStepMaps, CommitStepMaps DEF Next, UserStep
<1>3. QED
  BY <1>1, <1>2, Invariance, PTL DEF Spec, MapSpec, Map!Spec
=============================================================================
