--------------------------- MODULE TrafficProofs ---------------------------
(* Proofs about Traffic: types, foreign keys, whole batches, sums that do  *)
(* not shrink, batches that are lost for good, how often a batch can fail, *)
(* and that it implements AtLeastOnce, for any users, nodes, batches and   *)
(* slots and any bounds on repetitions and losses.                         *)
EXTENDS Traffic, FiniteSetTheorems, TLAPS

(* What a busy slot knows of its batch: it is one the client has sent, and *)
(* once it has stored it the batch is counted.                             *)
RequestsConsistent ==
    \A r \in Requests :
        request[r] # Idle =>
            /\ request[r].sending <= sends[request[r].batch]
            /\ At(r, "stored") => Counted(request[r].batch, request[r].sending)

-----------------------------------------------------------------------------
(* Slots *)

LEMMA BusySlot ==
    ASSUME TypeOK, NEW r \in Requests, ~ At(r, "idle")
    PROVE  /\ request[r] \in Serving
           /\ request[r] # Idle
           /\ request[r].batch \in Batches
           /\ request[r].sending \in Sendings
BY DEF TypeOK, At, Serving, Idle

LEMMA ServingIsBusy ==
    ASSUME NEW q \in Serving
    PROVE  q # Idle /\ q.batch \in Batches /\ q.sending \in Sendings /\ q.stage # "idle"
BY DEF Serving, Idle

LEMMA ReachType ==
    ASSUME TypeOK, NEW r \in Requests, ~ At(r, "idle"),
           NEW stage \in {"sent", "admitted", "stored"}, Reach(r, stage)
    PROVE  /\ request' \in [Requests -> Serving \cup {Idle}]
           /\ request'[r].batch = request[r].batch
           /\ request'[r].sending = request[r].sending
           /\ request'[r].stage = stage
           /\ \A q \in Requests \ {r} : request'[q] = request[q]
<1>1. request[r] \in Serving
  BY BusySlot
<1>2. [request[r] EXCEPT !.stage = stage] \in Serving
  BY <1>1 DEF Serving
<1>3. QED
  BY <1>1, <1>2 DEF Reach, TypeOK, Serving

LEMMA FinishType ==
    ASSUME TypeOK, NEW r \in Requests, Finish(r)
    PROVE  /\ request' \in [Requests -> Serving \cup {Idle}]
           /\ request'[r] = Idle
           /\ \A q \in Requests \ {r} : request'[q] = request[q]
BY DEF Finish, TypeOK

LEMMA KeyFields ==
    ASSUME NEW b \in Batches, NEW n \in Sendings, NEW k \in KeysOf(b, n)
    PROVE  k \in Keys /\ k[1] = b /\ k[2] = n /\ k[3] \in Batch[b] /\ Origin[k[3]] \in Rows
<1>1. PICK e \in Batch[b] : k = <<b, n, e>>
  BY DEF KeysOf
<1>2. e \in Events
  BY BatchesHaveEvents
<1>3. QED
  BY <1>1, <1>2, EventsHaveOrigins DEF Keys

LEMMA KeysDisjoint ==
    ASSUME NEW b \in Batches, NEW c \in Batches, NEW n \in Sendings, NEW m \in Sendings,
           <<b, n>> # <<c, m>>
    PROVE  KeysOf(b, n) \cap KeysOf(c, m) = {}
<1>1. ASSUME NEW k \in KeysOf(b, n), k \in KeysOf(c, m)
      PROVE  FALSE
  <2>1. k[1] = b /\ k[2] = n
    BY KeyFields
  <2>2. k[1] = c /\ k[2] = m
    BY <1>1, KeyFields
  <2>3. QED
    BY <2>1, <2>2
<1>2. QED
  BY <1>1

LEMMA KeysNonempty ==
    ASSUME NEW b \in Batches, NEW n \in Sendings
    PROVE  KeysOf(b, n) # {}
<1>1. PICK e : e \in Batch[b]
  BY BatchesHaveEvents
<1>2. <<b, n, e>> \in KeysOf(b, n)
  BY <1>1 DEF KeysOf
<1>3. QED
  BY <1>2

(* Of the handler's steps only the commit touches a table. *)
LEMMA OtherSteps ==
    ASSUME NEW r \in Requests, GetCurrentUser(r) \/ Reject(r) \/ Answer(r) \/ Lose(r)
    PROVE  UNCHANGED <<users, active, nodes, rows, sends>>
BY DEF GetCurrentUser, Reject, Answer, Lose, tables

(* Changes of users and nodes keep the rows, whatever they do to columns. *)
LEMMA DirectoryKeepsKeys ==
    ASSUME NEW x, DropUser(x) \/ UpdateUser(x) \/ DropNode(x)
    PROVE  DOMAIN rows' = DOMAIN rows /\ UNCHANGED <<sends, acked, request, faults>>
BY DEF DropUser, UpdateUser, DropNode

-----------------------------------------------------------------------------
(* Types *)

LEMMA InsertType ==
    ASSUME TypeOK, NEW b \in Batches, NEW n \in Sendings, Insert(KeysOf(b, n))
    PROVE  /\ DOMAIN rows' = DOMAIN rows \cup KeysOf(b, n)
           /\ DOMAIN rows' \in SUBSET Keys
           /\ rows' \in [DOMAIN rows' -> Rows]
           /\ \A k \in DOMAIN rows : rows'[k] = rows[k]
           /\ \A k \in KeysOf(b, n) \ DOMAIN rows : rows'[k] = Origin[k[3]]
<1>1. \A k \in KeysOf(b, n) : k \in Keys /\ Origin[k[3]] \in Rows
  BY KeyFields
<1>2. QED
  BY <1>1 DEF Insert, TypeOK

LEMMA TypeStep ==
    ASSUME TypeOK, Next
    PROVE  TypeOK'
<1>1. ASSUME NEW u \in Users, DropUser(u)
      PROVE  TypeOK'
  <2>1. \A k \in DOMAIN rows : [rows[k] EXCEPT !.user = Null] \in Rows
    BY DEF TypeOK, Rows
  <2>2. QED
    BY <1>1, <2>1 DEF DropUser, TypeOK
<1>2. ASSUME NEW nd \in Nodes, DropNode(nd)
      PROVE  TypeOK'
  <2>1. \A k \in DOMAIN rows : [rows[k] EXCEPT !.node = Null] \in Rows
    BY DEF TypeOK, Rows
  <2>2. QED
    BY <1>2, <2>1 DEF DropNode, TypeOK
<1>3. ASSUME NEW b \in Batches, NEW r \in Requests, Send(b, r)
      PROVE  TypeOK'
  <2>1. sends[b] \in 0 .. MaxSends /\ sends[b] + 1 \in Sendings
    BY <1>3, BoundsAreNumbers DEF Send, TypeOK, Sendings
  <2>2. [stage |-> "sent", batch |-> b, sending |-> sends[b] + 1] \in Serving
    BY <2>1 DEF Serving
  <2>3. QED
    BY <1>3, <2>1, <2>2, BoundsAreNumbers DEF Send, TypeOK, Sendings
<1>4. ASSUME NEW r \in Requests, GetCurrentUser(r)
      PROVE  TypeOK'
  <2>1. ~ At(r, "idle")
    BY <1>4 DEF GetCurrentUser, At
  <2>2. request' \in [Requests -> Serving \cup {Idle}]
    BY <1>4, <2>1, ReachType, FinishType DEF GetCurrentUser
  <2>3. QED
    BY <1>4, <2>2 DEF GetCurrentUser, TypeOK
<1>5. ASSUME NEW r \in Requests, IngestEvents(r)
      PROVE  TypeOK'
  <2>1. ~ At(r, "idle")
    BY <1>5 DEF IngestEvents, At
  <2>2. request' \in [Requests -> Serving \cup {Idle}]
    BY <1>5, <2>1, ReachType DEF IngestEvents
  <2>3. DOMAIN rows' \in SUBSET Keys /\ rows' \in [DOMAIN rows' -> Rows]
    BY <1>5, <2>1, BusySlot, InsertType DEF IngestEvents
  <2>4. QED
    BY <1>5, <2>2, <2>3 DEF IngestEvents, TypeOK
<1>6. ASSUME NEW r \in Requests, Reject(r) \/ Answer(r) \/ Lose(r)
      PROVE  TypeOK'
  <2>1. request' \in [Requests -> Serving \cup {Idle}]
    BY <1>6, FinishType DEF Reject, Answer, Lose
  <2>2. acked' \in SUBSET Batches
    <3>1. CASE Answer(r)
      <4>1. ~ At(r, "idle")
        BY <3>1 DEF Answer, At
      <4>2. QED
        BY <3>1, <4>1, BusySlot DEF Answer, TypeOK
    <3>2. CASE Reject(r) \/ Lose(r)
      BY <3>2 DEF Reject, Lose, TypeOK
    <3>3. QED
      BY <1>6, <3>1, <3>2
  <2>3. faults' \in 0 .. MaxFaults
    BY <1>6, BoundsAreNumbers DEF Reject, Answer, Lose, TypeOK
  <2>4. QED
    BY <1>6, <2>1, <2>2, <2>3, OtherSteps DEF TypeOK
<1>7. ASSUME NEW u \in Users, UpdateUser(u)
      PROVE  TypeOK'
  BY <1>7 DEF UpdateUser, TypeOK
<1>8. QED
  BY <1>1, <1>2, <1>3, <1>4, <1>5, <1>6, <1>7 DEF Next, ClientStep, HandlerStep

LEMMA InitType == Init => TypeOK
BY BoundsAreNumbers DEF Init, TypeOK

(* The variables keep their types: a batch never stores a row with a key   *)
(* or a column of another kind, whatever is deleted or lost meanwhile.     *)
THEOREM TypeCorrect == Spec => []TypeOK
<1>1. TypeOK /\ UNCHANGED vars => TypeOK'
  BY DEF TypeOK, vars
<1>2. QED
  BY <1>1, InitType, TypeStep, PTL DEF Spec

-----------------------------------------------------------------------------
(* Foreign keys *)

LEMMA DanglesStep ==
    ASSUME TypeOK, NothingDangles, Next
    PROVE  NothingDangles'
<1>1. ASSUME NEW u \in Users, DropUser(u)
      PROVE  NothingDangles'
  <2>1. SUFFICES ASSUME NEW k \in DOMAIN rows
                 PROVE  /\ rows'[k].user \in users' \cup {Null}
                        /\ rows'[k].node \in nodes' \cup {Null}
    BY <1>1 DEF NothingDangles, Anchored, DropUser
  <2>2. rows[k] \in Rows /\ Anchored(rows[k])
    BY <2>1 DEF TypeOK, NothingDangles
  <2>3. QED
    BY <1>1, <2>1, <2>2 DEF DropUser, Anchored, Rows
<1>2. ASSUME NEW nd \in Nodes, DropNode(nd)
      PROVE  NothingDangles'
  <2>1. SUFFICES ASSUME NEW k \in DOMAIN rows
                 PROVE  /\ rows'[k].user \in users' \cup {Null}
                        /\ rows'[k].node \in nodes' \cup {Null}
    BY <1>2 DEF NothingDangles, Anchored, DropNode
  <2>2. rows[k] \in Rows /\ Anchored(rows[k])
    BY <2>1 DEF TypeOK, NothingDangles
  <2>3. QED
    BY <1>2, <2>1, <2>2 DEF DropNode, Anchored, Rows
<1>3. ASSUME NEW b \in Batches, NEW r \in Requests, Send(b, r)
      PROVE  NothingDangles'
  BY <1>3 DEF Send, NothingDangles, Anchored
<1>4. ASSUME NEW r \in Requests, IngestEvents(r)
      PROVE  NothingDangles'
  <2> DEFINE b == request[r].batch
             n == request[r].sending
  <2>1. b \in Batches /\ n \in Sendings
    BY <1>4, BusySlot DEF IngestEvents, At
  <2>2. Storable(b) /\ Insert(KeysOf(b, n)) /\ UNCHANGED <<users, nodes>>
    BY <1>4 DEF IngestEvents
  <2> HIDE DEF b, n
  <2>3. \A k \in KeysOf(b, n) : Anchored(Origin[k[3]])
    BY <2>1, <2>2, KeyFields DEF Storable
  <2>4. \A k \in DOMAIN rows' : Anchored(rows'[k])
    BY <2>1, <2>2, <2>3, InsertType DEF NothingDangles
  <2>5. QED
    BY <2>2, <2>4 DEF NothingDangles, Anchored
<1>5. ASSUME NEW r \in Requests, GetCurrentUser(r) \/ Reject(r) \/ Answer(r) \/ Lose(r)
      PROVE  NothingDangles'
  BY <1>5, OtherSteps DEF NothingDangles, Anchored
<1>6. ASSUME NEW u \in Users, UpdateUser(u)
      PROVE  NothingDangles'
  BY <1>6 DEF UpdateUser, NothingDangles, Anchored
<1>7. QED
  BY <1>1, <1>2, <1>3, <1>4, <1>5, <1>6 DEF Next, ClientStep, HandlerStep

(* Traffic is attributed to existing users and nodes or to nobody, for any *)
(* overlap of batches and deletions.                                       *)
THEOREM Integrity == Spec => []NothingDangles
<1>1. Init => NothingDangles
  BY DEF Init, NothingDangles
<1>2. NothingDangles /\ UNCHANGED vars => NothingDangles'
  BY DEF NothingDangles, Anchored, vars
<1>3. QED
  BY <1>1, <1>2, DanglesStep, TypeCorrect, PTL DEF Spec

-----------------------------------------------------------------------------
(* Whole batches *)

LEMMA WholeStep ==
    ASSUME TypeOK, BatchesAreWhole, Next
    PROVE  BatchesAreWhole'
<1>1. ASSUME DOMAIN rows' = DOMAIN rows
      PROVE  BatchesAreWhole'
  BY <1>1 DEF BatchesAreWhole, Counted, KeysOf
<1>2. ASSUME NEW r \in Requests, IngestEvents(r)
      PROVE  BatchesAreWhole'
  <2> DEFINE b == request[r].batch
             n == request[r].sending
  <2>1. b \in Batches /\ n \in Sendings
    BY <1>2, BusySlot DEF IngestEvents, At
  <2>2. DOMAIN rows' = DOMAIN rows \cup KeysOf(b, n)
    BY <1>2, <2>1, InsertType DEF IngestEvents
  <2> HIDE DEF b, n
  <2>3. SUFFICES ASSUME NEW c \in Batches, NEW m \in Sendings
                 PROVE  \/ KeysOf(c, m) \subseteq DOMAIN rows'
                        \/ KeysOf(c, m) \cap DOMAIN rows' = {}
    BY DEF BatchesAreWhole, Counted, KeysOf
  <2>4. KeysOf(c, m) \subseteq DOMAIN rows \/ KeysOf(c, m) \cap DOMAIN rows = {}
    BY DEF BatchesAreWhole, Counted
  <2>5. CASE <<b, n>> = <<c, m>>
    BY <2>2, <2>5
  <2>6. CASE <<b, n>> # <<c, m>>
    BY <2>1, <2>2, <2>4, <2>6, KeysDisjoint
  <2>7. QED
    BY <2>5, <2>6
<1>3. QED
  BY <1>1, <1>2, DirectoryKeepsKeys, OtherSteps DEF Next, ClientStep, Send, HandlerStep

(* A sending is counted as a whole or not at all. *)
THEOREM Wholeness == Spec => []BatchesAreWhole
<1>1. Init => BatchesAreWhole
  BY DEF Init, BatchesAreWhole
<1>2. BatchesAreWhole /\ UNCHANGED vars => BatchesAreWhole'
  BY DEF BatchesAreWhole, Counted, KeysOf, vars
<1>3. QED
  BY <1>1, <1>2, WholeStep, TypeCorrect, PTL DEF Spec

-----------------------------------------------------------------------------
(* Sums *)

LEMMA SummaryStep ==
    ASSUME TypeOK, [Next]_vars, NEW u \in users' \cup {Null}, NEW k \in SummaryOf(u)
    PROVE  k \in SummaryOf(u)'
<1>1. k \in DOMAIN rows /\ rows[k].user = u /\ rows[k] \in Rows
  BY DEF SummaryOf, TypeOK
<1>2. SUFFICES k \in DOMAIN rows' /\ rows'[k].user = u
  BY DEF SummaryOf
<1>3. ASSUME NEW w \in Users, DropUser(w)
      PROVE  k \in DOMAIN rows' /\ rows'[k].user = u
  <2>1. u # w
    BY <1>3, NullIsNoKey DEF DropUser
  <2>2. QED
    BY <1>1, <1>3, <2>1 DEF DropUser
<1>4. ASSUME NEW nd \in Nodes, DropNode(nd)
      PROVE  k \in DOMAIN rows' /\ rows'[k].user = u
  BY <1>1, <1>4 DEF DropNode, Rows
<1>5. ASSUME NEW r \in Requests, IngestEvents(r)
      PROVE  k \in DOMAIN rows' /\ rows'[k].user = u
  <2>1. request[r].batch \in Batches /\ request[r].sending \in Sendings
    BY <1>5, BusySlot DEF IngestEvents, At
  <2>2. QED
    BY <1>1, <1>5, <2>1, InsertType DEF IngestEvents
<1>6. ASSUME UNCHANGED rows
      PROVE  k \in DOMAIN rows' /\ rows'[k].user = u
  BY <1>1, <1>6
<1>7. QED
  BY <1>3, <1>4, <1>5, <1>6, OtherSteps
     DEF Next, ClientStep, Send, HandlerStep, UpdateUser, vars

(* No deletion and no ingestion takes traffic from a user who stays, or    *)
(* from the sum of those who are gone.                                     *)
THEOREM SumsGrow == Spec => SummaryKeepsCounting
<1>1. TypeOK /\ [Next]_vars
        => [\A u \in users' \cup {Null} : SummaryOf(u) \subseteq SummaryOf(u)']_vars
  BY SummaryStep
<1>2. QED
  BY <1>1, TypeCorrect, PTL DEF Spec, SummaryKeepsCounting

-----------------------------------------------------------------------------
(* Batches that are lost *)

(* Users and nodes only go, so what the database does not take now it will *)
(* not take later.                                                         *)
LEMMA RefusedStays ==
    ASSUME [Next]_vars, NEW b \in Batches, Storable(b)'
    PROVE  Storable(b)
<1>1. users' \subseteq users /\ nodes' \subseteq nodes
  <2>1. ASSUME NEW x, DropUser(x) \/ UpdateUser(x) \/ DropNode(x)
        PROVE  users' \subseteq users /\ nodes' \subseteq nodes
    BY <2>1 DEF DropUser, UpdateUser, DropNode
  <2>2. ASSUME NEW c \in Batches, NEW r \in Requests, Send(c, r)
        PROVE  UNCHANGED <<users, nodes>>
    BY <2>2 DEF Send
  <2>3. ASSUME NEW r \in Requests, IngestEvents(r)
        PROVE  UNCHANGED <<users, nodes>>
    BY <2>3 DEF IngestEvents
  <2>4. CASE UNCHANGED vars
    BY <2>4 DEF vars
  <2>5. QED
    BY <2>1, <2>2, <2>3, <2>4, OtherSteps DEF Next, ClientStep, HandlerStep
<1>2. QED
  BY <1>1 DEF Storable, Anchored

(* A slot holds a stored batch because it did before or has just stored    *)
(* it, and only a batch the database takes is stored.                      *)
LEMMA StoredBefore ==
    ASSUME TypeOK, Next, NEW r \in Requests, At(r, "stored")'
    PROVE  \/ At(r, "stored") /\ request'[r].batch = request[r].batch
           \/ Storable(request'[r].batch)
<1>1. CASE request'[r] = request[r]
  BY <1>1 DEF At
<1>2. ASSUME NEW x, DropUser(x) \/ UpdateUser(x) \/ DropNode(x)
      PROVE  request'[r] = request[r]
  BY <1>2, DirectoryKeepsKeys
<1>3. ASSUME NEW b \in Batches, NEW q \in Requests, Send(b, q)
      PROVE  request'[r] = request[r]
  BY <1>3 DEF Send, At, TypeOK
<1>4. ASSUME NEW q \in Requests, Finish(q)
      PROVE  request'[r] = request[r]
  BY <1>4, FinishType DEF At, Idle
<1>5. ASSUME NEW q \in Requests, At(q, "sent"), Reach(q, "admitted")
      PROVE  request'[r] = request[r]
  BY <1>5, ReachType DEF At
<1>6. ASSUME NEW q \in Requests, IngestEvents(q)
      PROVE  request'[r] = request[r] \/ Storable(request'[r].batch)
  <2>1. ~ At(q, "idle") /\ Reach(q, "stored") /\ Storable(request[q].batch)
    BY <1>6 DEF IngestEvents, At
  <2>2. QED
    BY <2>1, ReachType
<1>7. QED
  BY <1>1, <1>2, <1>3, <1>4, <1>5, <1>6
     DEF Next, ClientStep, HandlerStep, GetCurrentUser, Reject, Answer, Lose

(* A 202 is for a batch some slot has stored. *)
LEMMA AckedBefore ==
    ASSUME Next, NEW b \in acked', b \notin acked
    PROVE  \E r \in Requests : Answer(r) /\ request[r].batch = b
<1>1. ASSUME NEW x, DropUser(x) \/ UpdateUser(x) \/ DropNode(x)
      PROVE  FALSE
  BY <1>1 DEF DropUser, UpdateUser, DropNode
<1>2. ASSUME NEW c \in Batches, NEW r \in Requests, Send(c, r)
      PROVE  FALSE
  BY <1>2 DEF Send
<1>3. ASSUME NEW r \in Requests, GetCurrentUser(r) \/ IngestEvents(r) \/ Reject(r) \/ Lose(r)
      PROVE  FALSE
  BY <1>3 DEF GetCurrentUser, IngestEvents, Reject, Lose
<1>4. ASSUME NEW r \in Requests, Answer(r)
      PROVE  request[r].batch = b
  BY <1>4 DEF Answer
<1>5. QED
  BY <1>1, <1>2, <1>3, <1>4 DEF Next, ClientStep, HandlerStep

LEMMA DoomStep ==
    ASSUME TypeOK, [Next]_vars, NEW b \in Batches, Doomed(b)
    PROVE  Doomed(b)'
<1>1. ~ Storable(b)'
  BY RefusedStays DEF Doomed
<1>2. CASE Next
  <2>1. b \notin acked'
    BY <1>2, AckedBefore DEF Doomed, Answer
  <2>2. ASSUME NEW r \in Requests, At(r, "stored")'
        PROVE  request'[r].batch # b
    BY <1>2, <2>2, StoredBefore DEF Doomed
  <2>3. QED
    BY <1>1, <2>1, <2>2 DEF Doomed, At
<1>3. CASE UNCHANGED vars
  BY <1>1, <1>3 DEF Doomed, At, vars
<1>4. QED
  BY <1>2, <1>3

(* A batch that cannot be taken and has not been stored is never           *)
(* acknowledged, for any number of repetitions, slots and deletions.       *)
THEOREM DoomPermanent == Spec => DoomIsPermanent
<1>1. TypeOK /\ [Next]_vars => [\A b \in Batches : Doomed(b) => Doomed(b)']_vars
  BY DoomStep
<1>2. QED
  BY <1>1, TypeCorrect, PTL DEF Spec, DoomIsPermanent

-----------------------------------------------------------------------------
(* At least once *)

LEMMA ConsistentStep ==
    ASSUME TypeOK, RequestsConsistent, Next
    PROVE  RequestsConsistent'
<1>1. ASSUME NEW q \in Requests, request'[q] = request[q], DOMAIN rows \subseteq DOMAIN rows',
             \A b \in Batches : sends[b] <= sends'[b], sends' \in [Batches -> 0 .. MaxSends],
             (request[q] # Idle)'
      PROVE  /\ (request[q].sending <= sends[request[q].batch])'
             /\ (At(q, "stored") => Counted(request[q].batch, request[q].sending))'
  <2>1. request[q] \in Serving
    BY <1>1 DEF TypeOK
  <2>2. request[q].batch \in Batches /\ request[q].sending \in Sendings
    BY <2>1, ServingIsBusy
  <2>3. /\ request[q].sending <= sends[request[q].batch]
        /\ At(q, "stored") => Counted(request[q].batch, request[q].sending)
    BY <1>1, <2>1 DEF RequestsConsistent
  <2>4. request[q].sending <= sends'[request[q].batch]
    BY <1>1, <2>2, <2>3, BoundsAreNumbers DEF TypeOK, Sendings
  <2>5. QED
    BY <1>1, <2>3, <2>4 DEF At, Counted, KeysOf
<1>2. ASSUME NEW x, DropUser(x) \/ UpdateUser(x) \/ DropNode(x)
      PROVE  RequestsConsistent'
  BY <1>1, <1>2, DirectoryKeepsKeys DEF RequestsConsistent, TypeOK
<1>3. ASSUME NEW b \in Batches, NEW r \in Requests, Send(b, r)
      PROVE  RequestsConsistent'
  <2>1. /\ sends' \in [Batches -> 0 .. MaxSends]
        /\ \A c \in Batches : sends[c] <= sends'[c]
        /\ sends'[b] = sends[b] + 1
        /\ DOMAIN rows' = DOMAIN rows
    BY <1>3, BoundsAreNumbers DEF Send, TypeOK
  <2>2. \A q \in Requests \ {r} : request'[q] = request[q]
    BY <1>3 DEF Send, TypeOK
  <2>3. request'[r] = [stage |-> "sent", batch |-> b, sending |-> sends[b] + 1]
    BY <1>3 DEF Send, TypeOK
  <2>4. /\ (request[r].sending <= sends[request[r].batch])'
        /\ ~ At(r, "stored")'
    BY <2>1, <2>3 DEF At, TypeOK
  <2>5. QED
    BY <1>1, <2>1, <2>2, <2>4 DEF RequestsConsistent
<1>4. ASSUME NEW r \in Requests, IngestEvents(r)
      PROVE  RequestsConsistent'
  <2>1. ~ At(r, "idle")
    BY <1>4 DEF IngestEvents, At
  <2>2. /\ request'[r].batch = request[r].batch
        /\ request'[r].sending = request[r].sending
        /\ \A q \in Requests \ {r} : request'[q] = request[q]
    BY <1>4, <2>1, ReachType DEF IngestEvents
  <2>3. DOMAIN rows' = DOMAIN rows \cup KeysOf(request[r].batch, request[r].sending)
    BY <1>4, <2>1, BusySlot, InsertType DEF IngestEvents
  <2>4. request[r].sending <= sends[request[r].batch]
    BY <2>1, BusySlot DEF RequestsConsistent
  <2>5. sends' = sends /\ \A c \in Batches : sends[c] <= sends'[c]
    BY <1>4, BoundsAreNumbers DEF IngestEvents, TypeOK
  <2>6. /\ (request[r].sending <= sends[request[r].batch])'
        /\ Counted(request[r].batch, request[r].sending)'
    BY <2>2, <2>3, <2>4, <2>5 DEF Counted, KeysOf
  <2>7. QED
    BY <1>1, <2>2, <2>3, <2>5, <2>6 DEF RequestsConsistent, TypeOK
<1>5. ASSUME NEW r \in Requests, GetCurrentUser(r) \/ Reject(r) \/ Answer(r) \/ Lose(r)
      PROVE  RequestsConsistent'
  <2>1. UNCHANGED <<rows, sends>> /\ \A c \in Batches : sends[c] <= sends'[c]
    BY <1>5, OtherSteps, BoundsAreNumbers DEF TypeOK
  <2>2. CASE Finish(r)
    BY <1>1, <2>1, <2>2, FinishType DEF RequestsConsistent, TypeOK
  <2>3. CASE GetCurrentUser(r) /\ Reach(r, "admitted")
    <3>1. ~ At(r, "idle")
      BY <2>3 DEF GetCurrentUser, At
    <3>2. /\ request'[r].batch = request[r].batch
          /\ request'[r].sending = request[r].sending
          /\ ~ At(r, "stored")'
          /\ \A q \in Requests \ {r} : request'[q] = request[q]
      BY <2>3, <3>1, ReachType DEF At
    <3>3. (request[r].sending <= sends[request[r].batch])'
      BY <2>1, <3>1, <3>2, BusySlot DEF RequestsConsistent
    <3>4. QED
      BY <1>1, <2>1, <3>2, <3>3 DEF RequestsConsistent, TypeOK
  <2>4. QED
    BY <1>5, <2>2, <2>3 DEF GetCurrentUser, Reject, Answer, Lose
<1>6. QED
  BY <1>2, <1>3, <1>4, <1>5 DEF Next, ClientStep, HandlerStep

LEMMA Consistent == Spec => []RequestsConsistent
<1>1. Init => RequestsConsistent
  BY DEF Init, RequestsConsistent
<1>2. RequestsConsistent /\ UNCHANGED vars => RequestsConsistent'
  BY DEF RequestsConsistent, At, Counted, KeysOf, vars
<1>3. QED
  BY <1>1, <1>2, ConsistentStep, TypeCorrect, PTL DEF Spec

(* What the refinement mapping sees *)
SentSoFar == {d \in Batches \X Sendings : d[2] <= sends[d[1]]}

CountedSoFar == {d \in Batches \X Sendings : Counted(d[1], d[2])}

LEMMA MapUnchanged ==
    ASSUME DOMAIN rows' = DOMAIN rows, UNCHANGED <<sends, acked>>
    PROVE  UNCHANGED Ledger!vars
BY DEF Ledger!vars, Counted, KeysOf

LEMMA SendMaps ==
    ASSUME TypeOK, NEW b \in Batches, NEW r \in Requests, Send(b, r)
    PROVE  Ledger!Next
<1> DEFINE d == <<b, sends[b] + 1>>
<1>1. sends[b] \in Nat /\ d \in Batches \X Sendings
  BY BoundsAreNumbers DEF Send, TypeOK, Sendings
<1>2. d \notin SentSoFar
  BY <1>1 DEF SentSoFar
<1>3. SentSoFar' = SentSoFar \cup {d}
  <2>1. sends' = [sends EXCEPT ![b] = sends[b] + 1]
    BY DEF Send
  <2>2. ASSUME NEW c \in Batches, NEW n \in Sendings
        PROVE  n <= sends'[c] <=> (n <= sends[c] \/ <<c, n>> = d)
    BY <1>1, <2>1, BoundsAreNumbers DEF TypeOK, Sendings
  <2>3. QED
    BY <1>1, <2>2 DEF SentSoFar
<1>4. UNCHANGED <<CountedSoFar, acked>>
  BY DEF Send, CountedSoFar, Counted, KeysOf
<1>5. QED
  BY <1>1, <1>2, <1>3, <1>4 DEF Ledger!Next, Ledger!Send, SentSoFar, CountedSoFar

LEMMA IngestMaps ==
    ASSUME TypeOK, RequestsConsistent, NEW r \in Requests, IngestEvents(r)
    PROVE  Ledger!Next \/ UNCHANGED Ledger!vars
<1> DEFINE b == request[r].batch
           n == request[r].sending
           d == <<b, n>>
<1>1. request[r] # Idle /\ b \in Batches /\ n \in Sendings
  BY BusySlot DEF IngestEvents, At
<1>2. n <= sends[b]
  BY <1>1 DEF RequestsConsistent
<1>3. DOMAIN rows' = DOMAIN rows \cup KeysOf(b, n) /\ UNCHANGED <<sends, acked>>
  BY <1>1, InsertType DEF IngestEvents
<1> HIDE DEF b, n
<1>4. d \in SentSoFar
  BY <1>1, <1>2 DEF SentSoFar
<1>5. CountedSoFar' = CountedSoFar \cup {d}
  <2>1. ASSUME NEW c \in Batches, NEW m \in Sendings
        PROVE  KeysOf(c, m) \subseteq DOMAIN rows'
                 <=> KeysOf(c, m) \subseteq DOMAIN rows \/ <<c, m>> = d
    <3>1. CASE <<c, m>> = d
      BY <1>3, <3>1
    <3>2. CASE <<c, m>> # d
      BY <1>1, <1>3, <3>2, KeysDisjoint
    <3>3. QED
      BY <3>1, <3>2
  <2>2. QED
    BY <1>1, <2>1 DEF CountedSoFar, Counted, KeysOf
<1>6. UNCHANGED SentSoFar
  BY <1>3 DEF SentSoFar
<1>7. CASE d \in CountedSoFar
  BY <1>3, <1>5, <1>6, <1>7 DEF Ledger!vars, SentSoFar, CountedSoFar
<1>8. CASE d \notin CountedSoFar
  <2>1. Ledger!Count(d)
    BY <1>3, <1>4, <1>5, <1>6, <1>8 DEF Ledger!Count, SentSoFar, CountedSoFar
  <2>2. QED
    BY <1>1, <2>1 DEF Ledger!Next
<1>9. QED
  BY <1>7, <1>8

LEMMA AnswerMaps ==
    ASSUME TypeOK, RequestsConsistent, NEW r \in Requests, Answer(r)
    PROVE  Ledger!Next
<1> DEFINE d == <<request[r].batch, request[r].sending>>
<1>1. At(r, "stored") /\ request[r] # Idle /\ d \in Batches \X Sendings
  BY BusySlot DEF Answer, At
<1>2. d \in CountedSoFar
  BY <1>1 DEF RequestsConsistent, CountedSoFar
<1>3. UNCHANGED <<SentSoFar, CountedSoFar>>
  BY DEF Answer, tables, SentSoFar, CountedSoFar, Counted, KeysOf
<1>4. Ledger!Ack(d)
  BY <1>2, <1>3 DEF Answer, Ledger!Ack, SentSoFar, CountedSoFar
<1>5. QED
  BY <1>1, <1>4 DEF Ledger!Next

(* However sendings overlap, requests and answers are lost and users and   *)
(* nodes go, the endpoint with its client implements AtLeastOnce: a 202    *)
(* means that the batch is in the sums and stays there.                    *)
THEOREM Refinement == Spec => IngestsAtLeastOnce
<1>1. Init => Ledger!Init
  <2>1. ASSUME Init
        PROVE  SentSoFar = {} /\ CountedSoFar = {}
    <3>1. \A d \in Batches \X Sendings : ~ (d[2] <= sends[d[1]])
      BY <2>1, BoundsAreNumbers DEF Init, Sendings
    <3>2. DOMAIN rows = {}
      BY <2>1 DEF Init
    <3>3. \A d \in Batches \X Sendings : ~ Counted(d[1], d[2])
      BY <3>2, KeysNonempty DEF Counted
    <3>4. QED
      BY <3>1, <3>3 DEF SentSoFar, CountedSoFar
  <2>2. QED
    BY <2>1 DEF Init, Ledger!Init, SentSoFar, CountedSoFar
<1>2. TypeOK /\ RequestsConsistent /\ [Next]_vars => [Ledger!Next]_(Ledger!vars)
  <2>1. ASSUME NEW x, DropUser(x) \/ UpdateUser(x) \/ DropNode(x)
        PROVE  UNCHANGED Ledger!vars
    BY <2>1, DirectoryKeepsKeys, MapUnchanged
  <2>2. ASSUME NEW r \in Requests, GetCurrentUser(r) \/ Reject(r) \/ Lose(r)
        PROVE  UNCHANGED Ledger!vars
    BY <2>2, OtherSteps, MapUnchanged DEF GetCurrentUser, Reject, Lose
  <2>3. ASSUME UNCHANGED vars
        PROVE  UNCHANGED Ledger!vars
    BY <2>3, MapUnchanged DEF vars
  <2>4. QED
    BY <2>1, <2>2, <2>3, SendMaps, IngestMaps, AnswerMaps DEF Next, ClientStep, HandlerStep
<1>3. QED
  BY <1>1, <1>2, TypeCorrect, Consistent, PTL DEF Spec, IngestsAtLeastOnce, Ledger!Spec

(* A batch with a 202 has been counted, as part of a sending that was made *)
(* and for as long as the table is there: what AtLeastOnce promises,       *)
(* carried over by the refinement.                                         *)
THEOREM AckedCounted == Spec => []Ledger!AckedIsCounted
<1>1. Ledger!Init => Ledger!AckedIsCounted
  BY DEF Ledger!Init, Ledger!AckedIsCounted
<1>2. Ledger!AckedIsCounted /\ [Ledger!Next]_(Ledger!vars) => Ledger!AckedIsCounted'
  <2>1. ASSUME Ledger!AckedIsCounted, NEW d \in Batches \X Sendings, Ledger!Send(d)
        PROVE  Ledger!AckedIsCounted'
    BY <2>1 DEF Ledger!Send, Ledger!AckedIsCounted
  <2>2. ASSUME Ledger!AckedIsCounted, NEW d \in Batches \X Sendings, Ledger!Count(d)
        PROVE  Ledger!AckedIsCounted'
    BY <2>2 DEF Ledger!Count, Ledger!AckedIsCounted
  <2>3. ASSUME Ledger!AckedIsCounted, NEW d \in Batches \X Sendings, Ledger!Ack(d)
        PROVE  Ledger!AckedIsCounted'
    BY <2>3 DEF Ledger!Ack, Ledger!AckedIsCounted
  <2>4. ASSUME Ledger!AckedIsCounted, UNCHANGED Ledger!vars
        PROVE  Ledger!AckedIsCounted'
    BY <2>4 DEF Ledger!vars, Ledger!AckedIsCounted
  <2>5. QED
    BY <2>1, <2>2, <2>3, <2>4 DEF Ledger!Next
<1>3. QED
  BY <1>1, <1>2, Refinement, PTL DEF IngestsAtLeastOnce, Ledger!Spec

-----------------------------------------------------------------------------
(* How often a batch can fail *)

(* The slots that are serving a batch *)
Serves(b) == {r \in Requests : request[r] # Idle /\ request[r].batch = b}

(* The sender of a batch is never switched off while it has a row. *)
StaysOn(b) == Sender[b] \in users => Sender[b] \in active

(* Of a batch that can be stored and is not acknowledged, every sending is *)
(* either being served or one of the lost.                                 *)
Accounted(b) ==
    Storable(b) /\ b \notin acked => sends[b] <= Cardinality(Serves(b)) + faults

LEMMA ServesReach ==
    ASSUME TypeOK, NEW b \in Batches, NEW r \in Requests, ~ At(r, "idle"),
           NEW stage \in {"sent", "admitted", "stored"}, Reach(r, stage)
    PROVE  Serves(b)' = Serves(b)
<1>1. request[r] # Idle /\ request'[r] # Idle
  BY BusySlot, ReachType, ServingIsBusy DEF Idle
<1>2. QED
  BY <1>1, ReachType DEF Serves

LEMMA ServesFinish ==
    ASSUME TypeOK, NEW b \in Batches, NEW r \in Requests, Finish(r)
    PROVE  Serves(b)' = Serves(b) \ {r}
BY FinishType DEF Serves

LEMMA AccountedStep ==
    ASSUME TypeOK, IsFiniteSet(Requests), Next,
           NEW b \in Batches, StaysOn(b), Accounted(b)
    PROVE  Accounted(b)'
<1>1. SUFFICES ASSUME Storable(b)', b \notin acked'
               PROVE  sends'[b] <= Cardinality(Serves(b)') + faults'
  BY DEF Accounted
<1>2. IsFiniteSet(Serves(b)) /\ Cardinality(Serves(b)) \in Nat
  BY FS_Subset, FS_CardinalityType DEF Serves
<1>3. acked \subseteq acked'
  <2>1. ASSUME NEW x, DropUser(x) \/ UpdateUser(x) \/ DropNode(x)
        PROVE  UNCHANGED acked
    BY <2>1 DEF DropUser, UpdateUser, DropNode
  <2>2. QED
    BY <2>1 DEF Next, ClientStep, HandlerStep, Send, GetCurrentUser, IngestEvents,
       Reject, Answer, Lose
<1>4. Storable(b) /\ b \notin acked /\ sends[b] <= Cardinality(Serves(b)) + faults
  BY <1>1, <1>3, RefusedStays DEF Accounted
<1>5. sends[b] \in Nat /\ faults \in Nat
  BY BoundsAreNumbers DEF TypeOK
<1>6. ASSUME Serves(b)' = Serves(b), UNCHANGED <<sends, faults>>
      PROVE  sends'[b] <= Cardinality(Serves(b)') + faults'
  BY <1>4, <1>6
<1>7. ASSUME NEW x, DropUser(x) \/ UpdateUser(x) \/ DropNode(x)
      PROVE  sends'[b] <= Cardinality(Serves(b)') + faults'
  BY <1>6, <1>7, DirectoryKeepsKeys DEF Serves
<1>8. ASSUME NEW c \in Batches, NEW r \in Requests, Send(c, r)
      PROVE  sends'[b] <= Cardinality(Serves(b)') + faults'
  <2>1. /\ request[r] = Idle
        /\ request'[r].batch = c /\ request'[r] # Idle
        /\ \A q \in Requests \ {r} : request'[q] = request[q]
        /\ faults' = faults
    BY <1>8 DEF Send, TypeOK, Idle
  <2>2. CASE c = b
    <3>1. Serves(b)' = Serves(b) \cup {r} /\ r \notin Serves(b)
      BY <2>1, <2>2 DEF Serves
    <3>2. Cardinality(Serves(b)') = Cardinality(Serves(b)) + 1
      BY <1>2, <3>1, FS_AddElement
    <3>3. sends'[b] = sends[b] + 1
      BY <1>8, <2>2 DEF Send, TypeOK
    <3>4. QED
      BY <1>2, <1>4, <1>5, <2>1, <3>2, <3>3
  <2>3. CASE c # b
    <3>1. Serves(b)' = Serves(b) /\ sends'[b] = sends[b]
      BY <1>8, <2>1, <2>3 DEF Serves, Send, TypeOK
    <3>2. QED
      BY <1>4, <2>1, <3>1
  <2>4. QED
    BY <2>2, <2>3
<1>9. ASSUME NEW r \in Requests, GetCurrentUser(r)
      PROVE  sends'[b] <= Cardinality(Serves(b)') + faults'
  <2>1. ~ At(r, "idle") /\ UNCHANGED <<sends, faults>>
    BY <1>9 DEF GetCurrentUser, At
  <2>2. CASE Reach(r, "admitted")
    BY <1>6, <2>1, <2>2, ServesReach
  <2>3. CASE Finish(r) /\ Sender[request[r].batch] \notin active
    <3>1. request[r].batch # b
      BY <1>4, <2>3 DEF StaysOn, Storable
    <3>2. Serves(b)' = Serves(b)
      BY <2>3, <3>1, ServesFinish DEF Serves
    <3>3. QED
      BY <1>6, <2>1, <3>2
  <2>4. QED
    BY <1>9, <2>2, <2>3 DEF GetCurrentUser
<1>10. ASSUME NEW r \in Requests, IngestEvents(r)
       PROVE  sends'[b] <= Cardinality(Serves(b)') + faults'
  <2>1. ~ At(r, "idle") /\ Reach(r, "stored") /\ UNCHANGED <<sends, faults>>
    BY <1>10 DEF IngestEvents, At
  <2>2. QED
    BY <1>6, <2>1, ServesReach
<1>11. ASSUME NEW r \in Requests, Reject(r) \/ Answer(r)
       PROVE  sends'[b] <= Cardinality(Serves(b)') + faults'
  <2>1. Finish(r) /\ request[r].batch # b /\ UNCHANGED <<sends, faults>>
    BY <1>1, <1>4, <1>11 DEF Reject, Answer
  <2>2. Serves(b)' = Serves(b)
    BY <2>1, ServesFinish DEF Serves
  <2>3. QED
    BY <1>6, <2>1, <2>2
<1>12. ASSUME NEW r \in Requests, Lose(r)
       PROVE  sends'[b] <= Cardinality(Serves(b)') + faults'
  <2>1. Finish(r) /\ sends' = sends /\ faults' = faults + 1
    BY <1>12 DEF Lose
  <2>2. Cardinality(Serves(b)') \in {Cardinality(Serves(b)), Cardinality(Serves(b)) - 1}
    BY <1>2, <2>1, ServesFinish, FS_RemoveElement
  <2>3. QED
    BY <1>2, <1>4, <1>5, <2>1, <2>2
<1>13. QED
  BY <1>7, <1>8, <1>9, <1>10, <1>11, <1>12 DEF Next, ClientStep, HandlerStep

(* The safety half of EveryBatchSettles: while its sender stays active, a  *)
(* batch that the database can take is refused by nobody.  Once it has     *)
(* been sent more often than requests were lost, and no slot serves it any *)
(* more, it is acknowledged.                                               *)
THEOREM Exhaustion ==
    ASSUME NEW b \in Batches, IsFiniteSet(Requests)
    PROVE  Spec /\ []StaysOn(b)
             => [](sends[b] > faults /\ Serves(b) = {} => b \in acked \/ ~ Storable(b))
<1>1. Init => Accounted(b)
  <2>1. Init => sends[b] = 0 /\ faults = 0 /\ Serves(b) = {}
    BY DEF Init, Serves
  <2>2. QED
    BY <2>1, FS_EmptySet DEF Accounted
<1>2. TypeOK /\ StaysOn(b) /\ Accounted(b) /\ [Next]_vars => Accounted(b)'
  <2>1. UNCHANGED vars /\ Accounted(b) => Accounted(b)'
    BY DEF vars, Accounted, Storable, Anchored, Serves
  <2>2. QED
    BY <2>1, AccountedStep
<1>3. TypeOK /\ Accounted(b)
        => (sends[b] > faults /\ Serves(b) = {} => b \in acked \/ ~ Storable(b))
  BY FS_EmptySet, BoundsAreNumbers DEF Accounted, TypeOK
<1>4. QED
  BY <1>1, <1>2, <1>3, TypeCorrect, PTL DEF Spec
=============================================================================
