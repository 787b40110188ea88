----------------------------- MODULE MCTraffic -----------------------------
(* Traffic with three batches: one of two users on one node, one without a *)
(* node that a user sends for itself, and one no column holds.             *)
EXTENDS Traffic, TLC

CONSTANTS collector, ann, n1, b1, b2, b3, e1, e2, e3, e4, r1, r2

MCBatch == b1 :> {e1, e2} @@ b2 :> {e3} @@ b3 :> {e1, e4}

MCOrigin ==
    e1 :> [user |-> ann, node |-> n1] @@ e2 :> [user |-> collector, node |-> n1]
        @@ e3 :> [user |-> ann, node |-> Null] @@ e4 :> [user |-> Null, node |-> n1]

MCSender == b1 :> collector @@ b2 :> ann @@ b3 :> collector
=============================================================================
