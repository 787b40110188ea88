---------------------------- MODULE MCPlacement ----------------------------
(* Placement on small pools of keys. *)
EXTENDS Placement, TLC

CONSTANTS r1, r2, r3, u1, u2, n1, n2, a1, a2, a3, east, west

Symmetry ==
    Permutations(Requests) \cup Permutations(Users) \cup Permutations(Nodes)
        \cup Permutations(AssignmentIds) \cup Permutations(Names)
=============================================================================
