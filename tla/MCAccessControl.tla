-------------------------- MODULE MCAccessControl --------------------------
(* AccessControl on small pools of keys. *)
EXTENDS AccessControl, TLC

CONSTANTS r1, r2, u1, u2, u3, t1, t2, ro1, ro2, m1, m2, m3, admin, support

(* Keys and slots are interchangeable; the two role names are not. *)
Symmetry ==
    Permutations(Requests) \cup Permutations(UserIds) \cup Permutations(TenantIds)
        \cup Permutations(RoleIds) \cup Permutations(MembershipIds)
=============================================================================
