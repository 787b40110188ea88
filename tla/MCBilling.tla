----------------------------- MODULE MCBilling -----------------------------
(* Billing on small pools of keys. *)
EXTENDS Billing, TLC

CONSTANTS r1, r2, t1, t2, u1, u2, p1, p2, s1, s2, basic, pro

Symmetry ==
    Permutations(Requests) \cup Permutations(Tenants) \cup Permutations(Users)
        \cup Permutations(Plans) \cup Permutations(Names) \cup Permutations(Subs)
=============================================================================
