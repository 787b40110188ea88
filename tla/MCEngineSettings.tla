-------------------------- MODULE MCEngineSettings --------------------------
(* EngineSettings with the two engines of models.py. *)
EXTENDS EngineSettings, TLC

CONSTANTS r1, r2, u1, u2, xray, wireguard

Symmetry == Permutations(Requests) \cup Permutations(Users)
=============================================================================
