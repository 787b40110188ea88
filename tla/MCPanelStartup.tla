--------------------------- MODULE MCPanelStartup ---------------------------
(* Three workers, and ids on both sides of the boundaries of allocate_ip. *)
EXTENDS PanelStartup, TLC

CONSTANTS w1, w2, w3, r1, r2, admin, ann, bob
=============================================================================
