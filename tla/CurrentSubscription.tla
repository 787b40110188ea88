------------------------ MODULE CurrentSubscription ------------------------
(***************************************************************************)
(* What subscriptions promise about the active ones: a user has at most    *)
(* one at a time, and it ends before another begins.  Several users' may   *)
(* end together, when a tenant goes.                                       *)
(***************************************************************************)

CONSTANTS Users, Subs

VARIABLE current  \* the pairs <<user, subscription>> of active subscriptions

Init == current = {}

Begin(u, s) ==
    /\ \A c \in current : c[1] # u /\ c[2] # s
    /\ current' = current \cup {<<u, s>>}

End(gone) ==
    /\ gone # {}
    /\ current' = current \ gone

Next ==
    \/ \E u \in Users, s \in Subs : Begin(u, s)
    \/ \E gone \in SUBSET current : End(gone)

Spec == Init /\ [][Next]_current
=============================================================================
