---------------------------- MODULE AtLeastOnce ----------------------------
(***************************************************************************)
(* What POST /traffic/events promises a client that repeats a batch until  *)
(* it is acknowledged: what is acknowledged has been counted, a sending    *)
(* that is counted stays counted, and no sending counts twice.  That two   *)
(* sendings of one batch are both counted is allowed.                      *)
(***************************************************************************)
CONSTANTS
    Batches,  \* what a client wants counted
    Sendings  \* numbers of the attempts to send a batch

VARIABLES
    sent,     \* attempts the client has made, as pairs of batch and number
    counted,  \* attempts whose traffic is in the sums
    acked     \* batches the client knows to be counted

vars == <<sent, counted, acked>>

Init ==
    /\ sent = {}
    /\ counted = {}
    /\ acked = {}

Send(d) ==
    /\ d \notin sent
    /\ sent' = sent \cup {d}
    /\ UNCHANGED <<counted, acked>>

Count(d) ==
    /\ d \in sent \ counted
    /\ counted' = counted \cup {d}
    /\ UNCHANGED <<sent, acked>>

Ack(d) ==
    /\ d \in counted
    /\ acked' = acked \cup {d[1]}
    /\ UNCHANGED <<sent, counted>>

Next == \E d \in Batches \X Sendings : Send(d) \/ Count(d) \/ Ack(d)

Spec == Init /\ [][Next]_vars
-----------------------------------------------------------------------------
(* Properties *)

(* What a client has a 202 for is counted, and only what it has sent is.   *)
AckedIsCounted ==
    /\ counted \subseteq sent
    /\ \A b \in acked : \E d \in counted : d[1] = b
=============================================================================
