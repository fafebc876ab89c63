--------------------------- MODULE MCIdleRosters ---------------------------
(* A small instance of IdleRosters for TLC, with the fairness of its trimming. *)
EXTENDS IdleRosters, TLC

CONSTANTS c1, c2, c3, w1, w2

\* c1 and c2 come from one address, c3 from another.
MCIp == (c1 :> w1) @@ (c2 :> w1) @@ (c3 :> w2)
============================================================================
