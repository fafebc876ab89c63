---------------------------- MODULE MCAdmission -----------------------------
(* Small instances of Admission for TLC. *)
EXTENDS Admission, TLC

CONSTANTS c1, c2, c3, c4, a1, a2

\* Three connections from one address and one from another, over two shards.
MCAddrOf == c1 :> a1 @@ c2 :> a1 @@ c3 :> a1 @@ c4 :> a2
MCShardOf == c1 :> 1 @@ c2 :> 2 @@ c3 :> 1 @@ c4 :> 2
=============================================================================
