------------------------------ MODULE Delivery ------------------------------
(***************************************************************************)
(* What the client promises about messages between two members             *)
(* (src/client-go/member.go, Send: "Messages to one peer go in call order. *)
(* Delivery is at most once."): each side asks for messages 1, 2, ... and  *)
(* the other side is given some of them, whole, each at most once and in   *)
(* the order they were asked for.  Any may be lost.                        *)
(***************************************************************************)
EXTENDS Naturals, Sequences

CONSTANTS Node, Peer(_)
VARIABLES asked,  \* asked[n]: messages n has asked to send to its peer
          got     \* got[n]: the messages given to n's application, in order

Ask(n) == asked' = [asked EXCEPT ![n] = @ + 1] /\ UNCHANGED got

Newer(n, m) == got[n] = <<>> \/ got[n][Len(got[n])] < m

Give(n, m) ==
  /\ m \in 1..asked[Peer(n)] /\ Newer(n, m)
  /\ got' = [got EXCEPT ![n] = Append(@, m)] /\ UNCHANGED asked

DInit == asked = [n \in Node |-> 0] /\ got = [n \in Node |-> <<>>]
DNext == \E n \in Node : Ask(n) \/ \E m \in 1..asked[Peer(n)] : Give(n, m)
dvars == <<asked, got>>
DSpec == DInit /\ [][DNext]_dvars
=============================================================================
