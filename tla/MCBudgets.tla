----------------------------- MODULE MCBudgets ------------------------------
(* What the relay keeps accounts of for a network, for TLC: the memory of    *)
(* idle rosters (IdleRosters) and control frames ahead of shaping            *)
(* (ControlBudget).  The two share no state, so a behaviour is one of one of *)
(* them, which part names; the other stays as it started.                    *)
EXTENDS IdleRosters, ControlBudget, TLC

CONSTANTS m1, m2, c1, old1, c2, k1, k2, k3, w1, w2

VARIABLE part

PartInit ==
  /\ part \in {"budget", "idle"}
  /\ BudgetInit /\ Init
  /\ part = "idle" => inForce = 0

PartNext ==
  \/ part = "budget" /\ BudgetNext /\ UNCHANGED <<part, vars>>
  \/ part = "idle"   /\ Next       /\ UNCHANGED <<part, budgetVars>>

PartSpec == PartInit /\ [][PartNext]_<<part, vars, budgetVars>>

-----------------------------------------------------------------------------
\* m1 has a replaced connection.
MCMemberOf == [c \in Reader |-> IF c = c2 THEN m2 ELSE m1]

\* k1 and k2 come from one address, k3 from another.
MCIp == (k1 :> w1) @@ (k2 :> w1) @@ (k3 :> w2)

\* The replaced connection and its successor may change places, as may the two clients of one
\* address.
Sym == UNION {Permutations(s) : s \in {NetId, Obj, {k1, k2}, {c1, old1}}}
=============================================================================
