---------------------------- MODULE MCRegistry ----------------------------
(* Small instances of Registry for TLC. *)
EXTENDS Registry, TLC

CONSTANTS a, b

\* Version 1 lists a and b with a the primary, version 2 revokes b, and version 3 has b back
\* as the primary.
MCRosters ==
    { [version |-> 1, members |-> {a, b}, primary |-> a],
      [version |-> 2, members |-> {a}, primary |-> a],
      [version |-> 3, members |-> {a, b}, primary |-> b] }

\* Two rosters of one version, made by two seed holders that both claimed the primary role.
MCClaims ==
    { [version |-> 1, members |-> {a, b}, primary |-> a],
      [version |-> 2, members |-> {a, b}, primary |-> a],
      [version |-> 2, members |-> {a, b}, primary |-> b] }

Sym == Permutations(Conn) \cup Permutations(Obj)
===========================================================================
