---------------------------- MODULE MCMembership ----------------------------
(* How a network's members come and go, for TLC: the primary's pairing codes *)
(* and the newcomers' attempts (PairingCodes), and how the rosters that      *)
(* follow reach the members (RosterSync).  RosterSync's Admit and Revoke     *)
(* stand for what PairingCodes does, so the two are run apart: a behaviour   *)
(* is one of one of them, which part names.                                  *)
EXTENDS PairingCodes, TLC

CONSTANTS n1, n2, p, a, Nodes, First, Seeds, MaxVersion

VARIABLES part, held, relay, link, claiming, ro, retry, hint, sock, inbox, mine, handed, lost, upsets

R == INSTANCE RosterSync WITH Node <- Nodes, faults <- upsets

rv == <<held, relay, link, claiming, ro, retry, hint, sock, inbox, mine, handed, lost, upsets>>

PartInit == part \in {"codes", "roster"} /\ Init /\ R!Init

PartNext ==
  \/ part = "codes"  /\ Next   /\ UNCHANGED <<part, rv>>
  \/ part = "roster" /\ R!Next /\ UNCHANGED <<part, vars>>

PartSpec == PartInit /\ [][PartNext]_<<part, vars, rv>>

-----------------------------------------------------------------------------
(* Properties. *)

\* endChannel, failAttempt: the slots of every code add up, and only a wrong code or a
\* malformed message costs one of its attempts.
CodesKept == SlotsExact /\ OnlyFailuresCost

\* sendRoster, pushed: the newest roster is handed over or still owed.
NewestIsOwed == R!NewestIsOwed

\* offerRoster, sendRoster: only a lost frame, or a primary that ended while it still
\* owed the roster, leaves a connected member behind.
NoneLeftBehind == R!NoneLeftBehind

MCNodeOf == 1 :> n1 @@ 2 :> n2 @@ 3 :> n1
MCNodes == {p, a}
=============================================================================
