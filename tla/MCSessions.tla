----------------------------- MODULE MCSessions -----------------------------
(* How a client talks to its peers, for TLC: sessions and their handshakes   *)
(* (Session), the stamps of handshakes (Stamps) and the connection to the    *)
(* relay under them (RelayLink).  At this grain the three share no state, so *)
(* a behaviour is one of one of them, which part names; the others stay as   *)
(* they started.                                                             *)
EXTENDS RelayLink, Stamps, TLC

CONSTANTS na, nb, Node, MaxMsgs, MaxIndex, MaxSessions, MaxFaults

VARIABLES part, st, asked, got, faults, cause, lost

S == INSTANCE Session
D == INSTANCE Delivery WITH Peer <- S!Peer

sv == <<st, asked, got, faults, cause, lost>>

PartInit ==
  /\ part \in {"stamps", "session", "link"}
  /\ StampInit /\ S!Init /\ Init
  /\ part # "stamps" => off = Zero /\ roff = 0

PartNext ==
  \/ part = "stamps"  /\ StampNext /\ UNCHANGED <<part, sv, vars>>
  \/ part = "session" /\ S!Next    /\ UNCHANGED <<part, stampVars, vars>>
  \/ part = "link"    /\ Next      /\ UNCHANGED <<part, stampVars, sv>>

PartSpec == PartInit /\ [][PartNext]_<<part, stampVars, sv, vars>>

-----------------------------------------------------------------------------
(* Properties. *)

\* adopt, onInit, sweep: a data frame finds no session only after something that
\* may lose one.
LossHasCause == S!LossHasCause

\* failPending, endSession: no send is left with nothing to finish it.
NoSendStranded == S!NoSendStranded

\* onInit, onResp: of two members at rest, after no adverse event and no crossing of
\* handshakes, each holds the session that the other would use next.
CurrentIsShared == S!CurrentIsShared

\* onData, runFragment: Session implements Delivery, messages given to the
\* application whole, in order and at most once.
AtMostOnceInOrder == D!DSpec

MCMaxMsgs == na :> 2 @@ nb :> 1
=============================================================================
