---------------------------- MODULE MCConnection ----------------------------
(* What a relay connection goes through besides its writer, for TLC: parking *)
(* and waking (Park), a full queue (SlowPeer), keepalive (Keepalive) and its *)
(* network's shaping (Shaping).  The four share no state, so a behaviour is  *)
(* one of one of them, which part names; the others stay as they started.    *)
EXTENDS Shaping, FiniteSets

CONSTANTS Slot, MaxMsgs, QueueBytes, SlowAfter, MaxQueue, MaxJudging, MaxTicks, Never

ASSUME ParkAssumption == MaxMsgs \in Nat /\ IsFiniteSet(Slot)

ASSUME SlowPeerAssumption ==
    /\ QueueBytes \in Nat /\ SlowAfter \in Nat \ {0} /\ MaxQueue \in Nat
    /\ MaxJudging \in Nat /\ MaxTicks \in Nat /\ Never \notin Nat

VARIABLES part,
    reading, at, add, saw, armed, noPark, epoll, event, unread, arrived, eof, ending, inTable, finals,
    now, queued, judging, fullSince, lastDrain, slowTimer, due, calls, sentenced, slowClosing,
    overSince, late,
    bound, rpc, paused, awaiting, deadline, closing, closeSent, sock, inbox, owed, sent, peer, dropped

P == INSTANCE Park WITH sent <- arrived, closing <- ending
Q == INSTANCE SlowPeer WITH closing <- slowClosing, MaxTime <- MaxTicks
K == INSTANCE Keepalive

pv == <<reading, at, add, saw, armed, noPark, epoll, event, unread, arrived, eof, ending, inTable,
        finals>>
qv == <<now, queued, judging, fullSince, lastDrain, slowTimer, due, calls, sentenced, slowClosing,
        overSince, late>>
kv == <<bound, rpc, paused, awaiting, deadline, closing, closeSent, sock, inbox, owed, sent, peer,
        dropped>>
partVars == <<part, pv, qv, kv, vars>>

InPark(A)      == part = "park" /\ A /\ UNCHANGED <<part, qv, kv, vars>>
InSlowPeer(A)  == part = "slow" /\ A /\ UNCHANGED <<part, pv, kv, vars>>
InKeepalive(A) == part = "keepalive" /\ A /\ UNCHANGED <<part, pv, qv, vars>>
InShaping(A)   == part = "shaping" /\ A /\ UNCHANGED <<part, pv, qv, kv>>

PartInit ==
    /\ part \in {"park", "slow", "keepalive", "shaping"}
    /\ P!Init /\ Q!Init /\ K!Init /\ Init
    /\ part # "park" => at[CHOOSE r \in Slot : TRUE] = "loop"
    /\ part # "shaping" => lim = CHOOSE l \in Limits : TRUE

PartNext == InPark(P!Next) \/ InSlowPeer(Q!Next) \/ InKeepalive(K!Next) \/ InShaping(Next)

PartSpec == PartInit /\ [][PartNext]_partVars

\* The fairness of each module's FairSpec.
PartFairSpec ==
    /\ PartSpec
    /\ WF_partVars(InPark(P!PollTakes)) /\ WF_partVars(InPark(P!PollWakes))
    /\ \A r \in Slot : WF_partVars(InPark(P!Step(r)))
    /\ WF_partVars(InKeepalive(K!Reader)) /\ WF_partVars(InKeepalive(K!WritesClose))
    /\ WF_partVars(InKeepalive(K!Visit))
    /\ WF_partVars(InShaping(Loop))

-----------------------------------------------------------------------------
(* Properties. *)

\* park and wake: one reader owns the connection, a parked one is watched, and
\* the reader's note of the epoll set is true.
ReaderKept == P!OneReader /\ P!ParkedIsWatched /\ P!NoteIsTrue

\* run and finalize: what the peer sends is read unless the connection closes,
\* and a closing connection is finished.
ReadOrFinal == P!ReadOrFinal

\* checkSlow: a full queue is always timed, and closed when SlowAfter is over.
SlowIsClosed == Q!FullIsTimed /\ Q!SlowIsClosed

\* checkSlow sentences only a queue full and not drained for all of SlowAfter.
JustSentence == [][Q!Justly]_qv

\* pingLoop and unpause: a peer that answers in time is dropped only between
\* unpause's two stores.
AnswererKept == [][K!KeepsAnswerer]_kv

\* pingLoop and the deadlines: the connection of a peer gone quiet ends.
SilentPeerEnds == K!SilentPeerEnds

\* No quota; a quota with a trickle; a quota without one.
MCLimits ==
    { [rate |-> 9, quota |-> 0, trickle |-> 0],
      [rate |-> 9, quota |-> 2, trickle |-> 1],
      [rate |-> 0, quota |-> 1, trickle |-> 0] }
=============================================================================
