---------------------------- MODULE MCConnWriter ----------------------------
(* Small instances of ConnWriter for TLC. *)
EXTENDS ConnWriter

\* kickLocked, drain, finishedLocked, waitFor: one writer, nothing left without
\* one, the count of what is queued exact, waiters with a wake-up coming, and the
\* lanes in order.
WriterKept == OneWriter /\ NothingStranded /\ QueuedExact /\ WaitersAreServed /\ InOrder

\* beginCloseLocked, closeWith: a flushing close writes all that was queued, and a
\* close's deadline closes the socket though the peer never reads.
ClosesInTime == FlushWrites /\ DeadlineCloses
=============================================================================
