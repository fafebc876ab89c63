------------------------------ MODULE SlowPeer ------------------------------
(***************************************************************************)
(* The slow-peer rule of one relay connection                              *)
(* (relay/internal/relay/conn.go: enqueue's end, releaseLocked,            *)
(* checkSlow): a recipient that drains nothing for SlowPeer while its      *)
(* queue is full is closed.  The queue is a count of frames; what writes   *)
(* it is module ConnWriter.  Time is a clock of MaxTime ticks.             *)
(*                                                                         *)
(* enqueue judges the queue after its inline write, for which kickLocked   *)
(* gives the lock up, so frames, drains and a close may come in between.   *)
(* A timer's callback runs some time after the timer went off, and a timer *)
(* stopped too late still runs its callback.                               *)
(***************************************************************************)
EXTENDS Integers, FiniteSets

CONSTANTS
    QueueBytes,   \* LINK_QUEUE_BYTES, in frames
    SlowAfter,    \* LINK_SLOW_PEER_SEC, in ticks
    MaxQueue,     \* bound: frames queued
    MaxJudging,   \* bound: enqueue calls at their inline write at once
    MaxTime,      \* bound: ticks
    Never

VARIABLES
    now,
    queued,
    judging,     \* enqueue calls between their inline write and their look at the queue
    fullSince,
    lastDrain,
    slowTimer,   \* slowTimer # nil
    due,         \* when it goes off; Never once it did or was stopped
    calls,       \* callbacks (checkSlow) started and not run yet
    sentenced,   \* checkSlow decided, and is about to close
    closing,     \* "no", "slow" or "other"
    overSince,   \* history: when the queue last became full
    late         \* history: a tick passed with a timer, a callback or a handler due

conn == <<queued, judging, fullSince, lastDrain>>
vars == <<now, conn, slowTimer, due, calls, sentenced, closing, overSince, late>>

Init ==
    /\ now = 0 /\ queued = 0 /\ judging = 0 /\ fullSince = 0 /\ lastDrain = 0
    /\ slowTimer = FALSE /\ due = Never /\ calls = 0 /\ sentenced = FALSE
    /\ closing = "no" /\ overSince = Never /\ late = FALSE

\* overLocked
Over(k) == k > QueueBytes

Later(s, t) == IF s > t THEN s ELSE t

Note(k) == overSince' = IF Over(k) THEN (IF Over(queued) THEN overSince ELSE now) ELSE Never

\* enqueue, up to its inline write.
Enqueue ==
    /\ closing = "no"
    /\ queued < MaxQueue /\ judging < MaxJudging
    /\ queued' = queued + 1
    /\ judging' = judging + 1
    /\ Note(queued + 1)
    /\ UNCHANGED <<now, fullSince, lastDrain, slowTimer, due, calls, sentenced, closing, late>>

\* enqueue's end.
Judge ==
    /\ judging > 0
    /\ judging' = judging - 1
    /\ IF ~slowTimer /\ Over(queued)
       THEN fullSince' = now /\ slowTimer' = TRUE /\ due' = now + SlowAfter
       ELSE UNCHANGED <<fullSince, slowTimer, due>>
    /\ UNCHANGED <<now, queued, lastDrain, calls, sentenced, closing, overSince, late>>

\* Variant: a frame written stops the timer, full or not.
DrainStops ==
    /\ queued > 0
    /\ queued' = queued - 1
    /\ lastDrain' = now
    /\ slowTimer' = FALSE /\ due' = Never
    /\ Note(queued - 1)
    /\ UNCHANGED <<now, judging, fullSince, calls, sentenced, closing, late>>

\* finishedLocked and releaseLocked: a frame is written.
Drain ==
    /\ queued > 0
    /\ queued' = queued - 1
    /\ lastDrain' = now
    /\ IF closing # "no" \/ ~Over(queued - 1)
       THEN slowTimer' = FALSE /\ due' = Never
       ELSE UNCHANGED <<slowTimer, due>>
    /\ Note(queued - 1)
    /\ UNCHANGED <<now, judging, fullSince, calls, sentenced, closing, late>>

\* The timer goes off: its callback is a goroutine that has yet to take the lock.
Fire ==
    /\ due # Never /\ due <= now
    /\ due' = Never
    /\ calls' = calls + 1
    /\ UNCHANGED <<now, conn, slowTimer, sentenced, closing, overSince, late>>

\* Variant: the time of the last drain is not looked at.
CheckSlowFull ==
    /\ calls > 0
    /\ calls' = calls - 1
    /\ IF closing # "no" \/ ~slowTimer THEN UNCHANGED <<slowTimer, due, sentenced>>
       ELSE IF ~Over(queued) THEN slowTimer' = FALSE /\ UNCHANGED <<due, sentenced>>
       ELSE IF now - fullSince < SlowAfter THEN due' = fullSince + SlowAfter /\ UNCHANGED <<slowTimer, sentenced>>
       ELSE slowTimer' = FALSE /\ sentenced' = TRUE /\ UNCHANGED due
    /\ UNCHANGED <<now, conn, closing, overSince, late>>

\* Variant: a check that comes too early begins again from now.
CheckSlowAgain ==
    /\ calls > 0
    /\ calls' = calls - 1
    /\ LET since == Later(fullSince, lastDrain)
       IN  IF closing # "no" \/ ~slowTimer THEN UNCHANGED <<slowTimer, due, sentenced>>
           ELSE IF ~Over(queued) THEN slowTimer' = FALSE /\ UNCHANGED <<due, sentenced>>
           ELSE IF now - since < SlowAfter THEN due' = now + SlowAfter /\ UNCHANGED <<slowTimer, sentenced>>
           ELSE slowTimer' = FALSE /\ sentenced' = TRUE /\ UNCHANGED due
    /\ UNCHANGED <<now, conn, closing, overSince, late>>

\* checkSlow, up to its close.
CheckSlow ==
    /\ calls > 0
    /\ calls' = calls - 1
    /\ LET since == Later(fullSince, lastDrain)
       IN  IF closing # "no" \/ ~slowTimer THEN UNCHANGED <<slowTimer, due, sentenced>>
           ELSE IF ~Over(queued) THEN slowTimer' = FALSE /\ UNCHANGED <<due, sentenced>>
           ELSE IF now - since < SlowAfter THEN due' = since + SlowAfter /\ UNCHANGED <<slowTimer, sentenced>>
           ELSE slowTimer' = FALSE /\ sentenced' = TRUE /\ UNCHANGED due
    /\ UNCHANGED <<now, conn, closing, overSince, late>>

\* beginCloseLocked, without flush: checkSlow's close, or another's.
Close(why) ==
    /\ IF why = "slow" THEN sentenced ELSE ~sentenced
    /\ sentenced' = FALSE
    /\ IF closing = "no"
       THEN /\ closing' = why /\ queued' = 0 /\ overSince' = Never
            /\ slowTimer' = FALSE /\ due' = Never
       ELSE /\ why = "slow"
            /\ UNCHANGED <<closing, queued, overSince, slowTimer, due>>
    /\ UNCHANGED <<now, judging, fullSince, lastDrain, calls, late>>

\* Time passes; timers go off, and callbacks and handlers run, as late as may be.
Tick ==
    /\ now < MaxTime
    /\ now' = now + 1
    /\ late' = (late \/ judging > 0 \/ calls > 0 \/ sentenced \/ (due # Never /\ due = now))
    /\ UNCHANGED <<conn, slowTimer, due, calls, sentenced, closing, overSince>>

Next ==
    \/ Enqueue \/ Judge \/ Drain \/ Fire \/ CheckSlow \/ Tick
    \/ \E why \in {"slow", "other"} : Close(why)

Spec == Init /\ [][Next]_vars

-----------------------------------------------------------------------------
(* Properties. *)

\* The types of the variables.
TypeOK ==
    /\ now \in 0..MaxTime /\ queued \in 0..MaxQueue /\ judging \in 0..MaxJudging
    /\ fullSince \in 0..now /\ lastDrain \in 0..now
    /\ slowTimer \in BOOLEAN /\ due \in 0..(MaxTime + SlowAfter) \cup {Never}
    /\ calls \in Nat /\ sentenced \in BOOLEAN
    /\ closing \in {"no", "slow", "other"} /\ overSince \in 0..now \cup {Never} /\ late \in BOOLEAN

\* checkSlow sentences only a connection whose queue has been full, with nothing drained, for
\* all of SlowAfter, whichever timer's callback this is and whatever happened while enqueue's
\* inline write ran. (A frame drained between the sentence and the close does not save it.)
Justly ==
    sentenced' /\ ~sentenced =>
        /\ overSince # Never /\ now - overSince >= SlowAfter
        /\ now - lastDrain >= SlowAfter

JustSentence == [][Justly]_vars

\* A connection whose queue is full, and that nobody is about to judge, has a timer coming or
\* a callback on its way: no order of timers stopped, replaced and fired leaves it unwatched.
FullIsTimed ==
    TypeOK /\ (closing = "no" /\ Over(queued) /\ judging = 0 /\ ~sentenced => slowTimer /\ (due # Never \/ calls > 0))

\* While timers and what they start are on time, a full queue that drains nothing is not left open past SlowAfter.
SlowIsClosed ==
    ~late /\ closing = "no" /\ Over(queued) => now - Later(overSince, lastDrain) <= SlowAfter

=============================================================================
