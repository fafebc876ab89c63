----------------------------- MODULE ConnWriter -----------------------------
(***************************************************************************)
(* The write side of one relay connection (relay/internal/relay/conn.go):  *)
(* two lanes of queued frames, pings and pongs outside them, one writer at *)
(* a time (the goroutine that queued a frame, writing inline without       *)
(* blocking, or a writer goroutine it hands over to), the close, and the   *)
(* back-pressure on those who feed it.                                     *)
(*                                                                         *)
(* One action is one critical section under wmu.  A write to the socket is *)
(* made without the lock; it is one step with the settling that follows,   *)
(* since only the writer touches cur meanwhile.  A blocked write is a step *)
(* that is not taken.  All frames have size 1.                             *)
(*                                                                         *)
(* Feeders are other connections' readers forwarding to this one (routed   *)
(* frames, and pair frames in the relay's own lane), the relay's own       *)
(* messages to it (Relay), and the connection's own reader answering its   *)
(* requests (Self: text in the relay's own lane, unreachable in the other).*)
(***************************************************************************)
EXTENDS Integers, Sequences, FiniteSets

CONSTANTS
    Sender,      \* connections whose readers forward frames here
    Relay,       \* a handler that queues one of the relay's own messages
    Self,        \* the connection's own reader
    MaxFrames,   \* bound: the frames they queue
    MaxPings,    \* bound: the pings and pongs
    QueueBytes,  \* LINK_QUEUE_BYTES
    ReplySlack,  \* replySlack
    Raw,         \* rc != nil: the socket can be written without blocking
    None

ASSUME WriterAssumption ==
    /\ MaxFrames \in Nat /\ MaxPings \in Nat /\ QueueBytes \in Nat /\ ReplySlack \in Nat
    /\ Raw \in BOOLEAN
    /\ Relay \notin Sender /\ Self \notin Sender /\ Relay # Self

Feeder == Sender \cup {Relay, Self}

VARIABLES
    cur,         \* the frame being written
    part,        \* some of cur is out
    pq,          \* the relay's own lane
    q,           \* the lane of routed frames
    queued,      \* bytes of data frames queued or being written
    replies,     \* of which answers
    pingDue,
    pongDue,
    writing,
    drains,      \* the drain calls under way: who runs each, and where it is
    closing,     \* "no", or begun with "flush" or "drop"
    closeFrame,  \* a close frame is to be written
    closeSent,
    readerDone,
    sock,        \* "open", "closed"
    below,       \* those waiting on the below channel; the channel is nil when empty
    fpc,         \* where each feeder is
    sent,        \* how many frames were queued, which numbers them
    failed,      \* history: a write failed, or the connection was aborted
    pings,       \* how many pings and pongs were due
    out          \* history: the marks of the data and close frames written whole

lanes == <<cur, part, pq, q, queued, replies>>
due   == <<pingDue, pongDue>>
ends  == <<closing, closeFrame, closeSent, readerDone, sock>>
vars  == <<lanes, due, writing, drains, ends, below, fpc, sent, failed, pings, out>>

\* Feeder f's frame, the n-th queued, and whether it goes in the relay's own lane.
Frame(f, n, own) == [kind |-> IF f = Self THEN "reply" ELSE "data", n |-> n, own |-> own]
Ctl   == [kind |-> "ctl", n |-> 0, own |-> TRUE]
Close == [kind |-> "close", n |-> 0, own |-> TRUE]

IsData(f) == f \notin {Ctl, Close}

Frames == [kind : {"data", "reply"}, n : 1..MaxFrames, own : BOOLEAN]

\* What tells a written frame from the others of its lane; the close frame's is 0.
Mark(f) == [n |-> f.n, own |-> f.own]
Marks == [n : 0..MaxFrames, own : BOOLEAN]

\* How many of the frames of a lane answer the connection's own requests.
Answers(lane) == Cardinality({i \in 1..Len(lane) : lane[i].kind = "reply"})

ASSUME NoneAssumption == None \notin Frames \cup {Ctl, Close}

Init ==
    /\ cur = None /\ part = FALSE /\ pq = <<>> /\ q = <<>> /\ queued = 0 /\ replies = 0
    /\ pingDue = FALSE /\ pongDue = FALSE
    /\ writing = FALSE /\ drains = {}
    /\ closing = "no" /\ closeFrame = FALSE /\ closeSent = FALSE /\ readerDone = FALSE /\ sock = "open"
    /\ below = {}
    /\ fpc = [f \in Feeder |-> "idle"]
    /\ sent = 0 /\ failed = FALSE /\ pings = 0
    /\ out = <<>>

-----------------------------------------------------------------------------
(* Helpers. *)

\* overLocked, and the same for a connection's own answers (waitReplies).
Full(f) == IF f = Self THEN replies > ReplySlack ELSE queued > QueueBytes

\* A drain as kickLocked starts it: inline by the caller, or on a goroutine of its own.
Drain(who) == [who |-> IF Raw THEN who ELSE "go", at |-> "pick"]

\* Variant: nobody looks whether something is being written.
KickAlways(who) == writing' = TRUE /\ drains' = drains \cup {Drain(who)}

\* kickLocked
Kick(who) ==
    /\ writing' = TRUE
    /\ drains' = IF writing THEN drains ELSE drains \cup {Drain(who)}

\* Variant: nobody is told.
ReleaseNone(pc) == pc

\* releaseLocked, once below is emptied: whoever waits on the channel looks again.
Release(pc) == [f \in Feeder |-> IF f \in below THEN "check" ELSE pc[f]]

\* A feeder whose inline drain has ended goes on.
After(who, pc) == IF who \in Feeder THEN [pc EXCEPT ![who] = "check"] ELSE pc

\* finishedLocked's max(0, ...)
MinusOne(k) == IF k > 0 THEN k - 1 ELSE 0

\* Variant: the frame being written goes with the rest.
BeginCloseAll(flush) ==
    /\ closing' = IF flush THEN "flush" ELSE "drop"
    /\ pingDue' = FALSE /\ pongDue' = FALSE
    /\ pq' = IF flush THEN pq ELSE <<>>
    /\ q' = IF flush THEN q ELSE <<>>
    /\ queued' = IF flush THEN queued ELSE 0
    /\ replies' = IF flush THEN replies ELSE 0
    /\ cur' = IF flush THEN cur ELSE None
    /\ part' = (flush /\ part)
    /\ below' = {}

\* Variant: a flush lets go of the routed frames.
BeginCloseNoRouted(flush) ==
    /\ closing' = IF flush THEN "flush" ELSE "drop"
    /\ pingDue' = FALSE /\ pongDue' = FALSE
    /\ pq' = IF flush THEN pq ELSE <<>>
    /\ q' = <<>>
    /\ queued' = IF flush THEN queued - Len(q) ELSE 0
    /\ replies' = IF flush THEN replies - Answers(q) ELSE 0
    /\ UNCHANGED <<cur, part>>
    /\ below' = {}

\* beginCloseLocked on a connection that is not closing. (Its wake of a parked reader is
\* module Park's.)
BeginClose(flush) ==
    /\ closing' = IF flush THEN "flush" ELSE "drop"
    /\ pingDue' = FALSE /\ pongDue' = FALSE
    /\ pq' = IF flush THEN pq ELSE <<>>
    /\ q' = IF flush THEN q ELSE <<>>
    /\ queued' = IF flush THEN queued ELSE 0
    /\ replies' = IF flush THEN replies ELSE 0
    /\ UNCHANGED <<cur, part>>
    /\ below' = {}

-----------------------------------------------------------------------------
(* Queueing, and waiting for room. *)

\* enqueue: refused on a closing connection; the frame being written when nothing is; else
\* behind its lane. The relay's own messages all go in its own lane (sendJSON); another
\* connection's reader forwards with sendBinary or sendPair, and reply picks by opcode.
Enqueue(f, own) ==
    /\ f = Relay => own
    /\ fpc[f] = "idle"
    /\ sent < MaxFrames
    /\ closing = "no"
    /\ LET b == Frame(f, sent + 1, own)
       IN  /\ cur' = IF writing THEN cur ELSE b
           /\ pq' = IF writing /\ own THEN Append(pq, b) ELSE pq
           /\ q' = IF writing /\ ~own THEN Append(q, b) ELSE q
    /\ sent' = sent + 1
    /\ queued' = queued + 1
    /\ replies' = IF f = Self THEN replies + 1 ELSE replies
    /\ Kick(f)
    /\ fpc' = [fpc EXCEPT ![f] = IF writing \/ ~Raw THEN "check" ELSE "drain"]
    /\ UNCHANGED <<part, due, ends, below, failed, pings, out>>

\* waitFor: held back while the queue is full. The relay's own messages wait for nobody.
Wait(f) ==
    /\ fpc[f] = "check"
    /\ LET waits == f # Relay /\ closing = "no" /\ Full(f)
       IN  /\ fpc' = [fpc EXCEPT ![f] = IF waits THEN "wait" ELSE "idle"]
           /\ below' = IF waits THEN below \cup {f} ELSE below
    /\ UNCHANGED <<lanes, due, writing, drains, ends, sent, failed, pings, out>>

\* A sender that closes itself stops waiting.
SenderCloses(f) ==
    /\ f \in Sender
    /\ fpc[f] \in {"idle", "wait"}
    /\ fpc' = [fpc EXCEPT ![f] = "gone"]
    /\ below' = below \ {f}
    /\ UNCHANGED <<lanes, due, writing, drains, ends, sent, failed, pings, out>>

\* ping, from the ping loop, and answerPing, from the reader.
Ping ==
    /\ closing = "no"
    /\ ~\E d \in drains : d.who = "ping"
    /\ pings < MaxPings
    /\ pings' = pings + 1
    /\ pingDue' = TRUE
    /\ Kick("ping")
    /\ UNCHANGED <<lanes, pongDue, ends, below, fpc, sent, failed, out>>

AnswerPing ==
    /\ closing = "no"
    /\ fpc[Self] = "idle"
    /\ pings < MaxPings
    /\ pings' = pings + 1
    /\ pongDue' = TRUE
    /\ Kick(Self)
    /\ fpc' = [fpc EXCEPT ![Self] = IF writing \/ ~Raw THEN "idle" ELSE "drain"]
    /\ UNCHANGED <<lanes, pingDue, ends, below, sent, failed, out>>

-----------------------------------------------------------------------------
(* drain. *)

\* Variant: a closing connection is not asked for its close frame.
PickNoClose ==
    IF cur # None THEN "cur"
    ELSE IF pongDue THEN "pong"
    ELSE IF pingDue THEN "ping"
    ELSE IF pq # <<>> THEN "pq"
    ELSE IF q # <<>> THEN "q" ELSE "none"

\* Variant: the close frame goes ahead of routed frames.
PickCloseFirst ==
    IF cur = None /\ closeFrame /\ ~closeSent THEN "close" ELSE PickNoClose

\* nextLocked: what is written next.
Pick ==
    IF cur # None THEN "cur"
    ELSE IF pongDue THEN "pong"
    ELSE IF pingDue THEN "ping"
    ELSE IF pq # <<>> THEN "pq"
    ELSE IF q # <<>> THEN "q"
    ELSE IF closeFrame /\ ~closeSent THEN "close" ELSE "none"

\* The next frame becomes the one being written.
DrainPick(d) ==
    /\ d.at = "pick"
    /\ Pick # "none"
    /\ cur' = CASE Pick = "cur" -> cur
                [] Pick \in {"pong", "ping"} -> Ctl
                [] Pick = "pq" -> Head(pq)
                [] Pick = "q" -> Head(q)
                [] Pick = "close" -> Close
    /\ pongDue' = (pongDue /\ Pick # "pong")
    /\ pingDue' = (pingDue /\ Pick # "ping")
    /\ pq' = IF Pick = "pq" THEN Tail(pq) ELSE pq
    /\ q' = IF Pick = "q" THEN Tail(q) ELSE q
    /\ closeSent' = (closeSent \/ Pick = "close")
    /\ drains' = (drains \ {d}) \cup {[d EXCEPT !.at = "write"]}
    /\ UNCHANGED <<part, queued, replies, writing, closing, closeFrame, readerDone, sock, below, fpc, sent, failed, pings, out>>

\* Variant: the last writer leaves the socket to the reader.
DrainEndLeaves(d) ==
    /\ d.at = "pick"
    /\ Pick = "none"
    /\ writing' = FALSE
    /\ drains' = drains \ {d}
    /\ fpc' = After(d.who, fpc)
    /\ UNCHANGED <<lanes, due, ends, below, sent, failed, pings, out>>

\* Nothing is left: the writer stops, and closes the socket if the reader is done with it.
DrainEnd(d) ==
    /\ d.at = "pick"
    /\ Pick = "none"
    /\ writing' = FALSE
    /\ drains' = drains \ {d}
    /\ sock' = IF readerDone THEN "closed" ELSE sock
    /\ fpc' = After(d.who, fpc)
    /\ UNCHANGED <<lanes, due, closing, closeFrame, closeSent, readerDone, below, sent, failed, pings, out>>

\* Variant: every frame written counts.
FinishedAny == queued' = MinusOne(queued) /\ UNCHANGED replies

\* finishedLocked's count: pings, pongs and the close frame are not in it.
Finished ==
    /\ queued' = IF IsData(cur) THEN MinusOne(queued) ELSE queued
    /\ replies' = IF IsData(cur) /\ cur.kind = "reply" THEN MinusOne(replies) ELSE replies

\* The socket takes the rest of the frame.
DrainWhole(d) ==
    /\ d.at = "write"
    /\ sock = "open"
    /\ out' = IF cur = Ctl THEN out ELSE Append(out, Mark(cur))
    /\ Finished
    /\ fpc' = IF IsData(cur) THEN Release(fpc) ELSE fpc
    /\ below' = IF IsData(cur) THEN {} ELSE below
    /\ cur' = None /\ part' = FALSE
    /\ drains' = (drains \ {d}) \cup {[d EXCEPT !.at = "pick"]}
    /\ UNCHANGED <<pq, q, due, writing, ends, sent, failed, pings>>

\* Inline, the socket does not take it all: a writer goroutine takes over.
DrainPart(d, some) ==
    /\ d.at = "write"
    /\ d.who # "go"
    /\ sock = "open"
    /\ part' = (part \/ some)
    /\ drains' = (drains \ {d}) \cup {[who |-> "go", at |-> "pick"]}
    /\ fpc' = After(d.who, fpc)
    /\ UNCHANGED <<cur, pq, q, queued, replies, due, writing, ends, below, sent, failed, pings, out>>

\* The write fails: the peer reset the connection, the socket was closed, or the close's
\* write deadline passed.
DrainFail(d) ==
    /\ d.at = "write"
    /\ cur' = None /\ part' = FALSE
    /\ closing' = IF closing = "no" THEN "drop" ELSE closing
    /\ IF closing = "no"
       THEN /\ pingDue' = FALSE /\ pongDue' = FALSE /\ pq' = <<>> /\ q' = <<>> /\ queued' = 0 /\ replies' = 0
            /\ below' = {}
            /\ fpc' = After(d.who, Release(fpc))
       ELSE /\ fpc' = After(d.who, fpc)
            /\ UNCHANGED <<due, pq, q, queued, replies, below>>
    /\ closeSent' = TRUE
    /\ writing' = FALSE
    /\ drains' = drains \ {d}
    /\ sock' = "closed" /\ failed' = TRUE
    /\ UNCHANGED <<closeFrame, readerDone, sent, pings, out>>

-----------------------------------------------------------------------------
(* Closing. *)

\* closeWith a code, by anyone: a handler, a slow-peer timer, a drain, a shutdown.
CloseWith(flush) ==
    /\ closing = "no"
    /\ BeginClose(flush)
    /\ closeFrame' = TRUE
    /\ Kick("close")
    /\ fpc' = Release(fpc)
    /\ UNCHANGED <<closeSent, readerDone, sock, sent, failed, pings, out>>

\* abort: no close frame, and the socket goes.
Abort ==
    /\ sock = "open"
    /\ IF closing = "no"
       THEN BeginClose(FALSE) /\ fpc' = Release(fpc)
       ELSE UNCHANGED <<lanes, due, closing, below, fpc>>
    /\ sock' = "closed" /\ failed' = TRUE
    /\ UNCHANGED <<writing, drains, closeFrame, closeSent, readerDone, sent, pings, out>>

\* finalize: the reader stops, closes without a code if nobody closed before, and leaves.
ReaderStops ==
    /\ fpc[Self] = "idle"
    /\ IF closing = "no"
       THEN BeginClose(FALSE) /\ fpc' = [Release(fpc) EXCEPT ![Self] = "stopping"]
       ELSE fpc' = [fpc EXCEPT ![Self] = "stopping"] /\ UNCHANGED <<lanes, due, closing, below>>
    /\ UNCHANGED <<writing, drains, closeFrame, closeSent, readerDone, sock, sent, failed, pings, out>>

\* finalize's end: the peer answered, or CloseGrace ran out. The socket is the reader's to
\* close unless a writer has it.
ReaderDone ==
    /\ fpc[Self] = "stopping"
    /\ readerDone' = TRUE
    /\ sock' = IF writing THEN sock ELSE "closed"
    /\ fpc' = [fpc EXCEPT ![Self] = "gone"]
    /\ UNCHANGED <<lanes, due, writing, drains, closing, closeFrame, closeSent, below, sent, failed, pings, out>>

-----------------------------------------------------------------------------

Next ==
    \/ \E f \in Feeder, own \in BOOLEAN : Enqueue(f, own)
    \/ \E f \in Feeder : Wait(f) \/ SenderCloses(f)
    \/ Ping \/ AnswerPing
    \/ \E d \in drains : DrainPick(d) \/ DrainEnd(d) \/ DrainWhole(d) \/ DrainFail(d)
    \/ \E d \in drains, some \in BOOLEAN : DrainPart(d, some)
    \/ \E flush \in BOOLEAN : CloseWith(flush)
    \/ Abort \/ ReaderStops \/ ReaderDone

Spec == Init /\ [][Next]_vars

(* Goroutines run, a reader stops on a closing connection, and its wait for the peer's *)
(* answer has a deadline (CloseGrace).                                                 *)
RunFairness ==
    /\ WF_vars(\E d \in drains : DrainPick(d) \/ DrainEnd(d))
    /\ \A f \in Feeder : WF_vars(Wait(f))
    /\ WF_vars(closing # "no" /\ ReaderStops)
    /\ WF_vars(ReaderDone)

Write(d) == DrainWhole(d) \/ DrainFail(d) \/ \E some \in BOOLEAN : DrainPart(d, some)

(* The peer may never read again. A write ends when it does not block (inline), when it has *)
(* a deadline (closeWith sets one with the close frame) or when the socket is closed.       *)
FairSpec ==
    Spec /\ RunFairness /\
    WF_vars(\E d \in drains : (d.who # "go" \/ closeFrame \/ sock = "closed") /\ Write(d))

-----------------------------------------------------------------------------
(* Properties. *)

\* The types of the writer's variables.
TypeOK ==
    /\ cur \in Frames \cup {Ctl, Close, None}
    /\ pq \in Seq(Frames) /\ q \in Seq(Frames)
    /\ queued \in Nat /\ replies \in Nat
    /\ part \in BOOLEAN /\ pingDue \in BOOLEAN /\ pongDue \in BOOLEAN /\ writing \in BOOLEAN
    /\ drains \subseteq [who : Feeder \cup {"go", "ping", "close"}, at : {"pick", "write"}]
    /\ closing \in {"no", "flush", "drop"}
    /\ closeFrame \in BOOLEAN /\ closeSent \in BOOLEAN /\ readerDone \in BOOLEAN
    /\ sock \in {"open", "closed"}
    /\ below \subseteq Feeder /\ failed \in BOOLEAN
    /\ fpc \in [Feeder -> {"idle", "drain", "check", "wait", "stopping", "gone"}]
    /\ sent \in 0..MaxFrames /\ pings \in 0..MaxPings
    /\ out \in Seq(Marks)

\* There is one writer at a time, however senders, pings, closes and hand-overs to the
\* writer goroutine interleave, and the writing flag says whether there is (kickLocked,
\* drain).
OneWriter == TypeOK /\ Cardinality(drains) <= 1 /\ (writing <=> drains # {})

\* When nobody writes an open socket, nothing waits to be written: no frame, ping or close is
\* left behind by a writer that stops as another one queues (drain's last look under wmu).
NothingStranded ==
    ~writing /\ sock = "open" =>
        /\ cur = None /\ pq = <<>> /\ q = <<>>
        /\ ~pingDue /\ ~pongDue
        /\ closeFrame => closeSent

\* The count that back-pressure and the slow-peer rule decide by is the frames really queued
\* or being written, through inline writes, hand-overs, pings and a flushing close; a close
\* that drops the queue leaves it at zero. (After a failed write nobody reads it.)
QueuedExact ==
    /\ closing # "drop" /\ sock = "open" =>
           /\ queued = Len(pq) + Len(q) + (IF cur \in Frames THEN 1 ELSE 0)
           /\ replies = Answers(pq) + Answers(q) + (IF cur \in Frames /\ cur.kind = "reply" THEN 1 ELSE 0)
    /\ closing = "drop" => queued = 0 /\ replies = 0

\* A feeder that waits for room can still be woken: the connection is not closing, and
\* a writer is there to make room (waitFor's below channel, releaseLocked, beginCloseLocked).
WaitersAreServed ==
    \A f \in Feeder : fpc[f] = "wait" => f \in below /\ closing = "no" /\ writing

\* Each lane is written in the order it was queued, and nothing follows the close frame (the
\* frame an idle writer takes directly, the lanes, the hand-over; "the three keep their order
\* between them", sendPair).
InOrder ==
    \A i, j \in 1..Len(out) : i < j =>
        /\ out[i] # Mark(Close)
        /\ out[j] # Mark(Close) /\ out[i].own = out[j].own => out[i].n < out[j].n

\* A frame that is part out is finished before anything else is written, whatever closes the
\* connection meanwhile; only a socket that failed cuts it short ("never dropped, as part of
\* it is out", conn.cur).
NeverTorn ==
    [][part /\ cur # Ctl /\ cur' # cur => sock' = "closed" \/ out' = Append(out, Mark(cur))]_vars

\* A close that flushes writes the whole queue and then the close frame before the socket
\* goes, unless a write fails or the connection is aborted.
FlushWrites ==
    closing = "flush" ~> failed \/ (Len(out) = sent + 1 /\ out[Len(out)] = Mark(Close) /\ sock = "closed")

\* A connection closed with a code is rid of its socket even when its peer never reads again:
\* the write deadline bounds the frame being written, the flush and the close frame.
DeadlineCloses == closeFrame ~> sock = "closed"

=============================================================================
