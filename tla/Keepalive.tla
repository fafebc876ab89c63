----------------------------- MODULE Keepalive ------------------------------
(***************************************************************************)
(* How the relay gets rid of a connection whose peer has gone quiet        *)
(* (relay/internal/relay): the ping loop (server.go), the pause that       *)
(* exempts a reader held back (conn.go: waitFor, sleepUntil, unpause), the *)
(* read deadlines (serve, admit, pair, finishedLocked, finalize) and the   *)
(* close.  One connection, its reader, the ping loop and its peer.         *)
(*                                                                         *)
(* paused and awaitingPong are separate atomics: unpause's two steps are   *)
(* two actions.  A visit of the ping loop comes one interval after the     *)
(* last, so by then a live peer has answered, its answer has arrived, and  *)
(* a reader that is not held back has read all there was (Timely).         *)
(***************************************************************************)
EXTENDS Integers, Sequences

CONSTANTS MaxMsgs   \* bound: messages the peer sends

VARIABLES
    bound,      \* registered or pairing: past the hello
    rpc,        \* the reader: "read", "handle", "paused", "clear", "final", "drain", "done"
    paused,
    awaiting,   \* awaitingPong
    deadline,   \* the socket's read deadline: "none", "hello", "grace"
    closing,    \* "no"; "code", with a close frame; "bare", without
    closeSent,
    sock,       \* "open", "closed"
    inbox,      \* what the socket holds unread: "msg", "pong"
    owed,       \* a ping the peer has not answered yet
    sent,       \* messages the peer sent
    peer,       \* "live", "silent" (it neither sends nor hangs up), "gone" (it hung up)
    dropped     \* history: a live peer was dropped by the ping loop, not by a close

reader == <<bound, rpc, paused, awaiting, deadline>>
conn   == <<closing, closeSent, sock>>
wire   == <<inbox, owed, sent, peer>>
vars   == <<reader, conn, wire, dropped>>

Init ==
    /\ bound = FALSE /\ rpc = "read" /\ paused = FALSE /\ awaiting = FALSE /\ deadline = "hello"
    /\ closing = "no" /\ closeSent = FALSE /\ sock = "open"
    /\ inbox = <<>> /\ owed = FALSE /\ sent = 0 /\ peer = "live"
    /\ dropped = FALSE

-----------------------------------------------------------------------------
(* The peer. *)

PeerSends ==
    /\ peer = "live" /\ sent < MaxMsgs
    /\ sent' = sent + 1
    /\ inbox' = Append(inbox, "msg")
    /\ UNCHANGED <<reader, conn, owed, peer, dropped>>

PeerPongs ==
    /\ peer = "live" /\ owed
    /\ owed' = FALSE
    /\ inbox' = Append(inbox, "pong")
    /\ UNCHANGED <<reader, conn, sent, peer, dropped>>

PeerStops ==
    /\ peer = "live"
    /\ peer' \in {"silent", "gone"}
    /\ UNCHANGED <<reader, conn, inbox, owed, sent, dropped>>

-----------------------------------------------------------------------------
(* The reader. *)

\* Variant: a pong is not noted.
ReadsLate ==
    /\ rpc = "read" /\ sock = "open" /\ inbox # <<>>
    /\ inbox' = Tail(inbox)
    /\ rpc' = IF Head(inbox) = "pong" THEN rpc ELSE IF closing = "no" THEN "handle" ELSE "final"
    /\ UNCHANGED <<bound, paused, awaiting, deadline, conn, owed, sent, peer, dropped>>

\* run: a frame is read. A pong is noted; a message is handled, or ends the loop of a closing
\* connection.
Reads ==
    /\ rpc = "read" /\ sock = "open" /\ inbox # <<>>
    /\ inbox' = Tail(inbox)
    /\ IF Head(inbox) = "pong"
       THEN awaiting' = FALSE /\ UNCHANGED rpc
       ELSE rpc' = (IF closing = "no" THEN "handle" ELSE "final") /\ UNCHANGED awaiting
    /\ UNCHANGED <<bound, paused, deadline, conn, owed, sent, peer, dropped>>

\* admit's or pair's end: the deadline of the hello is lifted, whatever happened meanwhile.
HandlesHello ==
    /\ rpc = "handle" /\ ~bound
    /\ bound' = TRUE
    /\ deadline' = "none"
    /\ rpc' = "read"
    /\ UNCHANGED <<paused, awaiting, conn, wire, dropped>>

\* A handler closes the connection with a code, and the loop ends.
Refuses ==
    /\ rpc = "handle"
    /\ closing' = IF closing = "no" THEN "code" ELSE closing
    /\ rpc' = "final"
    /\ UNCHANGED <<bound, paused, awaiting, deadline, closeSent, sock, wire, dropped>>

\* A message is handled; the reader goes on, or is held back (waitFor, sleepUntil).
Handles ==
    /\ rpc = "handle" /\ bound
    /\ \/ rpc' = "read" /\ UNCHANGED paused
       \/ rpc' = "paused" /\ paused' = TRUE
    /\ UNCHANGED <<bound, awaiting, deadline, conn, wire, dropped>>

\* unpause: paused.Swap(false) ...
Unpauses ==
    /\ rpc = "paused"
    /\ paused' = FALSE
    /\ rpc' = "clear"
    /\ UNCHANGED <<bound, awaiting, deadline, conn, wire, dropped>>

\* ... and then awaitingPong.Store(false).
Clears ==
    /\ rpc = "clear"
    /\ awaiting' = FALSE
    /\ rpc' = "read"
    /\ UNCHANGED <<bound, paused, deadline, conn, wire, dropped>>

\* run: the read fails: the socket is closed, the peer hung up, or the deadline passed, which
\* closes a connection still at its hello.
ReadFails ==
    /\ rpc = "read"
    /\ sock = "closed" \/ (inbox = <<>> /\ (peer = "gone" \/ deadline # "none"))
    /\ closing' = IF ~bound /\ closing = "no" /\ sock = "open" /\ peer # "gone" THEN "code" ELSE closing
    /\ rpc' = "final"
    /\ UNCHANGED <<bound, paused, awaiting, deadline, closeSent, sock, wire, dropped>>

\* finalize: closed if nobody did, out of the tables, and a deadline on what is still read.
Finalizes ==
    /\ rpc = "final"
    /\ closing' = IF closing = "no" THEN "bare" ELSE closing
    /\ deadline' = "grace"
    /\ rpc' = "drain"
    /\ UNCHANGED <<bound, paused, awaiting, closeSent, sock, wire, dropped>>

\* finalize's end. The socket is closed once the writer is done with it.
Finishes ==
    /\ rpc = "drain"
    /\ closing = "code" => closeSent \/ sock = "closed"
    /\ sock' = "closed"
    /\ rpc' = "done"
    /\ UNCHANGED <<bound, paused, awaiting, deadline, closing, closeSent, wire, dropped>>

-----------------------------------------------------------------------------
(* The rest of the relay. *)

\* closeWith a code, by another goroutine.
CloseWith ==
    /\ closing = "no"
    /\ closing' = "code"
    /\ UNCHANGED <<reader, closeSent, sock, wire, dropped>>

\* finishedLocked: the close frame is out, and the peer has CloseGrace to answer.
WritesClose ==
    /\ closing = "code" /\ ~closeSent /\ sock = "open"
    /\ closeSent' = TRUE
    /\ deadline' = "grace"
    /\ UNCHANGED <<bound, rpc, paused, awaiting, closing, sock, wire, dropped>>

Timely ==
    /\ ~(peer = "live" /\ owed)
    /\ rpc # "handle"
    /\ rpc = "read" => inbox = <<>>

\* Variant: whether it waits for a pong is not looked at.
VisitPings ==
    /\ rpc \notin {"drain", "done"}
    /\ Timely
    /\ ~paused
    /\ awaiting' = TRUE
    /\ owed' = (owed \/ closing = "no")
    /\ UNCHANGED <<bound, rpc, paused, deadline, conn, inbox, sent, peer, dropped>>

\* pingLoop, for one connection: skipped while paused, aborted when it has not answered,
\* pinged otherwise (which a closing connection is not).
Visit ==
    /\ rpc \notin {"drain", "done"}
    /\ Timely
    /\ ~paused
    /\ IF awaiting
       THEN /\ closing' = IF closing = "no" THEN "bare" ELSE closing
            /\ sock' = "closed"
            /\ dropped' = (dropped \/ (closing = "no" /\ peer = "live"))
            /\ UNCHANGED <<awaiting, owed>>
       ELSE /\ awaiting' = TRUE
            /\ owed' = (owed \/ closing = "no")
            /\ UNCHANGED <<closing, sock, dropped>>
    /\ UNCHANGED <<bound, rpc, paused, deadline, closeSent, inbox, sent, peer>>

-----------------------------------------------------------------------------

Reader ==
    \/ Reads \/ HandlesHello \/ Refuses \/ Handles \/ Unpauses \/ Clears
    \/ ReadFails \/ Finalizes \/ Finishes

Next ==
    \/ PeerSends \/ PeerPongs \/ PeerStops
    \/ Reader
    \/ CloseWith \/ WritesClose \/ Visit

Spec == Init /\ [][Next]_vars

(* Goroutines run; deadlines pass; what holds a reader back ends (a full queue drains or its   *)
(* connection is closed as slow, module SlowPeer; a shaping hold is a sleep); a close frame is  *)
(* written or fails (module ConnWriter: DeadlineCloses).                                       *)
FairSpec ==
    /\ Spec
    /\ WF_vars(Reader) /\ WF_vars(WritesClose) /\ WF_vars(Visit)

-----------------------------------------------------------------------------
(* Properties. *)

\* A peer that answers every ping in time is not dropped by the ping loop, held back or not,
\* unless the loop comes between the two stores of unpause.
KeepsAnswerer == dropped' /\ ~dropped => rpc = "clear"

AnswererKept == [][KeepsAnswerer]_vars

\* A connection whose peer goes quiet ends, wherever it was: at its hello, registered, held
\* back, closing, or closing while a registration lifted its deadline.
SilentPeerEnds == peer = "silent" ~> rpc = "done"

-----------------------------------------------------------------------------
(* Said of the code and not true of it (README, "Differences"). *)

\* A peer that answers every ping in time is not dropped, held back or not ("Pongs were not
\* read while paused; do not hold that against the peer", unpause).
NotHeldAgainstPeer == ~dropped

=============================================================================
