-------------------------------- MODULE Park --------------------------------
(***************************************************************************)
(* The goroutine that reads a relay connection gives itself up between     *)
(* messages: run parks the connection with the epoll poller, and a wake-up *)
(* (the poller's, or a close's) starts a new reader                        *)
(* (relay/internal/relay/read.go, poll_linux.go).                          *)
(*                                                                         *)
(* Everything a reader uses (buffers, armed, noPark) is without a lock:    *)
(* the atomic reading flag decides whose it is.  A reader is a slot; its   *)
(* steps between two accesses to shared state are one action.              *)
(***************************************************************************)
EXTENDS Integers, FiniteSets

CONSTANTS
    Slot,      \* reader goroutines that may exist at once
    MaxMsgs    \* bound: messages the peer sends

VARIABLES
    reading,   \* "running" or "parked"
    at,        \* where each reader is; "none" when the slot is free
    add,       \* local of park: the socket is not in the epoll set yet
    saw,       \* local of park: closing when it looked
    armed,     \* the reader's note that the socket is in the epoll set
    noPark,    \* the poller refused it
    epoll,     \* external: the socket in the epoll set: "out", "off" (disarmed), "armed"
    event,     \* the wait loop holds an event for this connection
    unread,    \* messages waiting in the socket
    sent,      \* messages the peer sent
    eof,       \* the peer closed its side
    closing,
    inTable,   \* lookup finds it
    finals     \* calls of finalize that ended

park == <<add, saw, armed, noPark>>
net  == <<unread, sent, eof>>
vars == <<reading, at, park, epoll, event, net, closing, inTable, finals>>

Init ==
    /\ reading = "running"
    /\ \E r \in Slot : at = [x \in Slot |-> IF x = r THEN "loop" ELSE "none"]
    /\ add = [r \in Slot |-> FALSE] /\ saw = [r \in Slot |-> FALSE]
    /\ armed = FALSE /\ noPark = FALSE
    /\ epoll = "out" /\ event = FALSE
    /\ unread = 0 /\ sent = 0 /\ eof = FALSE
    /\ closing = FALSE /\ inTable = TRUE /\ finals = 0

Readable == unread > 0 \/ eof

\* wake: whoever takes the flag from parked to running starts the new reader.
Wake(pc) ==
    IF reading = "parked"
    THEN /\ reading' = "running"
         /\ \E r \in Slot : pc[r] = "none" /\ at' = [pc EXCEPT ![r] = "loop"]
    ELSE at' = pc /\ UNCHANGED reading

-----------------------------------------------------------------------------
(* The peer, and the rest of the relay. *)

PeerSends ==
    /\ sent < MaxMsgs /\ ~eof
    /\ sent' = sent + 1 /\ unread' = unread + 1
    /\ UNCHANGED <<reading, at, park, epoll, event, eof, closing, inTable, finals>>

PeerCloses ==
    /\ ~eof
    /\ eof' = TRUE
    /\ UNCHANGED <<reading, at, park, epoll, event, unread, sent, closing, inTable, finals>>

\* beginCloseLocked, by anyone but the reader.
BeginClose ==
    /\ ~closing
    /\ closing' = TRUE
    /\ Wake(at)
    /\ UNCHANGED <<park, epoll, event, net, inTable, finals>>

-----------------------------------------------------------------------------
(* The poller. *)

\* epoll_wait: a readable socket that is armed, one shot.
PollTakes ==
    /\ epoll = "armed" /\ Readable /\ ~event
    /\ epoll' = "off" /\ event' = TRUE
    /\ UNCHANGED <<reading, at, park, net, closing, inTable, finals>>

\* The wait loop looks the connection up and wakes it.
PollWakes ==
    /\ event
    /\ event' = FALSE
    /\ IF inTable THEN Wake(at) ELSE UNCHANGED <<reading, at>>
    /\ UNCHANGED <<park, epoll, net, closing, inTable, finals>>

-----------------------------------------------------------------------------
(* The reader. *)

Goto(r, l) == at' = [at EXCEPT ![r] = l]

\* run: a message is read and handled. On a closing connection it ends the loop, unless it is
\* a control frame.
Reads(r) ==
    /\ at[r] = "loop"
    /\ unread > 0
    /\ unread' = unread - 1
    /\ \/ Goto(r, "loop")
       \/ closing /\ Goto(r, "final")
    /\ UNCHANGED <<reading, park, epoll, event, sent, eof, closing, inTable, finals>>

\* Variant: on a closing connection nothing but the peer's end is waited for.
StopsAtEnd(r) ==
    /\ at[r] = "loop"
    /\ unread = 0 /\ eof
    /\ Goto(r, "final")
    /\ UNCHANGED <<reading, park, epoll, event, net, closing, inTable, finals>>

\* run: the read ends the loop: the peer is gone, or on a closing connection the peer's close
\* frame, the read deadline or the ping loop's abort (module Keepalive) ends it.
Stops(r) ==
    /\ at[r] = "loop"
    /\ closing \/ (unread = 0 /\ eof)
    /\ Goto(r, "final")
    /\ UNCHANGED <<reading, park, epoll, event, net, closing, inTable, finals>>

\* Variant: what the probe found is not looked at.
ProbesBlind(r) ==
    /\ at[r] = "loop"
    /\ ~noPark /\ ~closing
    /\ Goto(r, "park")
    /\ UNCHANGED <<reading, park, epoll, event, net, closing, inTable, finals>>

\* run: between messages, nothing to read, parkable.
Probes(r) ==
    /\ at[r] = "loop"
    /\ ~Readable
    /\ ~noPark /\ ~closing
    /\ Goto(r, "park")
    /\ UNCHANGED <<reading, park, epoll, event, net, closing, inTable, finals>>

\* park: everything the reader owns is settled, then the flag.
ParkStores(r) ==
    /\ at[r] = "park"
    /\ add' = [add EXCEPT ![r] = ~armed]
    /\ armed' = TRUE
    /\ reading' = "parked"
    /\ Goto(r, "look")
    /\ UNCHANGED <<saw, noPark, epoll, event, net, closing, inTable, finals>>

\* Variant: closing is taken to be what the loop saw.
ParkLooksNot(r) ==
    /\ at[r] = "look"
    /\ saw' = [saw EXCEPT ![r] = FALSE]
    /\ Goto(r, "arm")
    /\ UNCHANGED <<reading, add, armed, noPark, epoll, event, net, closing, inTable, finals>>

\* park: looks once more whether it is closing, after the flag.
ParkLooks(r) ==
    /\ at[r] = "look"
    /\ saw' = [saw EXCEPT ![r] = closing]
    /\ Goto(r, IF closing THEN "back" ELSE "arm")
    /\ UNCHANGED <<reading, add, armed, noPark, epoll, event, net, closing, inTable, finals>>

\* arm: EPOLL_CTL_ADD the first time, MOD after; the kernel refuses an ADD of what is in the
\* set and a MOD of what is not, and may refuse for want of room or a closed descriptor.
ParkArms(r) ==
    /\ at[r] = "arm"
    /\ \/ /\ add[r] <=> epoll = "out"
          /\ epoll' = "armed"
          /\ Goto(r, "none")
       \/ /\ Goto(r, "back")
          /\ UNCHANGED epoll
    /\ UNCHANGED <<reading, park, event, net, closing, inTable, finals>>

\* Variant: reading is taken back without looking.
ParkBackPlain(r) ==
    /\ at[r] = "back"
    /\ reading' = "running"
    /\ armed' = (armed /\ ~add[r])
    /\ noPark' = (noPark \/ ~saw[r])
    /\ Goto(r, "loop")
    /\ UNCHANGED <<add, saw, epoll, event, net, closing, inTable, finals>>

\* Variant: the note that the socket is in the set stays.
ParkBackNoted(r) ==
    /\ at[r] = "back"
    /\ IF reading = "parked"
       THEN reading' = "running" /\ noPark' = (noPark \/ ~saw[r]) /\ Goto(r, "loop")
       ELSE Goto(r, "none") /\ UNCHANGED <<reading, noPark>>
    /\ UNCHANGED <<add, saw, armed, epoll, event, net, closing, inTable, finals>>

\* park: not parked after all, unless a wake-up got there first.
ParkBack(r) ==
    /\ at[r] = "back"
    /\ IF reading = "parked"
       THEN /\ reading' = "running"
            /\ armed' = (armed /\ ~add[r])
            /\ noPark' = (noPark \/ ~saw[r])
            /\ Goto(r, "loop")
       ELSE /\ Goto(r, "none")
            /\ UNCHANGED <<reading, armed, noPark>>
    /\ UNCHANGED <<add, saw, epoll, event, net, closing, inTable, finals>>

\* finalize: closed if nobody did, out of the tables.
Finalizes(r) ==
    /\ at[r] = "final"
    /\ closing' = TRUE
    /\ inTable' = FALSE
    /\ IF closing THEN Goto(r, "drain") /\ UNCHANGED reading ELSE Wake([at EXCEPT ![r] = "drain"])
    /\ UNCHANGED <<park, epoll, event, net, finals>>

\* finalize: input is drained until the peer's answer or the deadline.
Finished(r) ==
    /\ at[r] = "drain"
    /\ unread' = 0
    /\ finals' = finals + 1
    /\ Goto(r, "none")
    /\ UNCHANGED <<reading, park, epoll, event, sent, eof, closing, inTable>>

-----------------------------------------------------------------------------

Step(r) ==
    \/ Reads(r) \/ Stops(r) \/ Probes(r)
    \/ ParkStores(r) \/ ParkLooks(r) \/ ParkArms(r) \/ ParkBack(r)
    \/ Finalizes(r) \/ Finished(r)

Next ==
    \/ PeerSends \/ PeerCloses \/ BeginClose
    \/ PollTakes \/ PollWakes
    \/ \E r \in Slot : Step(r)

Spec == Init /\ [][Next]_vars

(* Goroutines and the wait loop run. *)
FairSpec == Spec /\ WF_vars(PollTakes) /\ WF_vars(PollWakes) /\ \A r \in Slot : WF_vars(Step(r))

-----------------------------------------------------------------------------
(* Properties. *)

\* The types of the variables.
TypeOK ==
    /\ reading \in {"running", "parked"}
    /\ at \in [Slot -> {"none", "loop", "park", "look", "arm", "back", "final", "drain"}]
    /\ add \in [Slot -> BOOLEAN] /\ saw \in [Slot -> BOOLEAN]
    /\ armed \in BOOLEAN /\ noPark \in BOOLEAN /\ event \in BOOLEAN
    /\ epoll \in {"out", "off", "armed"}
    /\ unread \in 0..MaxMsgs /\ sent \in 0..MaxMsgs /\ eof \in BOOLEAN
    /\ closing \in BOOLEAN /\ inTable \in BOOLEAN /\ finals \in Nat

Owner(r) == at[r] \in {"loop", "park", "final", "drain"}

\* At most one goroutine owns the connection's reading state, none while the flag says parked
\* and none once finalize ran to its end, which it does once (its conns.Done is not repeated),
\* however the parking reader, the poller and a close interleave (park, wake).
OneReader ==
    /\ TypeOK
    /\ \A r, s \in Slot : Owner(r) /\ Owner(s) => r = s
    /\ reading = "parked" \/ finals > 0 => \A r \in Slot : ~Owner(r)
    /\ finals <= 1

\* A parked connection with no reader on its way is watched: the poller will wake it, and it
\* is not closing. No wake-up was lost between the flag, the look and the arming.
ParkedIsWatched ==
    reading = "parked" /\ (\A r \in Slot : at[r] = "none") =>
        ~closing /\ (epoll = "armed" \/ event)

\* While a reader owns a connection that may park again, its note of the epoll set is the kernel's, so that a
\* later park adds or re-arms rightly.
NoteIsTrue ==
    ~closing => \A r \in Slot : at[r] \in {"loop", "park"} => (armed <=> epoll # "out")

\* What the peer sends is read and a closing connection, parked or not, is
\* finished: no arrival and no close is left waiting for a reader.
ReadOrFinal == unread > 0 \/ closing ~> (unread = 0 /\ ~closing) \/ finals = 1

=============================================================================
