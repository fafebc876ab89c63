-------------------------- MODULE ConnectionProofs --------------------------
(***************************************************************************)
(* Theorems about one relay connection, for any number of goroutines,      *)
(* queue limit and times: its reading state has one owner and a parked one *)
(* is watched (Park), a full queue is timed and closed when its time is    *)
(* over and not before (SlowPeer), and a peer that answers stays           *)
(* (Keepalive).                                                            *)
(*                                                                         *)
(* Each part has an inductive invariant of its own, PInv, QInv and KInv: a *)
(* step of PartNext is one part's, and the other parts stutter             *)
(* (PartSteps). Shaping, the fourth part, has module AdmissionProofs.        *)
(***************************************************************************)
EXTENDS MCConnection, Sequences, TLAPS

-----------------------------------------------------------------------------
(* Park: the reader, the poller and a close. *)

\* Where a goroutine that gave the reading state up still is in park or arm.
Parks == {"look", "arm", "back"}

\* The types; nothing is unread that did not arrive.
PTypes == P!TypeOK /\ unread <= arrived

\* One owner, none while parked or after the end; finalize takes the connection out of the
\* table before it ends.
Owned ==
  /\ \A r, s \in Slot : P!Owner(r) /\ P!Owner(s) => r = s
  /\ reading = "parked" \/ finals > 0 => \A r \in Slot : ~P!Owner(r)
  /\ finals > 0 => reading = "running"
  /\ finals <= 1
  /\ ~inTable => reading = "running" /\ \A r \in Slot : at[r] \notin {"loop", "park", "final"}

\* A parked connection has someone on the way to arm it, or is armed, or has its event; when
\* it is closing, someone is on the way to look at it again.
Watched ==
  reading = "parked" =>
    /\ (\E r \in Slot : at[r] \in Parks) \/ epoll = "armed" \/ event
    /\ ending => \E r \in Slot : at[r] \in {"look", "back"}

\* The note armed is the kernel's set but while a parking reader adds the connection: that one
\* is alone, and no event can come before it is done.
Noted ==
  ~ending =>
    IF epoll = "out"
    THEN /\ ~event
         /\ \A r, s \in Slot : at[r] # "none" /\ at[s] # "none" => r = s
         /\ \A r \in Slot : /\ at[r] \in Parks => add[r] /\ armed /\ reading = "parked"
                            /\ P!Owner(r) => ~armed
    ELSE armed /\ \A r \in Slot : at[r] \in Parks => ~add[r]

\* The inductive invariant.
PInv == PTypes /\ Owned /\ Watched /\ Noted

\* A connection begins with a reader.
LEMMA ParkInit == P!Init => PInv
<1> SUFFICES ASSUME P!Init PROVE PInv
  BY ZenonT(60)
<1>1. PICK r \in Slot : at = [x \in Slot |-> IF x = r THEN "loop" ELSE "none"]
  BY ZenonT(60) DEF P!Init
<1>2. PTypes
  <2>1. /\ at \in [Slot -> {"none", "loop", "park", "look", "arm", "back", "final", "drain"}]
        /\ add \in [Slot -> BOOLEAN] /\ saw \in [Slot -> BOOLEAN]
    BY <1>1, ZenonT(60) DEF P!Init
  <2>2. /\ reading \in {"running", "parked"} /\ epoll \in {"out", "off", "armed"}
        /\ armed \in BOOLEAN /\ noPark \in BOOLEAN /\ event \in BOOLEAN /\ eof \in BOOLEAN
        /\ ending \in BOOLEAN /\ inTable \in BOOLEAN
    BY ZenonT(60) DEF P!Init
  <2>3. unread \in 0..MaxMsgs /\ arrived \in 0..MaxMsgs /\ finals \in Nat /\ unread <= arrived
    BY ParkAssumption DEF P!Init
  <2> QED BY <2>1, <2>2, <2>3, ZenonT(60) DEF PTypes, P!TypeOK
<1> QED BY <1>1, <1>2 DEF P!Init, PInv, Owned, Watched, Noted, P!Owner, Parks

\* One step per action.
LEMMA ParkStep == PInv /\ [P!Next]_P!vars => PInv'
<1> SUFFICES ASSUME PInv, [P!Next]_P!vars PROVE PInv'
  BY ZenonT(60)
<1> USE ParkAssumption DEF PInv
<1>1. CASE P!PeerSends
  BY <1>1 DEF P!PeerSends, PTypes, P!TypeOK, Owned, Watched, Noted, P!Owner, P!park
<1>2. CASE P!PeerCloses
  BY <1>2 DEF P!PeerCloses, PTypes, P!TypeOK, Owned, Watched, Noted, P!Owner, P!park
<1>3. CASE P!BeginClose
  BY <1>3 DEF P!BeginClose, P!Wake, PTypes, P!TypeOK, Owned, Watched, Noted, P!Owner, P!park, P!net, Parks
<1>4. CASE P!PollTakes
  BY <1>4, ZenonT(60) DEF P!PollTakes, PTypes, P!TypeOK, Owned, Watched, Noted, P!Owner, P!park, P!net, Parks
<1>5. CASE P!PollWakes
  <2>1. CASE inTable /\ reading = "parked"
    <3>1. PICK s \in Slot : at[s] = "none" /\ at' = [at EXCEPT ![s] = "loop"]
      BY <1>5, <2>1, ZenonT(60) DEF P!PollWakes, P!Wake
    <3>2. /\ UNCHANGED <<P!park, epoll, P!net, ending, inTable, finals>>
          /\ event /\ event' = FALSE /\ reading' = "running"
      BY <1>5, <2>1, ZenonT(60) DEF P!PollWakes, P!Wake
    <3>3. PTypes'
      BY <3>1, <3>2, ZenonT(60) DEF PTypes, P!TypeOK, P!park, P!net
    <3>4. Owned' /\ Watched'
      BY <3>1, <3>2, <2>1, ZenonT(60) DEF PTypes, P!TypeOK, Owned, Watched, P!Owner
    <3>5. Noted'
      BY <3>1, <3>2, <2>1, ZenonT(60) DEF PTypes, P!TypeOK, Noted, P!Owner, P!park, Parks
    <3> QED BY <3>3, <3>4, <3>5, ZenonT(60)
  <2>2. CASE ~(inTable /\ reading = "parked")
    <3>1. UNCHANGED <<reading, at, P!park, epoll, P!net, ending, inTable, finals>> /\ event' = FALSE
      BY <1>5, <2>2, ZenonT(60) DEF P!PollWakes, P!Wake
    <3> QED BY <3>1, <2>2, ZenonT(60) DEF PTypes, P!TypeOK, Owned, Watched, Noted, P!Owner, P!park, P!net, Parks
  <2> QED BY <2>1, <2>2, ZenonT(60)
<1>6. ASSUME NEW r \in Slot, P!Step(r) PROVE PInv'
  <2>1. CASE P!Reads(r)
    BY <2>1 DEF P!Reads, P!Goto, PTypes, P!TypeOK, Owned, Watched, Noted, P!Owner, P!park, Parks
  <2>2. CASE P!Stops(r)
    BY <2>2, ZenonT(60) DEF P!Stops, P!Goto, PTypes, P!TypeOK, Owned, Watched, Noted, P!Owner, P!park, P!net, Parks
  <2>3. CASE P!Probes(r)
    BY <2>3 DEF P!Probes, P!Goto, PTypes, P!TypeOK, Owned, Watched, Noted, P!Owner, P!park, P!net, Parks
  <2>4. CASE P!ParkStores(r)
    BY <2>4, ZenonT(60) DEF P!ParkStores, P!Goto, PTypes, P!TypeOK, Owned, Watched, Noted, P!Owner, P!park, P!net, Parks
  <2>5. CASE P!ParkLooks(r)
    BY <2>5 DEF P!ParkLooks, P!Goto, PTypes, P!TypeOK, Owned, Watched, Noted, P!Owner, P!park, P!net, Parks
  <2>6. CASE P!ParkArms(r)
    <3>1. PTypes'
      BY <2>6 DEF P!ParkArms, P!Goto, PTypes, P!TypeOK, P!park, P!net
    <3>2. Owned'
      BY <2>6 DEF P!ParkArms, P!Goto, PTypes, P!TypeOK, Owned, P!Owner, P!park, P!net, Parks
    <3>3. Watched'
      BY <2>6, ZenonT(60) DEF P!ParkArms, P!Goto, PTypes, P!TypeOK, Watched, P!park, P!net, Parks
    <3>4. Noted'
      <4>1. CASE (add[r] <=> epoll = "out") /\ epoll' = "armed" /\ at' = [at EXCEPT ![r] = "none"]
        BY <2>6, <4>1, ZenonT(60) DEF P!ParkArms, PTypes, P!TypeOK, Noted, P!Owner, P!park, Parks
      <4>2. CASE epoll' = epoll /\ at' = [at EXCEPT ![r] = "back"]
        BY <2>6, <4>2, ZenonT(60) DEF P!ParkArms, PTypes, P!TypeOK, Noted, P!Owner, P!park, Parks
      <4> QED BY <2>6, <4>1, <4>2, ZenonT(60) DEF P!ParkArms, P!Goto
    <3> QED BY <3>1, <3>2, <3>3, <3>4, ZenonT(60)
  <2>7. CASE P!ParkBack(r)
    <3>1. PTypes'
      BY <2>7, ZenonT(60) DEF P!ParkBack, P!Goto, PTypes, P!TypeOK, P!park, P!net
    <3>2. Owned'
      BY <2>7 DEF P!ParkBack, P!Goto, PTypes, P!TypeOK, Owned, P!Owner, P!park, P!net, Parks
    <3>3. Watched'
      BY <2>7, ZenonT(60) DEF P!ParkBack, P!Goto, PTypes, P!TypeOK, Watched, P!park, P!net, Parks
    <3>4. Noted'
      BY <2>7 DEF P!ParkBack, P!Goto, PTypes, P!TypeOK, Noted, P!Owner, P!park, P!net, Parks
    <3> QED BY <3>1, <3>2, <3>3, <3>4, ZenonT(60)
  <2>8. CASE P!Finalizes(r)
    BY <2>8, ZenonT(60) DEF P!Finalizes, P!Wake, P!Goto, PTypes, P!TypeOK, Owned, Watched, Noted, P!Owner, P!park, P!net, Parks
  <2>9. CASE P!Finished(r)
    BY <2>9 DEF P!Finished, P!Goto, PTypes, P!TypeOK, Owned, Watched, Noted, P!Owner, P!park, Parks
  <2> QED BY <1>6, <2>1, <2>2, <2>3, <2>4, <2>5, <2>6, <2>7, <2>8, <2>9, ZenonT(60) DEF P!Step
<1>7. CASE UNCHANGED P!vars
  BY <1>7 DEF P!vars, PTypes, P!TypeOK, Owned, Watched, Noted, P!Owner, P!park, P!net, Parks
<1> QED BY <1>1, <1>2, <1>3, <1>4, <1>5, <1>6, <1>7, ZenonT(60) DEF P!Next

-----------------------------------------------------------------------------
(* SlowPeer: the queue and its timer. *)

\* The history is the queue's; a full queue of an open connection is timed, judged or sentenced,
\* and a timer stands for a full queue, from no earlier than it filled.
Full ==
  /\ Q!Over(queued) <=> overSince # Never
  /\ slowClosing # "no" => ~Q!Over(queued)
  /\ slowTimer => Q!Over(queued) /\ overSince <= fullSince /\ (due # Never \/ calls > 0)
  /\ slowClosing = "no" /\ Q!Over(queued) /\ ~slowTimer => judging > 0 \/ sentenced

\* While no one is late, a full queue was drained or became full within SlowAfter, and its timer
\* is due in time.
OnTime ==
  ~late /\ Q!Over(queued) =>
    /\ now - Q!Later(overSince, lastDrain) <= SlowAfter
    /\ ~sentenced =>
         IF slowTimer
         THEN /\ fullSince = overSince
              /\ due # Never => now <= due /\ due <= Q!Later(overSince, lastDrain) + SlowAfter
              /\ due = Never => now - Q!Later(overSince, lastDrain) <= SlowAfter
         ELSE overSince = now

\* The inductive invariant.
QInv == Q!TypeOK /\ Full /\ OnTime

\* A connection begins with an empty queue.
LEMMA SlowInit == Q!Init => QInv
<1> SUFFICES ASSUME Q!Init PROVE QInv
  BY ZenonT(60)
<1>1. slowTimer \in BOOLEAN /\ sentenced \in BOOLEAN /\ late \in BOOLEAN
  BY ZenonT(60) DEF Q!Init
<1> QED BY <1>1, SlowPeerAssumption DEF Q!Init, QInv, Q!TypeOK, Full, OnTime, Q!Over

\* One step per action.
LEMMA SlowStep == QInv /\ [Q!Next]_Q!vars => QInv'
<1> SUFFICES ASSUME QInv, [Q!Next]_Q!vars PROVE QInv'
  BY ZenonT(60)
<1> USE SlowPeerAssumption DEF QInv, Q!Over, Q!conn
<1>1. CASE Q!Enqueue
  <2>1. Q!TypeOK'
    BY <1>1 DEF Q!Enqueue, Q!Note, Q!TypeOK
  <2>2. Full'
    BY <1>1 DEF Q!Enqueue, Q!Note, Q!TypeOK, Full
  <2>3. OnTime'
    BY <1>1 DEF Q!Enqueue, Q!Note, Q!TypeOK, Full, OnTime, Q!Later
  <2> QED BY <2>1, <2>2, <2>3, ZenonT(60)
<1>2. CASE Q!Judge
  <2>1. slowTimer' \in BOOLEAN
    BY <1>2, ZenonT(60) DEF Q!Judge, Q!TypeOK
  <2>2. Q!TypeOK'
    BY <1>2, <2>1 DEF Q!Judge, Q!TypeOK
  <2>3. Full'
    BY <1>2 DEF Q!Judge, Q!TypeOK, Full
  <2>4. OnTime'
    BY <1>2 DEF Q!Judge, Q!TypeOK, Full, OnTime, Q!Later
  <2> QED BY <2>2, <2>3, <2>4, ZenonT(60)
<1>3. CASE Q!Drain
  <2>1. slowTimer' \in BOOLEAN
    BY <1>3, ZenonT(60) DEF Q!Drain, Q!TypeOK
  <2>2. Q!TypeOK'
    BY <1>3, <2>1 DEF Q!Drain, Q!Note, Q!TypeOK
  <2>3. Full'
    BY <1>3 DEF Q!Drain, Q!Note, Q!TypeOK, Full
  <2>4. OnTime'
    BY <1>3 DEF Q!Drain, Q!Note, Q!TypeOK, Full, OnTime, Q!Later
  <2> QED BY <2>2, <2>3, <2>4, ZenonT(60)
<1>4. CASE Q!Fire
  BY <1>4 DEF Q!Fire, Q!TypeOK, Full, OnTime, Q!Later
<1>5. CASE Q!CheckSlow
  <2>1. slowTimer' \in BOOLEAN /\ sentenced' \in BOOLEAN
    BY <1>5, ZenonT(60) DEF Q!CheckSlow, Q!TypeOK
  <2>2. Q!TypeOK'
    BY <1>5, <2>1 DEF Q!CheckSlow, Q!TypeOK, Q!Later
  <2>3. Full'
    BY <1>5 DEF Q!CheckSlow, Q!TypeOK, Full, Q!Later
  <2>4. OnTime'
    BY <1>5 DEF Q!CheckSlow, Q!TypeOK, Full, OnTime, Q!Later
  <2> QED BY <2>2, <2>3, <2>4, ZenonT(60)
<1>6. CASE Q!Tick
  <2>1. late' \in BOOLEAN
    BY <1>6, ZenonT(60) DEF Q!Tick, Q!TypeOK
  <2>2. Q!TypeOK'
    BY <1>6, <2>1 DEF Q!Tick, Q!TypeOK
  <2>3. Full'
    BY <1>6, ZenonT(60) DEF Q!Tick, Q!TypeOK, Full
  <2>4. ~late' => ~late /\ judging = 0 /\ calls = 0 /\ ~sentenced /\ (due # Never => due # now)
    <3>1. ~late' => ~late /\ ~(judging > 0) /\ ~(calls > 0) /\ ~sentenced /\ (due # Never => due # now)
      BY <1>6, ZenonT(60) DEF Q!Tick
    <3> QED BY <3>1 DEF Q!TypeOK
  <2>5. ASSUME ~late', Q!Over(queued) PROVE /\ slowTimer /\ due \in Nat /\ now + 1 <= due
                                           /\ fullSince = overSince /\ overSince \in Nat
                                           /\ due <= Q!Later(overSince, lastDrain) + SlowAfter
    <3>1. slowTimer /\ due # Never /\ due # now
      BY <2>4, <2>5 DEF Q!TypeOK, Full
    <3> QED BY <2>4, <2>5, <3>1 DEF Q!TypeOK, Full, OnTime
  <2>6. UNCHANGED <<queued, lastDrain, fullSince, overSince, slowTimer, due, sentenced>> /\ now' = now + 1
    BY <1>6, ZenonT(60) DEF Q!Tick
  <2>7. OnTime'
    BY <2>5, <2>6 DEF Q!TypeOK, OnTime, Q!Later
  <2> QED BY <2>2, <2>3, <2>7, ZenonT(60)
<1>7. ASSUME NEW why \in {"slow", "other"}, Q!Close(why) PROVE QInv'
  <2>1. slowTimer' \in BOOLEAN /\ sentenced' \in BOOLEAN
    BY <1>7, ZenonT(60) DEF Q!Close, Q!TypeOK
  <2> QED BY <1>7, <2>1 DEF Q!Close, Q!TypeOK, Full, OnTime
<1>8. CASE UNCHANGED Q!vars
  BY <1>8, ZenonT(60) DEF Q!vars, Q!TypeOK, Full, OnTime, Q!Later
<1> QED BY <1>1, <1>2, <1>3, <1>4, <1>5, <1>6, <1>7, <1>8, ZenonT(60) DEF Q!Next

\* checkSlow is the only step that sentences, and looks at both times first.
LEMMA SlowJust == QInv /\ [Q!Next]_Q!vars => Q!Justly
<1> SUFFICES ASSUME QInv, [Q!Next]_Q!vars, sentenced', ~sentenced PROVE Q!Justly
  BY ZenonT(60) DEF Q!Justly
<1>1. Q!CheckSlow
  BY ZenonT(60) DEF Q!Next, Q!Enqueue, Q!Judge, Q!Drain, Q!Fire, Q!Tick, Q!Close, Q!vars
<1>2. slowTimer /\ Q!Over(queued) /\ ~(now - Q!Later(fullSince, lastDrain) < SlowAfter)
  BY <1>1, ZenonT(60) DEF Q!CheckSlow
<1> QED BY <1>2, SlowPeerAssumption DEF Q!Justly, QInv, Q!TypeOK, Full, Q!Over, Q!Later

-----------------------------------------------------------------------------
(* Keepalive: pings, pongs and deadlines. *)

\* The types.
KTypes ==
  /\ rpc \in {"read", "handle", "paused", "clear", "final", "drain", "done"}
  /\ bound \in BOOLEAN /\ paused \in BOOLEAN /\ awaiting \in BOOLEAN /\ owed \in BOOLEAN
  /\ deadline \in {"none", "hello", "grace"} /\ closing \in {"no", "code", "bare"}
  /\ sock \in {"open", "closed"} /\ peer \in {"live", "silent", "gone"}
  /\ inbox \in Seq({"msg", "pong"}) /\ dropped \in BOOLEAN

\* A paused reader says so; a ping not answered is owed one or its pong is on the way; a
\* reader that ends, ends with the connection closing or its peer not answering.
Answered ==
  /\ rpc = "paused" => paused
  /\ rpc \in {"drain", "done"} \/ sock = "closed" \/ deadline = "grace" => closing # "no"
  /\ bound => deadline # "hello"
  /\ rpc = "final" /\ closing = "no" => peer # "live"
  /\ awaiting /\ closing = "no" => owed \/ \E i \in 1..Len(inbox) : inbox[i] = "pong"

\* The inductive invariant.
KInv == KTypes /\ Answered

\* A connection begins before its hello.
LEMMA KeepaliveInit == K!Init => KInv
<1> SUFFICES ASSUME K!Init PROVE KInv
  BY ZenonT(60)
<1>1. bound \in BOOLEAN /\ paused \in BOOLEAN /\ awaiting \in BOOLEAN /\ owed \in BOOLEAN /\ dropped \in BOOLEAN
  BY ZenonT(60) DEF K!Init
<1> QED BY <1>1 DEF K!Init, KInv, KTypes, Answered

\* One step per action.
LEMMA KeepaliveStep == KInv /\ [K!Next]_K!vars => KInv'
<1> SUFFICES ASSUME KInv, [K!Next]_K!vars PROVE KInv'
  BY ZenonT(60)
<1> USE DEF KInv, K!reader, K!conn, K!wire
<1>1. CASE K!PeerSends
  <2>1. \A i \in 1..Len(inbox) : i \in 1..Len(inbox') /\ inbox'[i] = inbox[i]
    BY <1>1 DEF K!PeerSends, KTypes
  <2>2. KTypes'
    BY <1>1 DEF K!PeerSends, KTypes
  <2> QED BY <1>1, <2>1, <2>2, ZenonT(60) DEF K!PeerSends, Answered
<1>2. CASE K!PeerPongs
  <2>1. Len(inbox') \in 1..Len(inbox') /\ inbox'[Len(inbox')] = "pong"
    BY <1>2 DEF K!PeerPongs, KTypes
  <2>2. KTypes'
    <3>1. owed' \in BOOLEAN
      BY <1>2, ZenonT(60) DEF K!PeerPongs
    <3> QED BY <1>2, <3>1 DEF K!PeerPongs, KTypes
  <2> QED BY <1>2, <2>1, <2>2, ZenonT(60) DEF K!PeerPongs, Answered
<1>3. CASE K!PeerStops
  BY <1>3 DEF K!PeerStops, KTypes, Answered
<1>4. CASE K!Reads
  <2>1. CASE Head(inbox) = "pong"
    <3>1. awaiting' = FALSE /\ rpc' = rpc /\ inbox' \in Seq({"msg", "pong"})
      BY <1>4, <2>1 DEF K!Reads, KTypes
    <3> QED BY <1>4, <3>1, ZenonT(60) DEF K!Reads, KTypes, Answered
  <2>2. CASE Head(inbox) # "pong"
    <3>1. /\ inbox' \in Seq({"msg", "pong"}) /\ rpc' \in {"handle", "final"}
          /\ rpc' = "final" => closing # "no"
      BY <1>4, <2>2 DEF K!Reads, KTypes
    <3>2. ASSUME NEW i \in 1..Len(inbox), inbox[i] = "pong"
          PROVE  i - 1 \in 1..Len(inbox') /\ inbox'[i - 1] = "pong"
      BY <1>4, <2>2, <3>2 DEF K!Reads, KTypes
    <3> QED BY <1>4, <2>2, <3>1, <3>2 DEF K!Reads, KTypes, Answered
  <2> QED BY <2>1, <2>2, ZenonT(60)
<1>5. CASE K!HandlesHello
  BY <1>5, ZenonT(60) DEF K!HandlesHello, KTypes, Answered
<1>6. CASE K!Refuses
  BY <1>6 DEF K!Refuses, KTypes, Answered
<1>7. CASE K!Handles
  BY <1>7, ZenonT(60) DEF K!Handles, KTypes, Answered
<1>8. CASE K!Unpauses
  BY <1>8, ZenonT(60) DEF K!Unpauses, KTypes, Answered
<1>9. CASE K!Clears
  BY <1>9, ZenonT(60) DEF K!Clears, KTypes, Answered
<1>10. CASE K!ReadFails
  BY <1>10 DEF K!ReadFails, KTypes, Answered
<1>11. CASE K!Finalizes
  BY <1>11 DEF K!Finalizes, KTypes, Answered
<1>12. CASE K!Finishes
  BY <1>12 DEF K!Finishes, KTypes, Answered
<1>13. CASE K!CloseWith
  BY <1>13 DEF K!CloseWith, KTypes, Answered
<1>14. CASE K!WritesClose
  BY <1>14 DEF K!WritesClose, KTypes, Answered
<1>15. CASE K!Visit
  <2>1. awaiting' \in BOOLEAN /\ owed' \in BOOLEAN /\ dropped' \in BOOLEAN
    BY <1>15, ZenonT(60) DEF K!Visit, KTypes
  <2>2. ~awaiting => (closing = "no" => owed' = TRUE)
    BY <1>15, ZenonT(60) DEF K!Visit
  <2> QED BY <1>15, <2>1, <2>2 DEF K!Visit, KTypes, Answered
<1>16. CASE UNCHANGED K!vars
  BY <1>16 DEF K!vars, KTypes, Answered
<1> QED BY <1>1, <1>2, <1>3, <1>4, <1>5, <1>6, <1>7, <1>8, <1>9, <1>10, <1>11, <1>12, <1>13, <1>14,
           <1>15, <1>16, ZenonT(60) DEF K!Next, K!Reader

\* Only pingLoop drops a peer, and one that answers only between unpause's two stores.
LEMMA KeepsAnswering == KInv /\ [K!Next]_K!vars => K!KeepsAnswerer
<1> SUFFICES ASSUME KInv, [K!Next]_K!vars, dropped', ~dropped PROVE rpc = "clear"
  BY ZenonT(60) DEF K!KeepsAnswerer
<1>1. K!Visit
  BY ZenonT(60) DEF K!Next, K!Reader, K!PeerSends, K!PeerPongs, K!PeerStops, K!Reads, K!HandlesHello, K!Refuses,
         K!Handles, K!Unpauses, K!Clears, K!ReadFails, K!Finalizes, K!Finishes, K!CloseWith,
         K!WritesClose, K!vars
<1>2. awaiting /\ closing = "no" /\ peer = "live"
  BY <1>1, ZenonT(60) DEF K!Visit
<1> QED BY <1>1, <1>2 DEF K!Visit, K!Timely, KInv, KTypes, Answered

-----------------------------------------------------------------------------
(* The theorems. *)

\* A step of one part leaves the others' variables alone.
LEMMA PartSteps == [PartNext]_partVars => [P!Next]_P!vars /\ [Q!Next]_Q!vars /\ [K!Next]_K!vars
<1> SUFFICES ASSUME [PartNext]_partVars
             PROVE  [P!Next]_P!vars /\ [Q!Next]_Q!vars /\ [K!Next]_K!vars
  BY ZenonT(60)
<1>1. /\ P!Next \/ UNCHANGED pv
      /\ Q!Next \/ UNCHANGED qv
      /\ K!Next \/ UNCHANGED kv
  BY ZenonT(60) DEF PartNext, InPark, InSlowPeer, InKeepalive, InShaping, partVars
<1>2. /\ UNCHANGED pv => UNCHANGED P!vars
      /\ UNCHANGED qv => UNCHANGED Q!vars
      /\ UNCHANGED kv => UNCHANGED K!vars
  BY ZenonT(60) DEF pv, qv, kv, P!vars, P!park, P!net, Q!vars, Q!conn, K!vars, K!reader, K!conn, K!wire
<1> QED BY <1>1, <1>2, ZenonT(60)

\* park, wake, finalize: one reader owns the connection, a parked one is watched, and the note of
\* the epoll set is true.
THEOREM OneReader == PartSpec => []ReaderKept
<1>1. PartInit => PInv
  BY ParkInit, ZenonT(60) DEF PartInit
<1>2. PInv /\ [PartNext]_partVars => PInv'
  BY ParkStep, PartSteps, ZenonT(60)
<1>3. PInv => ReaderKept
  <2> SUFFICES ASSUME PInv PROVE ReaderKept
    BY ZenonT(60)
  <2>1. P!OneReader
    BY ZenonT(60) DEF PInv, PTypes, Owned, P!OneReader
  <2>2. P!ParkedIsWatched
    BY ZenonT(60) DEF PInv, PTypes, P!TypeOK, Watched, Parks, P!ParkedIsWatched
  <2>3. P!NoteIsTrue
    BY ZenonT(60) DEF PInv, PTypes, P!TypeOK, Noted, Parks, P!Owner, P!NoteIsTrue
  <2> QED BY <2>1, <2>2, <2>3, ZenonT(60) DEF ReaderKept
<1> QED BY <1>1, <1>2, <1>3, PTL DEF PartSpec

\* enqueue, releaseLocked, checkSlow: a full queue is always timed, and closed when SlowAfter is
\* over.
THEOREM SlowPeerCloses == PartSpec => []SlowIsClosed
<1>1. PartInit => QInv
  BY SlowInit, ZenonT(60) DEF PartInit
<1>2. QInv /\ [PartNext]_partVars => QInv'
  BY SlowStep, PartSteps, ZenonT(60)
<1>3. QInv => SlowIsClosed
  BY DEF QInv, Full, OnTime, SlowIsClosed, Q!FullIsTimed, Q!SlowIsClosed, Q!TypeOK
<1> QED BY <1>1, <1>2, <1>3, PTL DEF PartSpec

\* checkSlow: only a queue full and not drained for all of SlowAfter is sentenced.
THEOREM SentenceIsJust == PartSpec => JustSentence
<1>1. PartInit => QInv
  BY SlowInit, ZenonT(60) DEF PartInit
<1>2. QInv /\ [PartNext]_partVars => QInv' /\ [Q!Justly]_qv
  BY SlowStep, SlowJust, PartSteps, ZenonT(60)
<1> QED BY <1>1, <1>2, PTL DEF PartSpec, JustSentence

\* pingLoop, unpause: a peer that answers in time is dropped only between unpause's two stores.
THEOREM AnswererStays == PartSpec => AnswererKept
<1>1. PartInit => KInv
  BY KeepaliveInit, ZenonT(60) DEF PartInit
<1>2. KInv /\ [PartNext]_partVars => KInv' /\ [K!KeepsAnswerer]_kv
  BY KeepaliveStep, KeepsAnswering, PartSteps, ZenonT(60)
<1> QED BY <1>1, <1>2, PTL DEF PartSpec, AnswererKept
=============================================================================
