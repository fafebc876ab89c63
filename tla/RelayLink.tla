----------------------------- MODULE RelayLink ------------------------------
(***************************************************************************)
(* A client's connection to its relay (client-go/relay.go, transport.go)   *)
(* and the sends that wait for it (member.go): dialling, registering,      *)
(* reconnecting and the terminal states; the outbound queue of a socket    *)
(* with its writer goroutine; the drain wake-up that lets a backed-up send *)
(* go on; and messages sent while offline.                                 *)
(*                                                                         *)
(* Everything of the member runs under its lock, its later-tasks included, *)
(* so a handler is one action.  The writer of a channel does not take that *)
(* lock except to report a drain, so the pump, which looks at the channel  *)
(* several times, is a sequence of actions during which the lock is held   *)
(* (lock.pc # "free").  A message is one frame.                            *)
(***************************************************************************)
EXTENDS Integers, FiniteSets

CONSTANTS MaxGen,    \* bound: dials
          MaxSend,   \* bound: messages sent
          LowWater,  \* frames a socket may hold and still be writable
          MaxQueue,  \* frames a socket may hold (maxChannelBytes)
          Resolver   \* whether resolveRelay is set

ASSUME LinkAssumption == MaxGen \in Nat /\ MaxSend \in Nat /\ LowWater \in Nat /\ MaxQueue \in Nat

VARIABLES state,     \* relayConn.state
          gen,       \* relayConn.gen
          dials,     \* generations of the dial goroutines under way
          timer,     \* the reconnect timer is pending
          resolving, \* generations of the resolver goroutines under way
          stopping,  \* relayConn.stopping
          challenge, \* hello arrived on the current connection
          cur,       \* relayConn.ch: a channel, by the generation that dialled it; 0: nil
          chan,      \* every channel
          waiters,   \* drainWaiters is not empty
          awaiting,  \* sessionManager.awaitingSocket
          lock,      \* the member's lock: where its holder is, and which writer holds it
          out,       \* each message: idle, offline, queued, ok or failed
          otimers,   \* messages whose offline timer is pending
          results    \* history: results each message's sender was given

conn == <<state, gen, dials, timer, resolving, stopping, challenge, cur>>
msgs == <<out, otimers, results>>
vars == <<conn, chan, waiters, awaiting, lock, msgs>>

Gen == 1..MaxGen
Send == 1..MaxSend
Terminal == {"closed", "revoked", "replaced"}
terminal == state \in Terminal

\* A channel: q frames queued (the one being written is not among them), a
\* close frame behind them, the flags of transport.go, and its writer: "idle"
\* at the top of its loop, "busy" in a write, "wrote" before it looks at
\* drainWanted, "drain" calling onDrain, "gone".
NoChannel == [q |-> 0, closeq |-> FALSE, closing |-> FALSE, dead |-> FALSE,
              want |-> FALSE, low |-> FALSE, pc |-> "none"]
Buffered(c) == chan[c].q + IF chan[c].pc = "busy" THEN 1 ELSE 0
writable(c) == chan[c].closing \/ chan[c].dead \/ Buffered(c) <= LowWater

Free == [pc |-> "free", by |-> 0]

Init ==
  /\ state = "disconnected" /\ gen = 0 /\ dials = {} /\ timer = TRUE
  /\ resolving = {} /\ stopping = FALSE /\ challenge = FALSE /\ cur = 0
  /\ chan = [c \in Gen |-> NoChannel]
  /\ waiters = FALSE /\ awaiting = FALSE /\ lock = Free
  /\ out = [o \in Send |-> "idle"] /\ otimers = {} /\ results = [o \in Send |-> 0]

-----------------------------------------------------------------------------
(* Messages *)

In(s) == {o \in Send : out[o] = s}

\* The messages S get their result, their timers cancelled.
Finish(S, how) ==
  /\ out' = [o \in Send |-> IF o \in S THEN how ELSE out[o]]
  /\ results' = [o \in Send |-> IF o \in S THEN results[o] + 1 ELSE results[o]]
  /\ otimers' = otimers \ S

\* Variant: the offline timers stay.
AdmitKeeps(S) ==
  \E bad \in SUBSET S :
    /\ out' = [o \in Send |-> IF o \in bad THEN "failed" ELSE IF o \in S THEN "queued" ELSE out[o]]
    /\ results' = [o \in Send |-> IF o \in bad THEN results[o] + 1 ELSE results[o]]
    /\ UNCHANGED otimers

\* admit: each of S is queued for its peer, but for those refused (too long, to
\* itself, or to a node not on the roster).  A queued one is pumped.
admit(S) ==
  \E bad \in SUBSET S :
    /\ out' = [o \in Send |-> IF o \in bad THEN "failed" ELSE IF o \in S THEN "queued" ELSE out[o]]
    /\ results' = [o \in Send |-> IF o \in bad THEN results[o] + 1 ELSE results[o]]
    /\ otimers' = otimers \ S

\* onRelayState for a state other than connected: dropAll fails what is queued;
\* a terminal state also fails what waits offline.
onRelayState(s) ==
  Finish(In("queued") \union (IF s \in Terminal THEN In("offline") ELSE {}), "failed")

-----------------------------------------------------------------------------
(* The end of a connection *)

\* schedule: only in the disconnected state.
schedule(s) == timer' = IF s = "disconnected" THEN TRUE ELSE timer

\* Variant: the resolver is counted on and not started.
AfterCloseWaits(code, s) ==
  IF terminal \/ stopping THEN UNCHANGED <<state, timer, resolving, msgs>>
  ELSE /\ state' = s
       /\ IF code = "moved" THEN UNCHANGED timer ELSE schedule(s)
       /\ UNCHANGED resolving
       /\ onRelayState(s)

\* afterClose, with the state it leads to; stop has its own.
afterClose(code, s) ==
  IF terminal \/ stopping THEN UNCHANGED <<state, timer, resolving, msgs>>
  ELSE /\ state' = s
       /\ IF s = "disconnected" /\ code = "moved" /\ Resolver
          THEN resolving' = resolving \union {gen} /\ UNCHANGED timer
          ELSE schedule(s) /\ UNCHANGED resolving
       /\ onRelayState(s)

Leads(code) ==
  IF code = "notMember" THEN "revoked" ELSE IF code = "replaced" THEN "replaced" ELSE "disconnected"

\* onClose: the channel is let go and whoever waited for it to drain finds the
\* sessions gone.
onClose(code, s) ==
  /\ cur' = 0
  /\ waiters' = FALSE /\ awaiting' = FALSE
  /\ challenge' = FALSE
  /\ afterClose(code, s)

\* channel.close and channel.abort, on the record k.
closed(k) == IF k.closing \/ k.dead THEN k ELSE [k EXCEPT !.closing = TRUE, !.closeq = TRUE]
aborted(k) == [k EXCEPT !.dead = TRUE, !.closing = TRUE, !.closeq = FALSE, !.q = 0]

\* abandon: this side gives the connection up.
abandon(c) ==
  /\ chan' = [chan EXCEPT ![c] = closed(@)]
  /\ onClose("abnormal", "disconnected")
  /\ UNCHANGED <<gen, dials, stopping, lock>>

\* stop: a terminal state s is entered for good.
stop(s) ==
  /\ state' = s
  /\ timer' = FALSE
  /\ stopping' = TRUE
  /\ chan' = [c \in Gen |-> IF c = cur THEN closed(chan[c]) ELSE chan[c]]
  /\ cur' = 0 /\ waiters' = FALSE /\ awaiting' = FALSE /\ challenge' = FALSE
  /\ onRelayState(s)
  /\ UNCHANGED <<gen, dials, resolving, lock>>

-----------------------------------------------------------------------------
(* Connecting *)

\* dial, from start or the reconnect timer.
dial ==
  /\ lock = Free /\ timer /\ gen < MaxGen
  /\ state = "disconnected"
  /\ state' = "connecting"
  /\ gen' = gen + 1
  /\ dials' = dials \union {gen + 1}
  /\ timer' = FALSE
  /\ challenge' = FALSE
  /\ UNCHANGED <<resolving, stopping, cur, chan, waiters, awaiting, lock, msgs>>

\* The dial goroutine's result; one of an older dial, or that comes when the
\* member no longer wants it, is closed.
WantsDial(g) == g = gen /\ state = "connecting" /\ cur = 0

DialDone(g, ok) ==
  /\ lock = Free /\ g \in dials
  /\ dials' = dials \ {g}
  /\ CASE WantsDial(g) /\ ok ->
            /\ cur' = g
            /\ chan' = [chan EXCEPT ![g].pc = "idle"]
            /\ UNCHANGED <<state, timer, resolving, msgs>>
       [] WantsDial(g) /\ ~ok ->
            /\ afterClose("abnormal", "disconnected")
            /\ UNCHANGED <<cur, chan>>
       [] OTHER -> UNCHANGED <<state, timer, resolving, cur, chan, msgs>>
  /\ UNCHANGED <<gen, stopping, challenge, waiters, awaiting, lock>>

\* onText, hello: the registration goes out.  A hello this client cannot use
\* closes the connection.
Sent(k) == IF k.closing \/ k.dead THEN k ELSE [k EXCEPT !.q = @ + 1]

Hello ==
  /\ lock = Free /\ cur # 0 /\ state = "connecting" /\ ~challenge
  /\ \/ /\ challenge' = TRUE
        /\ chan' = [chan EXCEPT ![cur] = Sent(@)]
        /\ UNCHANGED <<state, gen, dials, timer, resolving, stopping, cur, waiters, awaiting,
                       lock, msgs>>
     \/ abandon(cur)

\* onText, registered: connected, and the messages waiting are admitted; or the
\* roster in it no longer lists this node.
Registered ==
  /\ lock = Free /\ cur # 0 /\ state = "connecting" /\ challenge
  /\ \/ /\ state' = "connected"
        /\ admit(In("offline"))
        /\ lock' = [pc |-> "pump", by |-> 0]
        /\ UNCHANGED <<gen, dials, timer, resolving, stopping, challenge, cur, chan, waiters,
                       awaiting>>
     \/ stop("revoked")

\* read: the socket ends, with the relay's close code or none.
ReadEnds(code) ==
  /\ lock = Free /\ cur # 0
  /\ chan' = [chan EXCEPT ![cur] = aborted(@)]
  /\ onClose(code, Leads(code))
  /\ UNCHANGED <<gen, dials, stopping, lock>>

\* The registration timer, or watchLiveness hearing nothing.
GivesUp ==
  /\ lock = Free /\ cur # 0
  /\ abandon(cur)

\* The resolver answers; the address is not modelled.
Resolved(g) ==
  /\ lock = Free /\ g \in resolving
  /\ resolving' = resolving \ {g}
  /\ timer' = IF g = gen /\ state = "disconnected" THEN TRUE ELSE timer
  /\ UNCHANGED <<state, gen, dials, stopping, challenge, cur, chan, waiters, awaiting, lock, msgs>>

\* Close, or adoptRoster dropping this node (revoke).
Close == lock = Free /\ state # "closed" /\ stop("closed")
Revoke == lock = Free /\ ~terminal /\ stop("revoked")

-----------------------------------------------------------------------------
(* Sending *)

\* online: a message goes out, waits for the relay, or fails at once.
SendAsync(o) ==
  /\ lock = Free /\ out[o] = "idle"
  /\ \A p \in 1..o - 1 : out[p] # "idle"
  /\ CASE terminal -> Finish({o}, "failed") /\ UNCHANGED lock
       [] state = "connected" -> admit({o}) /\ lock' = [pc |-> "pump", by |-> 0]
       [] OTHER -> /\ out' = [out EXCEPT ![o] = "offline"]
                   /\ otimers' = otimers \union {o}
                   /\ UNCHANGED <<results, lock>>
  /\ UNCHANGED <<conn, chan, waiters, awaiting>>

\* The offline timer: HandshakeTimeout passed without the relay.
OfflineTimeout(o) ==
  /\ lock = Free /\ o \in otimers
  /\ Finish({o}, "failed")
  /\ UNCHANGED <<conn, chan, waiters, awaiting, lock>>

\* withdraw: Send's context ended before the first fragment went out.
withdraw(o) ==
  /\ lock = Free /\ out[o] \in {"offline", "queued"}
  /\ Finish({o}, "failed")
  /\ UNCHANGED <<conn, chan, waiters, awaiting, lock>>

\* Control (credit, handshakes, rosters) is handed over at once; past MaxQueue
\* the connection is given up.
Control ==
  /\ lock = Free /\ state = "connected" /\ cur # 0
  /\ IF Buffered(cur) >= MaxQueue
     THEN abandon(cur)
     ELSE /\ chan' = [chan EXCEPT ![cur] = Sent(@)]
          /\ UNCHANGED <<conn, waiters, awaiting, lock, msgs>>

\* The holder of the lock is done: a writer that reported a drain goes on.
Unlocked(k) == IF lock.by = 0 THEN k
               ELSE [k EXCEPT ![lock.by].pc = IF k[lock.by].dead THEN "gone" ELSE "idle"]

Release == lock' = Free /\ chan' = Unlocked(chan)

\* pumpOnce: the oldest message goes if the socket is writable; otherwise the
\* pump asks to be woken, unless it is waiting already.
pumpOnce ==
  /\ lock.pc = "pump"
  /\ IF In("queued") = {} \/ cur = 0
     THEN Release /\ UNCHANGED <<awaiting, msgs>>
     ELSE IF writable(cur)
     THEN /\ \E o \in In("queued") :
               /\ \A x \in In("queued") : o <= x
               /\ Finish({o}, IF chan[cur].closing \/ chan[cur].dead THEN "failed" ELSE "ok")
          /\ chan' = [chan EXCEPT ![cur] = Sent(@)]
          /\ UNCHANGED <<awaiting, lock>>
     ELSE IF awaiting THEN Release /\ UNCHANGED <<awaiting, msgs>>
     ELSE awaiting' = TRUE /\ lock' = [lock EXCEPT !.pc = "want"] /\ UNCHANGED <<chan, msgs>>
  /\ UNCHANGED <<conn, waiters>>

\* wantDrain, first half: drainWanted is set before the queue is looked at.
WantDrain ==
  /\ lock.pc \in {"want", "rewant"}
  /\ chan' = [chan EXCEPT ![cur].want = TRUE]
  /\ lock' = [lock EXCEPT !.pc = IF @ = "want" THEN "look" ELSE "relook"]
  /\ UNCHANGED <<conn, waiters, awaiting, msgs>>

\* Variant: the second look is left out.
LookNot ==
  /\ lock.pc = "look"
  /\ waiters' = TRUE /\ Release /\ UNCHANGED awaiting
  /\ UNCHANGED <<conn, msgs>>

\* wantDrain, second half, and whenWritable: a socket that is writable by now is
\* not waited for.
Look ==
  /\ lock.pc = "look"
  /\ IF writable(cur)
     THEN /\ chan' = [chan EXCEPT ![cur].want = FALSE]
          /\ awaiting' = FALSE
          /\ lock' = [lock EXCEPT !.pc = "pump"]
          /\ UNCHANGED waiters
     ELSE waiters' = TRUE /\ Release /\ UNCHANGED awaiting
  /\ UNCHANGED <<conn, msgs>>

\* The same in drained, which does not use the answer.
Relook ==
  /\ lock.pc = "relook"
  /\ lock' = Free
  /\ chan' = Unlocked([chan EXCEPT ![cur].want = @ /\ ~writable(cur)])
  /\ UNCHANGED <<conn, waiters, awaiting, msgs>>

-----------------------------------------------------------------------------
(* A channel's writer *)

\* The top of its loop: the next frame, the close frame, or the end.
Take(c) ==
  /\ chan[c].pc = "idle"
  /\ chan' = [chan EXCEPT ![c] =
       IF @.dead THEN [@ EXCEPT !.pc = "gone"]
       ELSE IF @.q > 0 THEN [@ EXCEPT !.q = chan[c].q - 1, !.pc = "busy"]
       ELSE [aborted(@) EXCEPT !.pc = "gone"]]
  /\ chan[c].dead \/ chan[c].q > 0 \/ chan[c].closeq
  /\ UNCHANGED <<conn, waiters, awaiting, lock, msgs>>

\* The write returns; what is left is compared with the low water.
Write(c, ok) ==
  /\ chan[c].pc = "busy"
  /\ chan' = [chan EXCEPT ![c] =
       IF ok THEN [@ EXCEPT !.pc = "wrote", !.low = chan[c].q <= LowWater]
       ELSE [aborted(@) EXCEPT !.pc = "drain", !.want = FALSE]]
  /\ UNCHANGED <<conn, waiters, awaiting, lock, msgs>>

\* drainWanted.CompareAndSwap.
Swap(c) ==
  /\ chan[c].pc = "wrote"
  /\ chan' = [chan EXCEPT ![c] =
       IF @.low /\ @.want THEN [@ EXCEPT !.pc = "drain", !.want = FALSE, !.low = FALSE]
       ELSE [@ EXCEPT !.pc = "idle", !.low = FALSE]]
  /\ UNCHANGED <<conn, waiters, awaiting, lock, msgs>>

\* onDrain takes the lock: drained, and the pump if it waited.  The writer is
\* inside it until the lock is released.
drained(c) ==
  /\ lock = Free /\ chan[c].pc = "drain"
  /\ IF c # cur /\ cur # 0
     THEN /\ chan' = [chan EXCEPT ![c].pc = IF chan[c].dead THEN "gone" ELSE "idle"]
          /\ UNCHANGED <<waiters, awaiting, lock>>
     ELSE IF cur # 0 /\ ~writable(cur)
     THEN lock' = [pc |-> "rewant", by |-> c] /\ UNCHANGED <<chan, waiters, awaiting>>
     ELSE /\ lock' = [pc |-> "pump", by |-> c]
          /\ awaiting' = (awaiting /\ ~waiters)
          /\ waiters' = FALSE
          /\ UNCHANGED chan
  /\ UNCHANGED <<conn, msgs>>

\* An old channel: its reader ends, or two seconds passed since it was closed.
Abort(c) ==
  /\ c # cur /\ chan[c].closing /\ ~chan[c].dead
  /\ chan' = [chan EXCEPT ![c] = aborted(@)]
  /\ UNCHANGED <<conn, waiters, awaiting, lock, msgs>>

Next ==
  \/ dial \/ Hello \/ Registered \/ GivesUp \/ Close \/ Revoke
  \/ \E g \in Gen : Resolved(g) \/ \E ok \in BOOLEAN : DialDone(g, ok)
  \/ \E code \in {"abnormal", "notMember", "replaced", "moved"} : ReadEnds(code)
  \/ \E o \in Send : SendAsync(o) \/ OfflineTimeout(o) \/ withdraw(o)
  \/ Control \/ pumpOnce \/ WantDrain \/ Look \/ Relook
  \/ \E c \in Gen : Take(c) \/ Swap(c) \/ drained(c) \/ Abort(c) \/ \E ok \in BOOLEAN : Write(c, ok)

Spec == Init /\ [][Next]_vars

-----------------------------------------------------------------------------
(* Properties *)

TypeOK ==
  /\ state \in Terminal \union {"disconnected", "connecting", "connected"}
  /\ gen \in 0..MaxGen /\ cur \in 0..gen /\ dials \subseteq 1..gen /\ resolving \subseteq 1..gen
  /\ out \in [Send -> {"idle", "offline", "queued", "ok", "failed"}]
  /\ otimers \subseteq Send

\* The member is always on its way to the relay, and in one way only: while its
\* state is not terminal exactly one of a reconnect timer, a dial of the current
\* generation, a channel and a resolver is under way, and it fits the state.  In
\* a terminal state there is none that can bring it back (afterClose, schedule,
\* dial's generation check, stop).
OnItsWay ==
  /\ TypeOK
  /\ IF terminal THEN ~timer /\ cur = 0
     ELSE /\ (state = "disconnected") <=> (timer \/ gen \in resolving)
          /\ ~(timer /\ gen \in resolving)
          /\ state = "connecting" => (gen \in dials /\ cur = 0) \/ (gen \notin dials /\ cur = gen)
          /\ state = "connected" => cur = gen /\ gen \notin dials
          /\ state = "disconnected" => cur = 0 /\ gen \notin dials

\* A sender hears one result, whichever of registration, the offline timer, a
\* withdrawal, a drop and a terminal state come together.  (The result channel
\* holds one: a second would block the member with its lock held.)
OneResult ==
  \A o \in Send : /\ results[o] = IF out[o] \in {"ok", "failed"} THEN 1 ELSE 0
                  /\ (o \in otimers) <=> (out[o] = "offline")
                  /\ out[o] = "offline" => state \in {"disconnected", "connecting"}

\* A writer that will report a drain of channel c, when it gets there.
WakeComing(c) ==
  \/ chan[c].pc = "drain"
  \/ /\ chan[c].want /\ ~chan[c].dead
     /\ chan[c].q > 0 \/ chan[c].pc = "busy" \/ (chan[c].pc = "wrote" /\ chan[c].low)

\* No wake-up is lost between the pump and the writer: whenever the lock is free
\* and a message is queued, the pump waits on the current channel and its writer
\* is going to report a drain.
PumpIsWoken ==
  lock = Free =>
    /\ In("queued") # {} => awaiting
    /\ awaiting => waiters /\ cur # 0 /\ WakeComing(cur)
=============================================================================
