------------------------------ MODULE Session -------------------------------
(***************************************************************************)
(* The sessions of two members of the Go client (sessions.go): handshakes  *)
(* (init, resp), the session new messages use and the retired ones beside  *)
(* it, rekeys, expiry, the sweep, resets and unreachable answers, over a   *)
(* relay that keeps the order of frames between two connections, may lose  *)
(* a connection with the frames on it and may repeat a frame.  Messages    *)
(* are of two fragments, so that one can be part-way across; credit is     *)
(* Credit's subject and stamps are Stamps'.                                *)
(*                                                                         *)
(* Handlers run under one lock per member, so each is one action.  Time is *)
(* what may happen: a handshake may time out, a responder session may      *)
(* outlive its lifetime, a session may go quiet.  The graces (30 s and     *)
(* more) are long against a delivery: the sweep ends a session as retired  *)
(* or idle only when nothing of it is under way.                           *)
(***************************************************************************)
EXTENDS Naturals, Sequences, SequencesExt, FiniteSets

CONSTANTS
  Node,          \* the two members
  MaxMsgs,       \* bound: MaxMsgs[n] messages are sent by n
  MaxIndex,      \* bound: session indices each makes
  MaxSessions,   \* maxSessionsPerPeer
  MaxFaults      \* bound: adverse events (see Adverse)

VARIABLES
  st,      \* st[n]: the member's state for its peer (peerState, see New)
  asked,   \* asked[n]: messages n has begun to send
  got,     \* got[n]: messages given to n's application (0: of mixed fragments)
  faults,  \* adverse events so far
  cause,   \* history: whether what may lose a message has happened (see Excuse)
  lost     \* history: a data frame found no session before any such thing

vars == <<st, asked, got, faults, cause, lost>>

Peer(n) == CHOOSE p \in Node : p # n

NoOut == [id |-> 0, left |-> 0, li |-> 0, waits |-> FALSE]
New == [sess |-> <<>>, cur |-> 0, pend |-> 0, index |-> 0, stamp |-> 0,
        out |-> NoOut, up |-> TRUE, wire |-> <<>>]

Init == /\ st = [n \in Node |-> New] /\ asked = [n \in Node |-> 0]
        /\ got = [n \in Node |-> <<>>] /\ faults = 0 /\ cause = "none" /\ lost = FALSE

F(k, to, from, nonce, id, more) ==
  [k |-> k, to |-> to, from |-> from, nonce |-> nonce, id |-> id, more |-> more]
Plain(k, to, from) == F(k, to, from, 0, 0, FALSE)

\* History only: two handshakes crossed, or a session was lost some other way.
Excuse(crossed, other) ==
  cause' = IF other THEN "other" ELSE IF crossed /\ cause = "none" THEN "crossed" ELSE cause

\* One of the events that are few: a dropped connection, a repeated frame, a
\* handshake that times out with its answer under way, a session grown old or idle.
Adverse == faults < MaxFaults /\ faults' = faults + 1

-----------------------------------------------------------------------------
(* The steps handlers are made of: functions of the member's state *)

Tx(r, f) == [r EXCEPT !.wire = Append(@, f)]
Held(r) == {r.sess[i].li : i \in DOMAIN r.sess}
Get(r, li) == CHOOSE s \in Range(r.sess) : s.li = li
Put(r, s) == [r EXCEPT !.sess = [i \in DOMAIN @ |-> IF @[i].li = s.li THEN s ELSE @[i]]]

\* endSession: the message on the session fails with it.
endSession(r, li) ==
  [r EXCEPT !.sess = SelectSeq(@, LAMBDA s : s.li # li),
            !.cur = IF @ = li THEN 0 ELSE @,
            !.out = IF @.li = li /\ ~@.waits THEN NoOut ELSE @]

\* Variant: the message that waits is left waiting.
failPendingOnly(r) == [r EXCEPT !.pend = 0]

\* failPending: the message waiting for the handshake fails with it.
failPending(r) == [r EXCEPT !.pend = 0, !.out = IF @.waits THEN NoOut ELSE @]

\* dropAll, onUnreachable: nothing is left with the peer.
dropAll(r) == [failPending(r) EXCEPT !.sess = <<>>, !.cur = 0, !.out = NoOut]

\* Variant: the session that was current ends at once.
RetireEnds(r) == endSession(r, r.cur)

\* The session that was current is kept for what is under way on it.
Retire(r) == IF r.cur = 0 THEN r ELSE Put(r, [Get(r, r.cur) EXCEPT !.ret = TRUE])

newSession(li, ri, initiator) ==
  [li |-> li, ri |-> ri, init |-> initiator, ret |-> FALSE, old |-> FALSE,
   part |-> 0, sent |-> 0, recv |-> 0]

\* adopt: new messages take the new session; the oldest beyond the limit ends.
adopt(r, s) ==
  LET a == [Retire(r) EXCEPT !.sess = Append(@, s), !.cur = s.li]
      victim == IF a.sess[1].li = a.cur THEN a.sess[2].li ELSE a.sess[1].li
  IN  IF Len(a.sess) > MaxSessions THEN endSession(a, victim) ELSE a

\* initiate: at most one handshake at a time; another caller waits for it.
initiate(r) ==
  IF r.pend # 0 THEN r
  ELSE Tx([r EXCEPT !.index = @ + 1, !.pend = r.index + 1], Plain("init", 0, r.index + 1))
CanInitiate(r) == r.pend # 0 \/ r.index < MaxIndex

\* expired: only the responder's half of a session expires.
expired(s) == s.old
\* crossing: a message is part-way across, being received or sent.
crossing(r, s) == s.part # 0 \/ r.out.li = s.li

-----------------------------------------------------------------------------
(* Sending: startHead, ensureSession, runFragment, finishOut *)

\* A message reaches the head of its peer's queue: on the current session, or
\* waiting for a handshake.  A message queued behind another gets there when
\* that one finishes, which is when this step may first happen.
Send(n) ==
  LET r == st[n]
      o == [NoOut EXCEPT !.id = asked[n] + 1, !.left = 2]
      live == r.cur # 0 /\ ~expired(Get(r, r.cur))
      base == IF r.cur = 0 THEN r
              ELSE IF crossing(r, Get(r, r.cur)) THEN Retire(r)
              ELSE endSession(r, r.cur)
  IN  /\ r.up /\ r.out = NoOut /\ asked[n] < MaxMsgs[n]
      /\ live \/ CanInitiate(r)
      /\ asked' = [asked EXCEPT ![n] = @ + 1]
      /\ st' = [st EXCEPT ![n] =
           IF live THEN [r EXCEPT !.out = [o EXCEPT !.li = r.cur]]
           ELSE initiate([base EXCEPT !.out = [o EXCEPT !.waits = TRUE]])]
      /\ Excuse(FALSE, ~live /\ r.cur # 0)
      /\ UNCHANGED <<got, faults, lost>>

\* runFragment: after the last fragment the message is done.
Fragment(n) ==
  LET r == st[n] o == r.out s == Get(r, o.li)
  IN  /\ o # NoOut /\ ~o.waits
      /\ st' = [st EXCEPT ![n] =
           Tx([Put(r, [s EXCEPT !.sent = @ + 1]) EXCEPT
                 !.out = IF o.left = 1 THEN NoOut ELSE [o EXCEPT !.left = @ - 1]],
              F("data", s.ri, 0, s.sent, o.id, o.left > 1))]
      /\ UNCHANGED <<asked, got, faults, cause, lost>>

-----------------------------------------------------------------------------
(* Receiving: r is the receiver's state once the frame f is off the wire *)

Stays(n, r) == st' = [st EXCEPT ![n] = r, ![Peer(n)].wire = Tail(@)]
Quietly == UNCHANGED <<asked, got, faults, cause, lost>>

\* Variant: the stamp is not looked at.
AcceptsAny(r, f) == TRUE

\* The stamp of an init is greater than any accepted before.
Accepts(r, f) == f.from > r.stamp

\* onInit: the responder holds the session at once.  An init beyond its sender's
\* budget is dropped unanswered (allowInit); here, one beyond the bound on indices.
onInit(n, r, f) ==
  IF ~Accepts(r, f) \/ r.index = MaxIndex THEN Stays(n, r) /\ Quietly
  ELSE LET a == [r EXCEPT !.stamp = f.from, !.index = @ + 1]
       IN  /\ Stays(n, adopt(Tx(a, Plain("resp", f.from, a.index)),
                             newSession(a.index, f.from, FALSE)))
           /\ Excuse(r.pend # 0, Len(r.sess) = MaxSessions)
           /\ UNCHANGED <<asked, got, faults, lost>>

\* onResp: the handshake under way is answered, and what waited for it goes on.
onResp(n, r, f) ==
  IF r.pend # f.to THEN Stays(n, r) /\ Quietly
  ELSE LET a == adopt([r EXCEPT !.pend = 0], newSession(f.to, f.from, TRUE))
       IN  /\ Stays(n, IF a.out.waits THEN [a EXCEPT !.out.waits = FALSE, !.out.li = f.to] ELSE a)
           /\ Excuse(FALSE, Len(r.sess) = MaxSessions)
           /\ UNCHANGED <<asked, got, faults, lost>>

\* Variant: a frame is read out of its place.
DecryptsAny(s, f) == TRUE

\* A frame is read under the nonce of its place on the session.
Decrypts(s, f) == f.nonce = s.recv

\* onData and onFragment.
onData(n, r, f) ==
  LET s == Get(r, f.to)
      read == [s EXCEPT !.recv = @ + 1, !.part = IF f.more THEN f.id ELSE 0]
      whole == IF s.part = f.id THEN f.id ELSE 0
  IN  IF f.to \notin Held(r) \/ (expired(s) /\ ~crossing(r, s))
      THEN /\ \E tell \in BOOLEAN :   \* the reset budget
                Stays(n, IF tell THEN Tx(endSession(r, f.to), Plain("reset", f.to, 0))
                         ELSE endSession(r, f.to))
           /\ lost' = (lost \/ (cause = "none" /\ f.to \notin Held(r)))
           /\ Excuse(FALSE, f.to \in Held(r))
           /\ UNCHANGED <<asked, got, faults>>
      ELSE IF ~Decrypts(s, f)
      THEN Stays(n, endSession(r, f.to)) /\ Quietly
      ELSE /\ Stays(n, Put(r, read))
           /\ got' = IF f.more THEN got ELSE [got EXCEPT ![n] = Append(@, whole)]
           /\ UNCHANGED <<asked, faults, cause, lost>>

\* onReset: the peer does not hold the session it calls f.to.
onReset(n, r, f) ==
  LET mine == {s \in Range(r.sess) : s.ri = f.to}
  IN  Stays(n, IF mine = {} THEN r ELSE endSession(r, (CHOOSE s \in mine : TRUE).li)) /\ Quietly

Receive(n) ==
  LET w == st[Peer(n)].wire f == Head(w) r == st[n]
  IN  /\ w # <<>> /\ r.up
      /\ \/ f.k = "init" /\ onInit(n, r, f)
         \/ f.k = "resp" /\ onResp(n, r, f)
         \/ f.k = "data" /\ onData(n, r, f)
         \/ f.k = "reset" /\ onReset(n, r, f)
         \/ f.k = "unreachable" /\ Stays(n, dropAll(r)) /\ Quietly

-----------------------------------------------------------------------------
(* Time and the sweep *)

HandshakeTimeout(n) ==
  /\ st[n].pend # 0
  /\ IF \A m \in Node : st[m].wire = <<>> THEN UNCHANGED faults ELSE Adverse
  /\ st' = [st EXCEPT ![n] = failPending(@)]
  /\ Excuse(FALSE, TRUE)
  /\ UNCHANGED <<asked, got, lost>>

\* maybeRekey: the initiator of the session in use makes the next one when due, at
\* any use of it or sweep.
Rekey(n) ==
  LET r == st[n]
  IN  /\ r.up /\ r.pend = 0 /\ r.index < MaxIndex
      /\ \E s \in Range(r.sess) : s.init /\ ~s.ret
      /\ st' = [st EXCEPT ![n] = initiate(r)]
      /\ Quietly

\* A responder's session outlives the rekey interval and the grace.
Age(n) ==
  /\ Adverse
  /\ \E s \in Range(st[n].sess) :
       ~s.init /\ ~s.old /\ st' = [st EXCEPT ![n] = Put(@, [s EXCEPT !.old = TRUE])]
  /\ UNCHANGED <<asked, got, cause, lost>>

\* Nothing of the session s of n is under way: no frame, no handshake, and no
\* message at the peer.
Quiet(n, s) ==
  /\ \A m \in Node : st[m].wire = <<>>
  /\ LET o == st[Peer(n)].out
     IN  ~o.waits /\ (o # NoOut => Get(st[Peer(n)], o.li).ri # s.li)

\* sweep: idle, expired or retired sessions end.
Sweep(n) ==
  /\ \E s \in Range(st[n].sess) :
       /\ LET free == s.part = 0 /\ st[n].out.li # s.li
          IN  \/ Quiet(n, s) /\ Adverse /\ Excuse(FALSE, TRUE)
              \/ expired(s) /\ free /\ Excuse(FALSE, TRUE) /\ UNCHANGED faults
              \/ s.ret /\ Quiet(n, s) /\ free /\ UNCHANGED <<cause, faults>>
       /\ st' = [st EXCEPT ![n] = endSession(@, s.li)]
  /\ UNCHANGED <<asked, got, lost>>

-----------------------------------------------------------------------------
(* The relay *)

\* A member's connection to the relay drops: its sessions go (onRelayState), and
\* so do the frames it had not written.
Drop(n) ==
  /\ st[n].up /\ Adverse
  /\ \E k \in 0..Len(st[n].wire) :
       st' = [st EXCEPT ![n] = [dropAll(@) EXCEPT !.up = FALSE, !.wire = SubSeq(@, 1, k)]]
  /\ Excuse(FALSE, TRUE)
  /\ UNCHANGED <<asked, got, lost>>

Reconnect(n) ==
  /\ ~st[n].up /\ st' = [st EXCEPT ![n].up = TRUE] /\ Quietly

\* A frame to a member that is not connected: the sender is told, unless the frame
\* died with the connection.
Bounce(n) ==
  /\ ~st[n].up /\ st[Peer(n)].wire # <<>>
  /\ \/ Stays(n, st[n])
     \/ Head(st[Peer(n)].wire).k # "unreachable" /\ Stays(n, Tx(st[n], Plain("unreachable", 0, 0)))
  /\ Quietly

\* The relay repeats a frame.
Repeat(n) ==
  /\ st[n].wire # <<>> /\ Adverse
  /\ st' = [st EXCEPT ![n].wire = <<Head(@)>> \o @]
  /\ Excuse(FALSE, Head(st[n].wire).k = "data")
  /\ UNCHANGED <<asked, got, lost>>

-----------------------------------------------------------------------------
Next == \E n \in Node :
  \/ Send(n) \/ Fragment(n) \/ Receive(n)
  \/ HandshakeTimeout(n) \/ Rekey(n) \/ Age(n) \/ Sweep(n)
  \/ Drop(n) \/ Reconnect(n) \/ Bounce(n) \/ Repeat(n)

Spec == Init /\ [][Next]_vars

-----------------------------------------------------------------------------
D == INSTANCE Delivery

TypeOK == \A n \in Node :
  /\ st[n].index \in 0..MaxIndex /\ Len(st[n].sess) <= MaxSessions
  /\ st[n].cur \in Held(st[n]) \cup {0}
  /\ Cardinality(Held(st[n])) = Len(st[n].sess)

(* The client keeps its promise of delivery (member.go, Send): whatever is rekeyed,
   dropped, repeated or timed out, messages are given to the application whole, in
   order and at most once. *)
AtMostOnceInOrder == D!DSpec

(* Rekeying loses nothing: a data frame finds no session only after something that
   may lose one (a dropped connection, a handshake that timed out or crossed
   another, an idle, expired or evicted session, a repeated data frame).  A message
   under way on the old session, or sent on it before the new one is known, still
   arrives; a repeated init takes nobody's session (sessions.go, adopt, onInit,
   sweep). *)
LossHasCause == TypeOK /\ ~lost

(* No send is left with nothing to finish it: a message that waits for a session has
   a handshake under way, whose timer fails it, and one that has begun is on a session
   still held, which its peer answers or the sweep ends; however handshakes cross and
   connections drop (sessions.go, startHead, failPending, endSession). *)
NoSendStranded == \A n \in Node : st[n].out # NoOut =>
  IF st[n].out.waits THEN st[n].pend # 0 /\ st[n].up ELSE st[n].out.li \in Held(st[n])

(* Two members at rest share the session each of them would use next, if no handshakes
   crossed and nothing adverse happened (sessions.go, adopt, sweep).  When two do cross,
   each side keeps as current the session the other has retired, and the sweep forgets
   it after the grace: then the next message each way is lost to a reset.  Weaken the
   last conjunct of the hypothesis to cause # "other" to see it. *)
CurrentIsShared ==
  /\ \A n \in Node : st[n].up /\ st[n].wire = <<>> /\ st[n].pend = 0
  /\ cause = "none"
  => \A n \in Node : st[n].cur # 0 => Get(st[n], st[n].cur).ri \in Held(st[Peer(n)])
=============================================================================
