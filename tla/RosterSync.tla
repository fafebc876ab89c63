---------------------------- MODULE RosterSync ------------------------------
(***************************************************************************)
(* How a new roster reaches every member (client-go/member.go, primary.go, *)
(* role.go; the relay's side, network.go): published by the primary to the *)
(* relay and to each member, coalesced per peer, tried again when a push   *)
(* fails, handed over at registration, spread between members whose        *)
(* handshakes show different versions, and asked for.  With that: who is   *)
(* the primary, and a second holder of the seed claiming it.               *)
(*                                                                         *)
(* A node's handlers run under its lock, so each is one action.  A session *)
(* is only whether a send over it succeeds or fails.  Messages in flight   *)
(* wait in the sender's socket, then on the way to the receiver, in order; *)
(* a connection that drops loses both its queues, and the relay drops what *)
(* it has for a node that is not connected.                                *)
(***************************************************************************)
EXTENDS Integers, Sequences, SequencesExt

CONSTANTS Node,
          First,     \* the primary of the first roster
          Seeds,     \* the nodes that hold the network seed
          MaxVersion,\* bound: roster versions
          MaxFaults  \* bound: drops, restarts and handshakes that show versions

VARIABLES held,     \* Member.roster
          relay,    \* the relay's roster
          link,     \* each node's relay connection: off, on, revoked
          claiming, \* Member.claiming
          ro,       \* Member.rosterOut
          retry,    \* primaryState.retries: the version a live timer will push; 0: none
          hint,     \* askPrimary: idle, recent (asked within the wait), deferred
          sock,     \* what each node's socket has not written
          inbox,    \* what is on its way to each node
          mine,     \* history: the node, since it started, published the roster it holds
          handed,   \* history: the peers it has handed that roster over for
          lost,     \* history: the newest version each node behind it will not get: lost on
                    \* its way, or still owed by a primary that ended
          faults

vars == <<held, relay, link, claiming, ro, retry, hint, sock, inbox, mine, handed, lost, faults>>

Relay == "relay"
NoRoster == [v |-> 0, primary |-> First, mem |-> {}]
NoOut == [gap |-> FALSE, timer |-> FALSE, again |-> FALSE, sending |-> NoRoster]
IsPrimary(n, r) == n \in Seeds /\ r.primary = n

Init ==
  LET r == [v |-> 1, primary |-> First, mem |-> Node] IN
  /\ held = [n \in Node |-> r]
  /\ relay = NoRoster
  /\ link = [n \in Node |-> "off"]
  /\ claiming = [n \in Node |-> FALSE]
  /\ ro = [n \in Node |-> [m \in Node |-> NoOut]]
  /\ retry = [n \in Node |-> [m \in Node |-> 0]]
  /\ hint = [n \in Node |-> "idle"]
  /\ sock = [n \in Node |-> <<>>]
  /\ inbox = [n \in Node |-> <<>>]
  /\ mine = [n \in Node |-> FALSE]
  /\ handed = [n \in Node |-> {}]
  /\ lost = [n \in Node |-> 0]
  /\ faults = 0

-----------------------------------------------------------------------------
(* One node's steps, as values *)

\* A node's own state, so that a handler can do one thing after another.
Self(n) == [r |-> held[n], ro |-> ro[n], retry |-> retry[n], hint |-> hint[n],
            sock |-> sock[n], mine |-> mine[n], handed |-> handed[n]]

Becomes(n, s) ==
  /\ held' = [held EXCEPT ![n] = s.r]
  /\ ro' = [ro EXCEPT ![n] = s.ro]
  /\ retry' = [retry EXCEPT ![n] = s.retry]
  /\ hint' = [hint EXCEPT ![n] = s.hint]
  /\ sock' = [sock EXCEPT ![n] = s.sock]
  /\ mine' = [mine EXCEPT ![n] = s.mine]
  /\ handed' = [handed EXCEPT ![n] = s.handed]

\* What was lost to n matters only while it is behind it.
Caught(n, v) == lost' = [lost EXCEPT ![n] = IF @ <= v THEN 0 ELSE @]

\* The frames X are lost on their way.
Loses(X) ==
  lost' = [n \in Node |-> Max({lost[n]} \union
                             {x.r.v : x \in {y \in X : y.to = n /\ y.r.v > held[n].v}})]

Roster(n, m, r) == [typ |-> "roster", from |-> n, to |-> m, r |-> r]
Ask(n, m) == [typ |-> "ask", from |-> n, to |-> m, r |-> NoRoster]
Sends(s, msg) == [s EXCEPT !.sock = Append(@, msg)]

\* Variant: a roster newer than the one being sent is not noted.
SendRosterForgets(s, n, m) ==
  IF m = n \/ m \notin s.r.mem \/ s.ro[m].timer \/ s.ro[m].sending.v # 0 THEN s
  ELSE IF s.ro[m].gap THEN [s EXCEPT !.ro[m].timer = TRUE]
  ELSE [s EXCEPT !.ro[m].sending = s.r, !.ro[m].gap = TRUE]

\* sendRoster: at most one each gap, those asked for in between coalesced, and
\* none while one as new still waits to be written.
sendRoster(s, n, m) ==
  LET o == s.ro[m]
      waits == \E x \in Range(s.sock) : x.typ = "roster" /\ x.to = m /\ x.r.v >= s.r.v
  IN IF m = n \/ m \notin s.r.mem \/ o.timer THEN s
     ELSE IF o.sending.v # 0 THEN [s EXCEPT !.ro[m].again = TRUE]
     ELSE IF waits THEN s
     ELSE IF o.gap THEN [s EXCEPT !.ro[m].timer = TRUE]
     ELSE [s EXCEPT !.ro[m].sending = s.r, !.ro[m].gap = TRUE]

SendAll(s, n, M) == FoldSet(LAMBDA m, t : sendRoster(t, n, m), s, M)

\* askPrimary: now (which fails at once while not connected), or deferred to the
\* end of the wait.
askPrimary(s, n, on) ==
  IF s.r.primary = n THEN s
  ELSE IF s.hint # "idle" THEN [s EXCEPT !.hint = "deferred"]
  ELSE IF on THEN Sends([s EXCEPT !.hint = "recent"], Ask(n, s.r.primary))
  ELSE [s EXCEPT !.hint = "recent"]

\* adoptRoster, with rosterChanged (the sends to nodes that left fail) and
\* syncRole (a node that stops being the primary drops its retries).
adoptRoster(s, n, r) ==
  [s EXCEPT !.r = r, !.mine = FALSE, !.handed = {},
            !.hint = IF @ = "deferred" THEN "recent" ELSE @,
            !.ro = [m \in Node |-> IF m \in r.mem THEN @[m] ELSE NoOut],
            !.retry = [m \in Node |-> IF m \in r.mem /\ IsPrimary(n, r) THEN @[m] ELSE 0]]

\* Variant: only the next version is taken.
OfferNextOnly(s, n, r) == IF r.v = s.r.v + 1 THEN adoptRoster(s, n, r) ELSE s

\* AcceptanceProblem: every roster here is signed, so only a newer one is taken.
offerRoster(s, n, r) == IF r.v > s.r.v THEN adoptRoster(s, n, r) ELSE s

\* onPeerVersion: ask a peer that is ahead (or, when that fails, the primary);
\* hand this roster to one that is behind.
onPeerVersion(s, n, m, v, ok) ==
  IF v > s.r.v THEN (IF ok THEN Sends(s, Ask(n, m)) ELSE askPrimary(s, n, TRUE))
  ELSE IF v < s.r.v /\ m # n THEN sendRoster(s, n, m)
  ELSE s

\* pushed: how a push of version v to m went.
pushed(s, n, m, v, ok) ==
  IF ~IsPrimary(n, s.r) THEN s
  ELSE IF ok \/ v < s.r.v \/ m \notin s.r.mem
  THEN [s EXCEPT !.retry[m] = IF @ <= v \/ @ < s.r.v \/ m \notin s.r.mem THEN 0 ELSE @]
  ELSE [s EXCEPT !.retry[m] = v]

\* sendRoster's completion for m: the session took the frame, or there is none.
SendDone(s, n, m, ok) ==
  LET r == s.ro[m].sending
      t == [s EXCEPT !.ro[m].sending = NoRoster, !.ro[m].again = FALSE,
                     !.handed = IF ok /\ s.mine /\ r = s.r THEN @ \union {m} ELSE @]
      u == pushed(IF ok THEN Sends(t, Roster(n, m, r)) ELSE t, n, m, r.v, ok)
  IN IF s.ro[m].again THEN sendRoster(u, n, m) ELSE u

\* publish from the state s: adopted, pushed to the relay (if connected) and to
\* every member but except.
publish(s, n, r, except, on) ==
  LET t == [adoptRoster(s, n, r) EXCEPT !.mine = TRUE, !.handed = {except} \ {n}] IN
  SendAll(IF on THEN Sends(t, Roster(n, Relay, r)) ELSE t, n, r.mem \ {n, except})

-----------------------------------------------------------------------------
(* The primary *)

\* The roster n holds is still to go to m.
Pending(n, m) ==
  \/ ro[n][m].timer
  \/ ro[n][m].sending.v # 0 /\ (ro[n][m].sending.v = held[n].v \/ ro[n][m].again)
  \/ retry[n][m] = held[n].v

CanPublish(n) == link[n] # "revoked" /\ IsPrimary(n, held[n]) /\ held[n].v < MaxVersion
Newer(n) == [held[n] EXCEPT !.v = @ + 1]

\* Revoke, or onResign.
Revoke(n, m) ==
  /\ CanPublish(n)
  /\ m \in held[n].mem \ {n}
  /\ Becomes(n, publish(Self(n), n, [Newer(n) EXCEPT !.mem = @ \ {m}], n, link[n] = "on"))
  /\ UNCHANGED <<relay, link, claiming, inbox, lost, faults>>

\* Another member comes or goes: a roster that changes nothing for these nodes.
Change(n) ==
  /\ CanPublish(n)
  /\ Becomes(n, publish(Self(n), n, Newer(n), n, link[n] = "on"))
  /\ UNCHANGED <<relay, link, claiming, inbox, lost, faults>>

\* completePairing: a node revoked before pairs again.  It has the roster from
\* P6 and is not pushed to; it starts on it as a new member.
Admit(n, m) ==
  /\ CanPublish(n) /\ link[n] = "on"
  /\ m \notin held[n].mem /\ link[m] = "revoked"
  /\ LET r == [Newer(n) EXCEPT !.mem = @ \union {m}]
         s == publish(Self(n), n, r, m, TRUE)
     IN /\ held' = [held EXCEPT ![n] = r, ![m] = r]
        /\ ro' = [ro EXCEPT ![n] = s.ro, ![m] = [x \in Node |-> NoOut]]
        /\ retry' = [retry EXCEPT ![n] = s.retry]
        /\ hint' = [hint EXCEPT ![n] = s.hint, ![m] = "idle"]
        /\ sock' = [sock EXCEPT ![n] = s.sock, ![m] = <<>>]
        /\ mine' = [mine EXCEPT ![n] = TRUE]
        /\ handed' = [handed EXCEPT ![n] = s.handed]
        /\ link' = [link EXCEPT ![m] = "off"]
        /\ claiming' = [claiming EXCEPT ![m] = FALSE]
        /\ Loses(Range(sock[m]))
  /\ UNCHANGED <<relay, inbox, faults>>

\* The retry timer.
RetryFires(n, m) ==
  /\ retry[n][m] # 0
  /\ LET s == [Self(n) EXCEPT !.retry[m] = 0] IN
     Becomes(n, IF retry[n][m] = held[n].v THEN sendRoster(s, n, m) ELSE s)
  /\ UNCHANGED <<relay, link, claiming, inbox, lost, faults>>

-----------------------------------------------------------------------------
(* Any member *)

\* The gap since the last roster to m is over; a coalesced send is due.
GapEnds(n, m) ==
  /\ ro[n][m].gap
  /\ LET s == [Self(n) EXCEPT !.ro[m].gap = FALSE, !.ro[m].timer = FALSE] IN
     Becomes(n, IF ro[n][m].timer THEN sendRoster(s, n, m) ELSE s)
  /\ UNCHANGED <<relay, link, claiming, inbox, lost, faults>>

\* A session needs both nodes connected and each on the other's roster; without
\* one the send fails (unreachable, or the handshake timed out).
SendEnds(n, m, ok) ==
  /\ ro[n][m].sending.v # 0
  /\ ok => link[n] = "on" /\ link[m] = "on" /\ n \in held[m].mem
  /\ Becomes(n, SendDone(Self(n), n, m, ok))
  /\ UNCHANGED <<relay, link, claiming, inbox, lost, faults>>

\* onSessionControl: a roster, or a request for one.  A node whose new roster
\* does not list it is revoked.
Receive(n) ==
  /\ link[n] = "on" /\ inbox[n] # <<>>
  /\ LET x == Head(inbox[n])
         s == IF x.typ = "ask" THEN sendRoster(Self(n), n, x.from)
              ELSE offerRoster(Self(n), n, x.r)
     IN /\ Becomes(n, IF n \in s.r.mem THEN s ELSE [s EXCEPT !.sock = <<>>])
        /\ link' = [link EXCEPT ![n] = IF n \in s.r.mem THEN @ ELSE "revoked"]
        /\ inbox' = [inbox EXCEPT ![n] = IF n \in s.r.mem THEN Tail(@) ELSE <<>>]
        /\ Caught(n, s.r.v)
  /\ UNCHANGED <<relay, claiming, faults>>

\* The wait after an ask is over; a deferred one goes now.
HintWaitEnds(n) ==
  /\ hint[n] # "idle"
  /\ LET s == [Self(n) EXCEPT !.hint = "idle"] IN
     Becomes(n, IF hint[n] = "deferred" THEN askPrimary(s, n, link[n] = "on") ELSE s)
  /\ UNCHANGED <<relay, link, claiming, inbox, lost, faults>>

\* A handshake from m shows n its version (onInit, onResp).
Meet(n, m, ok) ==
  /\ n # m /\ link[n] = "on" /\ link[m] = "on" /\ faults < MaxFaults
  /\ m \in held[n].mem /\ n \in held[m].mem /\ held[n].v # held[m].v
  /\ Becomes(n, onPeerVersion(Self(n), n, m, held[m].v, ok))
  /\ faults' = faults + 1
  /\ UNCHANGED <<relay, link, claiming, inbox, lost>>

-----------------------------------------------------------------------------
(* The relay's side, and connections *)

\* adoptLocked's eviction: the relay closes 4008 every connection of a node that
\* the roster r does not list, and what was queued for it goes with it. Its reader may
\* still be handling what came before.
Closed(r) == {n \in Node : link[n] = "on" /\ n \notin r.mem}
Emptied(q, N) == [n \in Node |-> IF n \in N THEN <<>> ELSE q[n]]
Revoked(N) == [n \in Node |-> IF n \in N THEN "revoked" ELSE link[n]]

\* The socket writes n's next frame, which the relay takes in order: a roster of
\* its own (pushRoster), or a frame it forwards (route).
Written(n) ==
  /\ sock[n] # <<>>
  /\ sock' = [sock EXCEPT ![n] = Tail(@)]
  /\ LET x == Head(sock[n])
     IN IF x.to = Relay
        THEN LET C == IF x.r.v > relay.v THEN Closed(x.r) ELSE {} IN
             /\ relay' = IF x.r.v > relay.v THEN x.r ELSE relay
             /\ link' = Revoked(C)
             /\ inbox' = Emptied(inbox, C)
             /\ UNCHANGED lost
        ELSE /\ IF link[x.to] = "on"
                THEN inbox' = [inbox EXCEPT ![x.to] = Append(@, x)] /\ UNCHANGED lost
                ELSE Loses({x}) /\ UNCHANGED inbox
             /\ UNCHANGED <<relay, link>>
  /\ UNCHANGED <<held, claiming, ro, retry, hint, mine, handed, faults>>

\* The relay's admit, the member's onRegistered, and claim at the first
\* registration.  The newer of the roster presented and the relay's holds, the
\* relay's when neither is; a node it does not list is refused.  The relay
\* returns its own when that is newer, or (compact) only its version.
Register(n, compact) ==
  /\ link[n] = "off"
  /\ IF relay.v >= held[n].v /\ n \notin relay.mem
     THEN /\ link' = [link EXCEPT ![n] = "revoked"]
          /\ UNCHANGED <<held, relay, claiming, ro, retry, hint, sock, inbox, mine, handed, lost>>
     ELSE LET eff == IF held[n].v > relay.v THEN held[n] ELSE relay
              got == IF relay.v <= held[n].v THEN Self(n)
                     ELSE IF compact THEN askPrimary(Self(n), n, TRUE)
                     ELSE offerRoster(Self(n), n, relay)
              claims == claiming[n] /\ got.r.primary # n /\ got.r.v < MaxVersion
              s == IF claims
                   THEN publish(got, n, [got.r EXCEPT !.v = @ + 1, !.primary = n], n, TRUE)
                   ELSE got
          IN /\ relay' = eff
             /\ link' = [Revoked(Closed(eff)) EXCEPT ![n] = "on"]
             /\ claiming' = [claiming EXCEPT ![n] = FALSE]
             /\ Becomes(n, s)
             /\ inbox' = Emptied(inbox, Closed(eff))
             /\ Caught(n, s.r.v)
  /\ UNCHANGED faults

\* onRelayState: the connection drops, and the sends under way fail.
Drop(n) ==
  /\ link[n] = "on" /\ faults < MaxFaults
  /\ link' = [link EXCEPT ![n] = "off"]
  /\ Becomes(n, FoldSet(LAMBDA m, s : SendDone(s, n, m, FALSE), [Self(n) EXCEPT !.sock = <<>>],
                        {m \in Node : ro[n][m].sending.v # 0}))
  /\ inbox' = [inbox EXCEPT ![n] = <<>>]
  /\ Loses(Range(sock[n]) \union Range(inbox[n]))
  /\ faults' = faults + 1
  /\ UNCHANGED <<relay, claiming>>

\* The process ends and starts again on the roster it held (newMember, start);
\* what a primary still owed is owed no more.
Restart(n) ==
  /\ link[n] # "revoked" /\ faults < MaxFaults
  /\ link' = [link EXCEPT ![n] = "off"]
  /\ claiming' = [claiming EXCEPT ![n] = n \in Seeds /\ held[n].primary # n]
  /\ Becomes(n, [r |-> held[n], ro |-> [m \in Node |-> NoOut], retry |-> [m \in Node |-> 0],
                 hint |-> "idle", sock |-> <<>>, mine |-> FALSE, handed |-> {}])
  /\ inbox' = [inbox EXCEPT ![n] = <<>>]
  /\ Loses(Range(sock[n]) \union Range(inbox[n]) \union
           {Roster(n, m, held[n]) : m \in {x \in Node : IsPrimary(n, held[n]) /\ Pending(n, x)}})
  /\ faults' = faults + 1
  /\ UNCHANGED relay

\* The relay restarts, or trims a network nobody is connected to.
RelayForgets ==
  /\ relay # NoRoster /\ faults < MaxFaults
  /\ \A n \in Node : link[n] # "on"
  /\ relay' = NoRoster
  /\ faults' = faults + 1
  /\ UNCHANGED <<held, link, claiming, ro, retry, hint, sock, inbox, mine, handed, lost>>

Next ==
  \/ \E n \in Node : \/ Change(n) \/ HintWaitEnds(n) \/ Drop(n) \/ Restart(n)
                     \/ Receive(n) \/ Written(n)
  \/ \E n \in Node, b \in BOOLEAN : Register(n, b)
  \/ \E n, m \in Node : Revoke(n, m) \/ Admit(n, m) \/ RetryFires(n, m) \/ GapEnds(n, m)
  \/ \E n, m \in Node, b \in BOOLEAN : SendEnds(n, m, b) \/ Meet(n, m, b)
  \/ RelayForgets

Spec == Init /\ [][Next]_vars

-----------------------------------------------------------------------------
(* Properties *)

TypeOK ==
  /\ \A n \in Node : held[n].v \in 1..MaxVersion /\ held[n].primary \in Seeds
  /\ relay.v \in 0..MaxVersion
  /\ link \in [Node -> {"off", "on", "revoked"}]
  /\ hint \in [Node -> {"idle", "recent", "deferred"}]

\* The primary n has published the roster it holds since it started.
Published(n) ==
  link[n] # "revoked" /\ IsPrimary(n, held[n]) /\ mine[n]

\* No push is forgotten, however publications, coalescing, failures, retries and
\* drops interleave: for each member the newest roster has been handed over, or
\* is being sent, due, or to be tried again; and while the primary is connected
\* the relay has that version, or a newer, or it is on its way there ("tried again ... until it goes",
\* spec/protocol.md section 8).
NewestIsOwed ==
  /\ TypeOK
  /\ \A n \in Node : Published(n) =>
       /\ \A m \in held[n].mem \ {n} : m \in handed[n] \/ Pending(n, m)
       /\ link[n] = "on" =>
            relay.v >= held[n].v \/ \E x \in Range(sock[n]) : x.to = Relay /\ x.r.v = held[n].v

\* A connected member is behind the primary, whether or not the primary was
\* restarted, only while the newest roster is on its way to it, after the frame
\* that carried it was lost with a connection, or after the primary ended while
\* it still owed it (retries and coalesced sends are not kept across a restart):
\* nothing else leaves a member on an old roster.
NoneLeftBehind ==
  \A n \in Node : link[n] # "revoked" /\ IsPrimary(n, held[n]) =>
    \A m \in held[n].mem \ {n} :
      (link[m] = "on" /\ held[m].v < held[n].v) =>
        \/ Pending(n, m)
        \/ \E x \in Range(inbox[m]) \union Range(sock[n]) : x.to = m /\ x.r.v >= held[n].v
        \/ lost[m] >= held[n].v
=============================================================================
