----------------------------- MODULE LinkProofs -----------------------------
(***************************************************************************)
(* Theorems about a client's connection to its relay (RelayLink), for any  *)
(* number of dials, messages and frames a socket may hold; about the       *)
(* stamps of handshakes (Stamps), for any members, window, cap and clocks; *)
(* and about the ends of a pairing channel (Pairing), for any members and  *)
(* newcomers, whatever the registry does underneath.                       *)
(*                                                                         *)
(* The connection's invariant, LinkInv, says what brings a client to its   *)
(* connection at each of its states (Way), which results messages have     *)
(* (Results), and, at each point where the pump has stopped to look at the *)
(* channel, what it can count on (Holder, Woken). PumpIsWoken speaks only  *)
(* of states in which the lock is free; the rest of Woken is what it rests *)
(* on between them.                                                        *)
(*                                                                         *)
(* The stamps' invariant, StampInv: what refuses a member's recorded inits *)
(* (the stamp stored while it is on the roster, the one retained while it  *)
(* is not) is at least every stamp accepted from it, and is itself the     *)
(* stamp of an init that was accepted.                                     *)
(*                                                                         *)
(* Pairing's invariant, PairInv, counts the ends that were sent along the  *)
(* calls of endChannel under way: at most one call of a channel is past    *)
(* the lock (OneRuns), a channel in the table has had no end (Fresh), a    *)
(* call past the lock has sent what its place says and leaves the primary  *)
(* out only where that is right (Ends), and whoever left members is        *)
(* closing (Departed), so a primary that is owed its pairEnd has had it    *)
(* (Heard).                                                                *)
(***************************************************************************)
EXTENDS RelayLink, Stamps, Pairing, TLAPS

\* What is known of a channel.
Chan == [q : Nat, closeq : BOOLEAN, closing : BOOLEAN, dead : BOOLEAN, want : BOOLEAN, low : BOOLEAN,
         pc : {"none", "idle", "busy", "wrote", "drain", "gone"}]

\* The types of the connection, of the channels and the lock, and of the messages.
ConnTypes ==
  /\ state \in Terminal \union {"disconnected", "connecting", "connected"}
  /\ gen \in 0..MaxGen /\ cur \in 0..gen /\ dials \subseteq 1..gen /\ resolving \subseteq 1..gen

ChanTypes ==
  /\ chan \in [Gen -> Chan]
  /\ lock \in [pc : {"free", "pump", "want", "look", "rewant", "relook"}, by : 0..MaxGen]

MsgTypes ==
  /\ out \in [Send -> {"idle", "offline", "queued", "ok", "failed"}]
  /\ otimers \subseteq Send
  /\ results \in [Send -> Nat]

\* Exactly one thing brings a client that is not in a terminal state to its connection: the
\* reconnect timer, a resolver, a dial, or the channel itself.
Way ==
  /\ IF terminal THEN ~timer /\ cur = 0
     ELSE /\ state = "disconnected" => timer \/ gen \in resolving
          /\ timer \/ gen \in resolving => state = "disconnected"
          /\ ~(timer /\ gen \in resolving)
          /\ state = "connecting" => (gen \in dials /\ cur = 0) \/ (gen \notin dials /\ cur = gen)
          /\ state = "connected" => cur = gen /\ gen \notin dials
          /\ state = "disconnected" => cur = 0 /\ gen \notin dials
  /\ stopping => terminal
  /\ state \in {"connecting", "connected"} => gen > 0

\* The writer of channel c holds, or is going to come to, a drain to report.
Coming(c) ==
  \/ chan[c].pc = "drain" /\ lock.by # c
  \/ /\ chan[c].want /\ ~chan[c].dead
     /\ chan[c].q > 0 \/ chan[c].pc = "busy" \/ (chan[c].pc = "wrote" /\ chan[c].low)

\* What the lock's holder knows while it holds it.
Holder ==
  /\ lock.pc = "free" => lock.by = 0
  /\ lock.by # 0 => chan[lock.by].pc = "drain" /\ cur \in {0, lock.by}
  /\ lock.pc \in {"want", "look", "rewant", "relook"} => cur # 0
  /\ lock.pc \in {"rewant", "relook"} => lock.by = cur /\ ~writable(cur)
  /\ lock.pc = "relook" => chan[cur].want

\* At each point of the pump, what a message that waits for the socket can count on. The pump
\* asks to be woken before it looks (want, then look), so the writer sees the wish or the pump
\* sees the room.
Woken ==
  /\ In("queued") # {} => state = "connected"
  /\ lock.pc \in {"free", "rewant", "relook"} => (In("queued") # {} => awaiting)
  /\ awaiting => cur # 0
  /\ lock.pc \in {"free", "pump"} => (awaiting => waiters /\ Coming(cur))
  /\ lock.pc \in {"rewant", "relook"} => (awaiting => waiters)
  /\ lock.pc \in {"want", "look"} => awaiting
  /\ lock.pc = "look" => chan[cur].want \/ chan[cur].dead \/ (chan[cur].pc = "drain" /\ lock.by # cur)

\* A message has its result once it is finished, and a timer while it waits offline.
Results ==
  \A o \in Send : /\ results[o] = IF out[o] \in {"ok", "failed"} THEN 1 ELSE 0
                  /\ (o \in otimers) <=> (out[o] = "offline")

\* A message waits offline only for a client that may yet connect.
Waiting == \A o \in Send : out[o] = "offline" => state \in {"disconnected", "connecting"}

\* The inductive invariant.
LinkInv == ConnTypes /\ ChanTypes /\ MsgTypes /\ Way /\ Results /\ Waiting /\ Holder /\ Woken

\* It holds of a client that has not dialled.
LEMMA LinkInit == Init => LinkInv
<1> SUFFICES ASSUME Init PROVE LinkInv
  BY ZenonT(60)
<1>1. ConnTypes /\ Way /\ MsgTypes /\ Results /\ Waiting
  BY LinkAssumption DEF Init, ConnTypes, Way, MsgTypes, Results, Waiting, terminal, Terminal
<1>2. ChanTypes
  BY LinkAssumption DEF Init, ChanTypes, NoChannel, Chan, Gen, Free
<1>3. Holder /\ Woken
  BY ZenonT(60) DEF Init, Holder, Woken, Free, In
<1> QED BY <1>1, <1>2, <1>3, ZenonT(60) DEF LinkInv

\* It gives the properties.
LEMMA LinkGives == LinkInv => OnItsWay /\ OneResult /\ PumpIsWoken
<1> SUFFICES ASSUME LinkInv PROVE OnItsWay /\ OneResult /\ PumpIsWoken
  BY ZenonT(60)
<1>1. OnItsWay
  BY ZenonT(60) DEF LinkInv, ConnTypes, MsgTypes, Way, OnItsWay, TypeOK
<1>2. PumpIsWoken
  BY DEF LinkInv, Woken, PumpIsWoken, Coming, WakeComing, Free
<1>3. OneResult
  BY ZenonT(60) DEF LinkInv, Results, Waiting, OneResult
<1> QED BY <1>1, <1>2, <1>3, ZenonT(60)

USE LinkAssumption

\* One channel changes.
\* One channel changes.
LEMMA Changed ==
  ASSUME ChanTypes, NEW c \in Gen, NEW k \in Chan, chan' = [chan EXCEPT ![c] = k]
  PROVE  chan' \in [Gen -> Chan] /\ chan'[c] = k /\ \A d \in Gen : d # c => chan'[d] = chan[d]
  BY ZenonT(60) DEF ChanTypes

\* Close leaves the writer where it is.
LEMMA ClosedFields ==
  ASSUME NEW k \in Chan
  PROVE  closed(k) \in Chan /\ closed(k).pc = k.pc
  BY ZenonT(60) DEF closed, Chan

\* So does abort.
LEMMA AbortedFields ==
  ASSUME NEW k \in Chan
  PROVE  aborted(k) \in Chan /\ aborted(k).pc = k.pc /\ aborted(k).dead
  BY ZenonT(60) DEF aborted, Chan

\* send adds a frame or nothing.
LEMMA SentFields ==
  ASSUME NEW k \in Chan
  PROVE  /\ Sent(k) \in Chan /\ Sent(k).pc = k.pc /\ (Sent(k).want <=> k.want) /\ (Sent(k).dead <=> k.dead)
         /\ (Sent(k).low <=> k.low) /\ Sent(k).q >= k.q
  BY DEF Sent, Chan

\* Finish gives a result to messages that had none.
\* Messages that had no result get one.
LEMMA Finished ==
  ASSUME MsgTypes, Results, NEW S \in SUBSET Send, \A o \in S : out[o] \notin {"ok", "failed"},
         NEW how \in {"ok", "failed"}, Finish(S, how)
  PROVE  MsgTypes' /\ Results' /\ \A o \in Send : out'[o] = IF o \in S THEN how ELSE out[o]
<1>1. MsgTypes'
  BY DEF Finish, MsgTypes
<1>2. Results'
  BY DEF Finish, MsgTypes, Results
<1> QED BY <1>1, <1>2, ZenonT(60) DEF Finish

\* admit queues messages that had no result, or fails them.
\* Those admitted are queued or failed.
LEMMA Admitted ==
  ASSUME MsgTypes, Results, NEW S \in SUBSET Send, \A o \in S : out[o] \notin {"ok", "failed"}, admit(S)
  PROVE  MsgTypes' /\ Results' /\ \A o \in Send : IF o \in S THEN out'[o] \in {"queued", "failed"} ELSE out'[o] = out[o]
<1>1. PICK bad \in SUBSET S :
    /\ out' = [o \in Send |-> IF o \in bad THEN "failed" ELSE IF o \in S THEN "queued" ELSE out[o]]
    /\ results' = [o \in Send |-> IF o \in bad THEN results[o] + 1 ELSE results[o]]
    /\ otimers' = otimers \ S
  BY ZenonT(60) DEF admit
<1>2. MsgTypes'
  BY <1>1 DEF MsgTypes
<1>3. Results'
  BY <1>1 DEF MsgTypes, Results
<1> QED BY <1>1, <1>2, <1>3, ZenonT(60)

\* Leaving the connected state: nothing stays queued, and nothing waits offline in a terminal one.
\* onRelayState: a lost connection leaves nothing queued, and a terminal state nothing waiting.
LEMMA Dropped ==
  ASSUME LinkInv, NEW s \in Terminal \union {"disconnected"}, state' = s, onRelayState(s)
  PROVE  MsgTypes' /\ Results' /\ Waiting' /\ In("queued")' = {}
<1> DEFINE S == In("queued") \union (IF s \in Terminal THEN In("offline") ELSE {})
<1>1. S \in SUBSET Send /\ \A o \in S : out[o] \notin {"ok", "failed"}
  BY ZenonT(60) DEF In
<1>2. Finish(S, "failed")
  BY ZenonT(60) DEF onRelayState
<1>3. MsgTypes' /\ Results' /\ \A o \in Send : out'[o] = IF o \in S THEN "failed" ELSE out[o]
  <2> HIDE DEF S
  <2> QED BY <1>1, <1>2, Finished, ZenonT(60) DEF LinkInv
<1>4. In("queued")' = {}
  BY <1>3, ZenonT(60) DEF In
<1>5. Waiting'
  BY <1>3, ZenonT(60) DEF Waiting, In, Terminal
<1> QED BY <1>3, <1>4, <1>5, ZenonT(60)

\* With the lock free, nothing queued and no pump waiting, there is nobody to wake.
\* With nothing queued and the lock free there is nothing to wake.
LEMMA Calm ==
  ASSUME lock' = Free, awaiting' = FALSE, In("queued")' = {}
  PROVE  Holder' /\ Woken'
  BY ZenonT(60) DEF Holder, Woken, Free

\* onClose: the client is disconnected with a timer, or terminal.
LEMMA OnCloseKeeps ==
  ASSUME LinkInv, lock = Free, cur # 0, NEW code, NEW s \in {"disconnected", "revoked", "replaced"},
         onClose(code, s), UNCHANGED <<gen, dials, stopping, lock>>, chan' \in [Gen -> Chan]
  PROVE  LinkInv'
<1>1. ~terminal /\ ~stopping
  BY ZenonT(60) DEF LinkInv, Way
<1>2. state' = s /\ onRelayState(s) /\ cur' = 0 /\ awaiting' = FALSE /\ waiters' = FALSE /\ challenge' = FALSE
  BY <1>1, ZenonT(60) DEF onClose, afterClose
<1>3. MsgTypes' /\ Results' /\ Waiting' /\ In("queued")' = {}
  BY <1>2, Dropped, ZenonT(60) DEF Terminal
<1>4. Holder' /\ Woken'
  BY <1>2, <1>3, Calm, ZenonT(60)
<1>5. ChanTypes'
  BY <1>2, ZenonT(60) DEF LinkInv, ChanTypes
<1>6. \/ s = "disconnected" /\ resolving' = resolving \union {gen} /\ timer' = timer
      \/ s = "disconnected" /\ timer' = TRUE /\ resolving' = resolving
      \/ s # "disconnected" /\ timer' = timer /\ resolving' = resolving
  BY <1>1, ZenonT(60) DEF onClose, afterClose, schedule
<1>7. gen > 0 /\ gen \notin dials /\ gen \notin resolving /\ ~timer /\ gen \in 0..MaxGen
  BY <1>1, ZenonT(60) DEF LinkInv, Way, terminal, Terminal, ConnTypes
<1>8. ConnTypes'
  <2>2. resolving' \subseteq 1..gen
    <3>1. resolving' = resolving \/ resolving' = resolving \union {gen}
      BY <1>6, ZenonT(60)
    <3>2. resolving \subseteq 1..gen /\ gen \in 1..gen
      BY <1>7 DEF LinkInv, ConnTypes
    <3> QED BY <3>1, <3>2, ZenonT(60)
  <2> QED BY <1>2, <1>7, <2>2 DEF LinkInv, ConnTypes, Terminal
<1>9. Way'
  <2>1. CASE s = "disconnected"
    BY <1>1, <1>2, <1>6, <1>7, <2>1 DEF Way, terminal, Terminal
  <2>2. CASE s # "disconnected"
    BY <1>1, <1>2, <1>6, <1>7, <2>2 DEF Way, terminal, Terminal
  <2> QED BY <2>1, <2>2, ZenonT(60)
<1> QED BY <1>3, <1>4, <1>5, <1>8, <1>9, ZenonT(60) DEF LinkInv

\* abandon: as if the channel had closed.
LEMMA AbandonKeeps ==
  ASSUME LinkInv, lock = Free, cur # 0, abandon(cur)
  PROVE  LinkInv'
<1>1. cur \in Gen
  BY DEF LinkInv, ConnTypes, Gen
<1>2. chan' \in [Gen -> Chan]
  BY <1>1, ClosedFields, Changed, ZenonT(60) DEF abandon, LinkInv, ChanTypes
<1> QED BY <1>2, OnCloseKeeps, ZenonT(60) DEF abandon

\* stop: the client is terminal and no timer is left.
LEMMA StopKeeps ==
  ASSUME LinkInv, lock = Free, NEW s \in Terminal, stop(s)
  PROVE  LinkInv'
<1>1. MsgTypes' /\ Results' /\ Waiting' /\ In("queued")' = {}
  BY Dropped, ZenonT(60) DEF stop
<1>2. Holder' /\ Woken'
  BY <1>1, Calm, ZenonT(60) DEF stop
<1>3. ChanTypes'
  BY ClosedFields, ZenonT(60) DEF stop, LinkInv, ChanTypes
<1>4. ConnTypes' /\ Way'
  BY DEF stop, LinkInv, ConnTypes, Way, terminal, Terminal
<1> QED BY <1>1, <1>2, <1>3, <1>4, ZenonT(60) DEF LinkInv


\* dial: a new generation is on its way.
LEMMA DialKeeps ==
  ASSUME LinkInv, dial
  PROVE  LinkInv'
<1> USE DEF LinkInv
<1>1. gen \in Nat /\ gen' = gen + 1 /\ gen' \in 0..MaxGen /\ cur = 0 /\ cur' = 0
  BY DEF dial, ConnTypes, Way, terminal, Terminal
<1>2. ConnTypes'
  BY <1>1 DEF dial, ConnTypes, Terminal
<1>3. gen' \notin resolving' /\ gen' \in dials' /\ state' = "connecting" /\ ~timer'
  BY <1>1 DEF dial, ConnTypes
<1>4. Way'
  BY <1>1, <1>3 DEF dial, Way, terminal, Terminal
<1>5. MsgTypes' /\ Results' /\ Waiting' /\ ChanTypes'
  BY ZenonT(60) DEF dial, msgs, MsgTypes, Results, Waiting, ChanTypes
<1>6. Holder' /\ Woken'
  <2>1. In("queued") = {} /\ ~awaiting
    BY <1>1, ZenonT(60) DEF dial, Woken
  <2> QED BY <2>1, ZenonT(60) DEF dial, msgs, Holder, Woken, Free, In
<1> QED BY <1>2, <1>4, <1>5, <1>6, ZenonT(60)

\* A frame is handed to the current channel, and nothing else of the link changes.
\* A frame sent on the channel takes nothing from the wake that is coming.
LEMMA SentKeeps ==
  ASSUME LinkInv, cur # 0, chan' = [chan EXCEPT ![cur] = Sent(@)], UNCHANGED <<cur, lock>>,
         lock.pc \in {"free", "pump"}
  PROVE  ChanTypes' /\ Holder' /\ (Coming(cur) => Coming(cur)')
<1> USE DEF LinkInv
<1>1. cur \in Gen /\ chan[cur] \in Chan
  BY DEF ConnTypes, ChanTypes, Gen
<1> DEFINE k == Sent(chan[cur])
<1>2. /\ k \in Chan /\ k.pc = chan[cur].pc /\ (k.want <=> chan[cur].want) /\ (k.dead <=> chan[cur].dead)
      /\ (k.low <=> chan[cur].low) /\ k.q >= chan[cur].q
  BY <1>1, SentFields, ZenonT(60)
<1>3. chan' = [chan EXCEPT ![cur] = k]
  BY ZenonT(60)
<1> HIDE DEF k
<1>4. chan' \in [Gen -> Chan] /\ chan'[cur] = k /\ \A d \in Gen : d # cur => chan'[d] = chan[d]
  BY <1>1, <1>2, <1>3, Changed, ZenonT(60)
<1>5. ChanTypes'
  BY <1>4, ZenonT(60) DEF ChanTypes
<1>6. k.q \in Nat /\ chan[cur].q \in Nat
  BY <1>1, <1>2, ZenonT(60) DEF Chan
<1>7. Coming(cur) => Coming(cur)'
  BY <1>2, <1>4, <1>6 DEF Coming
<1>8. Holder'
  <2>1. lock.by # 0 => lock.by \in Gen
    BY DEF ChanTypes, Gen
  <2> QED BY <1>2, <1>4, <2>1 DEF Holder
<1> QED BY <1>5, <1>7, <1>8, ZenonT(60)
\* The relay's hello arrives.
LEMMA HelloKeeps ==
  ASSUME LinkInv, Hello
  PROVE  LinkInv'
<1>1. CASE abandon(cur)
  BY <1>1, AbandonKeeps, ZenonT(60) DEF Hello
<1>2. CASE ~abandon(cur)
  <2> USE DEF LinkInv
  <2>1. /\ chan' = [chan EXCEPT ![cur] = Sent(@)]
        /\ UNCHANGED <<state, gen, dials, timer, resolving, stopping, cur, waiters, awaiting, lock, msgs>>
    BY <1>2, ZenonT(60) DEF Hello
  <2>2. ChanTypes' /\ Holder' /\ (Coming(cur) => Coming(cur)')
    BY <2>1, SentKeeps, ZenonT(60) DEF Hello, Free
  <2>3. ConnTypes' /\ Way'
    BY <2>1, ZenonT(60) DEF ConnTypes, Way, terminal
  <2>4. MsgTypes' /\ Results' /\ Waiting'
    BY <2>1, ZenonT(60) DEF msgs, MsgTypes, Results, Waiting
  <2>5. Woken'
    BY <2>1, <2>2, ZenonT(60) DEF Hello, msgs, Woken, Free, In, Coming
  <2> QED BY <2>2, <2>3, <2>4, <2>5, ZenonT(60)
<1> QED BY <1>1, <1>2, ZenonT(60)

\* The registration is confirmed; what waited offline is admitted.
LEMMA RegisteredKeeps ==
  ASSUME LinkInv, Registered
  PROVE  LinkInv'
<1>1. CASE stop("revoked")
  BY <1>1, StopKeeps, ZenonT(60) DEF Registered, Terminal
<1>2. CASE ~stop("revoked")
  <2> USE DEF LinkInv
  <2>1. /\ state' = "connected" /\ admit(In("offline")) /\ lock' = [pc |-> "pump", by |-> 0]
        /\ UNCHANGED <<gen, dials, timer, resolving, stopping, challenge, cur, chan, waiters, awaiting>>
    BY <1>2, ZenonT(60) DEF Registered
  <2>2. /\ MsgTypes' /\ Results'
        /\ \A o \in Send : IF o \in In("offline") THEN out'[o] \in {"queued", "failed"} ELSE out'[o] = out[o]
    <3>1. In("offline") \in SUBSET Send /\ \A o \in In("offline") : out[o] \notin {"ok", "failed"}
      BY ZenonT(60) DEF In
    <3> QED BY <2>1, <3>1, Admitted, ZenonT(60)
  <2>3. Waiting'
    BY <2>2, ZenonT(60) DEF Waiting, In
  <2>4. ConnTypes' /\ Way'
    BY <2>1, ZenonT(60) DEF Registered, ConnTypes, Way, terminal, Terminal
  <2>5. ChanTypes' /\ Holder'
    BY <2>1 DEF ChanTypes, Holder
  <2>6. Woken'
    BY <2>1, ZenonT(60) DEF Registered, Woken, Holder, Coming, Free
  <2> QED BY <2>2, <2>3, <2>4, <2>5, <2>6, ZenonT(60)
<1> QED BY <1>1, <1>2, ZenonT(60)

\* The client gives up on a connection, closes, or is revoked.
LEMMA EndsKeep ==
  ASSUME LinkInv, GivesUp \/ Close \/ Revoke
  PROVE  LinkInv'
  BY AbandonKeeps, StopKeeps, ZenonT(60) DEF GivesUp, Close, Revoke, Terminal

\* The reader of the channel ends.
LEMMA ReadEndsKeeps ==
  ASSUME LinkInv, NEW code \in {"abnormal", "notMember", "replaced", "moved"}, ReadEnds(code)
  PROVE  LinkInv'
<1>1. cur \in Gen
  BY DEF ReadEnds, LinkInv, ConnTypes, Gen
<1>2. chan' \in [Gen -> Chan]
  BY <1>1, AbortedFields, Changed, ZenonT(60) DEF ReadEnds, LinkInv, ChanTypes
<1>3. Leads(code) \in {"disconnected", "revoked", "replaced"}
  BY ZenonT(60) DEF Leads
<1> QED BY <1>2, <1>3, OnCloseKeeps, ZenonT(60) DEF ReadEnds

\* A resolver returns, for this generation or an old one.
LEMMA ResolvedKeeps ==
  ASSUME LinkInv, NEW g \in Gen, Resolved(g)
  PROVE  LinkInv'
<1> USE DEF LinkInv
<1>1. ConnTypes'
  BY ZenonT(60) DEF Resolved, ConnTypes
<1>2. Way'
  <2>1. CASE g = gen /\ state = "disconnected"
    BY <2>1, ZenonT(60) DEF Resolved, Way, terminal, Terminal
  <2>2. CASE ~(g = gen /\ state = "disconnected")
    BY <2>2, ZenonT(60) DEF Resolved, Way, terminal, Terminal
  <2> QED BY <2>1, <2>2, ZenonT(60)
<1>3. MsgTypes' /\ Results' /\ Waiting' /\ ChanTypes' /\ Holder'
  BY ZenonT(60) DEF Resolved, msgs, MsgTypes, Results, Waiting, ChanTypes, Holder, writable, Buffered
<1>4. Woken'
  BY ZenonT(60) DEF Resolved, msgs, Woken, Coming, In
<1> QED BY <1>1, <1>2, <1>3, <1>4, ZenonT(60)

\* A dial returns, for this generation or an old one.
LEMMA DialDoneKeeps ==
  ASSUME LinkInv, NEW g \in Gen, NEW ok \in BOOLEAN, DialDone(g, ok)
  PROVE  LinkInv'
<1> USE DEF LinkInv
<1>0. /\ lock' = lock /\ lock = Free /\ gen' = gen /\ dials' = dials \ {g} /\ g \in dials
      /\ UNCHANGED <<gen, stopping, challenge, waiters, awaiting, lock>>
  BY ZenonT(60) DEF DialDone
<1>1. CASE WantsDial(g) /\ ok
  <2>1. cur' = g /\ chan' = [chan EXCEPT ![g].pc = "idle"] /\ UNCHANGED <<state, timer, resolving, msgs>>
    BY <1>1, ZenonT(60) DEF DialDone
  <2>2. ~awaiting /\ In("queued") = {}
    BY <1>1, ZenonT(60) DEF WantsDial, Woken
  <2>3. ConnTypes' /\ Way'
    BY <1>0, <1>1, <2>1 DEF WantsDial, ConnTypes, Way, terminal, Terminal
  <2>4. MsgTypes' /\ Results' /\ Waiting' /\ In("queued")' = {}
    BY <2>1, <2>2, ZenonT(60) DEF msgs, MsgTypes, Results, Waiting, In
  <2>5. ChanTypes'
    BY <1>0, <2>1 DEF ChanTypes, Chan
  <2>6. Holder' /\ Woken'
    BY <1>0, <2>2, <2>4, ZenonT(60) DEF Holder, Woken, Free
  <2> QED BY <2>3, <2>4, <2>5, <2>6, ZenonT(60)
<1>2. CASE WantsDial(g) /\ ~ok
  <2>1. afterClose("abnormal", "disconnected") /\ UNCHANGED <<cur, chan>>
    BY <1>2, ZenonT(60) DEF DialDone
  <2>2. ~terminal /\ ~stopping
    BY <1>2, ZenonT(60) DEF WantsDial, Way, terminal, Terminal
  <2>3. state' = "disconnected" /\ timer' /\ resolving' = resolving /\ onRelayState("disconnected")
    BY <2>1, <2>2, ZenonT(60) DEF afterClose, schedule
  <2>4. MsgTypes' /\ Results' /\ Waiting' /\ In("queued")' = {}
    BY <2>3, Dropped, ZenonT(60)
  <2>5. ~awaiting /\ ~awaiting'
    BY <1>0, <1>2, ZenonT(60) DEF WantsDial, Woken
  <2>6. Holder' /\ Woken'
    BY <1>0, <2>4, <2>5, ZenonT(60) DEF Holder, Woken, Free
  <2>7. ConnTypes' /\ Way'
    BY <1>0, <1>2, <2>1, <2>3, ZenonT(60) DEF WantsDial, ConnTypes, Way, terminal, Terminal
  <2>8. ChanTypes'
    BY <1>0, <2>1, ZenonT(60) DEF ChanTypes
  <2> QED BY <2>4, <2>6, <2>7, <2>8, ZenonT(60)
<1>3. CASE ~WantsDial(g)
  <2>1. UNCHANGED <<state, timer, resolving, cur, chan, msgs>>
    BY <1>3, ZenonT(60) DEF DialDone
  <2>2. ConnTypes' /\ Way'
    BY <1>0, <1>3, <2>1, ZenonT(60) DEF WantsDial, ConnTypes, Way, terminal, Terminal
  <2>3. MsgTypes' /\ Results' /\ Waiting' /\ ChanTypes' /\ Holder'
    BY <1>0, <2>1, ZenonT(60) DEF msgs, MsgTypes, Results, Waiting, ChanTypes, Holder, writable, Buffered
  <2>4. Woken'
    BY <1>0, <2>1, ZenonT(60) DEF msgs, Woken, Coming, In
  <2> QED BY <2>2, <2>3, <2>4, ZenonT(60)
<1> QED BY <1>1, <1>2, <1>3, ZenonT(60)

\* A step of messages only, after which no more of them are queued than before.
\* Messages that leave the queue leave the rest of the invariant alone.
LEMMA MessagesKeep ==
  ASSUME LinkInv, MsgTypes', Results', Waiting', UNCHANGED <<conn, chan, waiters, awaiting, lock>>,
         In("queued")' \subseteq In("queued")
  PROVE  LinkInv'
<1> USE DEF LinkInv
<1>1. ConnTypes' /\ Way' /\ ChanTypes' /\ Holder'
  BY ZenonT(60) DEF conn, ConnTypes, Way, terminal, ChanTypes, Holder, writable, Buffered
<1>2. Coming(cur)' <=> Coming(cur)
  BY ZenonT(60) DEF conn, Coming
<1>3. In("queued")' # {} => In("queued") # {}
  BY ZenonT(60)
<1>4. UNCHANGED <<state, cur, waiters, awaiting, lock, chan>>
  BY ZenonT(60) DEF conn
<1> HIDE DEF LinkInv
<1>5. Woken
  BY ZenonT(60) DEF LinkInv
<1>6. Woken'
  BY <1>2, <1>3, <1>4, <1>5 DEF Woken
<1> QED BY <1>1, <1>6, ZenonT(60) DEF LinkInv

\* A message fails.
LEMMA FinishKeeps ==
  ASSUME LinkInv, NEW o \in Send, out[o] \in {"idle", "offline", "queued"}, Finish({o}, "failed"),
         UNCHANGED <<conn, chan, waiters, awaiting, lock>>
  PROVE  LinkInv'
<1>1. {o} \in SUBSET Send /\ \A x \in {o} : out[x] \notin {"ok", "failed"}
  BY ZenonT(60)
<1>2. MsgTypes' /\ Results' /\ \A x \in Send : out'[x] = IF x \in {o} THEN "failed" ELSE out[x]
  BY <1>1, Finished, ZenonT(60) DEF LinkInv
<1>3. Waiting' /\ In("queued")' \subseteq In("queued")
  BY <1>2, ZenonT(60) DEF LinkInv, Waiting, In, conn
<1> QED BY <1>2, <1>3, MessagesKeep, ZenonT(60)

\* SendAsync: a message waits offline, is queued with a wake coming, or fails.
LEMMA SendKeeps ==
  ASSUME LinkInv, NEW o \in Send, SendAsync(o)
  PROVE  LinkInv'
<1>0. out[o] = "idle" /\ lock = Free /\ UNCHANGED <<conn, chan, waiters, awaiting>>
  BY ZenonT(60) DEF SendAsync
<1>1. CASE terminal
  <2>1. Finish({o}, "failed") /\ UNCHANGED lock
    BY <1>1, ZenonT(60) DEF SendAsync, terminal, Terminal
  <2> QED BY <1>0, <2>1, FinishKeeps, ZenonT(60)
<1>2. CASE state = "connected"
  <2> USE DEF LinkInv
  <2>1. admit({o}) /\ lock' = [pc |-> "pump", by |-> 0]
    BY <1>2, ZenonT(60) DEF SendAsync, terminal, Terminal
  <2>2. {o} \in SUBSET Send /\ \A x \in {o} : out[x] \notin {"ok", "failed"}
    BY <1>0, ZenonT(60)
  <2>3. /\ MsgTypes' /\ Results'
        /\ \A x \in Send : IF x \in {o} THEN out'[x] \in {"queued", "failed"} ELSE out'[x] = out[x]
    BY <2>1, <2>2, Admitted, ZenonT(60)
  <2>4. Waiting'
    BY <1>0, <2>3, ZenonT(60) DEF conn, Waiting
  <2>5. ConnTypes' /\ Way' /\ ChanTypes'
    BY <1>0, <2>1 DEF conn, ConnTypes, Way, terminal, ChanTypes
  <2>6. Holder' /\ Woken'
    BY <1>0, <1>2, <2>1, ZenonT(60) DEF conn, Holder, Woken, Coming, Free
  <2> QED BY <2>3, <2>4, <2>5, <2>6, ZenonT(60)
<1>3. CASE ~terminal /\ state # "connected"
  <2>1. out' = [out EXCEPT ![o] = "offline"] /\ otimers' = otimers \union {o} /\ UNCHANGED <<results, lock>>
    BY <1>3, ZenonT(60) DEF SendAsync
  <2>2. MsgTypes' /\ Results'
    BY <1>0, <2>1, ZenonT(60) DEF LinkInv, MsgTypes, Results
  <2>3. state \in {"disconnected", "connecting"}
    BY <1>3, ZenonT(60) DEF LinkInv, ConnTypes, terminal
  <2>4. Waiting' /\ In("queued")' \subseteq In("queued")
    BY <1>0, <2>1, <2>3, ZenonT(60) DEF LinkInv, MsgTypes, Waiting, In, conn
  <2> QED BY <1>0, <2>1, <2>2, <2>4, MessagesKeep, ZenonT(60)
<1> QED BY <1>1, <1>2, <1>3, ZenonT(60)

\* The offline timer, and the sender's withdrawal.
LEMMA GiveUpSendKeeps ==
  ASSUME LinkInv, NEW o \in Send, OfflineTimeout(o) \/ withdraw(o)
  PROVE  LinkInv'
<1>1. out[o] \in {"idle", "offline", "queued"}
  BY ZenonT(60) DEF OfflineTimeout, withdraw, LinkInv, Results
<1> QED BY <1>1, FinishKeeps, ZenonT(60) DEF OfflineTimeout, withdraw

\* A control frame is sent, or the socket is given up for what it holds.
LEMMA ControlKeeps ==
  ASSUME LinkInv, Control
  PROVE  LinkInv'
<1>1. CASE abandon(cur)
  BY <1>1, AbandonKeeps, ZenonT(60) DEF Control
<1>2. CASE ~abandon(cur)
  <2> USE DEF LinkInv
  <2>1. chan' = [chan EXCEPT ![cur] = Sent(@)] /\ UNCHANGED <<conn, waiters, awaiting, lock, msgs>>
    BY <1>2, ZenonT(60) DEF Control
  <2>2. ChanTypes' /\ Holder' /\ (Coming(cur) => Coming(cur)')
    BY <2>1, SentKeeps, ZenonT(60) DEF Control, Free, conn
  <2>3. ConnTypes' /\ Way' /\ MsgTypes' /\ Results' /\ Waiting'
    BY <2>1, ZenonT(60) DEF conn, ConnTypes, Way, terminal, msgs, MsgTypes, Results, Waiting
  <2>4. Woken'
    BY <2>1, <2>2, ZenonT(60) DEF Control, conn, msgs, Woken, Free, In, Coming
  <2> QED BY <2>2, <2>3, <2>4, ZenonT(60)
<1> QED BY <1>1, <1>2, ZenonT(60)

\* Steps that change channels, the lock and the pump's flags only.
\* What the pump and the writers leave alone.
LEMMA RestUnchanged ==
  ASSUME LinkInv, UNCHANGED <<conn, msgs>>
  PROVE  ConnTypes' /\ Way' /\ MsgTypes' /\ Results' /\ Waiting'
  BY ZenonT(60) DEF LinkInv, conn, ConnTypes, Way, terminal, msgs, MsgTypes, Results, Waiting

\* A channel's record says that its writer is going to report a drain.
Comes(k) ==
  \/ k.pc = "drain"
  \/ k.want /\ ~k.dead /\ (k.q > 0 \/ k.pc = "busy" \/ (k.pc = "wrote" /\ k.low))

\* A step of one channel's writer or reader, that does not lose the drain it will report.
LEMMA WriterKeeps ==
  ASSUME LinkInv, NEW c \in Gen, NEW k \in Chan, chan' = [chan EXCEPT ![c] = k],
         UNCHANGED <<conn, waiters, awaiting, lock, msgs>>,
         lock.by = c => c # cur /\ k.pc = "drain",
         c = cur => /\ Comes(chan[c]) => Comes(k)
                    /\ chan[c].dead => k.dead
                    /\ chan[c].want => k.want \/ k.dead \/ k.pc = "drain"
                    /\ chan[c].pc = "drain" => k.pc = "drain"
  PROVE  LinkInv'
<1>1. ConnTypes' /\ Way' /\ MsgTypes' /\ Results' /\ Waiting'
  BY RestUnchanged, ZenonT(60)
<1>2. chan' \in [Gen -> Chan] /\ chan'[c] = k /\ \A d \in Gen : d # c => chan'[d] = chan[d]
  BY Changed, ZenonT(60) DEF LinkInv
<1>3. ChanTypes'
  BY <1>2, ZenonT(60) DEF LinkInv, ChanTypes
<1>4. UNCHANGED <<state, cur, waiters, awaiting, lock, out>>
  BY ZenonT(60) DEF conn, msgs
<1>5. (cur # 0 => cur \in Gen) /\ (lock.by # 0 => lock.by \in Gen)
  BY DEF LinkInv, ConnTypes, ChanTypes, Gen
<1>6. Holder'
  BY <1>2, <1>4, <1>5, ZenonT(60) DEF LinkInv, Holder, writable, Buffered
<1>7. cur # 0 /\ Coming(cur) => Coming(cur)'
  <2>1. CASE cur = c
    <3>1. lock.by # cur
      BY <2>1, ZenonT(60)
    <3> QED BY <1>2, <1>4, <2>1, <3>1, ZenonT(60) DEF Coming, Comes
  <2>2. CASE cur # c
    BY <1>2, <1>4, <1>5, <2>2, ZenonT(60) DEF Coming
  <2> QED BY <2>1, <2>2, ZenonT(60)
<1>8. In("queued")' = In("queued")
  BY <1>4, ZenonT(60) DEF In
<1>9. lock.pc = "look" => chan'[cur].want \/ chan'[cur].dead \/ (chan'[cur].pc = "drain" /\ lock.by # cur)
  <2>1. CASE cur = c
    BY <1>2, <2>1, ZenonT(60) DEF LinkInv, Holder, Woken
  <2>2. CASE cur # c
    BY <1>2, <1>5, <2>2, ZenonT(60) DEF LinkInv, Holder, Woken
  <2> QED BY <2>1, <2>2, ZenonT(60)
<1>10. Woken'
  BY <1>4, <1>7, <1>8, <1>9 DEF LinkInv, Woken
<1> QED BY <1>1, <1>3, <1>6, <1>10, ZenonT(60) DEF LinkInv

\* A writer takes a frame, the close, or nothing.
LEMMA TakeKeeps ==
  ASSUME LinkInv, NEW c \in Gen, Take(c)
  PROVE  LinkInv'
<1>1. chan[c] \in Chan /\ chan[c].pc = "idle" /\ lock.by # c
  BY DEF LinkInv, ChanTypes, Holder, Take, Gen
<1>2. CASE chan[c].dead
  <2> DEFINE k == [chan[c] EXCEPT !.pc = "gone"]
  <2>1. k \in Chan /\ k.dead /\ k.pc = "gone"
    BY <1>1, <1>2, ZenonT(60) DEF Chan
  <2>2. chan' = [chan EXCEPT ![c] = k]
    BY <1>2, ZenonT(60) DEF Take
  <2>3. ~Comes(chan[c])
    BY <1>1, <1>2, ZenonT(60) DEF Comes
  <2> HIDE DEF k
  <2> QED BY <1>1, <2>1, <2>2, <2>3, WriterKeeps, ZenonT(60) DEF Take
<1>3. CASE ~chan[c].dead /\ chan[c].q > 0
  <2> DEFINE k == [chan[c] EXCEPT !.q = @ - 1, !.pc = "busy"]
  <2>1. k \in Chan /\ k.pc = "busy" /\ (k.want <=> chan[c].want) /\ ~k.dead
    <3>1. PICK y \in Nat : y = chan[c].q - 1
      BY <1>1, <1>3 DEF Chan
    <3>2. k = [chan[c] EXCEPT !.q = y, !.pc = "busy"]
      BY <3>1, ZenonT(60)
    <3> HIDE DEF k
    <3> QED BY <1>1, <1>3, <3>2, ZenonT(60) DEF Chan
  <2>2. chan' = [chan EXCEPT ![c] = k]
    <3>1. chan' = [chan EXCEPT ![c] = IF chan[c].dead THEN [chan[c] EXCEPT !.pc = "gone"]
                                      ELSE IF chan[c].q > 0 THEN k
                                      ELSE [aborted(chan[c]) EXCEPT !.pc = "gone"]]
      BY ZenonT(60) DEF Take
    <3> HIDE DEF k
    <3> QED BY <1>3, <3>1, ZenonT(60)
  <2> HIDE DEF k
  <2>3. Comes(chan[c]) => Comes(k)
    BY <1>1, <2>1, ZenonT(60) DEF Comes
  <2> QED BY <1>1, <1>3, <2>1, <2>2, <2>3, WriterKeeps, ZenonT(60) DEF Take
<1>4. CASE ~chan[c].dead /\ ~(chan[c].q > 0)
  <2> DEFINE k == [aborted(chan[c]) EXCEPT !.pc = "gone"]
  <2>1. k \in Chan /\ k.dead /\ k.pc = "gone"
    BY <1>1, ZenonT(60) DEF Chan, aborted
  <2>2. chan' = [chan EXCEPT ![c] = k]
    BY <1>4, ZenonT(60) DEF Take
  <2>3. ~Comes(chan[c])
    BY <1>1, <1>4, ZenonT(60) DEF Comes
  <2> HIDE DEF k
  <2> QED BY <1>1, <2>1, <2>2, <2>3, WriterKeeps, ZenonT(60) DEF Take
<1> QED BY <1>2, <1>3, <1>4, ZenonT(60)

\* It has written it, or the socket failed.
LEMMA WriteKeeps ==
  ASSUME LinkInv, NEW c \in Gen, NEW ok \in BOOLEAN, Write(c, ok)
  PROVE  LinkInv'
<1>1. chan[c] \in Chan /\ chan[c].pc = "busy" /\ lock.by # c
  BY DEF LinkInv, ChanTypes, Holder, Write, Gen
<1>2. CASE ok
  <2> DEFINE k == [chan[c] EXCEPT !.pc = "wrote", !.low = chan[c].q <= LowWater]
  <2>1. /\ k \in Chan /\ k.pc = "wrote" /\ (k.want <=> chan[c].want) /\ (k.dead <=> chan[c].dead)
        /\ k.q = chan[c].q /\ (k.low <=> k.q <= LowWater)
    <3> DEFINE b == chan[c].q <= LowWater
    <3>1. b \in BOOLEAN
      OBVIOUS
    <3>2. k.q = chan[c].q
      BY <1>1, ZenonT(60) DEF Chan
    <3>4. k = [chan[c] EXCEPT !.pc = "wrote", !.low = b]
      BY ZenonT(60)
    <3> HIDE DEF b, k
    <3>3. /\ k \in Chan /\ k.pc = "wrote" /\ (k.want <=> chan[c].want) /\ (k.dead <=> chan[c].dead)
          /\ (k.low <=> b)
      BY <1>1, <3>1, <3>4, ZenonT(60) DEF Chan
    <3> QED BY <3>2, <3>3, ZenonT(60) DEF b
  <2>2. chan' = [chan EXCEPT ![c] = k]
    BY <1>2, ZenonT(60) DEF Write
  <2> HIDE DEF k
  <2>3. k.q \in Nat
    BY <2>1, ZenonT(60) DEF Chan
  <2>4. Comes(chan[c]) => Comes(k)
    BY <1>1, <2>1, <2>3 DEF Comes
  <2> QED BY <1>1, <2>1, <2>2, <2>4, WriterKeeps, ZenonT(60) DEF Write
<1>3. CASE ~ok
  <2> DEFINE k == [aborted(chan[c]) EXCEPT !.pc = "drain", !.want = FALSE]
  <2>1. k \in Chan /\ k.pc = "drain" /\ k.dead
    BY <1>1, ZenonT(60) DEF Chan, aborted
  <2>2. chan' = [chan EXCEPT ![c] = k]
    BY <1>3, ZenonT(60) DEF Write
  <2> HIDE DEF k
  <2>3. Comes(k)
    BY <2>1, ZenonT(60) DEF Comes
  <2> QED BY <1>1, <2>1, <2>2, <2>3, WriterKeeps, ZenonT(60) DEF Write
<1> QED BY <1>2, <1>3, ZenonT(60)

\* It takes the wish for a drain, if there is room, and goes to report it.
LEMMA SwapKeeps ==
  ASSUME LinkInv, NEW c \in Gen, Swap(c)
  PROVE  LinkInv'
<1>1. chan[c] \in Chan /\ chan[c].pc = "wrote" /\ lock.by # c
  BY DEF LinkInv, ChanTypes, Holder, Swap, Gen
<1>2. CASE chan[c].low /\ chan[c].want
  <2> DEFINE k == [chan[c] EXCEPT !.pc = "drain", !.want = FALSE, !.low = FALSE]
  <2>1. k \in Chan /\ k.pc = "drain" /\ (k.dead <=> chan[c].dead)
    BY <1>1, ZenonT(60) DEF Chan
  <2>2. chan' = [chan EXCEPT ![c] = k]
    BY <1>2, ZenonT(60) DEF Swap
  <2> HIDE DEF k
  <2>3. Comes(k)
    BY <2>1, ZenonT(60) DEF Comes
  <2> QED BY <1>1, <2>1, <2>2, <2>3, WriterKeeps, ZenonT(60) DEF Swap
<1>3. CASE ~(chan[c].low /\ chan[c].want)
  <2> DEFINE k == [chan[c] EXCEPT !.pc = "idle", !.low = FALSE]
  <2>1. k \in Chan /\ k.pc = "idle" /\ (k.dead <=> chan[c].dead) /\ (k.want <=> chan[c].want) /\ k.q = chan[c].q
    BY <1>1, ZenonT(60) DEF Chan
  <2>2. chan' = [chan EXCEPT ![c] = k]
    BY <1>3, ZenonT(60) DEF Swap
  <2> HIDE DEF k
  <2>3. Comes(chan[c]) => Comes(k)
    BY <1>1, <1>3, <2>1, ZenonT(60) DEF Comes
  <2> QED BY <1>1, <2>1, <2>2, <2>3, WriterKeeps, ZenonT(60) DEF Swap
<1> QED BY <1>2, <1>3, ZenonT(60)

\* A channel that is no longer current is aborted.
LEMMA AbortKeeps ==
  ASSUME LinkInv, NEW c \in Gen, Abort(c)
  PROVE  LinkInv'
<1>1. chan[c] \in Chan /\ c # cur /\ (lock.by = c => chan[c].pc = "drain")
  BY DEF LinkInv, ChanTypes, Holder, Abort, Gen
<1> DEFINE k == aborted(chan[c])
<1>2. k \in Chan /\ k.pc = chan[c].pc
  BY <1>1, AbortedFields, ZenonT(60)
<1>3. chan' = [chan EXCEPT ![c] = k]
  BY ZenonT(60) DEF Abort
<1> HIDE DEF k
<1> QED BY <1>1, <1>2, <1>3, WriterKeeps, ZenonT(60) DEF Abort

\* The lock is released, by whoever holds it, with the pump's wait as it should be.
\* The lock is given up with a wake coming for what is still queued.
LEMMA ReleaseKeeps ==
  ASSUME LinkInv, Release, UNCHANGED <<conn, msgs>>, In("queued") # {} => awaiting',
         awaiting' => waiters' /\ cur # 0 /\ Coming(cur)
  PROVE  LinkInv'
<1>1. ConnTypes' /\ Way' /\ MsgTypes' /\ Results' /\ Waiting'
  BY RestUnchanged, ZenonT(60)
<1>2. UNCHANGED <<state, cur, out>> /\ In("queued")' = In("queued")
  BY ZenonT(60) DEF conn, msgs, In
<1>3. lock' = Free /\ (cur # 0 => cur \in Gen)
  BY DEF Release, LinkInv, ConnTypes, Gen
<1>4. ChanTypes' /\ (cur # 0 /\ Coming(cur) => Coming(cur)')
  <2>1. CASE lock.by = 0
    <3>1. chan' = chan
      BY <2>1, ZenonT(60) DEF Release, Unlocked
    <3>2. lock' \in [pc : {"free", "pump", "want", "look", "rewant", "relook"}, by : 0..MaxGen]
      BY <1>3 DEF Free
    <3>3. lock'.by = 0
      BY <1>3, ZenonT(60) DEF Free
    <3> QED BY <1>2, <1>3, <3>1, <3>2, <3>3, ZenonT(60) DEF LinkInv, ChanTypes, Coming
  <2>2. CASE lock.by # 0
    <3>1. lock.by \in Gen /\ chan[lock.by] \in Chan /\ chan[lock.by].pc = "drain"
      BY <2>2 DEF LinkInv, ChanTypes, Holder, Gen
    <3> DEFINE p == IF chan[lock.by].dead THEN "gone" ELSE "idle"
               k == [chan[lock.by] EXCEPT !.pc = p]
    <3>2. chan' = [chan EXCEPT ![lock.by] = k]
      BY <2>2, ZenonT(60) DEF Release, Unlocked
    <3>3. /\ k \in Chan /\ (k.want <=> chan[lock.by].want) /\ (k.dead <=> chan[lock.by].dead)
          /\ k.q = chan[lock.by].q
      BY <3>1, ZenonT(60) DEF Chan
    <3> HIDE DEF k
    <3>4. /\ chan' \in [Gen -> Chan] /\ chan'[lock.by] = k
          /\ \A d \in Gen : d # lock.by => chan'[d] = chan[d]
      BY <3>1, <3>2, <3>3, Changed, ZenonT(60) DEF LinkInv
    <3>5. lock' \in [pc : {"free", "pump", "want", "look", "rewant", "relook"}, by : 0..MaxGen] /\ lock'.by = 0
      BY <1>3 DEF Free
    <3>6. ASSUME cur # 0, Coming(cur) PROVE Coming(cur)'
      <4>1. CASE cur = lock.by
        BY <1>2, <3>1, <3>3, <3>4, <3>6, <4>1, ZenonT(60) DEF Coming
      <4>2. CASE cur # lock.by
        BY <1>2, <1>3, <3>4, <3>5, <3>6, <4>2, ZenonT(60) DEF Coming
      <4> QED BY <4>1, <4>2, ZenonT(60)
    <3> QED BY <3>4, <3>5, <3>6, ZenonT(60) DEF ChanTypes
  <2> QED BY <2>1, <2>2, ZenonT(60)
<1>5. Holder'
  BY <1>3, ZenonT(60) DEF Holder, Free
<1>6. Woken'
  BY <1>2, <1>3, <1>4, ZenonT(60) DEF LinkInv, Woken, Free
<1> QED BY <1>1, <1>4, <1>5, <1>6, ZenonT(60) DEF LinkInv

\* The pump leaves its wish.
LEMMA WantKeeps ==
  ASSUME LinkInv, WantDrain
  PROVE  LinkInv'
<1>1. ConnTypes' /\ Way' /\ MsgTypes' /\ Results' /\ Waiting'
  BY RestUnchanged, ZenonT(60) DEF WantDrain
<1>2. UNCHANGED <<state, cur, out, awaiting, waiters>> /\ In("queued")' = In("queued")
  BY ZenonT(60) DEF WantDrain, conn, msgs, In
<1>3. cur \in Gen /\ chan[cur] \in Chan /\ (lock.by # 0 => lock.by \in Gen)
  BY DEF WantDrain, LinkInv, ConnTypes, ChanTypes, Holder, Gen
<1> DEFINE k == [chan[cur] EXCEPT !.want = TRUE]
<1>4. chan' = [chan EXCEPT ![cur] = k]
  BY ZenonT(60) DEF WantDrain
<1>5. /\ k \in Chan /\ k.want /\ (k.dead <=> chan[cur].dead) /\ (k.closing <=> chan[cur].closing)
      /\ k.q = chan[cur].q /\ k.pc = chan[cur].pc
  BY <1>3, ZenonT(60) DEF Chan
<1> HIDE DEF k
<1>6. /\ chan' \in [Gen -> Chan] /\ chan'[cur] = k
      /\ \A d \in Gen : d # cur => chan'[d] = chan[d]
  BY <1>3, <1>4, <1>5, Changed, ZenonT(60) DEF LinkInv
<1>7. lock'.by = lock.by /\ lock'.pc = IF lock.pc = "want" THEN "look" ELSE "relook"
  BY ZenonT(60) DEF WantDrain, LinkInv, ChanTypes
<1>8. ChanTypes'
  BY <1>6, ZenonT(60) DEF WantDrain, LinkInv, ChanTypes
<1>9. Holder'
  BY <1>2, <1>3, <1>5, <1>6, <1>7 DEF WantDrain, LinkInv, Holder, writable, Buffered
<1>10. Woken'
  BY <1>2, <1>5, <1>6, <1>7 DEF WantDrain, LinkInv, Woken
<1> QED BY <1>1, <1>8, <1>9, <1>10, ZenonT(60) DEF LinkInv

\* The pump looks at the channel after it left its wish.
LEMMA LookKeeps ==
  ASSUME LinkInv, Look
  PROVE  LinkInv'
<1>1. cur \in Gen /\ chan[cur] \in Chan /\ (lock.by # 0 => lock.by \in Gen) /\ cur # 0
  BY DEF Look, LinkInv, ConnTypes, ChanTypes, Holder, Gen
<1>2. CASE writable(cur)
  <2>1. ConnTypes' /\ Way' /\ MsgTypes' /\ Results' /\ Waiting'
    BY RestUnchanged, ZenonT(60) DEF Look
  <2>2. UNCHANGED <<state, cur, out>> /\ In("queued")' = In("queued") /\ ~awaiting'
    BY <1>2, ZenonT(60) DEF Look, conn, msgs, In
  <2> DEFINE k == [chan[cur] EXCEPT !.want = FALSE]
  <2>3. chan' = [chan EXCEPT ![cur] = k]
    BY <1>2, ZenonT(60) DEF Look
  <2>4. k \in Chan /\ k.pc = chan[cur].pc
    BY <1>1, ZenonT(60) DEF Chan
  <2> HIDE DEF k
  <2>5. /\ chan' \in [Gen -> Chan] /\ chan'[cur] = k
        /\ \A d \in Gen : d # cur => chan'[d] = chan[d]
    BY <1>1, <2>3, <2>4, Changed, ZenonT(60) DEF LinkInv
  <2>6. lock'.by = lock.by /\ lock'.pc = "pump"
    BY <1>2, ZenonT(60) DEF Look, LinkInv, ChanTypes
  <2>7. ChanTypes'
    BY <1>2, <2>5, ZenonT(60) DEF Look, LinkInv, ChanTypes
  <2>8. Holder'
    BY <1>1, <2>2, <2>4, <2>5, <2>6, ZenonT(60) DEF LinkInv, Holder
  <2>9. Woken'
    BY <2>2, <2>6, ZenonT(60) DEF LinkInv, Woken
  <2> QED BY <2>1, <2>7, <2>8, <2>9, ZenonT(60) DEF LinkInv
<1>3. CASE ~writable(cur)
  <2>1. awaiting /\ (chan[cur].want \/ chan[cur].dead \/ (chan[cur].pc = "drain" /\ lock.by # cur))
    BY ZenonT(60) DEF Look, LinkInv, Woken
  <2>2. Coming(cur)
    BY <1>1, <1>3, <2>1 DEF writable, Buffered, Coming, Chan
  <2>3. Release /\ UNCHANGED <<conn, msgs>> /\ awaiting' /\ waiters'
    BY <1>3, <2>1, ZenonT(60) DEF Look
  <2> QED BY <1>1, <2>2, <2>3, ReleaseKeeps, ZenonT(60)
<1> QED BY <1>2, <1>3, ZenonT(60)

\* drained: the writer takes the lock and runs the waiters.
LEMMA DrainedKeeps ==
  ASSUME LinkInv, NEW c \in Gen, drained(c)
  PROVE  LinkInv'
<1>1. ConnTypes' /\ Way' /\ MsgTypes' /\ Results' /\ Waiting'
  BY RestUnchanged, ZenonT(60) DEF drained
<1>2. UNCHANGED <<state, cur, out>> /\ In("queued")' = In("queued")
  BY ZenonT(60) DEF drained, conn, msgs, In
<1>3. lock = Free /\ chan[c].pc = "drain" /\ (cur # 0 => cur \in Gen) /\ c # 0 /\ c \in 0..MaxGen
  BY DEF drained, LinkInv, ConnTypes, Gen
<1>4. CASE c # cur /\ cur # 0
  <2> DEFINE p == IF chan[c].dead THEN "gone" ELSE "idle"
             k == [chan[c] EXCEPT !.pc = p]
  <2>1. chan' = [chan EXCEPT ![c] = k] /\ UNCHANGED <<waiters, awaiting, lock>>
    BY <1>4, ZenonT(60) DEF drained
  <2>2. k \in Chan
    BY DEF LinkInv, ChanTypes, Chan
  <2> HIDE DEF k
  <2>3. lock.by # c
    BY <1>3, ZenonT(60) DEF Free
  <2>4. UNCHANGED <<conn, msgs>>
    BY ZenonT(60) DEF drained
  <2> QED BY <1>4, <2>1, <2>2, <2>3, <2>4, WriterKeeps, ZenonT(60)
<1>5. CASE ~(c # cur /\ cur # 0) /\ cur # 0 /\ ~writable(cur)
  <2>1. lock' = [pc |-> "rewant", by |-> c] /\ UNCHANGED <<chan, waiters, awaiting>>
    BY <1>5, ZenonT(60) DEF drained
  <2>2. ChanTypes'
    BY <1>3, <2>1, ZenonT(60) DEF LinkInv, ChanTypes
  <2>3. Holder'
    BY <1>2, <1>3, <1>5, <2>1, ZenonT(60) DEF Holder, writable, Buffered
  <2>4. Woken'
    BY <1>2, <1>3, <2>1, ZenonT(60) DEF LinkInv, Woken, Free
  <2> QED BY <1>1, <2>2, <2>3, <2>4, ZenonT(60) DEF LinkInv
<1>6. CASE ~(c # cur /\ cur # 0) /\ ~(cur # 0 /\ ~writable(cur))
  <2>1. lock' = [pc |-> "pump", by |-> c] /\ chan' = chan /\ (awaiting' <=> awaiting /\ ~waiters)
    BY <1>6, ZenonT(60) DEF drained
  <2>2. ~awaiting'
    BY <1>3, <2>1, ZenonT(60) DEF LinkInv, Woken, Free
  <2>3. ChanTypes'
    BY <1>3, <2>1, ZenonT(60) DEF LinkInv, ChanTypes
  <2>4. Holder'
    BY <1>2, <1>3, <1>6, <2>1, ZenonT(60) DEF Holder
  <2>5. Woken'
    BY <1>2, <2>1, <2>2, ZenonT(60) DEF LinkInv, Woken
  <2> QED BY <1>1, <2>3, <2>4, <2>5, ZenonT(60) DEF LinkInv
<1> QED BY <1>4, <1>5, <1>6, ZenonT(60)

\* The waiters look again before they let the lock go.
LEMMA RelookKeeps ==
  ASSUME LinkInv, Relook
  PROVE  LinkInv'
<1>1. ConnTypes' /\ Way' /\ MsgTypes' /\ Results' /\ Waiting'
  BY RestUnchanged, ZenonT(60) DEF Relook
<1>2. UNCHANGED <<state, cur, out, awaiting, waiters>> /\ In("queued")' = In("queued") /\ lock' = Free
  BY ZenonT(60) DEF Relook, conn, msgs, In
<1>3. /\ cur \in Gen /\ cur # 0 /\ chan[cur] \in Chan /\ lock.by = cur
      /\ chan[cur].pc = "drain" /\ ~writable(cur) /\ chan[cur].want
  BY DEF Relook, LinkInv, ConnTypes, ChanTypes, Holder, Gen
<1> DEFINE k == [chan[cur] EXCEPT !.want = chan[cur].want /\ ~writable(cur)]
           p == IF k.dead THEN "gone" ELSE "idle"
           j == [k EXCEPT !.pc = p]
<1>4. k \in Chan /\ k.want /\ (k.dead <=> chan[cur].dead) /\ k.q = chan[cur].q
  <2> DEFINE b == chan[cur].want /\ ~writable(cur)
  <2>1. b \in BOOLEAN /\ b
    BY <1>3, ZenonT(60)
  <2>2. k = [chan[cur] EXCEPT !.want = b]
    BY ZenonT(60)
  <2> HIDE DEF b, k
  <2> QED BY <1>3, <2>1, <2>2, ZenonT(60) DEF Chan
<1>5. chan' = [chan EXCEPT ![cur] = j]
  <2>1. chan' = Unlocked([chan EXCEPT ![cur] = k])
    BY ZenonT(60) DEF Relook
  <2> HIDE DEF k
  <2>2. [chan EXCEPT ![cur] = k][cur] = k
    BY <1>3, ZenonT(60) DEF LinkInv, ChanTypes
  <2> QED BY <1>3, <2>1, <2>2, ZenonT(60) DEF Unlocked, LinkInv, ChanTypes
<1> HIDE DEF k
<1>6. j \in Chan /\ j.want /\ (j.dead <=> chan[cur].dead) /\ j.q = chan[cur].q
  BY <1>4, ZenonT(60) DEF Chan
<1> HIDE DEF j
<1>7. chan' \in [Gen -> Chan] /\ chan'[cur] = j
  BY <1>3, <1>5, <1>6, Changed, ZenonT(60) DEF LinkInv
<1>8. j.q > 0 /\ ~j.dead
  BY <1>3, <1>6 DEF writable, Buffered, Chan
<1>9. ChanTypes' /\ Holder'
  BY <1>2, <1>7 DEF ChanTypes, Holder, Free
<1>10. Woken'
  BY <1>2, <1>6, <1>7, <1>8 DEF Relook, LinkInv, Woken, Coming, Free
<1> QED BY <1>1, <1>9, <1>10, ZenonT(60) DEF LinkInv

\* pumpOnce: the oldest message is sent, or the pump waits for room.
LEMMA PumpKeeps ==
  ASSUME LinkInv, pumpOnce
  PROVE  LinkInv'
<1>0. lock.pc = "pump" /\ UNCHANGED <<conn, waiters>>
  BY ZenonT(60) DEF pumpOnce
<1>1. cur = 0 => In("queued") = {}
  BY DEF LinkInv, Woken, Way, terminal, Terminal
<1>2. awaiting => waiters /\ cur # 0 /\ Coming(cur)
  BY <1>0, ZenonT(60) DEF LinkInv, Woken
<1>3. CASE In("queued") = {} \/ cur = 0
  BY <1>0, <1>1, <1>2, <1>3, ReleaseKeeps DEF pumpOnce
<1>4. CASE ~(In("queued") = {} \/ cur = 0) /\ writable(cur)
  <2>1. PICK o \in In("queued") : Finish({o}, IF chan[cur].closing \/ chan[cur].dead THEN "failed" ELSE "ok")
    BY <1>4, ZenonT(60) DEF pumpOnce
  <2>2. chan' = [chan EXCEPT ![cur] = Sent(@)] /\ UNCHANGED <<awaiting, lock>>
    BY <1>4, ZenonT(60) DEF pumpOnce
  <2>3. {o} \in SUBSET Send /\ \A x \in {o} : out[x] \notin {"ok", "failed"}
    BY <2>1, ZenonT(60) DEF In
  <2>4. PICK how \in {"ok", "failed"} : Finish({o}, how)
    BY <2>1, ZenonT(60)
  <2>5. MsgTypes' /\ Results' /\ \A x \in Send : out'[x] = IF x \in {o} THEN how ELSE out[x]
    BY <2>3, <2>4, Finished DEF LinkInv
  <2>6. Waiting' /\ In("queued")' \subseteq In("queued")
    BY <1>0, <2>5, ZenonT(60) DEF LinkInv, Waiting, In, conn
  <2>7. ConnTypes' /\ Way'
    BY <1>0, ZenonT(60) DEF LinkInv, conn, ConnTypes, Way, terminal
  <2>8. UNCHANGED <<state, cur, waiters>>
    BY <1>0, ZenonT(60) DEF conn
  <2>9. ChanTypes' /\ Holder' /\ (Coming(cur) => Coming(cur)')
    BY <1>0, <1>4, <2>2, <2>8, SentKeeps, ZenonT(60)
  <2>10. Woken'
    BY <1>0, <1>2, <2>2, <2>6, <2>8, <2>9 DEF LinkInv, Woken
  <2> QED BY <2>5, <2>6, <2>7, <2>9, <2>10, ZenonT(60) DEF LinkInv
<1>5. CASE ~(In("queued") = {} \/ cur = 0) /\ ~writable(cur) /\ awaiting
  <2>1. Release /\ UNCHANGED <<awaiting, msgs>>
    BY <1>5, ZenonT(60) DEF pumpOnce
  <2> QED BY <1>0, <1>2, <1>5, <2>1, ReleaseKeeps, ZenonT(60)
<1>6. CASE ~(In("queued") = {} \/ cur = 0) /\ ~writable(cur) /\ ~awaiting
  <2>1. awaiting' /\ lock' = [lock EXCEPT !.pc = "want"] /\ UNCHANGED <<chan, msgs>>
    BY <1>6, ZenonT(60) DEF pumpOnce
  <2>2. ConnTypes' /\ Way' /\ MsgTypes' /\ Results' /\ Waiting'
    BY <1>0, <2>1, RestUnchanged, ZenonT(60)
  <2>3. lock'.pc = "want" /\ lock'.by = lock.by /\ ChanTypes'
    BY <2>1, ZenonT(60) DEF LinkInv, ChanTypes
  <2>4. UNCHANGED <<state, cur>> /\ In("queued")' = In("queued")
    BY <1>0, <2>1, ZenonT(60) DEF conn, msgs, In
  <2>5. Holder'
    BY <1>6, <2>1, <2>3, <2>4, ZenonT(60) DEF LinkInv, Holder
  <2>6. Woken'
    BY <1>6, <2>1, <2>3, <2>4, ZenonT(60) DEF LinkInv, Woken
  <2> QED BY <2>2, <2>3, <2>5, <2>6, ZenonT(60) DEF LinkInv
<1> QED BY <1>3, <1>4, <1>5, <1>6, ZenonT(60)

\* Every step keeps the invariant.
LEMMA LinkNext == LinkInv /\ [Next]_vars => LinkInv'
<1> SUFFICES ASSUME LinkInv, [Next]_vars PROVE LinkInv'
  BY ZenonT(60)
<1>1. CASE UNCHANGED vars
  <2>1. MsgTypes' /\ Results' /\ Waiting' /\ In("queued")' \subseteq In("queued")
    BY <1>1, ZenonT(60) DEF LinkInv, vars, conn, msgs, MsgTypes, Results, Waiting, In
  <2> QED BY <1>1, <2>1, MessagesKeep, ZenonT(60) DEF vars
<1>2. CASE dial \/ Hello \/ Registered \/ GivesUp \/ Close \/ Revoke
  BY <1>2, DialKeeps, HelloKeeps, RegisteredKeeps, EndsKeep, ZenonT(60)
<1>3. ASSUME NEW g \in Gen, Resolved(g) \/ \E ok \in BOOLEAN : DialDone(g, ok) PROVE LinkInv'
  BY <1>3, ResolvedKeeps, DialDoneKeeps, ZenonT(60)
<1>4. ASSUME NEW code \in {"abnormal", "notMember", "replaced", "moved"}, ReadEnds(code) PROVE LinkInv'
  BY <1>4, ReadEndsKeeps, ZenonT(60)
<1>5. ASSUME NEW o \in Send, SendAsync(o) \/ OfflineTimeout(o) \/ withdraw(o) PROVE LinkInv'
  BY <1>5, SendKeeps, GiveUpSendKeeps, ZenonT(60)
<1>6. CASE Control \/ pumpOnce \/ WantDrain \/ Look \/ Relook
  BY <1>6, ControlKeeps, PumpKeeps, WantKeeps, LookKeeps, RelookKeeps, ZenonT(60)
<1>7. ASSUME NEW c \in Gen, Take(c) \/ Swap(c) \/ drained(c) \/ Abort(c) \/ \E ok \in BOOLEAN : Write(c, ok)
      PROVE  LinkInv'
  BY <1>7, TakeKeeps, SwapKeeps, DrainedKeeps, AbortKeeps, WriteKeeps, ZenonT(60)
<1> QED BY <1>1, <1>2, <1>3, <1>4, <1>5, <1>6, <1>7, ZenonT(60) DEF Next

\* The invariant always holds.
LEMMA LinkInvariance == Spec => []LinkInv
  BY LinkInit, LinkNext, PTL DEF Spec

\* afterClose, schedule, dial: whatever fails, closes or comes late, a client that is not
\* closed, revoked or replaced is connected or has exactly one thing under way that brings it
\* to a connection, for any number of dials and messages.
THEOREM AlwaysOnItsWay == Spec => []OnItsWay
  BY LinkInvariance, LinkGives, PTL

\* admit, onRelayState, withdraw: a message's sender is given exactly one result, whichever of the
\* pump, the offline timer, a withdrawal and a lost connection comes first.
THEOREM OneResultEach == Spec => []OneResult
  BY LinkInvariance, LinkGives, PTL

\* whenWritable, the writer's swap, drained: while a message is queued and the lock is free, the
\* writer is going to report a drain, so the pump is never left asleep beside a writable socket.
THEOREM PumpWoken == Spec => []PumpIsWoken
  BY LinkInvariance, LinkGives, PTL

-----------------------------------------------------------------------------
(* The stamps of handshakes. *)

\* What refuses a member's recorded inits.
Refuses(m) == IF m \in roster THEN stamps[m] ELSE retained[m]

\* What refuses them is at least every stamp accepted from the member.
Guarded == \A f \in taken : f.m \notin forgot => f.stamp <= Refuses(f.m)

\* A stamp stored or retained is one that was accepted.
Earned ==
  /\ \A m \in Member : stamps[m] # 0 => \E g \in taken : g.m = m /\ g.stamp = stamps[m]
  /\ \A m \in Member : retained[m] # 0 => \E g \in taken : g.m = m /\ g.stamp = retained[m]

\* The responder started, and members were admitted, in the past.
Past == started <= now /\ \A m \in Member : added[m] <= now

\* The inductive invariant of the stamps.
StampInv == StampTypeOK /\ ~twice /\ Guarded /\ Earned /\ Past

(* A stamp is a natural number above the last one sent (nextStampAfter). *)
LEMMA StampFact ==
  ASSUME NEW w \in Int, NEW l \in Nat
  PROVE  nextStampAfter(w, l) \in Nat \ {0} /\ nextStampAfter(w, l) > l
  BY SMTT(30) DEF nextStampAfter

(* The invariant holds when the responder starts, with nothing stored. *)
LEMMA StampStarts == StampInit => StampInv
  <1> SUFFICES ASSUME StampInit PROVE StampInv
    BY ZenonT(60)
  <1>1. off \in [Member -> Int] /\ roff \in Int
    <2>1. off \in [Member -> Offsets] /\ roff \in Offsets
      BY ZenonT(60) DEF StampInit
    <2>2. Offsets \subseteq Int
      BY StampsAssumption, ZenonT(60)
    <2>3. \A m \in Member : off[m] \in Int
      BY <2>1, <2>2, ZenonT(60)
    <2> QED BY <2>1, <2>2, <2>3, ZenonT(60)
  <1>2. StampTypeOK /\ ~twice
    <2>1. Zero \in [Member -> Nat]
      BY ZenonT(60) DEF Zero
    <2>2. Start \in Nat
      BY StampsAssumption, ZenonT(60)
    <2>3. /\ now = Start /\ started = Start /\ added = Zero /\ last = Zero /\ stamps = Zero
          /\ retained = Zero /\ roster = Member /\ sent = {} /\ taken = {} /\ twice = FALSE
      BY ZenonT(60) DEF StampInit
    <2> QED BY <1>1, <2>1, <2>2, <2>3, ZenonT(60) DEF StampTypeOK
  <1>3. Guarded /\ Earned /\ Past
    BY StampsAssumption, SMTT(30) DEF StampInit, Guarded, Earned, Past, Zero
  <1> QED BY <1>2, <1>3, ZenonT(60) DEF StampInv

(* Sending an init changes nothing at the responder. *)
LEMMA InitiateHolds ==
  ASSUME StampInv, NEW m \in Member, Initiate(m)
  PROVE  StampInv'
  <1> DEFINE stamp == nextStampAfter(now + off[m], last[m])
  <1>1. stamp \in Nat \ {0}
    <2>1. now + off[m] \in Int /\ last[m] \in Nat
      BY SMTT(30) DEF StampInv, StampTypeOK
    <2> QED BY <2>1, StampFact, ZenonT(60)
  <1> HIDE DEF stamp
  <1>2. /\ last' = [last EXCEPT ![m] = stamp]
        /\ sent' = sent \cup {[m |-> m, stamp |-> stamp, at |-> now]}
    BY ZenonT(60) DEF Initiate, stamp
  <1>3. StampTypeOK'
    BY <1>1, <1>2, SMTT(30) DEF StampInv, StampTypeOK, Initiate, clocks, responder
  <1>4. Guarded' /\ Earned' /\ Past' /\ ~twice'
    BY ZenonT(60) DEF StampInv, Initiate, clocks, responder, Guarded, Refuses, Earned, Past
  <1> QED BY <1>3, <1>4, ZenonT(60) DEF StampInv

(* An accepted init is above what refuses its member's, so it was not accepted before. *)
LEMMA ArriveHolds ==
  ASSUME StampInv, NEW f \in sent, Arrive(f)
  PROVE  StampInv'
  <1>1. f.m \in Member /\ f.stamp \in Nat /\ f.m \in roster
    BY ZenonT(60) DEF StampInv, StampTypeOK, Arrive, Accepts
  <1>2. floor(f.m) \in Int
    <2>1. /\ now \in Int /\ roff \in Int /\ W \in Int
          /\ started \in Int /\ added[f.m] \in Int
      BY <1>1, StampsAssumption, SMTT(30) DEF StampInv, StampTypeOK
    <2> QED BY <2>1, SMTT(30) DEF floor, Larger
  <1>3. f.stamp > stamps[f.m]
    BY <1>1, <1>2, SMTT(30) DEF Arrive, Accepts, lastStamp, Larger, StampInv, StampTypeOK
  <1>4. f \in taken => f.m \in forgot
    BY <1>1, <1>3, SMTT(30) DEF StampInv, StampTypeOK, Guarded, Refuses
  <1>5. StampTypeOK' /\ ~twice'
    BY <1>1, <1>4, ZenonT(60) DEF StampInv, StampTypeOK, Arrive, clocks
  <1>6. Guarded'
    <2> SUFFICES ASSUME NEW g \in taken', g.m \notin forgot' PROVE g.stamp <= Refuses(g.m)'
      BY ZenonT(60) DEF Guarded
    <2>1. g.m \in Member /\ g.stamp \in Nat
      BY <1>1, SMTT(30) DEF StampInv, StampTypeOK, Arrive
    <2>2. CASE g = f
      BY <1>1, <2>2, SMTT(30) DEF Arrive, Refuses, StampInv, StampTypeOK
    <2>3. CASE g # f
      <3>1. g \in taken /\ g.m \notin forgot
        BY <2>3, ZenonT(60) DEF Arrive
      <3>2. g.stamp <= Refuses(g.m)
        BY <3>1, ZenonT(60) DEF StampInv, Guarded
      <3> QED BY <1>1, <1>3, <2>1, <3>2, SMTT(30) DEF Arrive, Refuses, StampInv, StampTypeOK
    <2> QED BY <2>2, <2>3, ZenonT(60)
  <1>7. Earned'
    <2>1. \A m \in Member : stamps'[m] # 0 => \E g \in taken' : g.m = m /\ g.stamp = stamps'[m]
      BY <1>1, ZenonT(60) DEF StampInv, StampTypeOK, Earned, Arrive
    <2>2. \A m \in Member : retained'[m] # 0 => \E g \in taken' : g.m = m /\ g.stamp = retained'[m]
      BY ZenonT(60) DEF StampInv, Earned, Arrive
    <2> QED BY <2>1, <2>2, ZenonT(60) DEF Earned
  <1>8. Past'
    BY ZenonT(60) DEF StampInv, Past, Arrive, clocks
  <1> QED BY <1>5, <1>6, <1>7, <1>8, ZenonT(60) DEF StampInv

(* A member that leaves takes its stamp to the retained ones, or is forgotten. *)
LEMMA LeaveHolds ==
  ASSUME StampInv, NEW m \in Member, Leave(m)
  PROVE  StampInv'
  <1>1. PICK gone : /\ retained' = [x \in Member |-> IF x \in gone THEN 0
                          ELSE IF x = m /\ stamps[m] # 0 THEN stamps[m] ELSE retained[x]]
                    /\ forgot' = forgot \cup gone
    <2>1. CASE stamps[m] = 0
      <3>1. retained = [x \in Member |-> IF x \in {} THEN 0
                          ELSE IF x = m /\ stamps[m] # 0 THEN stamps[m] ELSE retained[x]]
        BY <2>1, ZenonT(60) DEF StampInv, StampTypeOK
      <3>2. retained' = retained /\ forgot' = forgot
        BY <2>1, ZenonT(60) DEF Leave
      <3>3. forgot' = forgot \cup {}
        BY <3>2, ZenonT(60)
      <3> QED BY <3>1, <3>2, <3>3, ZenonT(60)
    <2>2. CASE stamps[m] # 0
      <3> DEFINE ids == Append(Without(m), m)
                 gone == IF Len(ids) > RetainedCap THEN {Head(ids)} ELSE {}
      <3>1. put(m)
        BY <2>2, ZenonT(60) DEF Leave
      <3>2. /\ retained' = [x \in Member |-> IF x \in gone THEN 0
                                             ELSE IF x = m THEN stamps[m] ELSE retained[x]]
            /\ forgot' = forgot \cup gone
        BY <3>1, ZenonT(60) DEF put
      <3> HIDE DEF gone
      <3> QED BY <2>2, <3>2, ZenonT(60)
    <2> QED BY <2>1, <2>2, ZenonT(60)
  <1>2. /\ roster' = roster \ {m} /\ stamps' = [stamps EXCEPT ![m] = 0] /\ m \in roster
        /\ added' = [added EXCEPT ![m] = 0]
        /\ UNCHANGED <<now, off, roff, last, sent, started, taken, twice>>
    BY ZenonT(60) DEF Leave, clocks
  <1>3. StampTypeOK' /\ ~twice'
    BY <1>1, <1>2, ZenonT(60) DEF StampInv, StampTypeOK
  <1>4. Guarded'
    <2> SUFFICES ASSUME NEW f \in taken, f.m \notin forgot' PROVE f.stamp <= Refuses(f.m)'
      BY <1>2, ZenonT(60) DEF Guarded
    <2>1. f.m \in Member /\ f.stamp \in Nat /\ f.m \notin gone /\ f.m \notin forgot
      BY <1>1, ZenonT(60) DEF StampInv, StampTypeOK
    <2>2. f.stamp <= Refuses(f.m)
      BY <2>1, ZenonT(60) DEF StampInv, Guarded
    <2>3. CASE f.m = m
      <3>1. Refuses(f.m)' = IF stamps[m] # 0 THEN stamps[m] ELSE retained[m]
        BY <1>1, <1>2, <2>1, <2>3, ZenonT(60) DEF Refuses
      <3>2. f.stamp <= stamps[m] /\ stamps[m] \in Nat /\ retained[m] \in Nat
        BY <1>2, <2>2, <2>3, ZenonT(60) DEF Refuses, StampInv, StampTypeOK
      <3> QED BY <2>1, <3>1, <3>2, SMTT(30)
    <2>4. CASE f.m # m
      <3>1. Refuses(f.m)' = Refuses(f.m)
        BY <1>1, <1>2, <2>1, <2>4, ZenonT(60) DEF Refuses, StampInv, StampTypeOK
      <3> QED BY <2>2, <3>1, ZenonT(60)
    <2> QED BY <2>3, <2>4, ZenonT(60)
  <1>5. Earned'
    <2>1. \A x \in Member : stamps'[x] # 0 => \E g \in taken' : g.m = x /\ g.stamp = stamps'[x]
      BY <1>2, ZenonT(60) DEF StampInv, StampTypeOK, Earned
    <2>2. \A x \in Member : retained'[x] # 0 => \E g \in taken' : g.m = x /\ g.stamp = retained'[x]
      <3> SUFFICES ASSUME NEW x \in Member, retained'[x] # 0
                   PROVE  \E g \in taken : g.m = x /\ g.stamp = retained'[x]
        BY <1>2, ZenonT(60)
      <3>1. retained'[x] = IF x = m /\ stamps[m] # 0 THEN stamps[m] ELSE retained[x]
        BY <1>1, ZenonT(60)
      <3> QED BY <3>1 DEF StampInv, Earned
    <2> QED BY <2>1, <2>2, ZenonT(60) DEF Earned
  <1>6. Past'
    BY <1>2, SMTT(30) DEF StampInv, StampTypeOK, Past
  <1> QED BY <1>3, <1>4, <1>5, <1>6, ZenonT(60) DEF StampInv

(* A member admitted again gets its retained stamp back. *)
LEMMA AdmitHolds ==
  ASSUME StampInv, NEW m \in Member, Admit(m)
  PROVE  StampInv'
  <1>1. /\ roster' = roster \cup {m} /\ stamps' = [stamps EXCEPT ![m] = retained[m]] /\ m \notin roster
        /\ added' = [added EXCEPT ![m] = now] /\ retained' = [retained EXCEPT ![m] = 0]
        /\ UNCHANGED <<now, off, roff, last, sent, started, taken, forgot, twice>>
    BY ZenonT(60) DEF Admit, clocks, take
  <1>2. StampTypeOK' /\ ~twice'
    BY <1>1, ZenonT(60) DEF StampInv, StampTypeOK
  <1>3. \A x \in Member : Refuses(x)' = Refuses(x)
    BY <1>1, ZenonT(60) DEF StampInv, StampTypeOK, Refuses
  <1>4. \A f \in taken : f.m \in Member
    BY ZenonT(60) DEF StampInv, StampTypeOK
  <1>5. Guarded'
    BY <1>1, <1>3, <1>4, ZenonT(60) DEF StampInv, Guarded
  <1>6. Earned'
    BY <1>1, SMTT(30) DEF StampInv, StampTypeOK, Earned
  <1>7. Past'
    BY <1>1, SMTT(30) DEF StampInv, StampTypeOK, Past
  <1> QED BY <1>2, <1>5, <1>6, <1>7, ZenonT(60) DEF StampInv

(* Every step keeps the invariant. *)
LEMMA StampStep == StampInv /\ [StampNext]_stampVars => StampInv'
  <1> SUFFICES ASSUME StampInv, [StampNext]_stampVars PROVE StampInv'
    BY ZenonT(60)
  <1>1. ASSUME NEW m \in Member, Initiate(m) PROVE StampInv'
    BY <1>1, InitiateHolds, ZenonT(60)
  <1>2. ASSUME NEW f \in sent, Arrive(f) PROVE StampInv'
    BY <1>2, ArriveHolds, ZenonT(60)
  <1>3. ASSUME NEW m \in Member, Leave(m) PROVE StampInv'
    BY <1>3, LeaveHolds, ZenonT(60)
  <1>4. ASSUME NEW m \in Member, Admit(m) PROVE StampInv'
    BY <1>4, AdmitHolds, ZenonT(60)
  <1>5. CASE Restart
    BY <1>5, SMTT(30) DEF Restart, clocks, Zero, StampInv, StampTypeOK, Guarded, Earned, Past
  <1>6. ASSUME NEW m \in Member, MemberRestart(m) PROVE StampInv'
    BY <1>6, ZenonT(60) DEF MemberRestart, clocks, responder, StampInv, StampTypeOK, Guarded, Refuses, Earned, Past
  <1>7. CASE Tick
    BY <1>7, SMTT(30) DEF Tick, responder, StampInv, StampTypeOK, Guarded, Refuses, Earned, Past
  <1>8. CASE ClockStep
    <2>1. off' \in [Member -> Int] /\ roff' \in Int
      <3>1. off \in [Member -> Int] /\ roff \in Int
        BY ZenonT(60) DEF StampInv, StampTypeOK
      <3>2. CASE \E m \in Member, o \in Offsets : off' = [off EXCEPT ![m] = o] /\ UNCHANGED roff
        BY <3>1, <3>2, StampsAssumption, ZenonT(60)
      <3>3. CASE roff' \in Offsets /\ UNCHANGED off
        BY <3>1, <3>3, StampsAssumption, ZenonT(60)
      <3> QED BY <1>8, <3>2, <3>3, ZenonT(60) DEF ClockStep
    <2>2. UNCHANGED <<now, last, sent, roster, stamps, retained, started, added, taken, forgot, twice>>
      BY <1>8, ZenonT(60) DEF ClockStep, responder
    <2> QED BY <2>1, <2>2, ZenonT(60) DEF StampInv, StampTypeOK, Guarded, Refuses, Earned, Past
  <1>9. CASE UNCHANGED stampVars
    BY <1>9, ZenonT(60) DEF stampVars, StampInv, StampTypeOK, Guarded, Refuses, Earned, Past
  <1> QED BY <1>1, <1>2, <1>3, <1>4, <1>5, <1>6, <1>7, <1>8, <1>9, ZenonT(60) DEF StampNext

(* The invariant holds always. *)
LEMMA StampInvHolds == StampSpec => []StampInv
  BY StampStarts, StampStep, PTL DEF StampSpec

(* No init is accepted twice by a running responder, however its member leaves and comes
   back and the clocks move, short of more leaves than stamps are retained (onInit). *)
THEOREM ReplayRefused == StampSpec => []NeverTwice
  <1>1. StampInv => NeverTwice
    BY ZenonT(60) DEF StampInv, NeverTwice
  <1> QED BY <1>1, StampInvHolds, PTL

(* A stamp less than W behind the responder's wall clock is above a floor set in the past. *)
LEMMA FloorBelow ==
  ASSUME NEW n \in Nat, NEW o \in Int, NEW l \in Nat, l <= n, NEW w \in Nat, NEW x \in Nat,
         x > 0, x > o + n - w
  PROVE  Larger(n + o - (n - l) - w, 0) < x
  BY DEF Larger

(* Nor is a stamp less than W ahead of it too far ahead. *)
LEMMA AheadBelow ==
  ASSUME NEW n \in Nat, NEW o \in Int, NEW d \in Int, NEW w \in Nat, d - o < w
  PROVE  n + d <= Larger(n + o, 0) + w
  BY DEF Larger

(* What the invariant says of a fresh init: it passes onInit's check. *)
LEMMA FreshPasses == StampInv => FreshAccepted
  <1> SUFFICES ASSUME StampInv, NEW f \in sent,
                      f.at = now, f.m \in roster, f \notin taken, f.stamp = now + off[f.m],
                      off[f.m] - roff < W, roff - off[f.m] < W,
                      \A g \in sent : g.m = f.m /\ g # f => g.stamp < f.stamp
               PROVE  Accepts(f)
    BY ZenonT(60) DEF FreshAccepted
  <1>1. f.m \in Member /\ f.stamp \in Nat /\ now \in Nat /\ roff \in Int /\ off[f.m] \in Int
        /\ started \in Nat /\ added[f.m] \in Nat /\ stamps[f.m] \in Nat
    BY ZenonT(60) DEF StampInv, StampTypeOK
  <1>2. stamps[f.m] < f.stamp
    <2>1. CASE stamps[f.m] = 0
      BY <1>1, <2>1, SMTT(30) DEF StampInv, StampTypeOK
    <2>2. CASE stamps[f.m] # 0
      <3>1. PICK g \in taken : g.m = f.m /\ g.stamp = stamps[f.m]
        BY <1>1, <2>2, ZenonT(60) DEF StampInv, Earned
      <3>2. g \in sent /\ g # f
        BY <3>1, ZenonT(60) DEF StampInv, StampTypeOK
      <3> QED BY <3>1, <3>2, ZenonT(60)
    <2> QED BY <2>1, <2>2, ZenonT(60)
  <1>3. W \in Nat /\ started <= now /\ added[f.m] <= now
    BY <1>1, StampsAssumption, ZenonT(60) DEF StampInv, Past
  <1>4. floor(f.m) < f.stamp
    <2>1. f.stamp > 0 /\ f.stamp > roff + now - W
      <3>1. off[f.m] \in Int /\ f.stamp = now + off[f.m] /\ roff - off[f.m] < W
        BY <1>1, ZenonT(60)
      <3>2. f.stamp # 0
        BY ZenonT(60) DEF StampInv, StampTypeOK
      <3> QED BY <1>1, <1>3, <3>1, <3>2
    <2>2. Larger(started, added[f.m]) \in Nat /\ Larger(started, added[f.m]) <= now
      BY <1>1, <1>3, ZenonT(60) DEF Larger
    <2> QED BY <1>1, <1>3, <2>1, <2>2, FloorBelow, ZenonT(60) DEF floor
  <1>5. lastStamp(f.m) < f.stamp
    BY <1>2, <1>4, ZenonT(60) DEF lastStamp, Larger
  <1>6. f.stamp <= Larger(now + roff, 0) + W
    BY <1>1, <1>3, AheadBelow, ZenonT(60)
  <1> QED BY <1>5, <1>6, ZenonT(60) DEF Accepts

(* A member whose clock is less than W from the responder's is never refused when its
   init arrives promptly (lastStamp). *)
THEOREM FreshNotRefused == StampSpec => []FreshAccepted
  BY FreshPasses, StampInvHolds, PTL

-----------------------------------------------------------------------------
(* The pairing channels. *)

\* A call of endChannel that took its channel out of the table.
Running(k) == k.at # "lock"

\* One call of a channel is past the lock, and then the channel is out of the table; a call is on
\* a channel that was made.
OneRuns ==
    /\ \A k, j \in calls : Running(k) /\ Running(j) /\ k.ch = j.ch => k = j
    /\ \A k \in calls : Running(k) => k.ch \notin open
    /\ \A k \in calls : chPrimary[k.ch] # NoConn /\ npc[k.ch] \notin {"new", "found"}

\* A channel not made yet, or still in the table, has had no end; what the newcomer's reader has
\* done so far fits the channel it has.
Fresh ==
    \A n \in Newcomer :
        /\ npc[n] \in {"new", "found"} \/ n \in open => endsP[n] = 0 /\ endsN[n] = 0
        /\ n \in open => npc[n] \notin {"new", "found"}
        /\ npc[n] = "new" => chPrimary[n] = NoConn
        /\ npc[n] \in {"found", "opened", "told", "pairing"} => chPrimary[n] # NoConn
        /\ n \in told => chPrimary[n] # NoConn /\ npc[n] \notin {"new", "found"}

\* A call has sent the ends its place says, and one that leaves the primary out does so because
\* the primary ended the channel or its connection is closing.
Ends ==
    \A k \in calls :
        /\ k.at = "primary" => endsP[k.ch] = 0 /\ endsN[k.ch] = 0
        /\ k.at = "newcomer" => endsN[k.ch] = 0
        /\ ~k.tellP => k.ch \in quit \/ chPrimary[k.ch] \in closing

\* A connection out of the members table is closing.
Departed == \A m \in MemberConn : mpc[m] # "in" => m \in closing

\* A primary that may still be told of a channel's end has been told it once.
Heard ==
    \A n \in Newcomer :
        /\ chPrimary[n] # NoConn /\ npc[n] # "found"
        /\ n \notin open \cup quit
        /\ chPrimary[n] \notin closing
        /\ ~\E k \in calls : k.ch = n /\ k.at = "primary"
        => endsP[n] = 1

\* The inductive invariant of the pairing channels.
PairInv == EndedOnce /\ OneRuns /\ Fresh /\ Ends /\ Departed /\ Heard /\ NoneOutlivesPrimary

\* The invariant holds before any newcomer came.
LEMMA PairStarts == PairInit => PairInv
  BY MemberConnAssumption DEF PairInit, PairInv, EndedOnce, PairTypeOK, OneRuns, Fresh, Ends, Departed, Heard, NoneOutlivesPrimary, Running

\* It gives what endChannel, pair and unregister keep of the channels.
LEMMA PairKept == PairInv => PairingKept
  BY ZenonT(60) DEF PairInv, PairingKept, Heard, PrimaryHears, Fresh, EndedOnce, PairTypeOK

USE MemberConnAssumption

\* j is a call on a channel that was opened, about to take the lock, and leaves the primary
\* out only where that is right.
Starting(j) ==
    /\ j \in Calls
    /\ j.at = "lock"
    /\ chPrimary[j.ch] # NoConn
    /\ npc[j.ch] \notin {"new", "found"}
    /\ ~j.tellP => j.ch \in quit \/ chPrimary[j.ch] \in closing

\* A step that starts calls, and does no more to channels than that.
Starts ==
    /\ UNCHANGED <<chPrimary, open, endsP, endsN>>
    /\ calls \subseteq calls'
    /\ \A j \in calls' : j \in calls \/ Starting(j)'
    /\ closing \subseteq closing' /\ quit \subseteq quit'
    /\ \A n \in Newcomer : npc[n] \in {"new", "found"} <=> npc'[n] \in {"new", "found"}
    /\ \A n \in Newcomer : npc'[n] = npc[n] \/ npc'[n] \in {"told", "leave", "gone"}

\* Starting calls of endChannel sends nothing, so the ends stay as the invariant says.
LEMMA StartsKeeps ==
  ASSUME PairInv, PairTypeOK', Starts
  PROVE  OneRuns' /\ Ends' /\ Heard' /\ EndedOnce'
<1> USE DEF PairInv, Starts
<1>1. \A j \in calls' : Running(j) => j \in calls
  BY ZenonT(60) DEF Starting, Running
<1>2. \A j \in calls : j.ch \in Newcomer
  BY ZenonT(60) DEF EndedOnce, PairTypeOK, Calls
<1>3. OneRuns'
  <2>1. ASSUME NEW k \in calls', NEW j \in calls', Running(k), Running(j), k.ch = j.ch PROVE k = j
    BY <1>1, <2>1, ZenonT(60) DEF OneRuns
  <2>2. ASSUME NEW k \in calls', Running(k) PROVE k.ch \notin open'
    BY <1>1, <2>2, ZenonT(60) DEF OneRuns
  <2>3. ASSUME NEW k \in calls' PROVE chPrimary'[k.ch] # NoConn /\ npc'[k.ch] \notin {"new", "found"}
    <3>1. CASE k \in calls
      BY <1>2, <3>1, ZenonT(60) DEF OneRuns
    <3>2. CASE Starting(k)'
      BY <3>2, ZenonT(60) DEF Starting
    <3> QED BY <3>1, <3>2, ZenonT(60)
  <2> QED BY <2>1, <2>2, <2>3, ZenonT(60) DEF OneRuns, Running
<1>4. Ends'
  <2> SUFFICES ASSUME NEW k \in calls'
               PROVE  /\ k.at = "primary" => endsP'[k.ch] = 0 /\ endsN'[k.ch] = 0
                      /\ k.at = "newcomer" => endsN'[k.ch] = 0
                      /\ ~k.tellP => k.ch \in quit' \/ chPrimary'[k.ch] \in closing'
    BY ZenonT(60) DEF Ends
  <2>1. CASE k \in calls
    BY <2>1, ZenonT(60) DEF Ends
  <2>2. CASE Starting(k)'
    BY <2>2, ZenonT(60) DEF Starting
  <2> QED BY <2>1, <2>2, ZenonT(60)
<1>5. Heard'
  BY ZenonT(60) DEF Heard, EndedOnce, PairTypeOK
<1>6. EndedOnce'
  BY ZenonT(60) DEF EndedOnce
<1> QED BY <1>3, <1>4, <1>5, <1>6, ZenonT(60)

\* Nor does a channel come to outlive its primary's connection by it.
LEMMA OutlivesKept ==
  ASSUME PairInv, Starts, UNCHANGED mpc, \A n \in open : npc[n] = "opened" => npc'[n] = "opened"
  PROVE  NoneOutlivesPrimary'
<1> SUFFICES ASSUME NEW n \in open', mpc'[chPrimary'[n]] = "gone"
             PROVE  npc'[n] = "opened" \/ \E k \in calls' : k.ch = n /\ k.at = "lock"
  BY ZenonT(60) DEF NoneOutlivesPrimary
<1>1. npc[n] = "opened" \/ \E k \in calls : k.ch = n /\ k.at = "lock"
  BY ZenonT(60) DEF PairInv, NoneOutlivesPrimary, Starts
<1> QED BY <1>1, ZenonT(60) DEF Starts

\* What the registry does to members' connections keeps the invariant: a new primary, a close,
\* unregister with the end of the channels it owned, and demote.
LEMMA MemberKeeps ==
  ASSUME PairInv, NEW m \in MemberConn, MemberStep(m)
  PROVE  PairInv'
<1> USE DEF PairInv
<1>1. ASSUME NEW demotes \in BOOLEAN, NewPrimary(m, demotes) PROVE PairInv'
  <2>1. EndedOnce'
    BY <1>1, ZenonT(60) DEF NewPrimary, EndedOnce, PairTypeOK
  <2>2. OneRuns'
    BY <1>1, ZenonT(60) DEF NewPrimary, EndedOnce, PairTypeOK, OneRuns, Running
  <2>3. Fresh'
    BY <1>1, ZenonT(60) DEF NewPrimary, EndedOnce, PairTypeOK, Fresh
  <2>4. Ends' /\ Departed'
    BY <1>1, ZenonT(60) DEF NewPrimary, EndedOnce, PairTypeOK, Ends, Departed, Fresh
  <2>5. Heard'
    BY <1>1, ZenonT(60) DEF NewPrimary, EndedOnce, PairTypeOK, Heard
  <2>6. NoneOutlivesPrimary'
    BY <1>1, ZenonT(60) DEF NewPrimary, EndedOnce, PairTypeOK, NoneOutlivesPrimary, Departed
  <2> QED BY <2>1, <2>2, <2>3, <2>4, <2>5, <2>6, ZenonT(60)
<1>2. CASE CloseMember(m)
  <2>1. EndedOnce'
    BY <1>2, ZenonT(60) DEF CloseMember, regVars, EndedOnce, PairTypeOK
  <2>2. OneRuns'
    BY <1>2, ZenonT(60) DEF CloseMember, regVars, EndedOnce, PairTypeOK, OneRuns, Running
  <2>3. Fresh'
    BY <1>2, ZenonT(60) DEF CloseMember, regVars, EndedOnce, PairTypeOK, Fresh
  <2>4. Ends' /\ Departed'
    BY <1>2, ZenonT(60) DEF CloseMember, regVars, EndedOnce, PairTypeOK, Ends, Departed, Fresh
  <2>5. Heard'
    BY <1>2, ZenonT(60) DEF CloseMember, regVars, EndedOnce, PairTypeOK, Heard
  <2>6. NoneOutlivesPrimary'
    BY <1>2, ZenonT(60) DEF CloseMember, regVars, EndedOnce, PairTypeOK, NoneOutlivesPrimary, Departed
  <2> QED BY <2>1, <2>2, <2>3, <2>4, <2>5, <2>6, ZenonT(60)
<1>3. CASE LeaveMembers(m)
  <2>1. EndedOnce'
    BY <1>3, ZenonT(60) DEF LeaveMembers, EndedOnce, PairTypeOK
  <2>2. OneRuns'
    BY <1>3, ZenonT(60) DEF LeaveMembers, EndedOnce, PairTypeOK, OneRuns, Running
  <2>3. Fresh'
    BY <1>3, ZenonT(60) DEF LeaveMembers, EndedOnce, PairTypeOK, Fresh
  <2>4. Ends' /\ Departed'
    BY <1>3, ZenonT(60) DEF LeaveMembers, EndedOnce, PairTypeOK, Ends, Departed, Fresh
  <2>5. Heard'
    BY <1>3, ZenonT(60) DEF LeaveMembers, EndedOnce, PairTypeOK, Heard
  <2>6. NoneOutlivesPrimary'
    BY <1>3 DEF LeaveMembers, EndedOnce, PairTypeOK, NoneOutlivesPrimary, Departed
  <2> QED BY <2>1, <2>2, <2>3, <2>4, <2>5, <2>6, ZenonT(60)
<1>4. CASE EndOwned(m)
  <2> DEFINE S == {Call(n, FALSE, TRUE) : n \in {k \in open : chPrimary[k] = m}}
  <2>1. \A j \in S : /\ j \in Calls /\ j.at = "lock" /\ ~j.tellP
                    /\ j.ch \in open /\ chPrimary[j.ch] = m
    <3>1. ASSUME NEW n \in open
          PROVE  /\ Call(n, FALSE, TRUE) \in Calls /\ Call(n, FALSE, TRUE).at = "lock"
                 /\ Call(n, FALSE, TRUE).ch = n /\ ~Call(n, FALSE, TRUE).tellP
      BY ZenonT(60) DEF Call, Calls, EndedOnce, PairTypeOK
    <3> QED BY <3>1, ZenonT(60)
  <2>2. \A n \in open : chPrimary[n] = m => \E j \in S : j.ch = n /\ j.at = "lock"
    <3>1. ASSUME NEW n \in open, chPrimary[n] = m
          PROVE  Call(n, FALSE, TRUE) \in S
      BY <3>1, ZenonT(60)
    <3>2. ASSUME NEW n \in open
          PROVE  Call(n, FALSE, TRUE).at = "lock" /\ Call(n, FALSE, TRUE).ch = n
      BY ZenonT(60) DEF Call
    <3> QED BY <3>1, <3>2, ZenonT(60)
  <2>3. calls' = calls \cup S
    BY <1>4, ZenonT(60) DEF EndOwned
  <2> HIDE DEF S
  <2>4. PairTypeOK'
    BY <1>4, <2>1, <2>3, ZenonT(60) DEF EndOwned, EndedOnce, PairTypeOK
  <2>5. \A j \in S : Starting(j)'
    BY <1>4, <2>1, ZenonT(60) DEF EndOwned, Starting, EndedOnce, PairTypeOK, Fresh, Departed
  <2>6. Starts
    BY <1>4, <2>3, <2>5, ZenonT(60) DEF EndOwned, Starts, EndedOnce, PairTypeOK
  <2>7. Fresh' /\ Departed'
    BY <1>4, ZenonT(60) DEF EndOwned, EndedOnce, PairTypeOK, Fresh, Departed
  <2>8. NoneOutlivesPrimary'
    <3> SUFFICES ASSUME NEW n \in open', mpc'[chPrimary'[n]] = "gone"
                 PROVE  npc'[n] = "opened" \/ \E k \in calls' : k.ch = n /\ k.at = "lock"
      BY ZenonT(60) DEF NoneOutlivesPrimary
    <3>1. n \in open /\ (chPrimary[n] = m \/ mpc[chPrimary[n]] = "gone")
      BY <1>4, ZenonT(60) DEF EndOwned, EndedOnce, PairTypeOK
    <3>2. npc'[n] = npc[n]
      BY <1>4, ZenonT(60) DEF EndOwned
    <3>3. npc[n] = "opened" \/ \E k \in calls \cup S : k.ch = n /\ k.at = "lock"
      <4>1. CASE chPrimary[n] = m
        BY <2>2, <3>1, <4>1, ZenonT(60)
      <4>2. CASE mpc[chPrimary[n]] = "gone"
        BY <3>1, <4>2, ZenonT(60) DEF NoneOutlivesPrimary
      <4> QED BY <3>1, <4>1, <4>2, ZenonT(60)
    <3> QED BY <2>3, <3>2, <3>3, ZenonT(60)
  <2> QED BY <2>4, <2>6, <2>7, <2>8, StartsKeeps, ZenonT(60)
<1>5. CASE DemoteEnds(m)
  <2> DEFINE S == {Call(n, TRUE, TRUE) : n \in {k \in open : chPrimary[k] = m}}
  <2>1. \A j \in S : /\ j \in Calls /\ j.at = "lock" /\ j.tellP
                    /\ j.ch \in open /\ chPrimary[j.ch] = m
    <3>1. ASSUME NEW n \in open
          PROVE  /\ Call(n, TRUE, TRUE) \in Calls /\ Call(n, TRUE, TRUE).at = "lock"
                 /\ Call(n, TRUE, TRUE).ch = n /\ Call(n, TRUE, TRUE).tellP
      BY ZenonT(60) DEF Call, Calls, EndedOnce, PairTypeOK
    <3> QED BY <3>1, ZenonT(60)
  <2>2. \A n \in open : chPrimary[n] = m => \E j \in S : j.ch = n /\ j.at = "lock"
    <3>1. ASSUME NEW n \in open, chPrimary[n] = m
          PROVE  Call(n, TRUE, TRUE) \in S
      BY <3>1, ZenonT(60)
    <3>2. ASSUME NEW n \in open
          PROVE  Call(n, TRUE, TRUE).at = "lock" /\ Call(n, TRUE, TRUE).ch = n
      BY ZenonT(60) DEF Call
    <3> QED BY <3>1, <3>2, ZenonT(60)
  <2>3. calls' = calls \cup S
    BY <1>5, ZenonT(60) DEF DemoteEnds
  <2> HIDE DEF S
  <2>4. PairTypeOK'
    BY <1>5, <2>1, <2>3, ZenonT(60) DEF DemoteEnds, EndedOnce, PairTypeOK
  <2>5. \A j \in S : Starting(j)'
    BY <1>5, <2>1, ZenonT(60) DEF DemoteEnds, Starting, EndedOnce, PairTypeOK, Fresh, Departed
  <2>6. Starts
    BY <1>5, <2>3, <2>5, ZenonT(60) DEF DemoteEnds, Starts, EndedOnce, PairTypeOK
  <2>7. Fresh' /\ Departed'
    BY <1>5, ZenonT(60) DEF DemoteEnds, EndedOnce, PairTypeOK, Fresh, Departed
  <2>8. NoneOutlivesPrimary'
    BY <1>5, <2>6, OutlivesKept, ZenonT(60) DEF DemoteEnds
  <2> QED BY <2>4, <2>6, <2>7, <2>8, StartsKeeps, ZenonT(60)
<1> QED BY <1>1, <1>2, <1>3, <1>4, <1>5, ZenonT(60) DEF MemberStep

\* So do the steps of a newcomer's reader in pair and after, the primary's pairEnd and the
\* timeout.
LEMMA NewcomerKeeps ==
  ASSUME PairInv, NEW n \in Newcomer, NewcomerStep(n)
  PROVE  PairInv'
<1> USE DEF PairInv
<1>1. CASE Lookup(n)
  <2>1. EndedOnce'
    BY <1>1, ZenonT(60) DEF Lookup, regVars, EndedOnce, PairTypeOK, Fresh
  <2>7. /\ UNCHANGED <<mpc, open, calls, endsP, endsN, quit>> /\ closing \subseteq closing' /\ npc[n] = "new"
        /\ \A m \in MemberConn : m \in closing => m \in closing'
    BY <1>1, ZenonT(60) DEF Lookup, regVars
  <2>8. \A x \in Newcomer : x # n => npc'[x] = npc[x] /\ chPrimary'[x] = chPrimary[x]
    BY <1>1, ZenonT(60) DEF Lookup, EndedOnce, PairTypeOK
  <2>9. \A k \in calls : k.ch \in Newcomer /\ k.ch # n
    BY <2>7, ZenonT(60) DEF EndedOnce, PairTypeOK, Calls, OneRuns
  <2>10. \A x \in open : x \in Newcomer /\ x # n
    BY <2>7, ZenonT(60) DEF EndedOnce, PairTypeOK, Fresh
  <2>2. OneRuns'
    BY <2>7, <2>8, <2>9, ZenonT(60) DEF OneRuns, Running
  <2>3. Fresh'
    BY <1>1, ZenonT(60) DEF Lookup, regVars, EndedOnce, PairTypeOK, Fresh
  <2>4. Ends' /\ Departed'
    BY <2>7, <2>8, <2>9, ZenonT(60) DEF Ends, Departed
  <2>5. Heard'
    BY <1>1, ZenonT(60) DEF Lookup, regVars, EndedOnce, PairTypeOK, Heard
  <2>6. NoneOutlivesPrimary'
    <3>1. SUFFICES ASSUME NEW x \in open', mpc'[chPrimary'[x]] = "gone"
                   PROVE  npc'[x] = "opened" \/ \E k \in calls' : k.ch = x /\ k.at = "lock"
      BY ZenonT(60) DEF NoneOutlivesPrimary
    <3>2. x \in open /\ calls' = calls /\ mpc' = mpc
      BY <2>7, ZenonT(60)
    <3>3. chPrimary'[x] = chPrimary[x] /\ npc'[x] = npc[x]
      BY <3>2, <2>8, <2>10, ZenonT(60)
    <3> QED BY <3>1, <3>2, <3>3, ZenonT(60) DEF NoneOutlivesPrimary
  <2> QED BY <2>1, <2>2, <2>3, <2>4, <2>5, <2>6, ZenonT(60)
<1>2. CASE OpenChannel(n)
  <2>1. EndedOnce'
    BY <1>2, ZenonT(60) DEF OpenChannel, regVars, EndedOnce, PairTypeOK, Fresh
  <2>7. /\ UNCHANGED <<mpc, chPrimary, calls>> /\ open' = open \cup {n} /\ npc[n] = "found"
    BY <1>2, ZenonT(60) DEF OpenChannel, regVars
  <2>8. npc'[n] = "opened" /\ \A x \in Newcomer : x # n => npc'[x] = npc[x]
    BY <1>2, ZenonT(60) DEF OpenChannel, EndedOnce, PairTypeOK
  <2>9. \A k \in calls : k.ch \in Newcomer /\ k.ch # n
    BY <2>7, ZenonT(60) DEF EndedOnce, PairTypeOK, Calls, OneRuns
  <2>10. open \subseteq Newcomer
    BY ZenonT(60) DEF EndedOnce, PairTypeOK
  <2>2. OneRuns'
    BY <2>7, <2>8, <2>9, ZenonT(60) DEF OneRuns, Running
  <2>3. Fresh'
    BY <1>2, ZenonT(60) DEF OpenChannel, regVars, EndedOnce, PairTypeOK, Fresh
  <2>4. Ends' /\ Departed'
    BY <1>2, ZenonT(60) DEF OpenChannel, regVars, EndedOnce, PairTypeOK, Ends, Departed, Fresh
  <2>5. Heard'
    BY <1>2, ZenonT(60) DEF OpenChannel, regVars, EndedOnce, PairTypeOK, Heard
  <2>6. NoneOutlivesPrimary'
    BY <2>7, <2>8, <2>10, ZenonT(60) DEF NoneOutlivesPrimary
  <2> QED BY <2>1, <2>2, <2>3, <2>4, <2>5, <2>6, ZenonT(60)
<1>3. CASE TellPrimary(n)
  <2>1. CASE chPrimary[n] \in closing
    <3> DEFINE c == Call(n, FALSE, TRUE)
    <3>1. c \in Calls /\ c.ch = n /\ c.at = "lock" /\ ~c.tellP
      BY ZenonT(60) DEF Call, Calls
    <3>2. calls' = calls \cup {c}
      BY <1>3, <2>1, ZenonT(60) DEF TellPrimary
    <3> HIDE DEF c
    <3>3. PairTypeOK'
      BY <1>3, <2>1, <3>1, <3>2, ZenonT(60) DEF TellPrimary, regVars, EndedOnce, PairTypeOK
    <3>4. Starting(c)'
      BY <1>3, <2>1, <3>1, ZenonT(60) DEF TellPrimary, Starting, regVars, EndedOnce, PairTypeOK, Fresh, Departed
    <3>5. Starts
      BY <1>3, <2>1, <3>2, <3>4, ZenonT(60) DEF TellPrimary, Starts, regVars, EndedOnce, PairTypeOK
    <3>6. Fresh' /\ Departed'
      BY <1>3, <2>1, ZenonT(60) DEF TellPrimary, regVars, EndedOnce, PairTypeOK, Fresh, Departed
    <3>7. NoneOutlivesPrimary'
      <4>1. UNCHANGED <<mpc, chPrimary, open>> /\ \A x \in Newcomer : x # n => npc'[x] = npc[x]
        BY <1>3, ZenonT(60) DEF TellPrimary, regVars, EndedOnce, PairTypeOK
      <4>2. open \subseteq Newcomer
        BY ZenonT(60) DEF EndedOnce, PairTypeOK
      <4> QED BY <3>1, <3>2, <4>1, <4>2, ZenonT(60) DEF NoneOutlivesPrimary
    <3> QED BY <3>3, <3>5, <3>6, <3>7, StartsKeeps, ZenonT(60)
  <2>2. CASE ~(chPrimary[n] \in closing)
    <3>0. /\ UNCHANGED <<primary, mpc, stale, due, closing, chPrimary, open, calls, endsP, endsN, quit>>
          /\ told' = told \cup {n} /\ npc' = [npc EXCEPT ![n] = "told"] /\ npc[n] = "opened"
      BY <1>3, <2>2, ZenonT(60) DEF TellPrimary, regVars
    <3>6. npc'[n] = "told" /\ \A x \in Newcomer : x # n => npc'[x] = npc[x]
      BY <3>0, ZenonT(60) DEF EndedOnce, PairTypeOK
    <3>7. PairTypeOK'
      BY <3>0, ZenonT(60) DEF EndedOnce, PairTypeOK
    <3>1. EndedOnce' /\ Departed' /\ Ends'
      BY <3>0, <3>7, ZenonT(60) DEF EndedOnce, Departed, Ends
    <3>4. OneRuns'
      <4>1. \A x \in Newcomer : npc[x] \notin {"new", "found"} => npc'[x] \notin {"new", "found"}
        BY <3>6, ZenonT(60)
      <4>2. \A k \in calls : k.ch \in Newcomer
        BY ZenonT(60) DEF EndedOnce, PairTypeOK, Calls
      <4> QED BY <3>0, <4>1, <4>2, ZenonT(60) DEF OneRuns, Running
    <3>5. Heard'
      BY <1>3, <2>2, ZenonT(60) DEF TellPrimary, regVars, EndedOnce, PairTypeOK, Heard
    <3>2. Fresh'
      <4>1. ASSUME NEW x \in Newcomer, x # n
            PROVE  /\ npc'[x] \in {"new", "found"} \/ x \in open' => endsP'[x] = 0 /\ endsN'[x] = 0
                   /\ x \in open' => npc'[x] \notin {"new", "found"}
                   /\ npc'[x] = "new" => chPrimary'[x] = NoConn
                   /\ npc'[x] \in {"found", "opened", "told", "pairing"} => chPrimary'[x] # NoConn
                   /\ x \in told' => chPrimary'[x] # NoConn /\ npc'[x] \notin {"new", "found"}
        BY <3>0, <3>6, <4>1, ZenonT(60) DEF Fresh
      <4>2. /\ n \in open' => endsP'[n] = 0 /\ endsN'[n] = 0
            /\ chPrimary'[n] # NoConn
        BY <3>0, ZenonT(60) DEF Fresh
      <4> QED BY <3>6, <4>1, <4>2, ZenonT(60) DEF Fresh
    <3>3. NoneOutlivesPrimary'
      <4>1. open \subseteq Newcomer
        BY ZenonT(60) DEF EndedOnce, PairTypeOK
      <4>2. n \in open => mpc[chPrimary[n]] # "gone"
        <5>1. n \in open => chPrimary[n] \in MemberConn
          BY ZenonT(60) DEF EndedOnce, PairTypeOK
        <5> QED BY <2>2, <5>1, ZenonT(60) DEF Departed
      <4> QED BY <3>0, <3>6, <4>1, <4>2, ZenonT(60) DEF NoneOutlivesPrimary
    <3> QED BY <3>1, <3>2, <3>3, <3>4, <3>5, ZenonT(60)
  <2> QED BY <2>1, <2>2, ZenonT(60)
<1>4. CASE TellNewcomer(n)
  <2>1. EndedOnce'
    BY <1>4, ZenonT(60) DEF TellNewcomer, regVars, EndedOnce, PairTypeOK
  <2>2. OneRuns'
    BY <1>4 DEF TellNewcomer, regVars, EndedOnce, PairTypeOK, OneRuns, Running
  <2>3. Fresh'
    BY <1>4, ZenonT(60) DEF TellNewcomer, regVars, EndedOnce, PairTypeOK, Fresh
  <2>4. Ends' /\ Departed'
    BY <1>4, ZenonT(60) DEF TellNewcomer, regVars, EndedOnce, PairTypeOK, Ends, Departed, Fresh
  <2>5. Heard'
    BY <1>4, ZenonT(60) DEF TellNewcomer, regVars, EndedOnce, PairTypeOK, Heard
  <2>6. NoneOutlivesPrimary'
    BY <1>4, ZenonT(60) DEF TellNewcomer, regVars, EndedOnce, PairTypeOK, NoneOutlivesPrimary, Departed
  <2> QED BY <2>1, <2>2, <2>3, <2>4, <2>5, <2>6, ZenonT(60)
<1>5. CASE NewcomerEnd(n)
  <2> DEFINE c == Call(n, TRUE, FALSE)
  <2>1. c \in Calls /\ c.ch = n /\ c.at = "lock" /\ c.tellP
    BY ZenonT(60) DEF Call, Calls
  <2>2. calls' = calls \cup {c}
    BY <1>5, ZenonT(60) DEF NewcomerEnd
  <2> HIDE DEF c
  <2>3. PairTypeOK'
    BY <1>5, <2>1, <2>2, ZenonT(60) DEF NewcomerEnd, regVars, EndedOnce, PairTypeOK
  <2>4. Starting(c)'
    BY <1>5, <2>1, ZenonT(60) DEF NewcomerEnd, Starting, regVars, EndedOnce, PairTypeOK, Fresh, Departed
  <2>5. Starts
    BY <1>5, <2>2, <2>4, ZenonT(60) DEF NewcomerEnd, Starts, regVars, EndedOnce, PairTypeOK
  <2>6. Fresh' /\ Departed'
    BY <1>5, ZenonT(60) DEF NewcomerEnd, regVars, EndedOnce, PairTypeOK, Fresh, Departed
  <2>7. NoneOutlivesPrimary'
    BY <1>5, <2>5, OutlivesKept, ZenonT(60) DEF NewcomerEnd, regVars, EndedOnce, PairTypeOK
  <2> QED BY <2>3, <2>5, <2>6, <2>7, StartsKeeps, ZenonT(60)
<1>6. CASE PrimaryEnd(n)
  <2> DEFINE c == Call(n, FALSE, TRUE)
  <2>1. c \in Calls /\ c.ch = n /\ c.at = "lock" /\ ~c.tellP
    BY ZenonT(60) DEF Call, Calls
  <2>2. calls' = calls \cup {c}
    BY <1>6, ZenonT(60) DEF PrimaryEnd
  <2> HIDE DEF c
  <2>3. PairTypeOK'
    BY <1>6, <2>1, <2>2, ZenonT(60) DEF PrimaryEnd, regVars, EndedOnce, PairTypeOK
  <2>4. Starting(c)'
    BY <1>6, <2>1, ZenonT(60) DEF PrimaryEnd, Starting, regVars, EndedOnce, PairTypeOK, Fresh, Departed
  <2>5. Starts
    BY <1>6, <2>2, <2>4, ZenonT(60) DEF PrimaryEnd, Starts, regVars, EndedOnce, PairTypeOK
  <2>6. Fresh' /\ Departed'
    BY <1>6, ZenonT(60) DEF PrimaryEnd, regVars, EndedOnce, PairTypeOK, Fresh, Departed
  <2>7. NoneOutlivesPrimary'
    BY <1>6, <2>5, OutlivesKept, ZenonT(60) DEF PrimaryEnd, regVars, EndedOnce, PairTypeOK
  <2> QED BY <2>3, <2>5, <2>6, <2>7, StartsKeeps, ZenonT(60)
<1>7. CASE PairTimeout(n)
  <2> DEFINE c == Call(n, TRUE, TRUE)
  <2>1. c \in Calls /\ c.ch = n /\ c.at = "lock" /\ c.tellP
    BY ZenonT(60) DEF Call, Calls
  <2>2. calls' = calls \cup {c}
    BY <1>7, ZenonT(60) DEF PairTimeout
  <2> HIDE DEF c
  <2>3. PairTypeOK'
    BY <1>7, <2>1, <2>2, ZenonT(60) DEF PairTimeout, regVars, EndedOnce, PairTypeOK
  <2>4. Starting(c)'
    BY <1>7, <2>1, ZenonT(60) DEF PairTimeout, Starting, regVars, EndedOnce, PairTypeOK, Fresh, Departed
  <2>5. Starts
    BY <1>7, <2>2, <2>4, ZenonT(60) DEF PairTimeout, Starts, regVars, EndedOnce, PairTypeOK
  <2>6. Fresh' /\ Departed'
    BY <1>7, ZenonT(60) DEF PairTimeout, regVars, EndedOnce, PairTypeOK, Fresh, Departed
  <2>7. NoneOutlivesPrimary'
    BY <1>7, <2>5, OutlivesKept, ZenonT(60) DEF PairTimeout, regVars, EndedOnce, PairTypeOK
  <2> QED BY <2>3, <2>5, <2>6, <2>7, StartsKeeps, ZenonT(60)
<1>8. CASE NewcomerStops(n)
  <2>1. EndedOnce'
    BY <1>8, ZenonT(60) DEF NewcomerStops, regVars, EndedOnce, PairTypeOK
  <2>2. OneRuns'
    BY <1>8 DEF NewcomerStops, regVars, EndedOnce, PairTypeOK, OneRuns, Running
  <2>3. Fresh'
    BY <1>8, ZenonT(60) DEF NewcomerStops, regVars, EndedOnce, PairTypeOK, Fresh
  <2>4. Ends' /\ Departed'
    BY <1>8, ZenonT(60) DEF NewcomerStops, regVars, EndedOnce, PairTypeOK, Ends, Departed, Fresh
  <2>5. Heard'
    BY <1>8, ZenonT(60) DEF NewcomerStops, regVars, EndedOnce, PairTypeOK, Heard
  <2>6. NoneOutlivesPrimary'
    BY <1>8 DEF NewcomerStops, regVars, EndedOnce, PairTypeOK, NoneOutlivesPrimary, Departed
  <2> QED BY <2>1, <2>2, <2>3, <2>4, <2>5, <2>6, ZenonT(60)
<1>9. CASE NewcomerLeaves(n)
  <2>1. CASE chPrimary[n] # NoConn
    <3> DEFINE c == Call(n, TRUE, FALSE)
    <3>1. c \in Calls /\ c.ch = n /\ c.at = "lock" /\ c.tellP
      BY ZenonT(60) DEF Call, Calls
    <3>2. calls' = calls \cup {c}
      BY <1>9, <2>1, ZenonT(60) DEF NewcomerLeaves
    <3> HIDE DEF c
    <3>3. PairTypeOK'
      BY <1>9, <2>1, <3>1, <3>2, ZenonT(60) DEF NewcomerLeaves, regVars, EndedOnce, PairTypeOK
    <3>4. Starting(c)'
      BY <1>9, <2>1, <3>1, ZenonT(60) DEF NewcomerLeaves, Starting, regVars, EndedOnce, PairTypeOK, Fresh, Departed
    <3>5. Starts
      BY <1>9, <2>1, <3>2, <3>4, ZenonT(60) DEF NewcomerLeaves, Starts, regVars, EndedOnce, PairTypeOK
    <3>6. Fresh' /\ Departed'
      BY <1>9, <2>1, ZenonT(60) DEF NewcomerLeaves, regVars, EndedOnce, PairTypeOK, Fresh, Departed
    <3>7. NoneOutlivesPrimary'
      BY <1>9, <3>5, OutlivesKept, ZenonT(60) DEF NewcomerLeaves, regVars, EndedOnce, PairTypeOK
    <3> QED BY <3>3, <3>5, <3>6, <3>7, StartsKeeps, ZenonT(60)
  <2>2. CASE ~(chPrimary[n] # NoConn)
    <3>1. EndedOnce'
      BY <1>9, <2>2, ZenonT(60) DEF NewcomerLeaves, regVars, EndedOnce, PairTypeOK
    <3>2. OneRuns'
      BY <1>9, <2>2 DEF NewcomerLeaves, regVars, EndedOnce, PairTypeOK, OneRuns, Running
    <3>3. Fresh'
      BY <1>9, <2>2, ZenonT(60) DEF NewcomerLeaves, regVars, EndedOnce, PairTypeOK, Fresh
    <3>4. Ends' /\ Departed'
      BY <1>9, <2>2, ZenonT(60) DEF NewcomerLeaves, regVars, EndedOnce, PairTypeOK, Ends, Departed, Fresh
    <3>5. Heard'
      BY <1>9, <2>2, ZenonT(60) DEF NewcomerLeaves, regVars, EndedOnce, PairTypeOK, Heard
    <3>6. NoneOutlivesPrimary'
      BY <1>9, <2>2, ZenonT(60) DEF NewcomerLeaves, regVars, EndedOnce, PairTypeOK, NoneOutlivesPrimary, Departed
    <3> QED BY <3>1, <3>2, <3>3, <3>4, <3>5, <3>6, ZenonT(60)
  <2> QED BY <2>1, <2>2, ZenonT(60)
<1> QED BY <1>1, <1>2, <1>3, <1>4, <1>5, <1>6, <1>7, <1>8, <1>9, ZenonT(60) DEF NewcomerStep, PairStep

\* So does each step of endChannel.
LEMMA EndKeeps ==
  ASSUME PairInv, NEW k \in calls, EndChannel(k)
  PROVE  PairInv'
<1> USE DEF PairInv
<1>1. CASE EndLock(k)
  <2>1. CASE k.ch \in open
    <3> DEFINE c == [k EXCEPT !.at = "primary"]
    <3>1. k \in Calls
      BY ZenonT(60) DEF EndedOnce, PairTypeOK
    <3>2. c \in Calls /\ c.ch = k.ch /\ c.at = "primary" /\ (c.tellP <=> k.tellP)
      BY <3>1, ZenonT(60) DEF Calls
    <3>3. calls' = (calls \ {k}) \cup {c}
      BY <1>1, <2>1, ZenonT(60) DEF EndLock
    <3> HIDE DEF c
    <3>4. EndedOnce' /\ Fresh' /\ Departed'
      BY <1>1, <3>2, <3>3, ZenonT(60) DEF EndLock, regVars, EndedOnce, PairTypeOK, Fresh, Departed
    <3>5. OneRuns'
      BY <1>1, <2>1, <3>2, <3>3 DEF EndLock, regVars, EndedOnce, PairTypeOK, OneRuns, Running
    <3>6. Ends'
      BY <1>1, <2>1, <3>1, <3>2, <3>3, ZenonT(60) DEF EndLock, regVars, EndedOnce, PairTypeOK, Ends, Fresh, Calls
    <3>7. Heard'
      BY <1>1, <2>1, <3>2, <3>3, ZenonT(60) DEF EndLock, regVars, EndedOnce, PairTypeOK, Heard
    <3>8. NoneOutlivesPrimary'
      BY <1>1, <3>2, <3>3 DEF EndLock, regVars, EndedOnce, PairTypeOK, NoneOutlivesPrimary
    <3> QED BY <3>4, <3>5, <3>6, <3>7, <3>8, ZenonT(60)
  <2>2. CASE k.ch \notin open
    <3>1. EndedOnce'
      BY <1>1, <2>2, ZenonT(60) DEF EndLock, regVars, Calls, EndedOnce, PairTypeOK
    <3>2. OneRuns'
      BY <1>1, <2>2, ZenonT(60) DEF EndLock, regVars, Calls, EndedOnce, PairTypeOK, OneRuns, Running
    <3>3. Fresh'
      BY <1>1, <2>2, ZenonT(60) DEF EndLock, regVars, Calls, EndedOnce, PairTypeOK, Fresh
    <3>4. Ends' /\ Departed'
      BY <1>1, <2>2, ZenonT(60) DEF EndLock, regVars, Calls, EndedOnce, PairTypeOK, Ends, Departed, Fresh
    <3>5. Heard'
      BY <1>1, <2>2, ZenonT(60) DEF EndLock, regVars, Calls, EndedOnce, PairTypeOK, Heard
    <3>6. NoneOutlivesPrimary'
      BY <1>1, <2>2, ZenonT(60) DEF EndLock, regVars, Calls, EndedOnce, PairTypeOK, NoneOutlivesPrimary, Departed
    <3> QED BY <3>1, <3>2, <3>3, <3>4, <3>5, <3>6, ZenonT(60)
  <2> QED BY <2>1, <2>2, ZenonT(60)
<1>2. CASE EndTellPrimary(k)
  <2>1. EndedOnce'
    BY <1>2 DEF EndTellPrimary, SendEnd, regVars, Calls, EndedOnce, PairTypeOK, Ends
  <2>2. OneRuns'
    BY <1>2 DEF EndTellPrimary, SendEnd, regVars, Calls, EndedOnce, PairTypeOK, OneRuns, Running
  <2>3. Fresh'
    BY <1>2, ZenonT(60) DEF EndTellPrimary, SendEnd, regVars, Calls, EndedOnce, PairTypeOK, Fresh, OneRuns, Running
  <2>4. Ends' /\ Departed'
    BY <1>2 DEF EndTellPrimary, SendEnd, regVars, Calls, EndedOnce, PairTypeOK, Ends, Departed, OneRuns, Running
  <2>5. Heard'
    BY <1>2 DEF EndTellPrimary, SendEnd, regVars, Calls, EndedOnce, PairTypeOK, Heard, Ends
  <2>6. NoneOutlivesPrimary'
    <3>1. UNCHANGED <<mpc, chPrimary, open, npc>>
      BY <1>2, ZenonT(60) DEF EndTellPrimary, regVars
    <3>2. \A j \in calls : j.at = "lock" => j \in calls'
      BY <1>2, ZenonT(60) DEF EndTellPrimary
    <3> QED BY <3>1, <3>2, ZenonT(60) DEF NoneOutlivesPrimary
  <2> QED BY <2>1, <2>2, <2>3, <2>4, <2>5, <2>6, ZenonT(60)
<1>3. CASE EndTellNewcomer(k)
  <2>1. EndedOnce'
    BY <1>3 DEF EndTellNewcomer, SendEnd, regVars, Calls, EndedOnce, PairTypeOK, Ends
  <2>2. OneRuns'
    BY <1>3 DEF EndTellNewcomer, SendEnd, regVars, Calls, EndedOnce, PairTypeOK, OneRuns, Running
  <2>3. Fresh'
    BY <1>3, ZenonT(60) DEF EndTellNewcomer, SendEnd, regVars, Calls, EndedOnce, PairTypeOK, Fresh, OneRuns, Running
  <2>4. Ends' /\ Departed'
    BY <1>3, ZenonT(60) DEF EndTellNewcomer, SendEnd, regVars, Calls, EndedOnce, PairTypeOK, Ends, Departed, OneRuns, Running
  <2>5. Heard'
    BY <1>3, ZenonT(60) DEF EndTellNewcomer, SendEnd, regVars, Calls, EndedOnce, PairTypeOK, Heard
  <2>6. NoneOutlivesPrimary'
    <3>1. UNCHANGED <<mpc, chPrimary, open, npc>> /\ \A j \in calls : j.at = "lock" => j \in calls'
      BY <1>3, ZenonT(60) DEF EndTellNewcomer, regVars
    <3> QED BY <3>1, ZenonT(60) DEF NoneOutlivesPrimary
  <2> QED BY <2>1, <2>2, <2>3, <2>4, <2>5, <2>6, ZenonT(60)
<1>4. CASE EndClose(k)
  <2>1. EndedOnce'
    BY <1>4 DEF EndClose, regVars, Calls, EndedOnce, PairTypeOK
  <2>2. OneRuns'
    BY <1>4, ZenonT(60) DEF EndClose, regVars, Calls, EndedOnce, PairTypeOK, OneRuns, Running
  <2>3. Fresh'
    BY <1>4, ZenonT(60) DEF EndClose, regVars, Calls, EndedOnce, PairTypeOK, Fresh
  <2>4. Ends' /\ Departed'
    BY <1>4, ZenonT(60) DEF EndClose, regVars, Calls, EndedOnce, PairTypeOK, Ends, Departed, Fresh
  <2>5. Heard'
    BY <1>4, ZenonT(60) DEF EndClose, regVars, Calls, EndedOnce, PairTypeOK, Heard
  <2>6. NoneOutlivesPrimary'
    BY <1>4 DEF EndClose, regVars, Calls, EndedOnce, PairTypeOK, NoneOutlivesPrimary, Departed
  <2> QED BY <2>1, <2>2, <2>3, <2>4, <2>5, <2>6, ZenonT(60)
<1> QED BY <1>1, <1>2, <1>3, <1>4, ZenonT(60) DEF EndChannel

\* For any members and newcomers, whatever the registry does to the primary's connection while
\* pair and endChannel run: each side of a channel hears its end at most once, no channel outlives
\* its primary's connection unless something is about to end it, and a primary that is owed a
\* pairEnd gets it.
THEOREM PairingHolds == PairSpec => []PairingKept
<1>1. PairInv /\ [PairNext]_pairVars => PairInv'
  <2> SUFFICES ASSUME PairInv, [PairNext]_pairVars PROVE PairInv'
    BY ZenonT(60)
  <2>1. CASE UNCHANGED pairVars
    BY <2>1, ZenonT(60) DEF pairVars, PairInv, EndedOnce, PairTypeOK, OneRuns, Fresh, Ends, Departed, Heard, NoneOutlivesPrimary, Running
  <2> QED BY <2>1, MemberKeeps, NewcomerKeeps, EndKeeps, ZenonT(60) DEF PairNext
<1> QED BY PairStarts, <1>1, PairKept, PTL DEF PairSpec
=============================================================================
