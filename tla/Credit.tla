------------------------------- MODULE Credit -------------------------------
(***************************************************************************)
(* Message bytes between two members of the Go client, in one direction:   *)
(* the sender cuts a message into fragments under the credit and the pace  *)
(* of its session (src/client-go/sessions.go, runFragment, pumpOnce), the  *)
(* receiver puts them together, holds whole messages until the application *)
(* takes them, and returns credit (onFragment, flushCredit, member.go      *)
(* deliver and handled).  A message stays on the session it began on, and  *)
(* a rekey makes new sessions under way, so the books are kept over        *)
(* several sessions at once.  How sessions are made is Session's subject:  *)
(* here either side may be the first to hold a new one.                    *)
(*                                                                         *)
(* Each member runs its handlers under one lock, so an action is a whole   *)
(* handler with the tasks it leaves for `later'.  Bytes are units.         *)
(***************************************************************************)
EXTENDS Integers, Sequences, SequencesExt, FiniteSets, FiniteSetsExt

CONSTANTS
  InitialCredit,  \* credit a session begins with
  Window,         \* creditWindow: what a receiver lets a session have
  CreditBatch,    \* CreditBatchBytes: credit worth a frame of its own
  MaxMessage,     \* the largest message
  MaxFragment,    \* pacedFragment: the largest fragment
  MaxHeld,        \* maxHeldMessagesPerPeer
  Paces,          \* the windows pace() may come to as time goes by
  Sizes,          \* the sizes of the messages sent
  MaxMsgs,        \* bound: messages sent
  MaxSess         \* bound: sessions made

ASSUME CreditAssumption ==
  /\ InitialCredit \in Nat \ {0} /\ Window \in Nat /\ Window >= InitialCredit
  /\ Paces \subseteq Nat \ {0} /\ Sizes \subseteq 0..MaxMessage

Sess == 1..MaxSess

\* peerBufferLimit: what a receiver keeps for one peer.
MaxBuffered == 2 * MaxMessage + 4 * Window

VARIABLES
  snd,      \* per session: the sender's half (up, credit, inflight)
  cur,      \* ps.current at the sender: the session the next message takes
  out,      \* the message being sent: its id, session and bytes left
  begun,    \* messages begun so far
  rcv,      \* per session: the receiver's half
  buffered, heldCount,   \* peerState at the receiver
  inbox,    \* whole messages not yet taken by the application
  wire, back,   \* frames on their way to the receiver, and to the sender
  blame     \* history: why the receiver ended sessions of an honest sender

vars == <<snd, cur, out, begun, rcv, buffered, heldCount, inbox, wire, back, blame>>
sender == <<snd, cur, out, begun>>
receiver == <<rcv, buffered, heldCount, inbox, blame>>

Idle == [id |-> 0, s |-> 0, left |-> 0]

Frame(k, s, n, more, id) == [k |-> k, s |-> s, n |-> n, more |-> more, id |-> id]
Frag(s, n, more, id) == Frame("frag", s, n, more, id)
CreditFrame(s, n) == Frame("credit", s, n, FALSE, 0)
Resp(s) == Frame("resp", s, 0, FALSE, 0)
Reset(s) == Frame("reset", s, 0, FALSE, 0)

NoHalf == [up |-> "none", credit |-> 0, inflight |-> 0]
NoRcv == [up |-> "none", len |-> 0, credited |-> 0, id |-> 0, held |-> 0,
          owed |-> 0, allow |-> 0, timer |-> FALSE]

Init ==
  /\ snd = [s \in Sess |-> NoHalf] /\ rcv = [s \in Sess |-> NoRcv]
  /\ cur = 0 /\ out = Idle /\ begun = 0
  /\ buffered = 0 /\ heldCount = 0 /\ inbox = <<>>
  /\ wire = <<>> /\ back = <<>> /\ blame = {}

-----------------------------------------------------------------------------
(* The receiver's halves of sessions *)

\* flushCredit: owed credit goes back from CreditBatch on, or when its timer
\* rings; less than that starts the timer.  The new half and the frames sent.
flushCredit(s, r, now) ==
  IF r.up # "up" \/ r.owed = 0 THEN [half |-> r, sent |-> <<>>]
  ELSE IF ~now /\ r.owed < CreditBatch
       THEN [half |-> [r EXCEPT !.timer = TRUE], sent |-> <<>>]
       ELSE [half |-> [r EXCEPT !.timer = FALSE, !.owed = 0, !.allow = @ + r.owed],
             sent |-> <<CreditFrame(s, r.owed)>>]

\* The receiver's half becomes r, once the credit it owes is seen to.
Settle(s, r, now) ==
  LET f == flushCredit(s, r, now)
  IN  rcv' = [rcv EXCEPT ![s] = f.half] /\ back' = back \o f.sent

\* newSession and adopt at the receiver: a window beyond the initial credit is
\* granted at once.
NewRcv == [NoRcv EXCEPT !.up = "up", !.allow = InitialCredit, !.owed = Window - InitialCredit]
NewSnd == [up |-> "up", credit |-> InitialCredit, inflight |-> 0]

\* Variant: the bytes of the message in progress stay counted.
EndBytesNot(s) == UNCHANGED buffered

\* endSession at the receiver: the message in progress goes, whole ones stay; the
\* credit of an ended session is never looked at again.
Ended(r) == [NoRcv EXCEPT !.up = "ended", !.held = r.held]
EndBytes(s) == buffered' = buffered - rcv[s].len
EndReceiver(s) == rcv' = [rcv EXCEPT ![s] = Ended(@)] /\ EndBytes(s)

-----------------------------------------------------------------------------
(* Sessions come and go *)

Fresh(s) == /\ snd[s].up = "none" /\ rcv[s].up = "none"
            /\ \A t \in Sess : t < s => snd[t].up # "none" \/ rcv[t].up # "none"

\* The receiver initiated: the sender answers, and holds the session first.
SenderAdopts(s) ==
  /\ Fresh(s)
  /\ snd' = [snd EXCEPT ![s] = NewSnd] /\ cur' = s
  /\ wire' = Append(wire, Resp(s))
  /\ UNCHANGED <<out, begun, receiver, back>>

\* The sender initiated: the receiver answers, and holds the session first.
ReceiverAdopts(s) ==
  /\ Fresh(s)
  /\ LET f == flushCredit(s, NewRcv, FALSE)
     IN  rcv' = [rcv EXCEPT ![s] = f.half] /\ back' = back \o <<Resp(s)>> \o f.sent
  /\ UNCHANGED <<sender, buffered, heldCount, inbox, wire, blame>>

\* endSession at the sender: the message on the session fails with it.
EndSender(s) ==
  /\ snd' = [snd EXCEPT ![s] = [NoHalf EXCEPT !.up = "ended"]]
  /\ cur' = IF cur = s THEN 0 ELSE cur
  /\ out' = IF out.s = s THEN Idle ELSE out
  /\ UNCHANGED begun

\* A side ends a session of its own accord: its connection dropped, the peer
\* left the roster, or the sweep found the session idle.
SenderEnds(s) == snd[s].up = "up" /\ EndSender(s) /\ UNCHANGED <<receiver, wire, back>>

ReceiverEnds(s) ==
  /\ rcv[s].up = "up" /\ EndReceiver(s)
  /\ UNCHANGED <<sender, heldCount, inbox, blame, wire, back>>

-----------------------------------------------------------------------------
(* The sender: startHead, pumpOnce and runFragment *)

\* startHead and ensureSession: the head of the queue takes the current session.
Begin(n) ==
  /\ out = Idle /\ begun < MaxMsgs /\ cur # 0
  /\ begun' = begun + 1
  /\ out' = [id |-> begun + 1, s |-> cur, left |-> n]
  /\ UNCHANGED <<snd, cur, receiver, wire, back>>

\* pumpOnce's gate: a session out of credit or over its window is skipped.
Gated(o, pace) == (o.left > 0 /\ snd[o.s].credit = 0) \/ snd[o.s].inflight >= pace

\* Variant: the credit is not looked at.
FragmentSizeAny(o, pace) == Min({o.left, MaxFragment, Max({1, pace - snd[o.s].inflight})})

\* The bytes of the next fragment: as much as the credit and the room allow.
FragmentSize(o, pace) ==
  Min({o.left, MaxFragment, snd[o.s].credit, Max({1, pace - snd[o.s].inflight})})

Fragment ==
  /\ out # Idle
  /\ \E pace \in Paces :
       LET n == FragmentSize(out, pace)
       IN  /\ ~Gated(out, pace)
           /\ wire' = Append(wire, Frag(out.s, n, n < out.left, out.id))
           /\ snd' = [snd EXCEPT ![out.s].credit = @ - n, ![out.s].inflight = @ + n]
           /\ out' = IF n < out.left THEN [out EXCEPT !.left = @ - n] ELSE Idle
  /\ UNCHANGED <<cur, begun, receiver, back>>

\* A frame reaches the sender: the answer to its handshake (which may have timed
\* out), credit (onData), or a reset (onReset).  Credit for a session the sender
\* does not hold is answered with a reset.
ToSender ==
  /\ back # <<>> /\ back' = Tail(back)
  /\ LET f == Head(back) s == f.s
         took == Min({snd[s].inflight, f.n})
     IN  \/ /\ f.k = "resp"
            /\ \/ snd' = [snd EXCEPT ![s] = NewSnd] /\ cur' = s
               \/ snd' = [snd EXCEPT ![s].up = "ended"] /\ UNCHANGED cur
            /\ UNCHANGED <<out, begun, wire>>
         \/ /\ f.k = "credit" /\ snd[s].up = "up"
            /\ snd' = [snd EXCEPT ![s].credit = @ + f.n, ![s].inflight = @ - took]
            /\ UNCHANGED <<cur, out, begun, wire>>
         \/ /\ f.k = "credit" /\ snd[s].up = "ended"
            /\ wire' = Append(wire, Reset(s)) /\ UNCHANGED sender
         \/ /\ f.k = "reset" /\ EndSender(s) /\ UNCHANGED wire
  /\ UNCHANGED receiver

-----------------------------------------------------------------------------
(* The receiver: onData, onFragment and the application *)

\* The limits an arriving fragment is held to, in the order of the code.
Breach(r, f) ==
  IF f.more /\ f.n = 0 THEN "empty"
  ELSE IF f.n > r.allow THEN "credit"
  ELSE IF r.len + f.n > MaxMessage THEN "size"
  ELSE IF buffered + f.n > MaxBuffered THEN "buffer"
  ELSE IF ~f.more /\ heldCount >= MaxHeld THEN "held"
  ELSE "none"

\* Fragments of a message in progress are credited while nothing waits on the session.
KeepsUp(r) == r.held = 0

\* More to come: the bytes are kept, and credited if the application keeps up.
TakePart(s, r, f) ==
  LET a == [r EXCEPT !.allow = @ - f.n, !.len = @ + f.n, !.id = f.id]
  IN  /\ buffered' = buffered + f.n
      /\ IF KeepsUp(r)
         THEN Settle(s, [a EXCEPT !.owed = @ + f.n, !.credited = @ + f.n], FALSE)
         ELSE rcv' = [rcv EXCEPT ![s] = a] /\ UNCHANGED back
      /\ UNCHANGED <<heldCount, inbox>>

\* Variant: the credit returned on the way is returned again.
UncreditedAll(r, size) == size

\* The bytes of a message no credit was returned for as they came.
Uncredited(r, size) == size - r.credited

\* The last fragment: the message is whole and waits for the application
\* (deliver); the credit not yet returned for it goes with it.
TakeWhole(s, r, f) ==
  LET size == r.len + f.n
  IN  /\ rcv' = [rcv EXCEPT ![s] = [r EXCEPT !.allow = @ - f.n, !.len = 0,
                                            !.credited = 0, !.id = 0, !.held = @ + 1]]
      /\ inbox' = Append(inbox, [s |-> s, id |-> f.id, size |-> size,
                                 first |-> IF r.len = 0 THEN f.id ELSE r.id,
                                 owe |-> Uncredited(r, size)])
      /\ buffered' = buffered + f.n /\ heldCount' = heldCount + 1
      /\ UNCHANGED back

onFragment(s, f) ==
  LET r == rcv[s]
  IN  IF Breach(r, f) # "none"
      THEN EndReceiver(s) /\ blame' = blame \cup {Breach(r, f)} /\ UNCHANGED <<heldCount, inbox, back>>
      ELSE (IF f.more THEN TakePart(s, r, f) ELSE TakeWhole(s, r, f)) /\ UNCHANGED blame

\* A frame reaches the receiver.  Data for a session it does not hold is answered
\* with a reset, unless the reset budget is spent.
ToReceiver ==
  /\ wire # <<>> /\ wire' = Tail(wire)
  /\ LET f == Head(wire) s == f.s
     IN  \/ /\ f.k = "resp"
            /\ \/ Settle(s, NewRcv, FALSE)
               \/ rcv' = [rcv EXCEPT ![s].up = "ended"] /\ UNCHANGED back
            /\ UNCHANGED <<buffered, heldCount, inbox, blame>>
         \/ f.k = "frag" /\ rcv[s].up = "up" /\ onFragment(s, f)
         \/ /\ f.k = "frag" /\ rcv[s].up # "up"
            /\ back' \in {back, Append(back, Reset(s))} /\ UNCHANGED receiver
         \/ /\ f.k = "reset" /\ EndReceiver(s) /\ UNCHANGED <<heldCount, inbox, blame, back>>
  /\ UNCHANGED sender

\* The timer of flushCredit.
CreditTimer(s) ==
  /\ rcv[s].timer
  /\ Settle(s, [rcv[s] EXCEPT !.timer = FALSE], TRUE)
  /\ UNCHANGED <<sender, buffered, heldCount, inbox, blame, wire>>

\* Variant: what was held back behind the message stays so.
ReleasedOnly(r, m) == [r EXCEPT !.held = @ - 1, !.owed = IF r.up = "up" THEN @ + m.owe ELSE @]

\* release: the message's credit is owed, and that of the message in progress
\* behind it if it was held back.
Released(r, m) ==
  LET back1 == IF r.held = 1 THEN r.len - r.credited ELSE 0
  IN  IF r.up = "up"
      THEN [r EXCEPT !.held = @ - 1, !.owed = @ + m.owe + back1, !.credited = @ + back1]
      ELSE [r EXCEPT !.held = @ - 1]

\* The application takes the oldest message (Receive, or OnMessage's handler returned).
Take ==
  /\ inbox # <<>> /\ inbox' = Tail(inbox)
  /\ LET m == Head(inbox)
     IN  /\ Settle(m.s, Released(rcv[m.s], m), FALSE)
         /\ buffered' = buffered - m.size
  /\ heldCount' = heldCount - 1
  /\ UNCHANGED <<sender, blame, wire>>

-----------------------------------------------------------------------------
Next ==
  \/ \E s \in Sess : SenderAdopts(s) \/ ReceiverAdopts(s) \/ SenderEnds(s) \/ ReceiverEnds(s)
  \/ \E n \in Sizes : Begin(n)
  \/ Fragment \/ ToSender \/ ToReceiver \/ Take
  \/ \E s \in Sess : CreditTimer(s)

Spec == Init /\ [][Next]_vars

\* Nothing of the session is under way: the sweep will find it idle.
Quiet(s) == \A f \in Range(wire) \cup Range(back) : f.s # s
IdleSweep == \E s \in Sess : Quiet(s) /\ rcv[s].up # "up" /\ SenderEnds(s)

\* The relay delivers, timers ring, the application takes its messages and the
\* socket drains; a session the peer has forgotten goes idle.
FairSpec ==
  /\ Spec /\ WF_vars(Fragment) /\ WF_vars(ToSender) /\ WF_vars(ToReceiver)
  /\ WF_vars(Take) /\ WF_vars(\E s \in Sess : CreditTimer(s)) /\ WF_vars(IdleSweep)

-----------------------------------------------------------------------------
SumOf(Val(_), seq) == FoldSeq(LAMBDA x, acc : acc + Val(x), 0, seq)
OnWire(q, s, k) == SumOf(LAMBDA f : IF f.s = s /\ f.k = k THEN f.n ELSE 0, q)
Both(s) == snd[s].up = "up" /\ rcv[s].up = "up"

TypeOK ==
  /\ \A s \in Sess : snd[s].credit \in Int /\ snd[s].inflight \in Nat
  /\ \A s \in Sess : rcv[s].allow \in Nat /\ rcv[s].owed \in Nat /\ rcv[s].held \in Nat
  /\ buffered \in 0..MaxBuffered /\ heldCount \in 0..MaxHeld
  /\ out.left \in 0..MaxMessage /\ begun \in 0..MaxMsgs

(* Credit is neither lost nor made: while both sides hold a session, what the
   receiver still lets the sender send is what the sender has left plus what is
   under way, and with the credit owed and the bytes the application has not
   taken it is always the window.  Owed credit has its timer running, so it goes
   back even if nothing else happens (sessions.go, runFragment, onFragment,
   flushCredit, release). *)
CreditConserved ==
  /\ TypeOK
  /\ \A s \in Sess : Both(s) =>
       rcv[s].allow = snd[s].credit + OnWire(wire, s, "frag") + OnWire(back, s, "credit")
  /\ \A s \in Sess : rcv[s].up = "up" =>
       /\ rcv[s].allow + rcv[s].owed + (rcv[s].len - rcv[s].credited)
            + SumOf(LAMBDA m : IF m.s = s THEN m.owe ELSE 0, inbox) = Window
       /\ rcv[s].owed > 0 => rcv[s].timer

(* What the receiver counts for a peer is what it holds for it: the messages in
   progress of live sessions and every whole message not yet taken, those of
   sessions that have ended since included; so the counters neither leak nor go
   below zero whatever the order of rekeys, ends and takes (sessions.go,
   onFragment, release, endSession). *)
BuffersExact ==
  /\ buffered = MapThenSumSet(LAMBDA s : rcv[s].len, Sess) + SumOf(LAMBDA m : m.size, inbox)
  /\ heldCount = Len(inbox)
  /\ \A s \in Sess : rcv[s].held = Cardinality({i \in DOMAIN inbox : inbox[i].s = s})

(* A receiver never ends a session of an honest sender for an empty fragment, for bytes
   beyond the credit granted or for an overlong message, and a delivered message is made of one
   message's fragments: messages arrive whole, once and in the order they were
   sent, over whichever sessions (sessions.go, onFragment, startHead). *)
HonestKept ==
  /\ blame \cap {"empty", "credit", "size"} = {}
  /\ \A i \in DOMAIN inbox : inbox[i].first = inbox[i].id
  /\ \A i, j \in DOMAIN inbox : i < j => inbox[i].id < inbox[j].id

(* Every message begun is finished: its credit comes back as the application takes
   messages, or its session ends and it fails (sessions.go, pumpOnce). *)
SendsFinish == \A m \in 1..MaxMsgs : (out.id = m) ~> (out.id # m)

(* Said in protocol.md section 7.3 and not so: an honest sender stays within what a
   receiver keeps for a peer (two rekeys while nothing is taken, three
   sessions, go beyond it). *)
WithinBuffers == "buffer" \notin blame
=============================================================================
