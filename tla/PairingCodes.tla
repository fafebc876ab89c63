---------------------------- MODULE PairingCodes ----------------------------
(***************************************************************************)
(* A client that is the primary and the newcomers that pair with it        *)
(* (client-go/primary.go, newcomer.go, pairing.go): codes opened, replaced,*)
(* cancelled and expiring while attempts on them are under way, the slots  *)
(* an attempt reserves, the claim that lets one attempt in, and every way  *)
(* an attempt ends.                                                        *)
(*                                                                         *)
(* A code is the entry it was opened as (1, 2, ... in order); its id is 0  *)
(* for a default code and the entry itself otherwise.  An attempt is a     *)
(* pairing channel k; it asks for a code id and holds a secret: the entry  *)
(* it read, or 0 when mistyped.  An id never issued is the default code's  *)
(* before there was one.  SPAKE2 is its result: the confirmation verifies  *)
(* exactly when both sides hold the same code.  Any message of the         *)
(* exchange may turn out malformed.                                        *)
(*                                                                         *)
(* The relay's part, forwarding on a channel while it lives (its handling  *)
(* of channels is module Pairing), is two FIFO queues per channel.  Each   *)
(* handler of the primary runs under the member's lock, so each is one     *)
(* action.                                                                 *)
(***************************************************************************)
EXTENDS Integers, Sequences, FiniteSets

CONSTANTS MaxChan,      \* bound: attempts, each a pairing channel
          NodeOf,       \* the node that makes each attempt
          CodeAttempts, \* failed confirmations that burn a code
          MaxCodes,     \* bound: codes opened
          MaxMembers,   \* new members that fit under MaxRosterBytes
          MaxFaults     \* bound: drops of the relay connection, demotions, malformed
                        \* messages, attempts for an id never issued

ASSUME CodesAssumption == MaxChan \in Nat /\ MaxCodes \in Nat /\ CodeAttempts \in Nat

VARIABLES ent,      \* every code, by entry; primaryState.codes is those listed
          chan,     \* primaryState.channels
          att,      \* newcomerRun, per channel
          up, down, \* frames and pairEnds to the primary, to the newcomer
          members,  \* nodes the primary's roster has gained
          admits,   \* history: whom each code admitted
          primary,  \* m.prim # nil
          faults,   \* how many of these so far
          malformed,\* history: channels that ended on a malformed message
          unanswered\* history: channels refused in silence

hist == <<malformed, unanswered>>
vars == <<ent, chan, att, up, down, members, admits, primary, faults, hist>>

Chan == 1..MaxChan
Node == {NodeOf[k] : k \in Chan}
Entry == 1..MaxCodes
\* A code listed in primaryState.codes is "open" or, past its time, "expired".
NoCode == [state |-> "none", id |-> 0, failed |-> 0, inFlight |-> 0,
           claimed |-> FALSE, burned |-> FALSE]
Opened == {e \in Entry : ent[e].state # "none"}
\* primaryState.issued: the ids codes were opened under (fewer than closedCodes, so kept).
issued == {ent[e].id : e \in Opened}
codes == {e \in Entry : ent[e].state \in {"open", "expired"}}
NoChan == [entry |-> 0, stage |-> "none", claimed |-> FALSE]
NoAttempt == [id |-> 0, secret |-> 0, stage |-> "idle"]
Final == {"paired", "failed"}
Waiting(k) == att[k].stage \notin Final \union {"idle"}
ChansOf(e) == {k \in Chan : chan[k].entry = e}

Init ==
  /\ ent = [e \in Entry |-> NoCode]
  /\ chan = [k \in Chan |-> NoChan]
  /\ att = [k \in Chan |-> NoAttempt]
  /\ up = [k \in Chan |-> <<>>]
  /\ down = [k \in Chan |-> <<>>]
  /\ members = {}
  /\ admits = [e \in Entry |-> {}]
  /\ primary = TRUE
  /\ faults = 0
  /\ malformed = {} /\ unanswered = {}

-----------------------------------------------------------------------------
(* How channels end *)

\* Variant: the claim is given back and the slot is not.
RefundedNoSlot(c, K) ==
  [e \in Entry |->
    [c[e] EXCEPT !.claimed = @ /\ ~\E k \in K \intersect ChansOf(e) : chan[k].claimed]]

\* What ending the channels K does to the codes c: each slot is refunded, and
\* a claim an ended channel held is given back.
Refunded(c, K) ==
  [e \in Entry |->
    LET mine == K \intersect ChansOf(e) IN
    [c[e] EXCEPT !.inFlight = @ - Cardinality(mine),
                 !.claimed = @ /\ ~\E k \in mine : chan[k].claimed]]

Without(K) == [k \in Chan |-> IF k \in K THEN NoChan ELSE chan[k]]

\* What comes on an ended channel is ignored, here or at the relay.
Ignored(K) == [k \in Chan |-> IF k \in K THEN <<>> ELSE up[k]]

\* Variant: the channel is let go in silence.
TellsNobody(K) == down

\* sendControl(pairEnd) for each channel of K; a newcomer already gone hears
\* nothing.
Told(K) ==
  [k \in Chan |-> IF k \in K /\ Waiting(k) THEN Append(down[k], "end") ELSE down[k]]

\* endChannel with tellRelay on each channel of K, over the codes c.
endChannel(c, K) ==
  /\ ent' = Refunded(c, K)
  /\ chan' = Without(K)
  /\ up' = Ignored(K)
  /\ down' = Told(K)

\* failAttempt: the attempt's slot stays used and a claim it held is given back;
\* CodeAttempts of them burn the code.
failAttempt(k) ==
  LET e == chan[k].entry
      n == ent[e].failed + 1
      c == IF n >= CodeAttempts
           THEN [ent EXCEPT ![e].failed = n, ![e].burned = TRUE, ![e].state = "closed"]
           ELSE [ent EXCEPT ![e].failed = n]
  IN /\ ent' = Refunded(c, {k})
     /\ chan' = Without({k})
     /\ up' = Ignored({k})
     /\ down' = Told({k})
     /\ UNCHANGED <<members, admits>>

-----------------------------------------------------------------------------
(* Codes *)

\* closeCode on the codes E of c.
closeCode(c, E) == [e \in Entry |-> [c[e] EXCEPT !.state = IF e \in E THEN "closed" ELSE @]]

Burnt(c, E) == [e \in Entry |-> [c[e] EXCEPT !.burned = @ \/ e \in E]]

\* Variant: the channels of a withdrawn code go on.
WithdrawOnly(c, E) == endChannel(closeCode(Burnt(c, E), E), {})

\* withdraw: the codes E admit nobody from now on, their channels end too.
withdraw(c, E) ==
  endChannel(closeCode(Burnt(c, E), E), UNION {ChansOf(e) : e \in E})

\* OpenPairingCode: refused when no further member fits.  pruneCodes closes
\* the codes that expired; a default code then withdraws the one still open.
OpenPairingCode(separate) ==
  /\ primary
  /\ Cardinality(members) < MaxMembers
  /\ Cardinality(Opened) < MaxCodes
  /\ LET e == Cardinality(Opened) + 1
         id == IF separate THEN e ELSE 0
         pruned == {o \in codes : ent[o].burned \/ ent[o].state = "expired"}
         old == {o \in codes \ pruned : ent[o].id = id}
     IN withdraw([closeCode(ent, pruned) EXCEPT
                    ![e] = [NoCode EXCEPT !.state = "open", !.id = id]], old)
  /\ UNCHANGED <<att, members, admits, primary, faults, hist>>

CancelPairingCode(e) ==
  /\ primary
  /\ e \in codes
  /\ withdraw(ent, {e})
  /\ UNCHANGED <<att, members, admits, primary, faults, hist>>

\* The monotonic clock passes expiresAt: the code stays in codes until it is
\* pruned, and the attempts under way go on.
Expire(e) ==
  /\ ent[e].state = "open"
  /\ ent' = [ent EXCEPT ![e].state = "expired"]
  /\ UNCHANGED <<chan, att, up, down, members, admits, primary, faults, hist>>

-----------------------------------------------------------------------------
(* What the primary receives *)

\* The frame of channel k that was handled is taken off; m is sent back.
Taken(k) == up' = [up EXCEPT ![k] = Tail(@)]

sendPair(k, m) ==
  /\ Taken(k)
  /\ down' = [down EXCEPT ![k] = IF Waiting(k) THEN Append(@, m) ELSE @]

\* onPairing: reserve a slot, or refuse (pairEnd on that channel).  The setup
\* bucket may refuse any attempt.  For an id it issued the first refusal on a
\* channel is always answered; for one it did not, only within a budget.  A
\* code id names at most one open code.
onPairing(k) ==
  LET open == {e \in codes : /\ ent[e].id = att[k].id
                             /\ ~ent[e].burned /\ ent[e].state # "expired"}
      free == {e \in open : /\ ~ent[e].claimed
                            /\ ent[e].failed + ent[e].inFlight < CodeAttempts}
  IN /\ \/ \E e \in free :
             /\ ent' = [ent EXCEPT ![e].inFlight = @ + 1]
             /\ chan' = [chan EXCEPT ![k] = [entry |-> e, stage |-> "P1", claimed |-> FALSE]]
             /\ Taken(k)
             /\ UNCHANGED <<down, unanswered>>
        \/ /\ up' = Ignored({k})
           /\ \/ down' = Told({k}) /\ UNCHANGED unanswered
              \/ /\ att[k].id \notin issued
                 /\ unanswered' = unanswered \union {k}
                 /\ UNCHANGED down
           /\ UNCHANGED <<ent, chan>>
     /\ UNCHANGED <<members, admits, malformed, faults>>

\* completePairing: the newcomer's keys are in; a node already a member, or
\* a roster already full, ends the channel and refunds the slot.
completePairing(k) ==
  LET e == chan[k].entry
      n == NodeOf[k]
  IN IF n \in members \/ Cardinality(members) >= MaxMembers
     THEN endChannel(ent, {k}) /\ UNCHANGED <<members, admits>>
     ELSE /\ ent' = [ent EXCEPT ![e].inFlight = @ - 1, ![e].burned = TRUE,
                                 ![e].state = "closed"]
          /\ chan' = Without({k})
          /\ up' = Ignored({k})
          /\ down' = IF Waiting(k)
                     THEN [down EXCEPT ![k] = @ \o <<"p6", "end">>] ELSE down
          /\ members' = members \union {n}
          /\ admits' = [admits EXCEPT ![e] = @ \union {n}]

\* onPairFrame, P3: the confirmation.  One attempt claims the code; the others
\* that confirm it after that end with their slots refunded.
Confirm(k) ==
  LET e == chan[k].entry IN
  CASE att[k].secret # e -> failAttempt(k)
    [] att[k].secret = e /\ (ent[e].claimed \/ ent[e].burned) ->
         endChannel(ent, {k}) /\ UNCHANGED <<members, admits>>
    [] OTHER ->
         /\ ent' = [ent EXCEPT ![e].claimed = TRUE]
         /\ chan' = [chan EXCEPT ![k].claimed = TRUE, ![k].stage = "P5"]
         /\ sendPair(k, "p4")
         /\ UNCHANGED <<members, admits>>

\* onPairFrame: the channel's queue is in order, so a frame is the one its
\* stage expects.  A frame of a channel it does not hold is ignored.  At P1, P3
\* or P5 an error (the message is malformed, its key unusable, the answer or
\* the next roster cannot be made) is a failed attempt, also of a channel that
\* holds the claim.
onPairFrame(k) ==
  /\ \/ /\ CASE chan[k].stage = "P1" ->
                 /\ chan' = [chan EXCEPT ![k].stage = "P3"]
                 /\ sendPair(k, "p2")
                 /\ UNCHANGED <<ent, members, admits>>
            [] chan[k].stage = "P3" -> Confirm(k)
            [] chan[k].stage = "P5" -> completePairing(k)
            [] OTHER -> up' = Ignored({k}) /\ UNCHANGED <<ent, chan, down, members, admits>>
        /\ UNCHANGED <<malformed, faults>>
     \/ /\ chan[k].stage \in {"P1", "P3", "P5"} /\ faults < MaxFaults
        /\ failAttempt(k)
        /\ malformed' = malformed \union {k}
        /\ faults' = faults + 1
  /\ UNCHANGED unanswered

\* Variant: leaving counts as a failed attempt.
NewcomerLeftFails(k) ==
  /\ ent' = [Refunded(ent, {k}) EXCEPT ![chan[k].entry].failed = @ + 1]
  /\ chan' = Without({k})
  /\ up' = Ignored({k})
  /\ UNCHANGED <<down, members, admits>>

\* onControl's pairEnd: the newcomer left; the slot is refunded, nobody told.
NewcomerLeft(k) ==
  /\ ent' = Refunded(ent, {k})
  /\ chan' = Without({k})
  /\ up' = Ignored({k})
  /\ UNCHANGED <<down, members, admits>>

\* onControl and onBinary; a node that is not the primary ignores all of it.
Deliver(k) ==
  /\ up[k] # <<>>
  /\ IF ~primary
     THEN up' = Ignored({k}) /\ UNCHANGED <<ent, chan, down, members, admits, hist, faults>>
     ELSE CASE Head(up[k]) = "pairing" -> onPairing(k)
            [] Head(up[k]) = "end" -> NewcomerLeft(k) /\ UNCHANGED <<hist, faults>>
            [] OTHER -> onPairFrame(k)
  /\ UNCHANGED <<att, primary>>

\* PairingChannelTimeout after the channel was set up.
ChannelTimeout(k) ==
  /\ chan[k] # NoChan
  /\ endChannel(ent, {k})
  /\ UNCHANGED <<att, members, admits, primary, faults, hist>>

\* stop: another seed holder became the primary.
stop ==
  /\ primary /\ faults < MaxFaults
  /\ endChannel(closeCode(Burnt(ent, codes), codes), Chan \ ChansOf(0))
  /\ primary' = FALSE
  /\ faults' = faults + 1
  /\ UNCHANGED <<att, members, admits, hist>>

\* onConnectionState: the relay connection drops.  Every channel ends here,
\* the relay tells the newcomers, and what was under way may be lost.
onConnectionState ==
  /\ faults < MaxFaults
  /\ faults' = faults + 1
  /\ ent' = Refunded(ent, Chan)
  /\ chan' = Without(Chan)
  /\ up' = [k \in Chan |-> <<>>]
  /\ \E lost \in SUBSET {k \in Chan : down[k] # <<>>} :
       down' = [k \in Chan |-> IF ~Waiting(k) THEN <<>>
                               ELSE IF k \in lost THEN <<"end">>
                               ELSE Append(down[k], "end")]
  /\ UNCHANGED <<att, members, admits, primary, hist>>

-----------------------------------------------------------------------------
(* Newcomers *)

\* The relay forwards what the newcomer sends while the channel lives: until
\* the primary ends it, or has yet to hear of it.
Forwarded(k, m) ==
  up' = [up EXCEPT ![k] = IF @ # <<>> \/ chan[k] # NoChan THEN Append(@, m) ELSE @]

\* Pair, to the point where the relay has named the channel to both sides.
Pair(k) ==
  /\ att[k].stage = "idle"
  /\ \A j \in 1..k - 1 : att[j].stage # "idle"
  /\ primary
  /\ \E id \in issued \union {0} : \E s \in {0} \union {e \in Opened : ent[e].id = id} :
       /\ att' = [att EXCEPT ![k] = [id |-> id, secret |-> s, stage |-> "pairing"]]
       /\ IF id \in issued THEN faults' = faults
          ELSE faults < MaxFaults /\ faults' = faults + 1
  /\ up' = [up EXCEPT ![k] = <<"pairing">>]
  /\ down' = [down EXCEPT ![k] = <<"pairing">>]
  /\ UNCHANGED <<ent, chan, members, admits, primary, hist>>

\* newcomerRun.step: P1, P3 and P5 out, P6 last; a pairEnd before that ends it.
Answer == [pairing |-> <<"p2", "p1">>, p2 |-> <<"p4", "p3">>, p4 |-> <<"p6", "p5">>]

step(k) ==
  /\ Waiting(k) /\ down[k] # <<>>
  /\ LET m == Head(down[k]) IN
     IF m \in {"p6", "end"}
     THEN /\ att' = [att EXCEPT ![k].stage = IF m = "p6" THEN "paired" ELSE "failed"]
          /\ down' = [down EXCEPT ![k] = <<>>]
          /\ UNCHANGED up
     ELSE /\ att' = [att EXCEPT ![k].stage = Answer[m][1]]
          /\ Forwarded(k, Answer[m][2])
          /\ down' = [down EXCEPT ![k] = Tail(@)]
  /\ UNCHANGED <<ent, chan, members, admits, primary, faults, hist>>

\* Pair's context ends (its timeout, or the caller): the socket is closed.
Leave(k) ==
  /\ Waiting(k)
  /\ att' = [att EXCEPT ![k].stage = "failed"]
  /\ Forwarded(k, "end")
  /\ down' = [down EXCEPT ![k] = <<>>]
  /\ UNCHANGED <<ent, chan, members, admits, primary, faults, hist>>

Next ==
  \/ \E separate \in BOOLEAN : OpenPairingCode(separate)
  \/ \E e \in Entry : CancelPairingCode(e) \/ Expire(e)
  \/ \E k \in Chan : Deliver(k) \/ ChannelTimeout(k) \/ Pair(k) \/ step(k) \/ Leave(k)
  \/ stop
  \/ onConnectionState

Spec == Init /\ [][Next]_vars

-----------------------------------------------------------------------------
(* Properties *)

TypeOK ==
  /\ ent \in [Entry -> [state : {"none", "open", "expired", "closed"}, id : {0} \union Entry,
                        failed : 0..CodeAttempts, inFlight : 0..CodeAttempts,
                        claimed : BOOLEAN, burned : BOOLEAN]]
  /\ members \subseteq Node
  /\ \A k \in Chan : chan[k].entry \in {0} \union Entry

\* Slots and claims are exact, whichever way attempts end: a code counts as in
\* flight the channels that are on it and no other, failures and attempts
\* never pass CodeAttempts ("Reserve a slot atomically", primary.go:698), a
\* code is claimed exactly while one channel holds the claim or it has
\* admitted someone, and an open code is not burned and alone under its id.
SlotsExact ==
  /\ TypeOK
  /\ \A e \in Entry :
       /\ ent[e].inFlight = Cardinality(ChansOf(e))
       /\ ent[e].failed + ent[e].inFlight <= CodeAttempts
       /\ Cardinality({k \in ChansOf(e) : chan[k].claimed})
            = IF ent[e].claimed /\ admits[e] = {} THEN 1 ELSE 0
  /\ \A e \in codes : /\ ~ent[e].burned
                      /\ \A f \in codes : ent[e].id = ent[f].id => e = f

\* A code admits one node, one that held it, and nobody once it is burned
\* (withdrawn, used, or out of attempts): no channel that could still complete
\* is left on it.  A newcomer that reports success is in the roster.
AdmitsOne ==
  /\ \A e \in Entry :
       /\ Cardinality(admits[e]) <= 1
       /\ \A n \in admits[e] : \E k \in Chan : NodeOf[k] = n /\ att[k].secret = e
       /\ ent[e].burned => ~\E k \in ChansOf(e) : chan[k].claimed
  /\ \A k \in Chan : att[k].stage = "paired" => NodeOf[k] \in members

\* Only a wrong code or a malformed message costs an attempt (protocol.md 5.1):
\* whatever timeouts, departures, drops, refusals and races happen, a code has
\* failed at most once for each attempt made on its id with another code or
\* ended on a malformed message.
OnlyFailuresCost ==
  \A e \in Entry :
    ent[e].failed <= Cardinality({k \in Chan : /\ att[k].stage # "idle"
                                               /\ att[k].id = ent[e].id
                                               /\ att[k].secret # e \/ k \in malformed})

\* No newcomer waits for nothing: while it waits on a node that is the primary
\* there is something for it to read, something of its own under way to the
\* primary, or a channel there whose timer will tell it.  Refusals, withdrawn
\* codes, malformed messages, lost claims and drops all end in a pairEnd
\* (section 5.2's "would otherwise wait out the relay's 60 seconds").  Excepted
\* is one refused past the budget for ids the primary has not issued.
NewcomerHears ==
  \A k \in Chan \ unanswered :
    (Waiting(k) /\ primary) => \/ down[k] # <<>> \/ up[k] # <<>> \/ chan[k] # NoChan

-----------------------------------------------------------------------------
(* Said and not so *)

\* "opening a default code closes the default code open before it, which
\* admits nobody from then on" (spec/protocol.md 5.1).  Not of one that expired
\* with an attempt under way: OpenPairingCode prunes it instead of withdrawing
\* it, and the attempt can still complete.
ReplacedAdmitsNobody ==
  [][\A e, f \in Entry :
       (e < f /\ ent[e].id = 0 /\ f \in Opened /\ ent[f].id = 0) => admits'[e] = admits[e]]_vars
=============================================================================
