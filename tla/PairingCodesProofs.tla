------------------------- MODULE PairingCodesProofs -------------------------
(***************************************************************************)
(* Theorems about PairingCodes, for any number of codes, attempts and      *)
(* newcomers: a code admits one node, its slots add up, and a newcomer     *)
(* that waits has something to wait for.                                   *)
(*                                                                         *)
(* WInv is about the wires between the primary and its newcomers: what is  *)
(* on its way to either side, and the channel between.  CInv is about the  *)
(* codes: the channels counted and the claim held on each.  WInv types the *)
(* newcomers' ids with CInv's help, and CInv rests on WInv in one place, a *)
(* channel is set up once: together they are inductive.                    *)
(***************************************************************************)
EXTENDS PairingCodes, FiniteSetTheorems, TLAPS

-----------------------------------------------------------------------------
(* The wires. *)

Down == {"pairing", "p2", "p4", "p6", "end"}
Up == {"pairing", "p1", "p3", "p5", "end"}

ChanRec == [entry : {0} \union Entry, stage : {"none", "P1", "P3", "P5"}, claimed : BOOLEAN]
AttRec == [id : {0} \union Entry, secret : {0} \union Entry,
           stage : {"idle", "pairing", "p2", "p4", "p6", "paired", "failed"}]

WTypes ==
  /\ chan \in [Chan -> ChanRec]
  /\ att \in [Chan -> AttRec]
  /\ up \in [Chan -> Seq(Up)] /\ down \in [Chan -> Seq(Down)]

\* A channel held is on a code; an attempt not made yet has nothing.
Placed ==
  \A k \in Chan :
    /\ chan[k].entry = 0 <=> chan[k].stage = "none"
    /\ chan[k].entry = 0 => ~chan[k].claimed
    /\ att[k].stage = "idle" => att[k].secret = 0 /\ chan[k].entry = 0 /\ up[k] = <<>>

\* The first thing the primary hears of a channel is that there is one, and it
\* hears that once; it hears of the newcomer's end only after that.
Ordered ==
  \A k \in Chan :
    /\ up[k] # <<>> => (up[k][1] = "pairing" <=> chan[k].entry = 0)
    /\ \A i \in 1..Len(up[k]) :
         /\ up[k][i] = "pairing" => i = 1
         /\ up[k][i] = "end" => ~Waiting(k)

\* A newcomer with no channel left and nothing under way has its end coming,
\* unless it was refused in silence.
Ending ==
  \A k \in Chan \ unanswered :
    Waiting(k) /\ primary /\ chan[k].entry = 0 /\ up[k] = <<>>
      => down[k] # <<>> /\ down[k][Len(down[k])] = "end"

\* Who was told of success, or will be, is in the roster.
Welcomed ==
  \A k \in Chan :
    /\ att[k].stage = "paired" => NodeOf[k] \in members
    /\ \A i \in 1..Len(down[k]) : down[k][i] = "p6" => NodeOf[k] \in members

WInv == WTypes /\ Placed /\ Ordered /\ Ending /\ Welcomed

-----------------------------------------------------------------------------
(* The wires *)

\* What appending a message to a wire gives.
LEMMA AppendFacts ==
  ASSUME NEW S, NEW s \in Seq(S), NEW m \in S
  PROVE  /\ Len(Append(s, m)) = Len(s) + 1 /\ Append(s, m) # <<>>
         /\ Append(s, m)[Len(s) + 1] = m /\ \A i \in 1..Len(s) : Append(s, m)[i] = s[i]
OBVIOUS

\* What taking the first message off a wire leaves.
LEMMA TailWire ==
  ASSUME NEW S, NEW s \in Seq(S), s # <<>>
  PROVE  /\ Len(Tail(s)) = Len(s) - 1
         /\ \A i \in 1..Len(Tail(s)) : Tail(s)[i] = s[i + 1] /\ i + 1 \in 1..Len(s)
OBVIOUS

\* The last of a wire one shorter was the last of the wire.
LEMMA LessOne ==
  ASSUME NEW n \in Nat, n > 1, NEW x, x = n - 1
  PROVE  x \in 1..x /\ x + 1 = n
OBVIOUS

\* Fewer attempts under way leave a code's budget kept.
LEMMA LessInFlight ==
  ASSUME NEW f \in Nat, NEW i \in Int, NEW a \in Nat, f + i <= a, NEW n \in Nat
  PROVE  f + (i - n) <= a
OBVIOUS

\* At most one, and at least one.
LEMMA OneIs ==
  ASSUME NEW n \in Nat, n <= 1, 1 <= n
  PROVE  n = 1
OBVIOUS

\* A code that was never opened.
LEMMA NoCodeFields ==
  /\ NoCode.state = "none" /\ NoCode.id = 0 /\ NoCode.failed = 0 /\ NoCode.inFlight = 0
  /\ NoCode.claimed = FALSE /\ NoCode.burned = FALSE
BY DEF NoCode

\* A slot count of none stays none when no channel ends.
LEMMA NoneLess == 0 - 0 = 0
OBVIOUS

\* NoChan is the channel record on no code.
LEMMA WaitingChan ==
  ASSUME WTypes, Placed, NEW k \in Chan
  PROVE  chan[k] # NoChan <=> chan[k].entry # 0
BY DEF WTypes, Placed, ChanRec, NoChan

\* Ending channels, and telling their newcomers, keeps the wires in order.
LEMMA EndsWires ==
  ASSUME WInv, NEW K \in SUBSET Chan,
         chan' = Without(K), up' = Ignored(K), down' = Told(K),
         att' = att, members' = members, primary' => primary, unanswered' = unanswered
  PROVE  WInv'
<1> USE DEF WInv
<1>1. WTypes'
  BY DEF WTypes, Without, Ignored, Told, NoChan, ChanRec, Up, Down
<1>2. Placed'
  BY ZenonT(60) DEF WTypes, Placed, Without, Ignored, NoChan
<1>3. Ordered'
  BY DEF WTypes, Ordered, Without, Ignored, Waiting, NoChan
<1>4. Ending'
  <2> SUFFICES ASSUME NEW k \in Chan \ unanswered, Waiting(k)', primary', chan'[k].entry = 0,
                      up'[k] = <<>>
               PROVE  down'[k] # <<>> /\ down'[k][Len(down'[k])] = "end"
    BY ZenonT(60) DEF Ending
  <2>1. CASE k \in K
    <3>1. Waiting(k) /\ down[k] \in Seq(Down)
      BY ZenonT(60) DEF WTypes, Waiting
    <3>2. down'[k] = Append(down[k], "end")
      BY <2>1, <3>1, ZenonT(60) DEF Told
    <3>3. Len(down'[k]) = Len(down[k]) + 1 /\ down'[k][Len(down[k]) + 1] = "end"
      BY <3>1, <3>2
    <3> QED BY <3>1, <3>2, <3>3
  <2>2. CASE k \notin K
    BY <2>2, ZenonT(60) DEF WTypes, Ending, Without, Ignored, Told, Waiting
  <2> QED BY <2>1, <2>2, ZenonT(60)
<1>5. Welcomed'
  <2> SUFFICES ASSUME NEW k \in Chan
               PROVE  \A i \in 1..Len(down'[k]) : down'[k][i] = "p6" => NodeOf[k] \in members
    BY ZenonT(60) DEF Welcomed
  <2> QED BY DEF WTypes, Welcomed, Told, Down
<1> QED BY <1>1, <1>2, <1>3, <1>4, <1>5, ZenonT(60)

\* A frame answered on a channel that goes on.
LEMMA AnswersWires ==
  ASSUME WInv, NEW k \in Chan, up[k] # <<>>, up[k][1] # "pairing", NEW m \in {"p2", "p4"},
         NEW c \in ChanRec, c.entry = chan[k].entry, c.stage # "none",
         chan' = [chan EXCEPT ![k] = c], sendPair(k, m),
         att' = att, members' = members, primary' = primary, unanswered' = unanswered
  PROVE  WInv'
<1> USE DEF WInv
<1>0. chan[k].entry # 0
  BY ZenonT(60) DEF Ordered
<1>1. WTypes'
  BY DEF WTypes, sendPair, Taken, Down, Up
<1>2. Placed'
  BY <1>0, ZenonT(60) DEF WTypes, Placed, sendPair, Taken
<1>3. Ordered'
  <2> SUFFICES ASSUME NEW j \in Chan
               PROVE  /\ up'[j] # <<>> => (up'[j][1] = "pairing" <=> chan'[j].entry = 0)
                      /\ \A i \in 1..Len(up'[j]) :
                           /\ up'[j][i] = "pairing" => i = 1
                           /\ up'[j][i] = "end" => ~Waiting(j)'
    BY ZenonT(60) DEF Ordered
  <2>1. CASE j # k
    BY <2>1, ZenonT(60) DEF WTypes, Ordered, sendPair, Taken, Waiting
  <2>2. CASE j = k
    <3>1. up'[k] = Tail(up[k]) /\ chan'[k].entry # 0 /\ Len(Tail(up[k])) = Len(up[k]) - 1
      BY <1>0 DEF WTypes, sendPair, Taken
    <3>2. \A i \in 1..Len(up'[k]) : up'[k][i] = up[k][i + 1] /\ i + 1 \in 1..Len(up[k])
      BY <3>1 DEF WTypes
    <3>3. \A i \in 1..Len(up'[k]) : up'[k][i] # "pairing" /\ (up'[k][i] = "end" => ~Waiting(k)')
      BY <3>2, <3>1, ZenonT(60) DEF WTypes, Ordered, Waiting
    <3>4. up'[k] # <<>> => 1 \in 1..Len(up'[k])
      BY <3>1 DEF WTypes
    <3> QED BY <2>2, <3>1, <3>3, <3>4, ZenonT(60)
  <2> QED BY <2>1, <2>2, ZenonT(60)
<1>4. Ending'
  BY <1>0, ZenonT(60) DEF WTypes, Ending, sendPair, Taken, Waiting
<1>5. Welcomed'
  <2> SUFFICES ASSUME NEW j \in Chan
               PROVE  \A i \in 1..Len(down'[j]) : down'[j][i] = "p6" => NodeOf[j] \in members
    BY ZenonT(60) DEF Welcomed
  <2> QED BY DEF WTypes, Welcomed, sendPair, Down
<1> QED BY <1>1, <1>2, <1>3, <1>4, <1>5, ZenonT(60)

\* onPairing sets up a channel: its announcement is off the wire.
LEMMA OpensWires ==
  ASSUME WInv, NEW k \in Chan, up[k] # <<>>, up[k][1] = "pairing", NEW e \in Entry,
         chan' = [chan EXCEPT ![k] = [entry |-> e, stage |-> "P1", claimed |-> FALSE]],
         Taken(k), down' = down, att' = att, members' = members, primary' = primary,
         unanswered' = unanswered
  PROVE  WInv'
<1> USE DEF WInv
<1>0. e # 0 /\ chan'[k].entry = e /\ att[k].stage # "idle"
  BY DEF WTypes, Placed, Entry
<1>1. WTypes'
  BY DEF WTypes, Taken, ChanRec
<1>2. Placed'
  BY <1>0, ZenonT(60) DEF WTypes, Placed, Taken
<1>3. Ordered'
  <2> SUFFICES ASSUME NEW j \in Chan
               PROVE  /\ up'[j] # <<>> => (up'[j][1] = "pairing" <=> chan'[j].entry = 0)
                      /\ \A i \in 1..Len(up'[j]) :
                           /\ up'[j][i] = "pairing" => i = 1
                           /\ up'[j][i] = "end" => ~Waiting(j)'
    BY ZenonT(60) DEF Ordered
  <2>1. CASE j # k
    BY <2>1, ZenonT(60) DEF WTypes, Ordered, Taken, Waiting
  <2>2. CASE j = k
    <3>1. up'[k] = Tail(up[k]) /\ Len(Tail(up[k])) = Len(up[k]) - 1
      BY DEF WTypes, Taken
    <3>2. \A i \in 1..Len(up'[k]) : up'[k][i] = up[k][i + 1] /\ i + 1 \in 1..Len(up[k])
      BY <3>1 DEF WTypes
    <3>3. \A i \in 1..Len(up'[k]) : up'[k][i] # "pairing" /\ (up'[k][i] = "end" => ~Waiting(k)')
      BY <3>2, <3>1 DEF WTypes, Ordered, Waiting
    <3>4. up'[k] # <<>> => 1 \in 1..Len(up'[k])
      BY <3>1 DEF WTypes
    <3> QED BY <2>2, <1>0, <3>3, <3>4, ZenonT(60)
  <2> QED BY <2>1, <2>2, ZenonT(60)
<1>4. Ending'
  BY <1>0, ZenonT(60) DEF WTypes, Ending, Taken, Waiting
<1>5. Welcomed'
  BY ZenonT(60) DEF Welcomed
<1> QED BY <1>1, <1>2, <1>3, <1>4, <1>5, ZenonT(60)

\* completePairing: P6 and the end go to a newcomer that is in the roster by then.
LEMMA AdmitsWires ==
  ASSUME WInv, NEW k \in Chan, chan' = Without({k}), up' = Ignored({k}),
         down' = IF Waiting(k) THEN [down EXCEPT ![k] = @ \o <<"p6", "end">>] ELSE down,
         members' = members \union {NodeOf[k]}, att' = att, primary' = primary,
         unanswered' = unanswered
  PROVE  WInv'
<1> USE DEF WInv
<1>0. /\ <<"p6", "end">> \in Seq(Down) /\ Len(<<"p6", "end">>) = 2
      /\ \A j \in Chan \ {k} : down'[j] = down[j]
      /\ Waiting(k) => down'[k] = down[k] \o <<"p6", "end">>
      /\ ~Waiting(k) => down' = down
  BY DEF WTypes, Down
<1>1. WTypes'
  <2>1. down' \in [Chan -> Seq(Down)]
    BY <1>0 DEF WTypes
  <2> QED BY <2>1 DEF WTypes, Without, Ignored, NoChan, ChanRec, Up
<1>2. Placed'
  BY ZenonT(60) DEF WTypes, Placed, Without, Ignored, NoChan
<1>3. Ordered'
  BY DEF WTypes, Ordered, Without, Ignored, Waiting, NoChan
<1>4. Ending'
  <2> SUFFICES ASSUME NEW j \in Chan \ unanswered, Waiting(j)', primary', chan'[j].entry = 0,
                      up'[j] = <<>>
               PROVE  down'[j] # <<>> /\ down'[j][Len(down'[j])] = "end"
    BY ZenonT(60) DEF Ending
  <2>1. CASE j = k
    <3>1. down'[k] = down[k] \o <<"p6", "end">> /\ down[k] \in Seq(Down)
      BY <2>1, <1>0, ZenonT(60) DEF WTypes, Waiting
    <3>2. Len(down'[k]) = Len(down[k]) + 2 /\ down'[k][Len(down[k]) + 2] = <<"p6", "end">>[2]
      BY <3>1, <1>0
    <3> QED BY <2>1, <3>1, <3>2
  <2>2. CASE j # k
    BY <2>2, <1>0, ZenonT(60) DEF WTypes, Ending, Without, Ignored, Waiting
  <2> QED BY <2>1, <2>2, ZenonT(60)
<1>5. Welcomed'
  BY <1>0 DEF Welcomed
<1> QED BY <1>1, <1>2, <1>3, <1>4, <1>5, ZenonT(60)

\* A channel the primary does not hold is dropped in silence.
LEMMA SilentWires ==
  ASSUME WInv, NEW k \in Chan, up' = Ignored({k}), UNCHANGED <<chan, down, att, members, primary>>,
         unanswered \subseteq unanswered', k \in unanswered' \/ ~primary
  PROVE  WInv'
<1> USE DEF WInv
<1>1. WTypes' /\ Placed' /\ Ordered'
  BY DEF WTypes, Placed, Ordered, Ignored, Waiting
<1>2. \A j \in Chan \ {k} : up'[j] = up[j]
  BY ZenonT(60) DEF Ignored
<1>3. Ending'
  BY <1>2, ZenonT(60) DEF Ending, Waiting
<1>4. Welcomed'
  BY ZenonT(60) DEF Welcomed
<1> QED BY <1>1, <1>3, <1>4, ZenonT(60)

\* What the primary does with what it receives, as seen on the wires.
LEMMA DeliverWires ==
  ASSUME WInv, NEW k \in Chan, Deliver(k)
  PROVE  WInv'
<1> USE DEF WInv
<1>0. up[k] # <<>> /\ Head(up[k]) = up[k][1] /\ 1 \in 1..Len(up[k]) /\ UNCHANGED <<att, primary>>
  BY DEF Deliver, WTypes
<1>1. CASE ~primary
  <2>1. up' = Ignored({k}) /\ UNCHANGED <<chan, down, members, unanswered>>
    BY <1>1, ZenonT(60) DEF Deliver, hist
  <2> QED BY <1>0, <1>1, <2>1, SilentWires, ZenonT(60)
<1>2. CASE primary /\ up[k][1] = "pairing"
  <2>1. onPairing(k)
    BY <1>0, <1>2, ZenonT(60) DEF Deliver
  <2>2. CASE up' = Ignored({k}) /\ down' = Told({k}) /\ UNCHANGED <<chan, members, unanswered>>
    <3>1. chan' = Without({k})
      BY <1>2, <1>0, <2>2, ZenonT(60) DEF WTypes, Ordered, Placed, Without, NoChan, ChanRec
    <3> QED BY <3>1, <2>2, <1>0, EndsWires, ZenonT(60)
  <2>3. CASE \E e \in Entry :
               /\ chan' = [chan EXCEPT ![k] = [entry |-> e, stage |-> "P1", claimed |-> FALSE]]
               /\ Taken(k) /\ UNCHANGED <<down, members, unanswered>>
    BY <2>3, <1>0, <1>2, OpensWires, ZenonT(60)
  <2>4. CASE /\ up' = Ignored({k}) /\ UNCHANGED <<chan, down, members>>
             /\ unanswered' = unanswered \union {k}
    BY <2>4, <1>0, SilentWires, ZenonT(60)
  <2> QED BY <2>1, <2>2, <2>3, <2>4, ZenonT(60) DEF onPairing, codes
<1>3. CASE primary /\ up[k][1] = "end"
  <2>1. NewcomerLeft(k) /\ UNCHANGED unanswered
    BY <1>0, <1>3, ZenonT(60) DEF Deliver, hist
  <2>2. down' = Told({k})
    BY <2>1, <1>0, <1>3, ZenonT(60) DEF NewcomerLeft, Told, Ordered, WTypes
  <2> QED BY <2>1, <2>2, <1>0, EndsWires, ZenonT(60) DEF NewcomerLeft
<1>4. CASE primary /\ up[k][1] \notin {"pairing", "end"}
  <2>1. onPairFrame(k) /\ UNCHANGED unanswered
    BY <1>0, <1>4, ZenonT(60) DEF Deliver, onPairFrame
  <2>2. chan[k] \in ChanRec /\ chan[k].stage \in {"P1", "P3", "P5"}
    BY <1>0, <1>4, ZenonT(60) DEF WTypes, Ordered, Placed, ChanRec
  <2>6. CASE failAttempt(k)
    BY <2>1, <2>6, <1>0, EndsWires, ZenonT(60) DEF failAttempt
  <2>3. CASE chan[k].stage = "P1" /\ ~failAttempt(k)
    <3>1. /\ chan' = [chan EXCEPT ![k] = [chan[k] EXCEPT !.stage = "P3"]]
          /\ sendPair(k, "p2") /\ UNCHANGED members
      BY <2>1, <2>3, ZenonT(60) DEF onPairFrame
    <3>2. [chan[k] EXCEPT !.stage = "P3"] \in ChanRec
      BY <2>2, ZenonT(60) DEF ChanRec
    <3>3. /\ [chan[k] EXCEPT !.stage = "P3"].entry = chan[k].entry
          /\ [chan[k] EXCEPT !.stage = "P3"].stage # "none"
      BY <2>2, ZenonT(60) DEF ChanRec
    <3> QED BY <3>1, <3>2, <3>3, <1>0, <1>4, <2>1, AnswersWires, ZenonT(60)
  <2>4. CASE chan[k].stage = "P3" /\ ~failAttempt(k)
    <3>1. Confirm(k)
      BY <2>1, <2>4, ZenonT(60) DEF onPairFrame
    <3>2. CASE chan' = Without({k}) /\ up' = Ignored({k}) /\ down' = Told({k}) /\ UNCHANGED members
      BY <3>2, <1>0, <2>1, EndsWires, ZenonT(60)
    <3>3. CASE /\ chan' = [chan EXCEPT ![k].claimed = TRUE, ![k].stage = "P5"]
               /\ sendPair(k, "p4") /\ UNCHANGED members
      <4> DEFINE c == [chan[k] EXCEPT !.claimed = TRUE, !.stage = "P5"]
      <4>1. chan' = [chan EXCEPT ![k] = c]
        BY <3>3, ZenonT(60) DEF WTypes
      <4>2. c \in ChanRec /\ c.entry = chan[k].entry /\ c.stage # "none"
        BY <2>2, ZenonT(60) DEF ChanRec
      <4> HIDE DEF c
      <4> QED BY <3>3, <4>1, <4>2, <1>0, <1>4, <2>1, AnswersWires, ZenonT(60)
    <3> QED BY <3>1, <3>2, <3>3, ZenonT(60) DEF Confirm, failAttempt, endChannel
  <2>5. CASE chan[k].stage = "P5" /\ ~failAttempt(k)
    <3>1. completePairing(k)
      BY <2>1, <2>5, ZenonT(60) DEF onPairFrame
    <3>2. CASE NodeOf[k] \in members \/ Cardinality(members) >= MaxMembers
      BY <3>1, <3>2, <1>0, <2>1, EndsWires, ZenonT(60) DEF completePairing, endChannel
    <3>3. CASE ~(NodeOf[k] \in members \/ Cardinality(members) >= MaxMembers)
      BY <3>1, <3>3, <1>0, <2>1, AdmitsWires, ZenonT(60) DEF completePairing
    <3> QED BY <3>2, <3>3, ZenonT(60)
  <2> QED BY <2>2, <2>3, <2>4, <2>5, <2>6, ZenonT(60)
<1> QED BY <1>1, <1>2, <1>3, <1>4, ZenonT(60)

\* Pair: the relay names the channel to both sides.
LEMMA PairWires ==
  ASSUME WInv, NEW k \in Chan, issued \subseteq {0} \union Entry, Pair(k)
  PROVE  WInv'
<1> USE DEF WInv
<1>6. PICK id \in issued \union {0} : \E s \in {0} \union {e \in Opened : ent[e].id = id} :
        att' = [att EXCEPT ![k] = [id |-> id, secret |-> s, stage |-> "pairing"]]
  BY ZenonT(60) DEF Pair
<1>7. PICK s \in {0} \union {e \in Opened : ent[e].id = id} :
        att' = [att EXCEPT ![k] = [id |-> id, secret |-> s, stage |-> "pairing"]]
  BY <1>6, ZenonT(60)
<1>8. /\ up' = [up EXCEPT ![k] = <<"pairing">>] /\ down' = [down EXCEPT ![k] = <<"pairing">>]
      /\ att[k].stage = "idle" /\ UNCHANGED <<chan, members, primary, unanswered>>
  BY ZenonT(60) DEF Pair, hist
<1>0. /\ s \in {0} \union Entry /\ id \in {0} \union Entry /\ Len(<<"pairing">>) = 1 /\ <<"pairing">>[1] = "pairing"
      /\ chan[k].entry = 0 /\ <<"pairing">> # <<>>
      /\ \A j \in Chan \ {k} : att'[j] = att[j] /\ up'[j] = up[j] /\ down'[j] = down[j]
      /\ att'[k].stage = "pairing" /\ up'[k] = <<"pairing">> /\ down'[k] = <<"pairing">>
  BY <1>7, <1>8, ZenonT(60) DEF Opened, Placed, WTypes
<1>1. WTypes'
  BY <1>0, <1>7, <1>8 DEF WTypes, AttRec, Up, Down
<1>2. Placed'
  BY <1>0, <1>8 DEF Placed
<1>3. Ordered'
  BY <1>0, <1>8 DEF Ordered, Waiting
<1>4. Ending'
  <2>1. \A j \in Chan : up'[j] = <<>> => j # k
    BY <1>0, ZenonT(60)
  <2>2. \A j \in Chan \ {k} : Waiting(j)' <=> Waiting(j)
    BY <1>0, ZenonT(60) DEF Waiting
  <2> QED BY <2>1, <2>2, <1>0, <1>8 DEF Ending
<1>5. Welcomed'
  BY <1>0, <1>8 DEF Welcomed
<1> QED BY <1>1, <1>2, <1>3, <1>4, <1>5, ZenonT(60)

\* What a newcomer sends reaches a primary that has, or has yet to hear of, its channel.
LEMMA ForwardedWires ==
  ASSUME WTypes, Placed, Ordered, NEW k \in Chan, NEW m \in Up, m # "pairing", Forwarded(k, m)
  PROVE  /\ up' \in [Chan -> Seq(Up)] /\ \A j \in Chan \ {k} : up'[j] = up[j]
         /\ up'[k] = <<>> <=> (up[k] = <<>> /\ chan[k].entry = 0)
         /\ up'[k] # <<>> => (up'[k][1] = "pairing" <=> chan[k].entry = 0)
         /\ \A i \in 1..Len(up'[k]) :
              /\ up'[k][i] = "pairing" => i = 1
              /\ up'[k][i] = "end" => m = "end" \/ (\E h \in 1..Len(up[k]) : up[k][h] = "end")
<1>1. up \in [Chan -> Seq(Up)] /\ up[k] \in Seq(Up)
  BY ZenonT(60) DEF WTypes
<1>2. CASE up[k] = <<>> /\ chan[k].entry = 0
  <2>1. up' = up
    BY <1>1, <1>2, WaitingChan, ZenonT(60) DEF Forwarded
  <2> QED BY <2>1, <1>1, <1>2, ZenonT(60) DEF Ordered
<1>3. CASE ~(up[k] = <<>> /\ chan[k].entry = 0)
  <2>1. up' = [up EXCEPT ![k] = Append(up[k], m)]
    BY <1>3, WaitingChan, ZenonT(60) DEF Forwarded
  <2>2. /\ up'[k] = Append(up[k], m) /\ Len(up'[k]) = Len(up[k]) + 1 /\ up'[k] # <<>>
        /\ up'[k][Len(up[k]) + 1] = m /\ \A i \in 1..Len(up[k]) : up'[k][i] = up[k][i]
    <3>1. up'[k] = Append(up[k], m)
      BY <2>1, <1>1, ZenonT(60)
    <3>2. /\ Len(Append(up[k], m)) = Len(up[k]) + 1 /\ Append(up[k], m) # <<>>
          /\ Append(up[k], m)[Len(up[k]) + 1] = m
          /\ \A i \in 1..Len(up[k]) : Append(up[k], m)[i] = up[k][i]
      BY <1>1, AppendFacts, ZenonT(60)
    <3> QED BY <3>1, <3>2, ZenonT(60)
  <2>3. up[k] = <<>> => Len(up[k]) = 0
    OBVIOUS
  <2>4. up[k] # <<>> => 1 \in 1..Len(up[k])
    BY <1>1
  <2>5. up'[k] # <<>> => (up'[k][1] = "pairing" <=> chan[k].entry = 0)
    BY <2>2, <2>3, <2>4, <1>3 DEF Ordered
  <2>6. \A i \in 1..Len(up'[k]) :
          /\ up'[k][i] = "pairing" => i = 1
          /\ up'[k][i] = "end" => m = "end" \/ (\E h \in 1..Len(up[k]) : up[k][h] = "end")
    <3> SUFFICES ASSUME NEW i \in 1..Len(up'[k])
                 PROVE  /\ up'[k][i] = "pairing" => i = 1
                        /\ up'[k][i] = "end"
                             => m = "end" \/ (\E h \in 1..Len(up[k]) : up[k][h] = "end")
      BY ZenonT(60)
    <3>1. i \in 1..Len(up[k]) \/ i = Len(up[k]) + 1
      BY <2>2, <1>1
    <3> QED BY <3>1, <2>2 DEF Ordered
  <2> QED BY <2>1, <2>2, <2>5, <2>6, <1>1, <1>3
<1> QED BY <1>2, <1>3, ZenonT(60)

\* newcomerRun.step: P6 or an end is the last thing read, anything else is answered.
LEMMA StepWires ==
  ASSUME WInv, NEW k \in Chan, step(k)
  PROVE  WInv'
<1> USE DEF WInv
<1> DEFINE m == Head(down[k])
<1>0. /\ Waiting(k) /\ down[k] # <<>> /\ m \in Down /\ m = down[k][1] /\ 1 \in 1..Len(down[k])
      /\ UNCHANGED <<chan, members, primary, unanswered>>
  BY DEF step, WTypes, hist
<1>1. CASE m \in {"p6", "end"}
  <2>1. /\ att' = [att EXCEPT ![k].stage = IF m = "p6" THEN "paired" ELSE "failed"]
        /\ down' = [down EXCEPT ![k] = <<>>] /\ up' = up
    BY <1>1, ZenonT(60) DEF step
  <2>2. /\ \A j \in Chan \ {k} : att'[j] = att[j] /\ down'[j] = down[j]
        /\ att'[k].stage = (IF m = "p6" THEN "paired" ELSE "failed") /\ down'[k] = <<>>
        /\ Len(<<>>) = 0 /\ ~Waiting(k)'
    BY <2>1, ZenonT(60) DEF WTypes, AttRec, Waiting, Final
  <2>3. WTypes'
    <3>1. [att[k] EXCEPT !.stage = IF m = "p6" THEN "paired" ELSE "failed"] \in AttRec
      BY ZenonT(60) DEF WTypes, AttRec
    <3>2. att' \in [Chan -> AttRec]
      BY <3>1, <2>1, ZenonT(60) DEF WTypes
    <3>3. down' \in [Chan -> Seq(Down)]
      BY <2>1 DEF WTypes
    <3> QED BY <3>2, <3>3, <2>1, <1>0, ZenonT(60) DEF WTypes
  <2>4. Placed'
    BY <2>1, <2>2, <1>0 DEF Placed
  <2>5. Ordered'
    BY <2>1, <2>2, <1>0 DEF Ordered, Waiting
  <2>6. Ending'
    BY <2>1, <2>2, <1>0 DEF Ending, Waiting
  <2>7. Welcomed'
    <3>1. att'[k].stage = "paired" => NodeOf[k] \in members
      BY <2>2, <1>0, ZenonT(60) DEF Welcomed
    <3>2. \A i \in 1..Len(down'[k]) : FALSE
      BY <2>2
    <3> QED BY <3>1, <3>2, <2>2, <1>0, ZenonT(60) DEF Welcomed
  <2> QED BY <2>3, <2>4, <2>5, <2>6, <2>7, ZenonT(60)
<1>2. CASE m \in {"pairing", "p2", "p4"}
  <2>1. /\ Answer[m][1] \in {"p2", "p4", "p6"} /\ Answer[m][2] \in {"p1", "p3", "p5"}
        /\ att' = [att EXCEPT ![k].stage = Answer[m][1]] /\ Forwarded(k, Answer[m][2])
        /\ down' = [down EXCEPT ![k] = Tail(down[k])]
    BY <1>2 DEF step, Answer
  <2> HIDE DEF m
  <2>2. Answer[m][2] \in Up /\ Answer[m][2] \notin {"pairing", "end"}
    BY <2>1, ZenonT(60) DEF Up
  <2>3. /\ \A j \in Chan \ {k} : att'[j] = att[j] /\ down'[j] = down[j]
        /\ att'[k].stage = Answer[m][1] /\ att'[k].secret = att[k].secret
        /\ down'[k] = Tail(down[k]) /\ Len(down'[k]) = Len(down[k]) - 1
        /\ \A i \in 1..Len(down'[k]) : down'[k][i] = down[k][i + 1] /\ i + 1 \in 1..Len(down[k])
    <3>1. att \in [Chan -> AttRec] /\ down \in [Chan -> Seq(Down)] /\ down[k] \in Seq(Down)
      BY <1>0, ZenonT(60) DEF WTypes
    <3>2. \A j \in Chan \ {k} : att'[j] = att[j] /\ down'[j] = down[j]
      BY <2>1, <3>1, ZenonT(60)
    <3>3. att'[k].stage = Answer[m][1] /\ att'[k].secret = att[k].secret
      BY <2>1, <3>1, ZenonT(60) DEF AttRec
    <3>4. down'[k] = Tail(down[k])
      BY <2>1, <3>1, ZenonT(60)
    <3>5. /\ Len(Tail(down[k])) = Len(down[k]) - 1
          /\ \A i \in 1..Len(Tail(down[k])) : Tail(down[k])[i] = down[k][i + 1] /\ i + 1 \in 1..Len(down[k])
      BY <3>1, <1>0, TailWire, ZenonT(60)
    <3> QED BY <3>2, <3>3, <3>4, <3>5, ZenonT(60)
  <2>4. WTypes'
    <3>1. [att[k] EXCEPT !.stage = Answer[m][1]] \in AttRec
      BY <2>1, ZenonT(60) DEF WTypes, AttRec
    <3>2. att' \in [Chan -> AttRec]
      BY <3>1, <2>1, ZenonT(60) DEF WTypes
    <3>3. Tail(down[k]) \in Seq(Down)
      BY <1>0 DEF WTypes
    <3>4. down' \in [Chan -> Seq(Down)]
      BY <3>3, <2>1, ZenonT(60) DEF WTypes
    <3> QED BY <3>2, <3>4, <2>1, <2>2, <1>0, ForwardedWires, ZenonT(60) DEF WTypes
  <2>5. Placed'
    <3>1. \A j \in Chan \ {k} : up'[j] = up[j]
      BY <2>1, <2>2, ForwardedWires, ZenonT(60)
    <3>2. att'[k].stage # "idle"
      BY <2>1, <2>3, ZenonT(60)
    <3> QED BY <3>1, <3>2, <2>3, <1>0, ZenonT(60) DEF Placed
  <2>6. Ordered'
    <3>1. \A i \in 1..Len(up'[k]) : up'[k][i] # "end"
      BY <2>1, <2>2, <1>0, ForwardedWires, ZenonT(60) DEF Ordered
    <3>2. \A j \in Chan \ {k} : (Waiting(j)' <=> Waiting(j)) /\ up'[j] = up[j]
      BY <2>1, <2>2, <2>3, ForwardedWires, ZenonT(60) DEF Waiting
    <3>3. /\ up'[k] # <<>> => (up'[k][1] = "pairing" <=> chan[k].entry = 0)
          /\ \A i \in 1..Len(up'[k]) : up'[k][i] = "pairing" => i = 1
      BY <2>1, <2>2, ForwardedWires, ZenonT(60)
    <3>4. ASSUME NEW j \in Chan
          PROVE  /\ up'[j] # <<>> => (up'[j][1] = "pairing" <=> chan'[j].entry = 0)
                 /\ \A i \in 1..Len(up'[j]) :
                      /\ up'[j][i] = "pairing" => i = 1
                      /\ up'[j][i] = "end" => ~Waiting(j)'
      <4>0. chan' = chan
        BY <1>0, ZenonT(60)
      <4>1. CASE j = k
        BY <4>0, <4>1, <3>1, <3>3, ZenonT(60)
      <4>2. CASE j # k
        <5>1. up'[j] = up[j] /\ (Waiting(j)' <=> Waiting(j))
          BY <4>2, <3>2, ZenonT(60)
        <5> QED BY <4>0, <5>1, ZenonT(60) DEF Ordered
      <4> QED BY <4>1, <4>2, ZenonT(60)
    <3> QED BY <3>4, ZenonT(60) DEF Ordered
  <2>7. Ending'
    <3>0. \A j \in Chan \ {k} : (Waiting(j)' <=> Waiting(j)) /\ up'[j] = up[j]
      BY <2>1, <2>2, <2>3, ForwardedWires DEF Waiting
    <3>1. CASE up[k] # <<>> \/ chan[k].entry # 0
      <4>1. up'[k] # <<>>
        BY <3>1, <2>1, <2>2, ForwardedWires, ZenonT(60)
      <4> QED BY <4>1, <3>0, <2>3, <1>0, ZenonT(60) DEF Ending
    <3>2. CASE up[k] = <<>> /\ chan[k].entry = 0
      <4>1. primary /\ k \notin unanswered => down[k][Len(down[k])] = "end"
        BY <3>2, <1>0, ZenonT(60) DEF Ending
      <4>2. primary /\ k \notin unanswered => Len(down[k]) > 1
        BY <4>1, <1>0, <1>2 DEF WTypes
      <4>3. primary /\ k \notin unanswered => down'[k] # <<>> /\ down'[k][Len(down'[k])] = "end"
        <5> SUFFICES ASSUME primary, k \notin unanswered PROVE down'[k] # <<>> /\ down'[k][Len(down'[k])] = "end"
          BY ZenonT(60)
        <5>1. Len(down[k]) \in Nat /\ Len(down[k]) > 1
          BY <4>2 DEF WTypes
        <5>2. Len(down'[k]) \in 1..Len(down'[k]) /\ Len(down'[k]) + 1 = Len(down[k])
          BY <5>1, <2>3, LessOne, ZenonT(60)
        <5>3. down'[k][Len(down'[k])] = down[k][Len(down'[k]) + 1]
          BY <5>2, <2>3, ZenonT(60)
        <5>4. down'[k] # <<>>
          BY <5>2
        <5> QED BY <5>2, <5>3, <5>4, <4>1, ZenonT(60)
      <4> QED BY <4>3, <3>0, <2>3, <1>0, ZenonT(60) DEF Ending
    <3> QED BY <3>1, <3>2, ZenonT(60)
  <2>8. Welcomed'
    <3>1. att'[k].stage # "paired"
      BY <2>1, <2>3, ZenonT(60)
    <3>2. \A i \in 1..Len(down'[k]) : down'[k][i] = "p6" => NodeOf[k] \in members
      BY <2>3, ZenonT(60) DEF Welcomed
    <3> QED BY <3>1, <3>2, <2>3, <1>0, ZenonT(60) DEF Welcomed
  <2> QED BY <2>4, <2>5, <2>6, <2>7, <2>8, ZenonT(60)
<1> QED BY <1>0, <1>1, <1>2, ZenonT(60) DEF Down

\* A newcomer that leaves says so if the primary may still be listening.
LEMMA LeaveWires ==
  ASSUME WInv, NEW k \in Chan, Leave(k)
  PROVE  WInv'
<1> USE DEF WInv
<1>0. /\ Forwarded(k, "end") /\ "end" \in Up /\ UNCHANGED <<chan, members, primary, unanswered>>
      /\ \A j \in Chan \ {k} : att'[j] = att[j] /\ down'[j] = down[j]
      /\ att'[k].stage = "failed" /\ down'[k] = <<>> /\ Len(<<>>) = 0
  BY ZenonT(60) DEF Leave, Up, WTypes, AttRec, hist
<1>1. WTypes'
  <2>1. [att[k] EXCEPT !.stage = "failed"] \in AttRec
    BY ZenonT(60) DEF WTypes, AttRec
  <2>2. att' \in [Chan -> AttRec]
    BY <2>1, ZenonT(60) DEF Leave, WTypes
  <2>3. down' \in [Chan -> Seq(Down)]
    BY DEF Leave, WTypes
  <2> QED BY <2>2, <2>3, <1>0, ForwardedWires, ZenonT(60) DEF WTypes
<1>2. \A j \in Chan \ {k} : (Waiting(j)' <=> Waiting(j)) /\ up'[j] = up[j]
  BY <1>0, ForwardedWires, ZenonT(60) DEF Waiting
<1>3. ~Waiting(k)'
  BY <1>0, ZenonT(60) DEF Waiting, Final
<1>4. Placed'
  BY <1>0, <1>2, ZenonT(60) DEF Placed
<1>5. Ordered'
  BY <1>0, <1>2, <1>3, ForwardedWires DEF Ordered
<1>6. Ending'
  BY <1>0, <1>2, <1>3, ZenonT(60) DEF Ending
<1>7. Welcomed'
  BY <1>0 DEF Welcomed
<1> QED BY <1>1, <1>4, <1>5, <1>6, <1>7, ZenonT(60)

\* onConnectionState: whatever is lost, who waits is told by the relay.
LEMMA DropWires ==
  ASSUME WInv, onConnectionState
  PROVE  WInv'
<1> USE DEF WInv
<1>0. /\ chan' = Without(Chan) /\ up' = [k \in Chan |-> <<>>] /\ UNCHANGED <<att, members, primary>>
      /\ Len(<<>>) = 0 /\ UNCHANGED unanswered
  BY ZenonT(60) DEF onConnectionState, hist
<1>1. \A k \in Chan : /\ down'[k] \in Seq(Down)
                      /\ Waiting(k) => down'[k] = <<"end">> \/ down'[k] = Append(down[k], "end")
                      /\ ~Waiting(k) => down'[k] = <<>>
  <2> SUFFICES ASSUME NEW k \in Chan
               PROVE  /\ down'[k] \in Seq(Down)
                      /\ Waiting(k) => down'[k] = <<"end">> \/ down'[k] = Append(down[k], "end")
                      /\ ~Waiting(k) => down'[k] = <<>>
    BY ZenonT(60)
  <2>1. /\ <<>> \in Seq(Down) /\ <<"end">> \in Seq(Down) /\ Append(down[k], "end") \in Seq(Down)
    BY DEF WTypes, Down
  <2>2. PICK lost \in SUBSET {j \in Chan : down[j] # <<>>} :
          down' = [j \in Chan |-> IF ~Waiting(j) THEN <<>>
                                  ELSE IF j \in lost THEN <<"end">>
                                  ELSE Append(down[j], "end")]
    BY ZenonT(60) DEF onConnectionState
  <2>3. down'[k] = IF ~Waiting(k) THEN <<>>
                   ELSE IF k \in lost THEN <<"end">> ELSE Append(down[k], "end")
    BY <2>2, ZenonT(60)
  <2> QED BY <2>1, <2>3, ZenonT(60)
<1>2. \A k \in Chan : Waiting(k) => /\ down'[k] # <<>> /\ down'[k][Len(down'[k])] = "end"
                                    /\ \A i \in 1..Len(down'[k]) : down'[k][i] = "p6" =>
                                         i \in 1..Len(down[k]) /\ down[k][i] = "p6"
  <2> SUFFICES ASSUME NEW k \in Chan, Waiting(k)
               PROVE  /\ down'[k] # <<>> /\ down'[k][Len(down'[k])] = "end"
                      /\ \A i \in 1..Len(down'[k]) : down'[k][i] = "p6" =>
                           i \in 1..Len(down[k]) /\ down[k][i] = "p6"
    BY ZenonT(60)
  <2>1. CASE down'[k] = <<"end">>
    BY <2>1
  <2>2. CASE down'[k] = Append(down[k], "end")
    <3>1. down[k] \in Seq(Down)
      BY ZenonT(60) DEF WTypes
    <3>2. Len(down'[k]) = Len(down[k]) + 1 /\ down'[k][Len(down[k]) + 1] = "end"
      BY <2>2, <3>1
    <3>3. \A i \in 1..Len(down[k]) : down'[k][i] = down[k][i]
      BY <2>2, <3>1
    <3>4. Len(down[k]) \in Nat /\ down'[k] # <<>>
      BY <2>2, <3>1
    <3>5. \A i \in 1..Len(down'[k]) : i \in 1..Len(down[k]) \/ i = Len(down[k]) + 1
      BY <3>2, <3>4
    <3> QED BY <3>2, <3>3, <3>4, <3>5, ZenonT(60)
  <2> QED BY <1>1, <2>1, <2>2, ZenonT(60)
<1>3. WTypes'
  <2>1. down' \in [Chan -> Seq(Down)]
    BY <1>1, ZenonT(60) DEF onConnectionState
  <2> QED BY <2>1, <1>0 DEF WTypes, Without, NoChan, ChanRec
<1>4. Placed' /\ Ordered'
  BY <1>0 DEF Placed, Ordered, Without, NoChan
<1>5. Ending'
  BY <1>0, <1>2, ZenonT(60) DEF Ending, Waiting
<1>6. Welcomed'
  BY <1>0, <1>1, <1>2 DEF Welcomed
<1> QED BY <1>3, <1>4, <1>5, <1>6, ZenonT(60)

-----------------------------------------------------------------------------
(* The codes: what ends channels. *)

EntRec == [state : {"none", "open", "expired", "closed"}, id : {0} \union Entry,
           failed : Nat, inFlight : Int, claimed : BOOLEAN, burned : BOOLEAN]

CTypes ==
  /\ ent \in [Entry -> EntRec]
  /\ members \subseteq Node /\ admits \in [Entry -> SUBSET Node]

Counted ==
  \A e \in Entry :
    /\ ent[e].inFlight = Cardinality(ChansOf(e))
    /\ ent[e].failed + ent[e].inFlight <= CodeAttempts

\* The channel that may complete holds the claim of its code, alone and with the
\* right secret, and the code is good; a claim nobody was admitted by has its channel.
Claims ==
  /\ \A k \in Chan : /\ chan[k].stage = "P5" => chan[k].claimed
                     /\ chan[k].claimed => /\ ent[chan[k].entry].claimed
                                           /\ ~ent[chan[k].entry].burned
                                           /\ att[k].secret = chan[k].entry
  /\ \A j, k \in Chan : chan[j].claimed /\ chan[k].claimed /\ chan[j].entry = chan[k].entry => j = k
  /\ \A e \in Entry : ent[e].claimed /\ admits[e] = {} => \E k \in ChansOf(e) : chan[k].claimed

Admitted ==
  \A e \in Entry : admits[e] # {} =>
    /\ ent[e].burned /\ ent[e].claimed
    /\ \E k \in Chan : admits[e] = {NodeOf[k]} /\ att[k].secret = e

\* Codes are opened in order; one not opened yet has nothing; a listed one is good
\* and alone under its id.
Listed ==
  /\ Opened = 1..Cardinality(Opened)
  /\ \A e \in Entry : /\ ent[e].state = "none" => ChansOf(e) = {} /\ ent[e] = NoCode
                      /\ ent[e].state # "none" => ent[e].id \in {0, e}
                      /\ e \in codes => ~ent[e].burned
  /\ \A e, f \in codes : ent[e].id = ent[f].id => e = f

CInv == CTypes /\ Counted /\ Claims /\ Admitted /\ Listed

-----------------------------------------------------------------------------
(* The codes *)

\* The channels of a code are finitely many.
LEMMA ChansFinite ==
  ASSUME NEW e
  PROVE  IsFiniteSet(ChansOf(e)) /\ Cardinality(ChansOf(e)) \in Nat
<1>1. IsFiniteSet(Chan)
  BY CodesAssumption, FS_Interval DEF Chan
<1>2. ChansOf(e) \subseteq Chan
  BY ZenonT(60) DEF ChansOf
<1> QED BY <1>1, <1>2, FS_Subset, FS_CardinalityType, ZenonT(60)

\* The channels that are left on a code.
LEMMA ChansLeft ==
  ASSUME WTypes, NEW K \in SUBSET Chan, chan' = Without(K), NEW e \in Entry
  PROVE  /\ ChansOf(e)' = ChansOf(e) \ K
         /\ Cardinality(ChansOf(e)') = Cardinality(ChansOf(e)) - Cardinality(K \intersect ChansOf(e))
         /\ Cardinality(K \intersect ChansOf(e)) \in Nat
         /\ \A k \in ChansOf(e)' : chan'[k] = chan[k]
<1>1. e # 0 /\ Chan' = Chan
  BY DEF Entry, Chan
<1>2. ChansOf(e)' = ChansOf(e) \ K /\ \A k \in ChansOf(e)' : chan'[k] = chan[k]
  BY <1>1, ZenonT(60) DEF ChansOf, Without, NoChan
<1>3. ChansOf(e) \intersect K = K \intersect ChansOf(e)
  BY ZenonT(60)
<1>4. Cardinality(ChansOf(e) \ K) = Cardinality(ChansOf(e)) - Cardinality(ChansOf(e) \intersect K)
  BY ChansFinite, FS_Difference, ZenonT(60)
<1>5. IsFiniteSet(K \intersect ChansOf(e))
  BY ChansFinite, FS_Subset, ZenonT(60)
<1> QED BY <1>2, <1>3, <1>4, <1>5, FS_CardinalityType, ZenonT(60)

\* What Refunded leaves of each code.
LEMMA RefundedFields ==
  ASSUME WTypes, NEW K \in SUBSET Chan, NEW c \in [Entry -> EntRec], ent' = Refunded(c, K)
  PROVE  /\ ent' \in [Entry -> EntRec]
         /\ \A e \in Entry :
              /\ ent'[e].state = c[e].state /\ ent'[e].id = c[e].id
              /\ ent'[e].failed = c[e].failed /\ ent'[e].burned = c[e].burned
              /\ ent'[e].inFlight = c[e].inFlight - Cardinality(K \intersect ChansOf(e))
              /\ ent'[e].claimed
                   = (c[e].claimed /\ ~\E k \in K \intersect ChansOf(e) : chan[k].claimed)
<1>1. \A f \in Entry : Cardinality(K \intersect ChansOf(f)) \in Nat
  <2> SUFFICES ASSUME NEW f \in Entry PROVE Cardinality(K \intersect ChansOf(f)) \in Nat
    BY ZenonT(60)
  <2>1. IsFiniteSet(K \intersect ChansOf(f))
    BY ChansFinite, FS_Subset, ZenonT(60)
  <2> QED BY <2>1, FS_CardinalityType, ZenonT(60)
<1>2. \A f \in Entry : ent'[f] =
        [c[f] EXCEPT !.inFlight = @ - Cardinality(K \intersect ChansOf(f)),
                     !.claimed = @ /\ ~\E k \in K \intersect ChansOf(f) : chan[k].claimed]
  BY ZenonT(60) DEF Refunded
<1>3. \A f \in Entry : c[f] \in EntRec
  BY ZenonT(60)
<1>4. \A f \in Entry :
         /\ ent'[f] \in EntRec
         /\ ent'[f].state = c[f].state /\ ent'[f].id = c[f].id
         /\ ent'[f].failed = c[f].failed /\ ent'[f].burned = c[f].burned
         /\ ent'[f].inFlight = c[f].inFlight - Cardinality(K \intersect ChansOf(f))
         /\ ent'[f].claimed
              = (c[f].claimed /\ ~\E k \in K \intersect ChansOf(f) : chan[k].claimed)
  <2> SUFFICES ASSUME NEW f \in Entry
               PROVE /\ ent'[f] \in EntRec
                     /\ ent'[f].state = c[f].state /\ ent'[f].id = c[f].id
                     /\ ent'[f].failed = c[f].failed
                     /\ ent'[f].burned = c[f].burned
                     /\ ent'[f].inFlight
                          = c[f].inFlight - Cardinality(K \intersect ChansOf(f))
                     /\ ent'[f].claimed
                          = (c[f].claimed /\ ~\E k \in K \intersect ChansOf(f) : chan[k].claimed)
    BY ZenonT(60)
  <2> DEFINE n == Cardinality(K \intersect ChansOf(f))
             held == \E k \in K \intersect ChansOf(f) : chan[k].claimed
  <2>1. n \in Nat /\ held \in BOOLEAN /\ c[f] \in EntRec
    BY <1>1, ZenonT(60)
  <2> DEFINE left == c[f].inFlight - n
             claimed == c[f].claimed /\ ~held
  <2>2. ent'[f] = [c[f] EXCEPT !.inFlight = left, !.claimed = claimed]
    BY <1>2, ZenonT(60)
  <2> HIDE DEF n, held
  <2>5. left \in Int /\ claimed \in BOOLEAN
    BY <2>1 DEF EntRec
  <2> HIDE DEF left, claimed
  <2>3. ent'[f] \in EntRec
    BY <2>1, <2>2, <2>5, ZenonT(60) DEF EntRec
  <2>4. /\ ent'[f].state = c[f].state /\ ent'[f].id = c[f].id
        /\ ent'[f].failed = c[f].failed /\ ent'[f].burned = c[f].burned
        /\ ent'[f].inFlight = left /\ ent'[f].claimed = claimed
    BY <2>1, <2>2, ZenonT(60) DEF EntRec
  <2> QED BY <2>3, <2>4, ZenonT(60) DEF n, held, left, claimed
<1>5. ent' \in [Entry -> EntRec]
  BY <1>4, ZenonT(60) DEF Refunded
<1> QED BY <1>4, <1>5, ZenonT(60)

\* Ending the channels K keeps slots, claims and admissions, whatever else
\* happens to a code, as long as a code that is burned has no claimed channel left.
LEMMA EndsCodes ==
  ASSUME WInv, CInv, NEW K \in SUBSET Chan, chan' = Without(K),
         att' = att, admits' = admits, members' = members,
         ent' \in [Entry -> EntRec],
         \A e \in Entry :
           /\ ent'[e].inFlight = ent[e].inFlight - Cardinality(K \intersect ChansOf(e))
           /\ ent'[e].failed + ent'[e].inFlight <= CodeAttempts
           /\ ent'[e].claimed = (ent[e].claimed /\ ~\E k \in K \intersect ChansOf(e) : chan[k].claimed)
           /\ ent[e].burned => ent'[e].burned
           /\ ent'[e].burned => ent[e].burned \/ ~\E k \in ChansOf(e) \ K : chan[k].claimed
  PROVE  CTypes' /\ Counted' /\ Claims' /\ Admitted'
<1> USE DEF WInv, CInv
<1>1. CTypes'
  BY ZenonT(60) DEF CTypes, Node, Chan
<1>0. \A e \in Entry :
        /\ ChansOf(e)' = ChansOf(e) \ K
        /\ Cardinality(ChansOf(e)') = Cardinality(ChansOf(e)) - Cardinality(K \intersect ChansOf(e))
        /\ \A k \in ChansOf(e)' : chan'[k] = chan[k]
  BY ChansLeft
<1>2. Counted'
  <2> SUFFICES ASSUME NEW e \in Entry
               PROVE  /\ ent'[e].inFlight = Cardinality(ChansOf(e)')
                      /\ ent'[e].failed + ent'[e].inFlight <= CodeAttempts
    BY ZenonT(60) DEF Counted, Entry
  <2>1. ent[e].inFlight = Cardinality(ChansOf(e))
    BY ZenonT(60) DEF Counted
  <2>2. ent'[e].inFlight = ent[e].inFlight - Cardinality(K \intersect ChansOf(e))
    BY ZenonT(60)
  <2>3. ent'[e].failed + ent'[e].inFlight <= CodeAttempts
    BY ZenonT(60)
  <2>4. Cardinality(ChansOf(e)') = Cardinality(ChansOf(e)) - Cardinality(K \intersect ChansOf(e))
    BY <1>0, ZenonT(60)
  <2> QED BY <2>1, <2>2, <2>3, <2>4, ZenonT(60)
<1>3. \A k \in Chan : chan'[k].claimed => /\ k \notin K /\ chan'[k] = chan[k]
                                          /\ chan[k].claimed /\ chan[k].entry \in Entry
  BY ZenonT(60) DEF WTypes, Placed, ChanRec, Without, NoChan
<1>4. Claims'
  <2>1. \A k \in Chan : chan'[k].stage = "P5" => chan'[k].claimed
    BY ZenonT(60) DEF Claims, WTypes, Without, NoChan
  <2>2. ASSUME NEW k \in Chan, chan'[k].claimed
        PROVE  /\ ent'[chan'[k].entry].claimed
               /\ ~ent'[chan'[k].entry].burned
               /\ att'[k].secret = chan'[k].entry
    <3> DEFINE e == chan[k].entry
    <3>1. k \notin K /\ chan'[k] = chan[k] /\ chan[k].claimed /\ e \in Entry /\ k \in ChansOf(e)
      BY <2>2, <1>3, ZenonT(60) DEF ChansOf
    <3>2. ent[e].claimed /\ ~ent[e].burned /\ att[k].secret = e
      BY <3>1, ZenonT(60) DEF Claims
    <3>3. ~\E j \in K \intersect ChansOf(e) : chan[j].claimed
      BY <3>1, ZenonT(60) DEF Claims, ChansOf
    <3> QED BY <3>1, <3>2, <3>3, ZenonT(60)
  <2>3. \A j, k \in Chan : chan'[j].claimed /\ chan'[k].claimed /\ chan'[j].entry = chan'[k].entry
          => j = k
    BY <1>3 DEF Claims
  <2>4. ASSUME NEW e \in Entry, ent'[e].claimed, admits'[e] = {}
        PROVE  \E k \in ChansOf(e)' : chan'[k].claimed
    <3>1. PICK k \in ChansOf(e) : chan[k].claimed
      BY <2>4, ZenonT(60) DEF Claims
    <3>2. k \notin K
      BY <3>1, <2>4, ZenonT(60)
    <3>3. k \in ChansOf(e)' /\ chan'[k] = chan[k]
      BY <3>1, <3>2, <1>0, ZenonT(60)
    <3> QED BY <3>1, <3>3, ZenonT(60)
  <2> QED BY <2>1, <2>2, <2>3, <2>4, ZenonT(60) DEF Claims
<1>5. Admitted'
  <2> SUFFICES ASSUME NEW e \in Entry, admits[e] # {}
               PROVE  /\ ent'[e].burned /\ ent'[e].claimed
                      /\ \E k \in Chan : admits'[e] = {NodeOf[k]} /\ att'[k].secret = e
    BY ZenonT(60) DEF Admitted
  <2>1. /\ ent[e].burned /\ ent[e].claimed
        /\ \E k \in Chan : admits[e] = {NodeOf[k]} /\ att[k].secret = e
    BY ZenonT(60) DEF Admitted
  <2>2. ~\E k \in ChansOf(e) : chan[k].claimed
    BY <2>1, ZenonT(60) DEF Claims, ChansOf
  <2> QED BY <2>1, <2>2, ZenonT(60)
<1> QED BY <1>1, <1>2, <1>4, <1>5, ZenonT(60)

\* Codes are neither opened nor renamed, and one still listed is good.
LEMMA StaysListed ==
  ASSUME WInv, CInv, ent' \in [Entry -> EntRec],
         \A e \in Entry :
           /\ ent[e].state # "none" => ent'[e].state # "none" /\ ent'[e].id = ent[e].id
           /\ ent[e].state = "none" => ent'[e] = NoCode /\ ChansOf(e)' = {}
           /\ e \in codes' => e \in codes /\ ~ent'[e].burned
  PROVE  Listed'
<1> USE DEF WInv, CInv
<1>1. Opened' = Opened
  BY DEF Opened, NoCode, Entry
<1>2. Opened' = 1..Cardinality(Opened')
  BY <1>1, ZenonT(60) DEF Listed
<1>3. \A e \in Entry : /\ ent'[e].state = "none" => ChansOf(e)' = {} /\ ent'[e] = NoCode
                       /\ ent'[e].state # "none" => ent'[e].id \in {0, e}
                       /\ e \in codes' => ~ent'[e].burned
  BY DEF Listed, NoCode
<1>4. \A e, f \in codes' : ent'[e].id = ent'[f].id => e = f
  BY ZenonT(60) DEF Listed, codes
<1> QED BY <1>2, <1>3, <1>4, ZenonT(60) DEF Listed

\* The slots and claims of the channels K are given back, over codes c that
\* differ from ent in what is burned, and in codes that had nothing.
LEMMA RefundsCodes ==
  ASSUME WInv, CInv, NEW K \in SUBSET Chan, NEW c \in [Entry -> EntRec],
         \A e \in Entry :
           /\ c[e].failed = ent[e].failed /\ c[e].inFlight = ent[e].inFlight
           /\ c[e].claimed = ent[e].claimed /\ (ent[e].burned => c[e].burned)
           /\ c[e].burned => ent[e].burned \/ ChansOf(e) \subseteq K,
         ent' = Refunded(c, K), chan' = Without(K),
         att' = att, admits' = admits, members' = members
  PROVE  CTypes' /\ Counted' /\ Claims' /\ Admitted'
<1> USE DEF WInv, CInv
<1>1. ent' \in [Entry -> EntRec]
  BY RefundedFields, ZenonT(60)
<1>2. ASSUME NEW e \in Entry
      PROVE
           /\ ent'[e].inFlight = ent[e].inFlight - Cardinality(K \intersect ChansOf(e))
           /\ ent'[e].failed + ent'[e].inFlight <= CodeAttempts
           /\ ent'[e].claimed = (ent[e].claimed /\ ~\E k \in K \intersect ChansOf(e) : chan[k].claimed)
           /\ ent[e].burned => ent'[e].burned
           /\ ent'[e].burned => ent[e].burned \/ ~\E k \in ChansOf(e) \ K : chan[k].claimed
  <2>1. /\ ent'[e].state = c[e].state /\ ent'[e].id = c[e].id
        /\ ent'[e].failed = c[e].failed /\ ent'[e].burned = c[e].burned
        /\ ent'[e].inFlight = c[e].inFlight - Cardinality(K \intersect ChansOf(e))
        /\ ent'[e].claimed = (c[e].claimed /\ ~\E k \in K \intersect ChansOf(e) : chan[k].claimed)
    BY RefundedFields, ZenonT(60)
  <2>2. /\ ent'[e].inFlight = ent[e].inFlight - Cardinality(K \intersect ChansOf(e))
        /\ ent'[e].failed = ent[e].failed
    BY <2>1, ZenonT(60)
  <2>3. ent'[e].failed + ent'[e].inFlight <= CodeAttempts
    <3>1. /\ ent[e].failed \in Nat /\ ent[e].inFlight \in Int
          /\ ent[e].failed + ent[e].inFlight <= CodeAttempts
      BY ZenonT(60) DEF CTypes, EntRec, Counted
    <3>2. Cardinality(K \intersect ChansOf(e)) \in Nat
      BY ChansLeft, ZenonT(60)
    <3> QED BY <2>2, <3>1, <3>2, CodesAssumption, LessInFlight, ZenonT(60)
  <2>4. ent'[e].claimed = (ent[e].claimed /\ ~\E k \in K \intersect ChansOf(e) : chan[k].claimed)
    BY <2>1, ZenonT(60)
  <2>5. ent[e].burned => ent'[e].burned
    BY <2>1, ZenonT(60)
  <2>6. ent'[e].burned => ent[e].burned \/ ~\E k \in ChansOf(e) \ K : chan[k].claimed
    BY <2>1, ZenonT(60)
  <2> QED BY <2>2, <2>3, <2>4, <2>5, <2>6, ZenonT(60)
<1> QED BY <1>1, <1>2, EndsCodes, ZenonT(60)

\* The same, with no code opened or renamed.
LEMMA RefundsKeep ==
  ASSUME WInv, CInv, NEW K \in SUBSET Chan, NEW c \in [Entry -> EntRec],
         \A e \in Entry :
           /\ c[e].failed = ent[e].failed /\ c[e].inFlight = ent[e].inFlight
           /\ c[e].claimed = ent[e].claimed /\ (ent[e].burned => c[e].burned)
           /\ c[e].burned => ent[e].burned \/ ChansOf(e) \subseteq K
           /\ c[e].id = ent[e].id
           /\ c[e].state = "none" <=> ent[e].state = "none"
           /\ ent[e].state = "none" => c[e] = ent[e]
           /\ c[e].state \in {"open", "expired"} => ent[e].state \in {"open", "expired"} /\ ~c[e].burned,
         ent' = Refunded(c, K), chan' = Without(K),
         att' = att, admits' = admits, members' = members
  PROVE  CInv'
<1>1. CTypes' /\ Counted' /\ Claims' /\ Admitted'
  BY RefundsCodes
<1> USE DEF WInv, CInv
<1>2. ent' \in [Entry -> EntRec]
  BY RefundedFields, ZenonT(60)
<1>3. ASSUME NEW e \in Entry
      PROVE  /\ ent[e].state # "none" => ent'[e].state # "none" /\ ent'[e].id = ent[e].id
             /\ ent[e].state = "none" => ent'[e] = NoCode /\ ChansOf(e)' = {}
             /\ e \in codes' => e \in codes /\ ~ent'[e].burned
  <2>1. /\ ent'[e].state = c[e].state /\ ent'[e].id = c[e].id
        /\ ent'[e].failed = c[e].failed /\ ent'[e].burned = c[e].burned
        /\ ent'[e].inFlight = c[e].inFlight - Cardinality(K \intersect ChansOf(e))
        /\ ent'[e].claimed = (c[e].claimed /\ ~\E k \in K \intersect ChansOf(e) : chan[k].claimed)
    BY RefundedFields, ZenonT(60)
  <2>2. ASSUME ent[e].state = "none" PROVE ent'[e] = NoCode /\ ChansOf(e)' = {}
    <3>1. c[e] = NoCode /\ ChansOf(e) = {}
      BY <2>2 DEF Listed
    <3>2. ChansOf(e)' = {}
      <4>1. ChansOf(e)' = ChansOf(e) \ K
        BY ChansLeft, ZenonT(60)
      <4> QED BY <3>1, <4>1, ZenonT(60)
    <3>3. Cardinality(K \intersect ChansOf(e)) = 0
      BY <3>1, FS_EmptySet, ZenonT(60)
    <3>4. /\ ent'[e].state = "none" /\ ent'[e].id = 0 /\ ent'[e].failed = 0 /\ ent'[e].inFlight = 0
          /\ ent'[e].claimed = FALSE /\ ent'[e].burned = FALSE
      <4>1. /\ c[e].state = "none" /\ c[e].id = 0 /\ c[e].failed = 0 /\ c[e].inFlight = 0
            /\ c[e].claimed = FALSE /\ c[e].burned = FALSE /\ ent'[e] \in EntRec
        BY <3>1, <1>2, NoCodeFields, ZenonT(60)
      <4>2. ~ent'[e].claimed /\ ent'[e].claimed \in BOOLEAN
        BY <2>1, <4>1, ZenonT(60) DEF EntRec
      <4>3. ent'[e].claimed = FALSE
        BY <4>2, ZenonT(60)
      <4>4. ent'[e].inFlight = 0
        BY <2>1, <3>3, <4>1, NoneLess, ZenonT(60)
      <4> QED BY <2>1, <4>1, <4>3, <4>4, ZenonT(60)
    <3> QED BY <3>2, <3>4, <1>2, ZenonT(60) DEF EntRec, NoCode
  <2>3. e \in codes' => e \in codes /\ ~ent'[e].burned
    BY <2>1, ZenonT(60) DEF codes
  <2> QED BY <2>1, <2>2, <2>3, ZenonT(60)
<1>4. Listed'
  BY <1>2, <1>3, StaysListed, ZenonT(60)
<1> QED BY <1>1, <1>4, ZenonT(60)

\* endChannel over the codes as they are.
LEMMA EndKeeps ==
  ASSUME WInv, CInv, NEW K \in SUBSET Chan, ent' = Refunded(ent, K), chan' = Without(K),
         att' = att, admits' = admits, members' = members
  PROVE  CInv'
<1>1. ent \in [Entry -> EntRec]
  BY ZenonT(60) DEF CInv, CTypes
<1>2. \A e \in Entry : ent[e].state \in {"open", "expired"} => ~ent[e].burned
  BY ZenonT(60) DEF CInv, Listed, codes
<1> QED BY <1>1, <1>2, RefundsKeep, ZenonT(60)

\* withdraw and stop: codes burned together with their channels.
LEMMA WithdrawKeeps ==
  ASSUME WInv, CInv, NEW E \in SUBSET codes, NEW K \in SUBSET Chan,
         \A e \in E : ChansOf(e) \subseteq K,
         ent' = Refunded(closeCode(Burnt(ent, E), E), K), chan' = Without(K),
         att' = att, admits' = admits, members' = members
  PROVE  CInv'
<1> DEFINE c == closeCode(Burnt(ent, E), E)
<1>1. ASSUME NEW e \in Entry
      PROVE  /\ c[e] \in EntRec /\ c[e].id = ent[e].id
             /\ c[e].failed = ent[e].failed /\ c[e].inFlight = ent[e].inFlight
             /\ c[e].claimed = ent[e].claimed /\ c[e].burned = (ent[e].burned \/ e \in E)
             /\ c[e].state = IF e \in E THEN "closed" ELSE ent[e].state
             /\ e \notin E => c[e] = ent[e]
  <2> DEFINE b == ent[e].burned \/ e \in E
             s == IF e \in E THEN "closed" ELSE ent[e].state
  <2>1. c[e] = [[ent[e] EXCEPT !.burned = b] EXCEPT !.state = s]
    BY ZenonT(60) DEF closeCode, Burnt
  <2>2. ent[e] \in EntRec /\ b \in BOOLEAN /\ s \in {"none", "open", "expired", "closed"}
    BY ZenonT(60) DEF CInv, CTypes, EntRec
  <2>3. e \notin E => b = ent[e].burned /\ s = ent[e].state
    BY <2>2, ZenonT(60) DEF EntRec
  <2> HIDE DEF c, b, s
  <2>4. /\ c[e] \in EntRec /\ c[e].id = ent[e].id
        /\ c[e].failed = ent[e].failed /\ c[e].inFlight = ent[e].inFlight
        /\ c[e].claimed = ent[e].claimed /\ c[e].burned = b /\ c[e].state = s
    BY <2>1, <2>2, ZenonT(60) DEF EntRec
  <2>5. e \notin E => c[e] = ent[e]
    BY <2>2, <2>3, <2>4 DEF EntRec
  <2> QED BY <2>4, <2>5, ZenonT(60) DEF b, s
<1>2. c \in [Entry -> EntRec]
  BY <1>1, ZenonT(60) DEF closeCode
<1>3. \A e \in E : ent[e].state # "none"
  BY ZenonT(60) DEF codes
<1>4. \A e \in Entry : ent[e].state \in {"open", "expired"} => ~ent[e].burned
  BY ZenonT(60) DEF CInv, Listed, codes
<1> HIDE DEF c
<1>5. ASSUME NEW e \in Entry
      PROVE
           /\ c[e].failed = ent[e].failed /\ c[e].inFlight = ent[e].inFlight
           /\ c[e].claimed = ent[e].claimed /\ (ent[e].burned => c[e].burned)
           /\ c[e].burned => ent[e].burned \/ ChansOf(e) \subseteq K
           /\ c[e].id = ent[e].id
           /\ c[e].state = "none" <=> ent[e].state = "none"
           /\ ent[e].state = "none" => c[e] = ent[e]
           /\ c[e].state \in {"open", "expired"} => ent[e].state \in {"open", "expired"} /\ ~c[e].burned
  BY <1>1, <1>3, <1>4, ZenonT(60)
<1>6. ent' = Refunded(c, K)
  BY ZenonT(60) DEF c
<1> QED BY <1>2, <1>5, <1>6, RefundsKeep, ZenonT(60)

\* failAttempt: the slot is spent, a claim it held is given back, and the last one
\* burns the code.
LEMMA FailKeeps ==
  ASSUME WInv, CInv, NEW k \in Chan, chan[k].entry # 0, failAttempt(k), att' = att
  PROVE  CInv'
<1> DEFINE e == chan[k].entry
           n == ent[e].failed + 1
           gone == n >= CodeAttempts
           c == IF gone
                THEN [ent EXCEPT ![e].failed = n, ![e].burned = TRUE, ![e].state = "closed"]
                ELSE [ent EXCEPT ![e].failed = n]
<1>0. /\ e \in Entry /\ k \in ChansOf(e) /\ ent \in [Entry -> EntRec] /\ ent[e] \in EntRec
      /\ chan' = Without({k}) /\ admits' = admits /\ members' = members /\ WTypes
  BY ZenonT(60) DEF WInv, CInv, WTypes, ChanRec, CTypes, ChansOf, failAttempt
<1>1. \A f \in Entry : {k} \intersect ChansOf(f) = IF f = e THEN {k} ELSE {}
  BY <1>0, ZenonT(60) DEF ChansOf
<1>2. \A f \in Entry : Cardinality({k} \intersect ChansOf(f)) = IF f = e THEN 1 ELSE 0
  BY <1>1, FS_Singleton, FS_EmptySet, ZenonT(60)
<1>3. \A f \in Entry : (\E j \in {k} \intersect ChansOf(f) : chan[j].claimed)
                         <=> f = e /\ chan[k].claimed
  BY <1>1, ZenonT(60)
<1>4. /\ c \in [Entry -> EntRec] /\ \A f \in Entry : f # e => c[f] = ent[f]
      /\ c[e].failed = n /\ c[e].inFlight = ent[e].inFlight /\ c[e].id = ent[e].id
      /\ c[e].claimed = ent[e].claimed
      /\ c[e].burned = (IF gone THEN TRUE ELSE ent[e].burned)
      /\ c[e].state = (IF gone THEN "closed" ELSE ent[e].state)
  <2>1. n \in Nat
    BY <1>0 DEF EntRec
  <2> HIDE DEF e, n
  <2>2. CASE gone
    BY <2>1, <2>2, <1>0, ZenonT(60) DEF EntRec
  <2>3. CASE ~gone
    BY <2>1, <2>3, <1>0, ZenonT(60) DEF EntRec
  <2> QED BY <2>2, <2>3, ZenonT(60)
<1>5. ent' = Refunded(c, {k})
  BY ZenonT(60) DEF failAttempt
<1> HIDE DEF c
<1>8. /\ ent' \in [Entry -> EntRec]
      /\ \A f \in Entry :
           /\ ent'[f].state = c[f].state /\ ent'[f].id = c[f].id
           /\ ent'[f].failed = c[f].failed /\ ent'[f].burned = c[f].burned
           /\ ent'[f].inFlight = c[f].inFlight - Cardinality({k} \intersect ChansOf(f))
           /\ ent'[f].claimed
                = (c[f].claimed /\ ~\E j \in {k} \intersect ChansOf(f) : chan[j].claimed)
  <2>1. {k} \in SUBSET Chan /\ c \in [Entry -> EntRec]
    BY <1>4, ZenonT(60)
  <2> QED BY <2>1, <1>0, <1>5, RefundedFields, ZenonT(60)
<1>6. ASSUME NEW f \in Entry, f # e PROVE ent'[f] = ent[f]
  <2>1. ent'[f] \in EntRec /\ ent[f] \in EntRec /\ c[f] = ent[f]
    BY <1>0, <1>4, <1>6, <1>8, ZenonT(60)
  <2>2. ent'[f].inFlight = ent[f].inFlight
    <3>1. Cardinality({k} \intersect ChansOf(f)) = 0 /\ ent[f].inFlight \in Int
      BY <2>1, <1>2, <1>6, ZenonT(60) DEF EntRec
    <3>2. ent'[f].inFlight = c[f].inFlight - Cardinality({k} \intersect ChansOf(f))
      BY <1>8, ZenonT(60)
    <3> QED BY <2>1, <3>1, <3>2
  <2>3. ent'[f].claimed <=> ent[f].claimed
    BY <2>1, <1>3, <1>6, <1>8, ZenonT(60)
  <2>4. ent'[f].claimed = ent[f].claimed
    BY <2>1, <2>3, ZenonT(60) DEF EntRec
  <2>5. /\ ent'[f].state = ent[f].state /\ ent'[f].id = ent[f].id
        /\ ent'[f].failed = ent[f].failed /\ ent'[f].burned = ent[f].burned
    BY <2>1, <1>8, ZenonT(60)
  <2> QED BY <2>1, <2>2, <2>4, <2>5 DEF EntRec
<1>7. /\ ent'[e].failed = n /\ ent'[e].inFlight = ent[e].inFlight - 1
      /\ ent'[e].burned <=> ent[e].burned \/ gone
      /\ ent'[e].state = (IF gone THEN "closed" ELSE ent[e].state) /\ ent'[e].id = ent[e].id
      /\ ent'[e] \in EntRec
  <2>3. ent'[e].burned <=> ent[e].burned \/ gone
    BY <1>0, <1>4, <1>8, ZenonT(60)
  <2>4. ent'[e].inFlight = ent[e].inFlight - 1
    <3>1. Cardinality({k} \intersect ChansOf(e)) = 1
      BY <1>0, <1>2, ZenonT(60)
    <3>2. ent'[e].inFlight = c[e].inFlight - Cardinality({k} \intersect ChansOf(e))
      BY <1>0, <1>8, ZenonT(60)
    <3> QED BY <3>1, <3>2, <1>4, ZenonT(60)
  <2> QED BY <2>3, <2>4, <1>0, <1>4, <1>8, ZenonT(60)
<1>9. gone => ChansOf(e) = {k}
  <2> SUFFICES ASSUME gone PROVE ChansOf(e) = {k}
    BY ZenonT(60)
  <2>1. /\ ent[e].inFlight = Cardinality(ChansOf(e)) /\ ent[e].failed \in Nat
        /\ ent[e].failed + ent[e].inFlight <= CodeAttempts
    BY <1>0, ZenonT(60) DEF CInv, Counted, EntRec
  <2>2. Cardinality(ChansOf(e)) \in Nat /\ IsFiniteSet(ChansOf(e))
    BY ChansFinite, ZenonT(60)
  <2>3. Cardinality(ChansOf(e)) <= 1
    BY <2>1, <2>2, CodesAssumption
  <2>4. {k} \in SUBSET ChansOf(e) /\ Cardinality({k}) = 1
    BY <1>0, FS_Singleton, ZenonT(60)
  <2>5. Cardinality({k}) <= Cardinality(ChansOf(e))
    BY <2>2, <2>4, FS_Subset, ZenonT(60)
  <2>6. Cardinality({k}) = Cardinality(ChansOf(e))
    BY <2>2, <2>3, <2>4, <2>5, OneIs, ZenonT(60)
  <2> QED BY <2>2, <2>4, <2>6, FS_Subset, ZenonT(60)
<1>10. ASSUME NEW f \in Entry
       PROVE
           /\ ent'[f].inFlight = ent[f].inFlight - Cardinality({k} \intersect ChansOf(f))
           /\ ent'[f].failed + ent'[f].inFlight <= CodeAttempts
           /\ ent'[f].claimed = (ent[f].claimed /\ ~\E j \in {k} \intersect ChansOf(f) : chan[j].claimed)
           /\ ent[f].burned => ent'[f].burned
           /\ ent'[f].burned => ent[f].burned \/ ~\E j \in ChansOf(f) \ {k} : chan[j].claimed
  <2>1. ent[f] \in EntRec /\ ent[f].failed + ent[f].inFlight <= CodeAttempts
    BY <1>0, ZenonT(60) DEF CInv, Counted
  <2>4. c[f].claimed = ent[f].claimed
    BY <1>4, ZenonT(60)
  <2>5. ent'[f].claimed = (ent[f].claimed /\ ~\E j \in {k} \intersect ChansOf(f) : chan[j].claimed)
    BY <2>4, <1>8, ZenonT(60)
  <2> HIDE DEF e, n, gone
  <2>2. CASE f # e
    <3>1. ent'[f] = ent[f] /\ Cardinality({k} \intersect ChansOf(f)) = 0
      BY <2>2, <1>2, <1>6, ZenonT(60)
    <3>2. ent'[f].inFlight = ent[f].inFlight - Cardinality({k} \intersect ChansOf(f))
      BY <2>1, <3>1 DEF EntRec
    <3> QED BY <2>1, <2>5, <3>1, <3>2, ZenonT(60)
  <2>3. CASE f = e
    <3>1. /\ ent'[f].inFlight = ent[f].inFlight - 1 /\ ent'[f].failed = ent[f].failed + 1
          /\ ent'[f].burned <=> ent[f].burned \/ gone
      BY <2>3, <1>7, ZenonT(60) DEF n
    <3>2. ent'[f].inFlight = ent[f].inFlight - Cardinality({k} \intersect ChansOf(f))
      BY <2>3, <3>1, <1>2, ZenonT(60)
    <3>3. ent'[f].failed + ent'[f].inFlight <= CodeAttempts
      BY <2>1, <3>1, CodesAssumption DEF EntRec
    <3>4. ent'[f].burned => ent[f].burned \/ ~\E j \in ChansOf(f) \ {k} : chan[j].claimed
      BY <2>3, <3>1, <1>9, ZenonT(60)
    <3> QED BY <2>5, <3>1, <3>2, <3>3, <3>4, ZenonT(60)
  <2> QED BY <2>2, <2>3, ZenonT(60)
<1>11. CTypes' /\ Counted' /\ Claims' /\ Admitted'
  <2>1. {k} \in SUBSET Chan /\ chan' = Without({k}) /\ admits' = admits /\ members' = members
    BY <1>0, ZenonT(60)
  <2>2. ent' \in [Entry -> EntRec]
    BY <1>8, ZenonT(60)
  <2> HIDE DEF e, n, gone
  <2> QED BY <2>1, <2>2, <1>10, EndsCodes, ZenonT(60)
<1>12. ASSUME NEW f \in Entry
       PROVE  /\ ent[f].state # "none" => ent'[f].state # "none" /\ ent'[f].id = ent[f].id
              /\ ent[f].state = "none" => ent'[f] = NoCode /\ ChansOf(f)' = {}
              /\ f \in codes' => f \in codes /\ ~ent'[f].burned
  <2>1. /\ ent[f].state = "none" => ChansOf(f) = {} /\ ent[f] = NoCode
        /\ f \in codes => ~ent[f].burned
    BY ZenonT(60) DEF CInv, Listed
  <2>2. ChansOf(f)' = ChansOf(f) \ {k}
    BY <1>0, ChansLeft, ZenonT(60)
  <2>3. ent[e].state # "none"
    BY <1>0, ZenonT(60) DEF CInv, Listed
  <2> HIDE DEF e, n, gone
  <2>4. CASE f # e
    BY <2>1, <2>2, <2>4, <1>6, ZenonT(60) DEF codes
  <2>5. CASE f = e
    BY <2>1, <2>2, <2>3, <2>5, <1>7, ZenonT(60) DEF codes
  <2> QED BY <2>4, <2>5, ZenonT(60)
<1>13. Listed'
  BY <1>8, <1>12, StaysListed, ZenonT(60)
<1> QED BY <1>11, <1>13, ZenonT(60) DEF CInv

-----------------------------------------------------------------------------
(* The codes: how an attempt moves on.  A slot reserved, a frame answered, the claim *)
(* taken, the node admitted.                                                         *)

\* The newcomers' side: an attempt keeps the code it was made with.
LEMMA AttemptKeeps ==
  ASSUME WInv, CInv, UNCHANGED <<ent, chan, members, admits>>,
         \A k \in Chan : att[k].secret # 0 => att'[k].secret = att[k].secret
  PROVE  CInv'
<1> USE DEF WInv, CInv
<1>0. Opened' = Opened /\ codes' = codes /\ \A e \in Entry : e # 0 /\ ChansOf(e)' = ChansOf(e)
  BY DEF Opened, codes, ChansOf, Entry
<1>1. CTypes' /\ Counted' /\ Listed'
  BY <1>0, ZenonT(60) DEF CTypes, Counted, Listed
<1>2. Claims'
  <2>1. \A k \in Chan : chan[k].claimed => att[k].secret # 0 /\ att[k].secret = chan[k].entry
    BY ZenonT(60) DEF Claims, Placed, WTypes
  <2>2. \A k \in Chan : chan'[k].claimed => att'[k].secret = chan'[k].entry
    BY <2>1, ZenonT(60)
  <2> QED BY <2>2, <1>0 DEF Claims
<1>3. Admitted'
  BY <1>0 DEF Admitted
<1> QED BY <1>1, <1>2, <1>3, ZenonT(60)

\* A frame of the handshake that changes no code.
LEMMA StageKeeps ==
  ASSUME WInv, CInv, NEW k \in Chan, chan[k].stage = "P1",
         chan' = [chan EXCEPT ![k].stage = "P3"], UNCHANGED <<ent, att, members, admits>>
  PROVE  CInv'
<1> USE DEF WInv, CInv
<1>0. \A j \in Chan : /\ chan'[j].entry = chan[j].entry /\ chan'[j].claimed = chan[j].claimed
                      /\ chan'[j].stage = "P5" => chan[j].stage = "P5"
  BY ZenonT(60) DEF WTypes, ChanRec
<1>1. Opened' = Opened /\ codes' = codes /\ \A e \in Entry : ChansOf(e)' = ChansOf(e)
  BY <1>0, ZenonT(60) DEF Opened, codes, ChansOf
<1>2. CTypes' /\ Counted' /\ Listed'
  BY <1>1, ZenonT(60) DEF CTypes, Counted, Listed
<1>3. Claims'
  <2>1. \A e \in Entry : \A j \in ChansOf(e) : chan'[j].claimed = chan[j].claimed
    BY <1>0, ZenonT(60) DEF ChansOf
  <2> QED BY <2>1, <1>0, <1>1 DEF Claims
<1>4. Admitted'
  BY ZenonT(60) DEF Admitted
<1> QED BY <1>2, <1>3, <1>4, ZenonT(60)

\* Confirm: the first attempt with the right code claims it.
LEMMA ClaimKeeps ==
  ASSUME WInv, CInv, NEW k \in Chan, NEW e \in Entry, chan[k].entry = e, att[k].secret = e,
         ~ent[e].claimed, ~ent[e].burned,
         ent' = [ent EXCEPT ![e].claimed = TRUE],
         chan' = [chan EXCEPT ![k].claimed = TRUE, ![k].stage = "P5"],
         UNCHANGED <<att, members, admits>>
  PROVE  CInv'
<1> USE DEF WInv, CInv
<1>0. /\ \A j \in Chan : chan'[j].entry = chan[j].entry /\ (j # k => chan'[j] = chan[j])
      /\ chan'[k].claimed = TRUE /\ k \in ChansOf(e)
  BY ZenonT(60) DEF WTypes, ChanRec, ChansOf
<1>1. /\ \A f \in Entry : f # e => ent'[f] = ent[f]
      /\ ent'[e].claimed = TRUE /\ ent'[e].state = ent[e].state /\ ent'[e].id = ent[e].id
      /\ ent'[e].failed = ent[e].failed /\ ent'[e].inFlight = ent[e].inFlight
      /\ ent'[e].burned = ent[e].burned /\ ent'[e] \in EntRec
  BY ZenonT(60) DEF CTypes, EntRec
<1>2. Opened' = Opened /\ codes' = codes /\ \A f \in Entry : ChansOf(f)' = ChansOf(f)
  <2>1. \A f \in Entry : ent'[f].state = ent[f].state
    BY <1>1, ZenonT(60)
  <2>2. \A f \in Entry : ChansOf(f)' = ChansOf(f)
    BY <1>0, ZenonT(60) DEF ChansOf
  <2> QED BY <2>1, <2>2, ZenonT(60) DEF Opened, codes
<1>3. CTypes'
  BY <1>1, ZenonT(60) DEF CTypes
<1>4. Counted'
  BY <1>1, <1>2, ZenonT(60) DEF Counted
<1>5. ent[e].state # "none"
  BY <1>0, ZenonT(60) DEF Listed
<1>6. Listed'
  <2>1. \A f \in Entry : /\ ent'[f].state = "none" => ChansOf(f)' = {} /\ ent'[f] = NoCode
                         /\ ent'[f].state # "none" => ent'[f].id \in {0, f}
                         /\ f \in codes' => ~ent'[f].burned
    BY <1>1, <1>2, <1>5 DEF Listed
  <2>2. \A f \in Entry : ent'[f].id = ent[f].id
    BY <1>1, ZenonT(60)
  <2>3. \A f, g \in codes' : ent'[f].id = ent'[g].id => f = g
    BY <2>2, <1>2 DEF Listed, codes
  <2> QED BY <2>1, <2>3, <1>2, ZenonT(60) DEF Listed
<1>7. \A j \in Chan : chan[j].claimed => chan[j].entry # e /\ chan[j].entry \in Entry
  BY ZenonT(60) DEF Claims, WTypes, ChanRec, Placed
<1>8. Claims'
  <2>1. \A j \in Chan : chan'[j].stage = "P5" => chan'[j].claimed
    BY <1>0, ZenonT(60) DEF Claims
  <2>2. \A j \in Chan : chan'[j].claimed => /\ ent'[chan'[j].entry].claimed
                                            /\ ~ent'[chan'[j].entry].burned
                                            /\ att'[j].secret = chan'[j].entry
    <3> SUFFICES ASSUME NEW j \in Chan, chan'[j].claimed
                 PROVE  /\ ent'[chan'[j].entry].claimed /\ ~ent'[chan'[j].entry].burned
                        /\ att'[j].secret = chan'[j].entry
      BY ZenonT(60)
    <3>1. CASE j = k
      <4>1. chan'[j].entry = e /\ att'[j].secret = e
        BY <3>1, <1>0, ZenonT(60)
      <4>2. ent'[e].claimed /\ ~ent'[e].burned
        BY <1>1, ZenonT(60)
      <4> QED BY <4>1, <4>2, ZenonT(60)
    <3>2. CASE j # k
      <4>1. /\ chan'[j].entry = chan[j].entry /\ chan[j].claimed
            /\ chan[j].entry # e /\ chan[j].entry \in Entry
        BY <3>2, <1>0, <1>7, ZenonT(60)
      <4>2. /\ ent[chan[j].entry].claimed /\ ~ent[chan[j].entry].burned
            /\ att[j].secret = chan[j].entry
        BY <4>1, ZenonT(60) DEF Claims
      <4> QED BY <4>1, <4>2, <1>1, ZenonT(60)
    <3> QED BY <3>1, <3>2, ZenonT(60)
  <2>3. \A i, j \in Chan : chan'[i].claimed /\ chan'[j].claimed /\ chan'[i].entry = chan'[j].entry
          => i = j
    BY <1>0, <1>7 DEF Claims
  <2>4. \A f \in Entry : ent'[f].claimed /\ admits'[f] = {} => \E j \in ChansOf(f)' : chan'[j].claimed
    <3> SUFFICES ASSUME NEW f \in Entry, ent'[f].claimed, admits'[f] = {}
                 PROVE  \E j \in ChansOf(f)' : chan'[j].claimed
      BY ZenonT(60)
    <3>1. CASE f = e
      BY <3>1, <1>0, <1>2, ZenonT(60)
    <3>2. CASE f # e
      <4>1. PICK j \in ChansOf(f) : chan[j].claimed
        BY <3>2, <1>1, ZenonT(60) DEF Claims
      <4>2. j # k /\ j \in Chan
        BY <4>1, <3>2, ZenonT(60) DEF ChansOf
      <4> QED BY <4>1, <4>2, <1>0, <1>2, ZenonT(60)
    <3> QED BY <3>1, <3>2, ZenonT(60)
  <2> QED BY <2>1, <2>2, <2>3, <2>4, ZenonT(60) DEF Claims
<1>9. Admitted'
  BY <1>1, ZenonT(60) DEF Admitted
<1> QED BY <1>3, <1>4, <1>6, <1>8, <1>9, ZenonT(60)

\* onPairing: an attempt reserves a slot.
LEMMA ReserveKeeps ==
  ASSUME WInv, CInv, NEW k \in Chan, NEW e \in codes, chan[k].entry = 0,
         ent[e].failed + ent[e].inFlight < CodeAttempts,
         ent' = [ent EXCEPT ![e].inFlight = @ + 1],
         chan' = [chan EXCEPT ![k] = [entry |-> e, stage |-> "P1", claimed |-> FALSE]],
         UNCHANGED <<att, members, admits>>
  PROVE  CInv'
<1> USE DEF WInv, CInv
<1>0. /\ e \in Entry /\ ent[e].state # "none" /\ ent[e] \in EntRec /\ k \notin ChansOf(e) /\ e # 0
      /\ \A j \in Chan : j # k => chan'[j] = chan[j]
      /\ chan'[k].entry = e /\ chan'[k].claimed = FALSE /\ chan'[k].stage = "P1" /\ ~chan[k].claimed
  BY DEF codes, CTypes, ChansOf, WTypes, Placed, Entry
<1>1. /\ \A f \in Entry : f # e => ent'[f] = ent[f]
      /\ ent'[e].inFlight = ent[e].inFlight + 1 /\ ent'[e].state = ent[e].state
      /\ ent'[e].id = ent[e].id /\ ent'[e].failed = ent[e].failed
      /\ ent'[e].claimed = ent[e].claimed /\ ent'[e].burned = ent[e].burned /\ ent'[e] \in EntRec
  BY <1>0 DEF CTypes, EntRec
<1>2. \A f \in Entry : ChansOf(f)' = IF f = e THEN ChansOf(f) \union {k} ELSE ChansOf(f)
  <2> SUFFICES ASSUME NEW f \in Entry
               PROVE  ChansOf(f)' = IF f = e THEN ChansOf(f) \union {k} ELSE ChansOf(f)
    BY ZenonT(60)
  <2>1. f # 0
    BY DEF Entry
  <2>2. \A j \in Chan : chan'[j].entry = f <=> IF j = k THEN f = e ELSE chan[j].entry = f
    BY <1>0, ZenonT(60)
  <2> QED BY <2>1, <2>2, ZenonT(60) DEF ChansOf
<1>3. CTypes'
  BY <1>0, <1>1, ZenonT(60) DEF CTypes
<1>4. Counted'
  <2> SUFFICES ASSUME NEW f \in Entry
               PROVE  /\ ent'[f].inFlight = Cardinality(ChansOf(f)')
                      /\ ent'[f].failed + ent'[f].inFlight <= CodeAttempts
    BY ZenonT(60) DEF Counted, Entry
  <2>1. CASE f = e
    <3>1. Cardinality(ChansOf(e) \union {k}) = Cardinality(ChansOf(e)) + 1
      BY <1>0, ChansFinite, FS_AddElement, ZenonT(60)
    <3>2. ent[e].inFlight = Cardinality(ChansOf(e)) /\ ent[e].failed \in Nat /\ ent[e].inFlight \in Int
      BY <1>0, ZenonT(60) DEF Counted, EntRec
    <3>3. ChansOf(e)' = ChansOf(e) \union {k}
      BY <1>0, <1>2, ZenonT(60)
    <3>4. ent'[e].inFlight = Cardinality(ChansOf(e)')
      BY <3>1, <3>2, <3>3, <1>1, ZenonT(60)
    <3>5. ent'[e].failed + ent'[e].inFlight <= CodeAttempts
      BY <3>2, <1>1, CodesAssumption
    <3> QED BY <2>1, <3>4, <3>5, ZenonT(60)
  <2>2. CASE f # e
    BY <2>2, <1>1, <1>2, ZenonT(60) DEF Counted
  <2> QED BY <2>1, <2>2, ZenonT(60)
<1>5. Claims'
  <2>1. \A j \in Chan : chan'[j].claimed => j # k /\ chan'[j] = chan[j] /\ chan[j].entry \in Entry
    BY <1>0, ZenonT(60) DEF WTypes, ChanRec, Placed
  <2>2. \A f \in Entry : ent'[f].claimed = ent[f].claimed /\ ent'[f].burned = ent[f].burned
    BY <1>1, ZenonT(60)
  <2>3. \A j \in Chan : chan'[j].stage = "P5" => chan'[j].claimed
    BY <1>0, ZenonT(60) DEF Claims
  <2>4. \A f \in Entry : \A j \in ChansOf(f) : chan[j].claimed => chan'[j].claimed /\ j \in ChansOf(f)'
    BY <1>0, <1>2, ZenonT(60) DEF ChansOf
  <2>5. \A j \in Chan : chan'[j].claimed => /\ ent'[chan'[j].entry].claimed
                                            /\ ~ent'[chan'[j].entry].burned
                                            /\ att'[j].secret = chan'[j].entry
    BY <2>1, <2>2 DEF Claims
  <2>6. \A i, j \in Chan : chan'[i].claimed /\ chan'[j].claimed /\ chan'[i].entry = chan'[j].entry
          => i = j
    BY <2>1 DEF Claims
  <2>7. \A f \in Entry : ent'[f].claimed /\ admits'[f] = {} => \E j \in ChansOf(f)' : chan'[j].claimed
    BY <2>2, <2>4 DEF Claims
  <2> QED BY <2>3, <2>5, <2>6, <2>7, ZenonT(60) DEF Claims
<1>6. Admitted'
  BY <1>1, ZenonT(60) DEF Admitted
<1>7. Listed'
  <2>1. \A f \in Entry : /\ ent'[f].id = ent[f].id /\ ent'[f].state = ent[f].state
                         /\ ent'[f].burned = ent[f].burned
    BY <1>1, ZenonT(60)
  <2>2. Opened' = Opened /\ codes' = codes
    BY <2>1, ZenonT(60) DEF Opened, codes
  <2>3. ASSUME NEW f \in Entry
        PROVE  /\ ent'[f].state = "none" => ChansOf(f)' = {} /\ ent'[f] = NoCode
               /\ ent'[f].state # "none" => ent'[f].id \in {0, f}
               /\ f \in codes' => ~ent'[f].burned
    <3>1. /\ ent[f].state = "none" => ChansOf(f) = {} /\ ent[f] = NoCode
          /\ ent[f].state # "none" => ent[f].id \in {0, f}
          /\ f \in codes => ~ent[f].burned
      BY <1>0, ZenonT(60) DEF Listed
    <3>2. ASSUME ent'[f].state = "none" PROVE ChansOf(f)' = {} /\ ent'[f] = NoCode
      <4>1. f # e
        BY <1>0, <2>1, <3>2, ZenonT(60)
      <4>2. ent'[f] = ent[f] /\ ChansOf(f)' = ChansOf(f)
        BY <4>1, <1>1, <1>2, ZenonT(60)
      <4> QED BY <3>1, <3>2, <4>2, ZenonT(60)
    <3> QED BY <2>1, <2>2, <3>1, <3>2, ZenonT(60)
  <2>4. \A f, g \in codes' : ent'[f].id = ent'[g].id => f = g
    BY <2>1, <2>2 DEF Listed, codes
  <2> QED BY <2>2, <2>3, <2>4, ZenonT(60) DEF Listed
<1> QED BY <1>3, <1>4, <1>5, <1>6, <1>7, ZenonT(60)

\* completePairing: the claimed channel admits its node, and the code is spent.
LEMMA AdmitKeeps ==
  ASSUME WInv, CInv, NEW k \in Chan, NEW e \in Entry, chan[k].entry = e, chan[k].claimed,
         ent' = [ent EXCEPT ![e].inFlight = @ - 1, ![e].burned = TRUE, ![e].state = "closed"],
         chan' = Without({k}), members' = members \union {NodeOf[k]},
         admits' = [admits EXCEPT ![e] = @ \union {NodeOf[k]}], att' = att
  PROVE  CInv'
<1> USE DEF WInv, CInv
<1>0. /\ k \in ChansOf(e) /\ ent[e] \in EntRec /\ ent[e].claimed /\ ~ent[e].burned
      /\ att[k].secret = e /\ NodeOf[k] \in Node
  BY ZenonT(60) DEF ChansOf, CTypes, Claims, Node
<1>1. admits[e] = {} /\ admits'[e] = {NodeOf[k]} /\ \A f \in Entry : f # e => admits'[f] = admits[f]
  BY <1>0, ZenonT(60) DEF Admitted, CTypes
<1>2. /\ \A f \in Entry : f # e => ent'[f] = ent[f]
      /\ ent'[e].inFlight = ent[e].inFlight - 1 /\ ent'[e].state = "closed"
      /\ ent'[e].id = ent[e].id /\ ent'[e].failed = ent[e].failed
      /\ ent'[e].claimed = ent[e].claimed /\ ent'[e].burned = TRUE /\ ent'[e] \in EntRec
  BY <1>0 DEF CTypes, EntRec
<1>3. \A f \in Entry : ChansOf(f)' = ChansOf(f) \ {k} /\ \A j \in ChansOf(f)' : chan'[j] = chan[j]
  BY ChansLeft, ZenonT(60)
<1>4. \A f \in Entry : f # e => k \notin ChansOf(f) /\ ChansOf(f)' = ChansOf(f)
  BY <1>3, ZenonT(60) DEF ChansOf
<1>5. CTypes'
  <2>1. ent' \in [Entry -> EntRec]
    BY <1>2 DEF CTypes
  <2>2. admits' \in [Entry -> SUBSET Node] /\ members' \subseteq Node
    BY <1>0, ZenonT(60) DEF CTypes
  <2> QED BY <2>1, <2>2, ZenonT(60) DEF CTypes, Node, Chan
<1>6. Counted'
  <2> SUFFICES ASSUME NEW f \in Entry
               PROVE  /\ ent'[f].inFlight = Cardinality(ChansOf(f)')
                      /\ ent'[f].failed + ent'[f].inFlight <= CodeAttempts
    BY ZenonT(60) DEF Counted, Entry
  <2>1. CASE f = e
    <3>1. Cardinality(ChansOf(e) \ {k}) = Cardinality(ChansOf(e)) - 1
      BY <1>0, ChansFinite, FS_RemoveElement, ZenonT(60)
    <3>2. /\ ent[e].inFlight = Cardinality(ChansOf(e)) /\ ent[e].failed \in Nat
          /\ ent[e].inFlight \in Int /\ ent[e].failed + ent[e].inFlight <= CodeAttempts
      BY <1>0, ZenonT(60) DEF Counted, EntRec
    <3>3. ent'[e].inFlight = Cardinality(ChansOf(e)')
      BY <3>1, <3>2, <1>2, <1>3, ZenonT(60)
    <3>4. ent'[e].failed + ent'[e].inFlight <= CodeAttempts
      BY <3>2, <1>2, CodesAssumption
    <3> QED BY <2>1, <3>3, <3>4, ZenonT(60)
  <2>2. CASE f # e
    BY <2>2, <1>2, <1>4, ZenonT(60) DEF Counted
  <2> QED BY <2>1, <2>2, ZenonT(60)
<1>7. Claims'
  <2>1. \A j \in Chan : chan'[j].claimed => /\ j # k /\ chan'[j] = chan[j] /\ chan[j].entry # e
                                            /\ chan[j].entry \in Entry
    BY <1>0, ZenonT(60) DEF WTypes, ChanRec, Placed, Without, NoChan, Claims
  <2>2. \A j \in Chan : chan'[j].stage = "P5" => chan'[j].claimed
    BY ZenonT(60) DEF Claims, WTypes, Without, NoChan
  <2>3. \A j \in Chan : chan'[j].claimed => /\ ent'[chan'[j].entry].claimed
                                            /\ ~ent'[chan'[j].entry].burned
                                            /\ att'[j].secret = chan'[j].entry
    <3> SUFFICES ASSUME NEW j \in Chan, chan'[j].claimed
                 PROVE  /\ ent'[chan'[j].entry].claimed /\ ~ent'[chan'[j].entry].burned
                        /\ att'[j].secret = chan'[j].entry
      BY ZenonT(60)
    <3>1. chan'[j] = chan[j] /\ chan[j].claimed /\ chan[j].entry # e /\ chan[j].entry \in Entry
      BY <2>1, ZenonT(60)
    <3>2. ent'[chan[j].entry] = ent[chan[j].entry]
      BY <3>1, <1>2, ZenonT(60)
    <3> QED BY <3>1, <3>2 DEF Claims
  <2>4. \A i, j \in Chan : chan'[i].claimed /\ chan'[j].claimed /\ chan'[i].entry = chan'[j].entry
          => i = j
    BY <2>1, ZenonT(60) DEF Claims
  <2>5. ASSUME NEW f \in Entry, ent'[f].claimed, admits'[f] = {}
        PROVE  \E j \in ChansOf(f)' : chan'[j].claimed
    <3>1. f # e
      BY <2>5, <1>1, ZenonT(60)
    <3>2. PICK j \in ChansOf(f) : chan[j].claimed
      BY <2>5, <3>1, <1>1, <1>2, ZenonT(60) DEF Claims
    <3>3. j \in ChansOf(f)' /\ chan'[j] = chan[j]
      BY <3>1, <3>2, <1>3, <1>4, ZenonT(60)
    <3> QED BY <3>2, <3>3, ZenonT(60)
  <2> QED BY <2>2, <2>3, <2>4, <2>5, ZenonT(60) DEF Claims
<1>8. Admitted'
  <2> SUFFICES ASSUME NEW f \in Entry, admits'[f] # {}
               PROVE  /\ ent'[f].burned /\ ent'[f].claimed
                      /\ \E j \in Chan : admits'[f] = {NodeOf[j]} /\ att'[j].secret = f
    BY ZenonT(60) DEF Admitted
  <2>1. CASE f = e
    BY <2>1, <1>0, <1>1, <1>2, ZenonT(60)
  <2>2. CASE f # e
    <3>1. admits'[f] = admits[f] /\ ent'[f] = ent[f]
      BY <2>2, <1>1, <1>2, ZenonT(60)
    <3>2. /\ ent[f].burned /\ ent[f].claimed
          /\ \E j \in Chan : admits[f] = {NodeOf[j]} /\ att[j].secret = f
      BY <3>1, ZenonT(60) DEF Admitted
    <3> QED BY <3>1, <3>2, ZenonT(60)
  <2> QED BY <2>1, <2>2, ZenonT(60)
<1>9. ASSUME NEW f \in Entry
      PROVE  /\ ent[f].state # "none" => ent'[f].state # "none" /\ ent'[f].id = ent[f].id
             /\ ent[f].state = "none" => ent'[f] = NoCode /\ ChansOf(f)' = {}
             /\ f \in codes' => f \in codes /\ ~ent'[f].burned
  <2>1. /\ ent[f].state = "none" => ChansOf(f) = {} /\ ent[f] = NoCode
        /\ f \in codes => ~ent[f].burned
    BY ZenonT(60) DEF Listed
  <2>2. ent[e].state # "none"
    BY <1>0, ZenonT(60) DEF Listed
  <2>3. CASE f = e
    BY <2>2, <2>3, <1>2, ZenonT(60) DEF codes
  <2>4. CASE f # e
    BY <2>1, <2>4, <1>2, <1>4, ZenonT(60) DEF codes
  <2> QED BY <2>3, <2>4, ZenonT(60)
<1>10. Listed'
  BY <1>5, <1>9, StaysListed, ZenonT(60) DEF CTypes
<1> QED BY <1>5, <1>6, <1>7, <1>8, <1>10, ZenonT(60)

-----------------------------------------------------------------------------
(* Both together, and the theorems. *)

\* OpenPairingCode: a fresh code is listed, alone under its id.
LEMMA OpenKeeps ==
  ASSUME WInv, CInv, NEW separate \in BOOLEAN, OpenPairingCode(separate)
  PROVE  CInv'
<1> DEFINE e == Cardinality(Opened) + 1
           id == IF separate THEN e ELSE 0
           pruned == {o \in codes : ent[o].burned \/ ent[o].state = "expired"}
           old == {o \in codes \ pruned : ent[o].id = id}
           fresh == [NoCode EXCEPT !.state = "open", !.id = id]
           c0 == [closeCode(ent, pruned) EXCEPT ![e] = fresh]
           c == closeCode(Burnt(c0, old), old)
           K == UNION {ChansOf(o) : o \in old}
<1>1. /\ ent' = Refunded(c, K) /\ chan' = Without(K) /\ Cardinality(Opened) < MaxCodes
      /\ att' = att /\ admits' = admits /\ members' = members
  BY ZenonT(60) DEF OpenPairingCode, withdraw, endChannel
<1>2. /\ Cardinality(Opened) \in Nat /\ e \in Entry /\ e \notin Opened /\ e # 0
      /\ Opened \union {e} = 1..e /\ Cardinality(1..e) = e
  <2>1. IsFiniteSet(Entry) /\ Opened \subseteq Entry
    BY CodesAssumption, FS_Interval DEF Entry, Opened
  <2>2. Cardinality(Opened) \in Nat
    BY <2>1, FS_Subset, FS_CardinalityType, ZenonT(60)
  <2>3. Opened = 1..Cardinality(Opened)
    BY ZenonT(60) DEF CInv, Listed
  <2>4. Cardinality(1..e) = e
    BY <2>2, FS_Interval
  <2> HIDE DEF id, pruned, old, fresh, c0, c, K
  <2> DEFINE n == Cardinality(Opened)
  <2>5. n \in Nat /\ n < MaxCodes /\ Opened = 1..n /\ e = n + 1
    BY <1>1, <2>2, <2>3, ZenonT(60)
  <2> HIDE DEF n, e
  <2> QED BY <2>2, <2>4, <2>5, CodesAssumption DEF Entry, n
<1>3. /\ ent[e] = NoCode /\ ChansOf(e) = {} /\ e \notin codes /\ ent \in [Entry -> EntRec]
      /\ id \in {0, e}
  BY <1>2, ZenonT(60) DEF Opened, CInv, CTypes, Listed, codes
<1>4. K \in SUBSET Chan /\ \A f \in old : ChansOf(f) \subseteq K
  BY ZenonT(60) DEF ChansOf
<1>5. /\ fresh \in EntRec /\ fresh.state = "open" /\ fresh.id = id /\ fresh.failed = 0
      /\ fresh.inFlight = 0 /\ fresh.claimed = FALSE /\ fresh.burned = FALSE
  <2>1. /\ NoCode \in EntRec /\ NoCode.failed = 0 /\ NoCode.inFlight = 0
        /\ NoCode.claimed = FALSE /\ NoCode.burned = FALSE
    BY DEF NoCode, EntRec
  <2>2. id \in {0} \union Entry
    BY <1>2, ZenonT(60)
  <2> HIDE DEF id, e
  <2> QED BY <2>1, <2>2, ZenonT(60) DEF EntRec
<1> HIDE DEF fresh
<1>6. ASSUME NEW f \in Entry
      PROVE  /\ c[f] \in EntRec
             /\ f = e => c[f] = fresh
             /\ f # e => /\ c[f].id = ent[f].id /\ c[f].failed = ent[f].failed
                         /\ c[f].inFlight = ent[f].inFlight /\ c[f].claimed = ent[f].claimed
                         /\ c[f].burned <=> ent[f].burned \/ f \in old
                         /\ c[f].state = IF f \in old \union pruned THEN "closed" ELSE ent[f].state
                         /\ f \notin codes => c[f] = ent[f]
  <2> DEFINE d == closeCode(ent, pruned)
             b == c0[f].burned \/ f \in old
             s == IF f \in old THEN "closed" ELSE c0[f].state
             s0 == IF f \in pruned THEN "closed" ELSE ent[f].state
  <2>1. ent[f] \in EntRec /\ d[f] = [ent[f] EXCEPT !.state = s0]
    BY <1>3, ZenonT(60) DEF closeCode
  <2>2. c0[f] = IF f = e THEN fresh ELSE d[f]
    BY ZenonT(60) DEF closeCode
  <2>3. c[f] = [[c0[f] EXCEPT !.burned = b] EXCEPT !.state = s]
    BY ZenonT(60) DEF closeCode, Burnt
  <2>4. f \in old \union pruned => f \in codes /\ f # e
    BY <1>3, ZenonT(60)
  <2> HIDE DEF d, c0, c, e, old, pruned
  <2>5. CASE f = e
    <3>1. c0[f] = fresh /\ b = fresh.burned /\ s = fresh.state /\ fresh \in EntRec
      BY <2>2, <2>4, <2>5, <1>5, ZenonT(60) DEF EntRec
    <3> HIDE DEF b, s
    <3>2. c[f] = [[fresh EXCEPT !.burned = fresh.burned] EXCEPT !.state = fresh.state]
      BY <2>3, <3>1, ZenonT(60)
    <3>3. [[fresh EXCEPT !.burned = fresh.burned] EXCEPT !.state = fresh.state] = fresh
      BY <3>1, ZenonT(60) DEF EntRec
    <3> QED BY <2>5, <3>1, <3>2, <3>3, ZenonT(60)
  <2>6. CASE f # e
    <3>1. s0 \in {"none", "open", "expired", "closed"} /\ c0[f] = [ent[f] EXCEPT !.state = s0]
      BY <2>1, <2>2, <2>6, ZenonT(60) DEF EntRec
    <3>6. (f \notin codes => s0 = ent[f].state) /\ (s0 = ent[f].state \/ s0 = "closed")
      BY <2>4, ZenonT(60)
    <3>2. /\ c0[f] \in EntRec /\ c0[f].state = s0 /\ c0[f].id = ent[f].id
          /\ c0[f].failed = ent[f].failed /\ c0[f].inFlight = ent[f].inFlight
          /\ c0[f].claimed = ent[f].claimed /\ c0[f].burned = ent[f].burned
      <4> HIDE DEF s0
      <4> QED BY <2>1, <3>1, ZenonT(60) DEF EntRec
    <3>3. /\ b \in BOOLEAN /\ s \in {"none", "open", "expired", "closed"}
          /\ b <=> ent[f].burned \/ f \in old
          /\ s = IF f \in old \union pruned THEN "closed" ELSE ent[f].state
          /\ f \notin codes => b = ent[f].burned /\ s = ent[f].state
      BY <2>1, <2>4, <3>1, <3>2, ZenonT(60) DEF EntRec
    <3> HIDE DEF b, s, s0
    <3>4. /\ c[f] \in EntRec /\ c[f].state = s /\ c[f].burned = b /\ c[f].id = ent[f].id
          /\ c[f].failed = ent[f].failed /\ c[f].inFlight = ent[f].inFlight
          /\ c[f].claimed = ent[f].claimed
      BY <2>3, <3>2, <3>3, ZenonT(60) DEF EntRec
    <3>5. f \notin codes => c[f] = ent[f]
      BY <2>1, <3>3, <3>4 DEF EntRec
    <3> QED BY <2>6, <3>3, <3>4, <3>5, ZenonT(60)
  <2> QED BY <2>5, <2>6, ZenonT(60)
<1>7. c \in [Entry -> EntRec]
  BY <1>6, ZenonT(60) DEF closeCode
<1> HIDE DEF c
<1>8. CTypes' /\ Counted' /\ Claims' /\ Admitted'
  <2>1. ASSUME NEW f \in Entry
        PROVE  /\ c[f].failed = ent[f].failed /\ c[f].inFlight = ent[f].inFlight
               /\ c[f].claimed = ent[f].claimed /\ (ent[f].burned => c[f].burned)
               /\ c[f].burned => ent[f].burned \/ ChansOf(f) \subseteq K
    <3>1. CASE f = e
      <4>1. c[f] = fresh /\ ent[f] = NoCode
        BY <3>1, <1>3, <1>6, ZenonT(60)
      <4> HIDE DEF K, e, id, old, pruned
      <4>2. /\ fresh.failed = 0 /\ fresh.inFlight = 0 /\ fresh.claimed = FALSE
            /\ fresh.burned = FALSE
        BY <1>5, ZenonT(60)
      <4>3. /\ NoCode.failed = 0 /\ NoCode.inFlight = 0 /\ NoCode.claimed = FALSE
            /\ NoCode.burned = FALSE
        BY ZenonT(60) DEF NoCode
      <4> QED BY <4>1, <4>2, <4>3, ZenonT(60)
    <3>2. CASE f # e
      <4> HIDE DEF old, K, e, pruned
      <4> QED BY <3>2, <1>4, <1>6, ZenonT(60)
    <3> QED BY <3>1, <3>2, ZenonT(60)
  <2> HIDE DEF K
  <2> QED BY <2>1, <1>1, <1>4, <1>7, RefundsCodes, ZenonT(60)
<1>9. /\ ent' \in [Entry -> EntRec]
      /\ \A f \in Entry :
           /\ ent'[f].state = c[f].state /\ ent'[f].id = c[f].id
           /\ ent'[f].failed = c[f].failed /\ ent'[f].burned = c[f].burned
           /\ ent'[f].inFlight = c[f].inFlight - Cardinality(K \intersect ChansOf(f))
           /\ ent'[f].claimed => c[f].claimed
  <2>1. WTypes
    BY ZenonT(60) DEF WInv
  <2> HIDE DEF K
  <2>2. /\ ent' \in [Entry -> EntRec]
        /\ \A f \in Entry :
             /\ ent'[f].state = c[f].state /\ ent'[f].id = c[f].id
             /\ ent'[f].failed = c[f].failed /\ ent'[f].burned = c[f].burned
             /\ ent'[f].inFlight = c[f].inFlight - Cardinality(K \intersect ChansOf(f))
             /\ ent'[f].claimed
                  = (c[f].claimed /\ ~\E k \in K \intersect ChansOf(f) : chan[k].claimed)
    BY <2>1, <1>1, <1>4, <1>7, RefundedFields, ZenonT(60)
  <2> QED BY <2>2, ZenonT(60)
<1>10. \A f \in Entry : f # e =>
         /\ ent'[f].id = ent[f].id /\ (ent'[f].burned <=> ent[f].burned \/ f \in old)
         /\ ent'[f].state = IF f \in old \union pruned THEN "closed" ELSE ent[f].state
  <2> HIDE DEF e, old, pruned, K
  <2> SUFFICES ASSUME NEW f \in Entry, f # e
               PROVE  /\ ent'[f].id = ent[f].id /\ (ent'[f].burned <=> ent[f].burned \/ f \in old)
                      /\ ent'[f].state = IF f \in old \union pruned THEN "closed" ELSE ent[f].state
    BY ZenonT(60)
  <2>1. ent'[f].state = c[f].state /\ ent'[f].id = c[f].id /\ ent'[f].burned = c[f].burned
    BY <1>9, ZenonT(60)
  <2>2. /\ c[f].id = ent[f].id /\ (c[f].burned <=> ent[f].burned \/ f \in old)
        /\ c[f].state = IF f \in old \union pruned THEN "closed" ELSE ent[f].state
    BY <1>6, ZenonT(60)
  <2> QED BY <2>1, <2>2, ZenonT(60)
<1>11. ent'[e].state = "open" /\ ent'[e].id = id /\ ~ent'[e].burned
  <2> HIDE DEF e, id, old, pruned, K
  <2>1. c[e] = fresh /\ ent'[e].state = c[e].state /\ ent'[e].id = c[e].id /\ ent'[e].burned = c[e].burned
    BY <1>2, <1>6, <1>9, ZenonT(60)
  <2>2. fresh.state = "open" /\ fresh.id = id /\ fresh.burned = FALSE
    BY <1>5, ZenonT(60)
  <2> QED BY <2>1, <2>2, ZenonT(60)
<1>12. Opened' = 1..Cardinality(Opened')
  <2>1. \A f \in Entry : f # e => (ent'[f].state = "none" <=> ent[f].state = "none")
    BY <1>10, ZenonT(60) DEF codes
  <2> HIDE DEF e, old, pruned, K
  <2>2. Opened' = Opened \union {e}
    BY <2>1, <1>2, <1>11, ZenonT(60) DEF Opened, Entry
  <2> QED BY <2>2, <1>2, ZenonT(60)
<1>13. ASSUME NEW f \in Entry
       PROVE  /\ ent'[f].state = "none" => ChansOf(f)' = {} /\ ent'[f] = NoCode
              /\ ent'[f].state # "none" => ent'[f].id \in {0, f}
              /\ f \in codes' => ~ent'[f].burned
  <2>1. CASE f = e
    BY <2>1, <1>3, <1>11, ZenonT(60)
  <2>2. CASE f # e
    <3>1. ASSUME ent'[f].state = "none" PROVE ChansOf(f)' = {} /\ ent'[f] = NoCode
      <4>1. f \notin codes /\ ent[f].state = "none"
        BY <3>1, <2>2, <1>10, ZenonT(60) DEF codes
      <4>2. ent[f] = NoCode /\ ChansOf(f) = {}
        BY <4>1, ZenonT(60) DEF CInv, Listed
      <4>4. c[f] = NoCode
        BY <4>1, <4>2, <2>2, <1>6, ZenonT(60)
      <4> HIDE DEF K, e, id, old, pruned
      <4>10. WTypes
        BY ZenonT(60) DEF WInv
      <4>3. ChansOf(f)' = {}
        <5>1. ChansOf(f)' = ChansOf(f) \ K
          BY <4>10, <1>1, <1>4, ChansLeft, ZenonT(60)
        <5> QED BY <5>1, <4>2, ZenonT(60)
      <4>5. Cardinality(K \intersect ChansOf(f)) = 0
        BY <4>2, FS_EmptySet, ZenonT(60)
      <4>6. ent'[f] \in EntRec /\ ent'[f].inFlight = 0
        BY <4>4, <4>5, <1>9, NoCodeFields, NoneLess, ZenonT(60)
      <4>7. ~ent'[f].claimed
        <5>1. ~c[f].claimed /\ (ent'[f].claimed => c[f].claimed)
          <6>1. ent'[f].claimed => c[f].claimed
            BY <1>9, ZenonT(60)
          <6>2. ~NoCode.claimed
            BY ZenonT(60) DEF NoCode
          <6> QED BY <6>1, <6>2, <4>4, ZenonT(60)
        <5> QED BY <5>1, ZenonT(60)
      <4>8. ent'[f].claimed = FALSE
        BY <4>6, <4>7, ZenonT(60) DEF EntRec
      <4>9. /\ ent'[f].state = "none" /\ ent'[f].id = 0 /\ ent'[f].failed = 0
            /\ ent'[f].burned = FALSE
        <5>1. /\ ent'[f].state = c[f].state /\ ent'[f].id = c[f].id
              /\ ent'[f].failed = c[f].failed /\ ent'[f].burned = c[f].burned
          BY <1>9, ZenonT(60)
        <5> QED BY <5>1, <4>4, NoCodeFields, ZenonT(60)
      <4> QED BY <4>3, <4>6, <4>8, <4>9, ZenonT(60) DEF EntRec, NoCode
    <3>2. ent'[f].state # "none" => ent'[f].id \in {0, f}
      BY <2>2, <1>10, ZenonT(60) DEF CInv, Listed, codes
    <3>3. f \in codes' => ~ent'[f].burned
      BY <2>2, <1>10, ZenonT(60) DEF CInv, Listed, codes
    <3> QED BY <3>1, <3>2, <3>3, ZenonT(60)
  <2> QED BY <2>1, <2>2, ZenonT(60)
<1>14. ASSUME NEW f \in codes', NEW g \in codes', ent'[f].id = ent'[g].id PROVE f = g
  <2>1. \A h \in codes' : h # e => h \in codes /\ h \notin old \union pruned /\ ent'[h].id = ent[h].id
    BY <1>10, ZenonT(60) DEF codes
  <2>2. \A h \in codes' : h # e => ent[h].id # id
    BY <2>1, ZenonT(60)
  <2> HIDE DEF e, id, old, pruned
  <2>3. CASE f # e /\ g # e
    BY <2>1, <2>3, <1>14, ZenonT(60) DEF CInv, Listed
  <2>4. CASE f = e \/ g = e
    BY <2>1, <2>2, <2>4, <1>11, <1>14, ZenonT(60)
  <2> QED BY <2>3, <2>4, ZenonT(60)
<1>15. Listed'
  BY <1>12, <1>13, <1>14, ZenonT(60) DEF Listed
<1> QED BY <1>8, <1>15, ZenonT(60) DEF CInv

\* Expire: a code past its time stays listed.
LEMMA ExpireKeeps ==
  ASSUME WInv, CInv, NEW e \in Entry, Expire(e)
  PROVE  CInv'
<1> USE DEF WInv, CInv
<1>0. ent[e].state = "open" /\ ent[e] \in EntRec /\ UNCHANGED <<chan, att, members, admits>>
  BY ZenonT(60) DEF Expire, CTypes
<1>1. /\ \A f \in Entry : f # e => ent'[f] = ent[f]
      /\ ent'[e].state = "expired" /\ ent'[e] \in EntRec
      /\ ent'[e].id = ent[e].id /\ ent'[e].failed = ent[e].failed
      /\ ent'[e].inFlight = ent[e].inFlight /\ ent'[e].claimed = ent[e].claimed
      /\ ent'[e].burned = ent[e].burned
  BY <1>0, ZenonT(60) DEF Expire, CTypes, EntRec
<1>2. \A f \in Entry : /\ ent'[f].id = ent[f].id /\ ent'[f].failed = ent[f].failed
                       /\ ent'[f].inFlight = ent[f].inFlight /\ ent'[f].claimed = ent[f].claimed
                       /\ ent'[f].burned = ent[f].burned /\ ChansOf(f)' = ChansOf(f)
  BY <1>0, <1>1, ZenonT(60) DEF ChansOf
<1>3. CTypes'
  BY <1>0, <1>1, ZenonT(60) DEF CTypes, Expire
<1>4. Counted'
  BY <1>2, ZenonT(60) DEF Counted
<1>5. Claims'
  <2>1. \A k \in Chan : chan[k].claimed => chan[k].entry \in Entry
    BY ZenonT(60) DEF WTypes, ChanRec, Placed
  <2>2. \A k \in Chan : /\ chan'[k].stage = "P5" => chan'[k].claimed
                        /\ chan'[k].claimed => /\ ent'[chan'[k].entry].claimed
                                               /\ ~ent'[chan'[k].entry].burned
                                               /\ att'[k].secret = chan'[k].entry
    BY <2>1, <1>0, <1>2, ZenonT(60) DEF Claims
  <2>3. Claims /\ chan' = chan /\ att' = att /\ admits' = admits
    BY <1>0, ZenonT(60)
  <2>4. \A j, k \in Chan :
          chan'[j].claimed /\ chan'[k].claimed /\ chan'[j].entry = chan'[k].entry => j = k
    BY <2>3, ZenonT(60) DEF Claims
  <2>5. \A f \in Entry : ent'[f].claimed = ent[f].claimed /\ ChansOf(f)' = ChansOf(f)
    BY <1>2, ZenonT(60)
  <2>6. \A f \in Entry :
          ent'[f].claimed /\ admits'[f] = {} => \E k \in ChansOf(f)' : chan'[k].claimed
    BY <2>3, <2>5, ZenonT(60) DEF Claims
  <2> QED BY <2>2, <2>4, <2>6, ZenonT(60) DEF Claims
<1>6. Admitted'
  BY <1>0, <1>2, ZenonT(60) DEF Admitted
<1>7. \A f \in Entry :
        /\ ent[f].state # "none" => ent'[f].state # "none" /\ ent'[f].id = ent[f].id
        /\ ent[f].state = "none" => ent'[f] = NoCode /\ ChansOf(f)' = {}
        /\ f \in codes' => f \in codes /\ ~ent'[f].burned
  BY <1>0, <1>1, <1>2, ZenonT(60) DEF Listed, codes
<1>8. Listed'
  BY <1>3, <1>7, StaysListed, ZenonT(60) DEF CTypes
<1> QED BY <1>3, <1>4, <1>5, <1>6, <1>8, ZenonT(60)

\* What the primary does with what it receives, as seen on the codes.
LEMMA DeliverCodes ==
  ASSUME WInv, CInv, NEW k \in Chan, Deliver(k)
  PROVE  CInv'
<1>0. /\ up[k] # <<>> /\ Head(up[k]) = up[k][1] /\ att' = att /\ {k} \in SUBSET Chan
      /\ up[k][1] = "pairing" <=> chan[k].entry = 0
  BY DEF Deliver, WInv, WTypes, Ordered
<1>1. CASE ~primary
  <2>1. UNCHANGED <<ent, chan, members, admits>>
    BY <1>1, ZenonT(60) DEF Deliver
  <2> QED BY <2>1, <1>0, AttemptKeeps, ZenonT(60)
<1>2. CASE primary /\ up[k][1] = "pairing"
  <2>1. onPairing(k)
    BY <1>0, <1>2, ZenonT(60) DEF Deliver
  <2>2. CASE UNCHANGED <<ent, chan, members, admits>>
    BY <2>2, <1>0, AttemptKeeps, ZenonT(60)
  <2>3. CASE \E e \in codes :
               /\ ent[e].failed + ent[e].inFlight < CodeAttempts
               /\ ent' = [ent EXCEPT ![e].inFlight = @ + 1]
               /\ chan' = [chan EXCEPT ![k] = [entry |-> e, stage |-> "P1", claimed |-> FALSE]]
               /\ UNCHANGED <<members, admits>>
    BY <2>3, <1>0, <1>2, ReserveKeeps, ZenonT(60)
  <2> QED BY <2>1, <2>2, <2>3, ZenonT(60) DEF onPairing
<1>3. CASE primary /\ up[k][1] = "end"
  <2>1. NewcomerLeft(k)
    BY <1>0, <1>3, ZenonT(60) DEF Deliver
  <2> QED BY <2>1, <1>0, EndKeeps, ZenonT(60) DEF NewcomerLeft
<1>4. CASE primary /\ up[k][1] \notin {"pairing", "end"}
  <2>1. onPairFrame(k)
    BY <1>0, <1>4, ZenonT(60) DEF Deliver
  <2>2. chan[k] \in ChanRec /\ chan[k].entry \in Entry /\ chan[k].stage \in {"P1", "P3", "P5"}
    BY <1>0, <1>4, ZenonT(60) DEF WInv, WTypes, Placed, ChanRec
  <2>6. CASE failAttempt(k)
    <3>1. chan[k].entry # 0
      BY <2>2 DEF Entry
    <3> QED BY <2>6, <3>1, <1>0, FailKeeps, ZenonT(60)
  <2>3. CASE chan[k].stage = "P1" /\ ~failAttempt(k)
    BY <2>1, <2>3, <1>0, StageKeeps, ZenonT(60) DEF onPairFrame
  <2>4. CASE chan[k].stage = "P3" /\ ~failAttempt(k)
    <3> DEFINE e == chan[k].entry
    <3>1. Confirm(k)
      BY <2>1, <2>4, ZenonT(60) DEF onPairFrame
    <3>2. CASE att[k].secret # e
      BY <2>4, <3>1, <3>2, ZenonT(60) DEF Confirm
    <3>3. CASE att[k].secret = e /\ (ent[e].claimed \/ ent[e].burned)
      <4>1. endChannel(ent, {k}) /\ UNCHANGED <<members, admits>>
        BY <3>1, <3>3, ZenonT(60) DEF Confirm
      <4> QED BY <4>1, <1>0, EndKeeps, ZenonT(60) DEF endChannel
    <3>4. CASE att[k].secret = e /\ ~(ent[e].claimed \/ ent[e].burned)
      <4>1. /\ ent' = [ent EXCEPT ![e].claimed = TRUE]
            /\ chan' = [chan EXCEPT ![k].claimed = TRUE, ![k].stage = "P5"]
            /\ UNCHANGED <<members, admits>>
        BY <3>1, <3>4, ZenonT(60) DEF Confirm
      <4> QED BY <4>1, <3>4, <2>2, <1>0, ClaimKeeps, ZenonT(60)
    <3> QED BY <3>2, <3>3, <3>4, ZenonT(60)
  <2>5. CASE chan[k].stage = "P5" /\ ~failAttempt(k)
    <3>1. completePairing(k) /\ chan[k].claimed
      BY <2>1, <2>5, ZenonT(60) DEF onPairFrame, CInv, Claims
    <3>2. CASE NodeOf[k] \in members \/ Cardinality(members) >= MaxMembers
      <4>1. endChannel(ent, {k}) /\ UNCHANGED <<members, admits>>
        BY <3>1, <3>2, ZenonT(60) DEF completePairing
      <4> QED BY <4>1, <1>0, EndKeeps, ZenonT(60) DEF endChannel
    <3>3. CASE ~(NodeOf[k] \in members \/ Cardinality(members) >= MaxMembers)
      BY <3>1, <3>3, <2>2, <1>0, AdmitKeeps, ZenonT(60) DEF completePairing
    <3> QED BY <3>2, <3>3, ZenonT(60)
  <2> QED BY <2>2, <2>3, <2>4, <2>5, <2>6, ZenonT(60)
<1> QED BY <1>1, <1>2, <1>3, <1>4, ZenonT(60)

-----------------------------------------------------------------------------
(* Both invariants together *)

IInv == WInv /\ CInv

\* A primary that has opened no code, and newcomers that have not started.
LEMMA InitHolds == Init => IInv
<1> SUFFICES ASSUME Init PROVE IInv
  BY ZenonT(60)
<1> USE DEF Init
<1>0. /\ \A e \in Entry : ent[e] = NoCode /\ e # 0 /\ admits[e] = {}
      /\ \A k \in Chan : /\ chan[k].entry = 0 /\ chan[k].stage = "none" /\ chan[k].claimed = FALSE
                         /\ att[k].stage = "idle" /\ att[k].secret = 0
                         /\ up[k] = <<>> /\ down[k] = <<>>
      /\ NoCode.state = "none" /\ NoCode.failed = 0 /\ NoCode.inFlight = 0
      /\ NoCode.claimed = FALSE /\ Len(<<>>) = 0
  BY DEF Entry, NoChan, NoAttempt, NoCode
<1>1. WTypes
  BY DEF WTypes, NoChan, NoAttempt, ChanRec, AttRec
<1>2. Placed /\ Ordered /\ Ending /\ Welcomed
  BY <1>0 DEF Placed, Ordered, Ending, Welcomed, Waiting
<1>3. CTypes
  <2>1. NoCode \in EntRec
    BY DEF NoCode, EntRec
  <2> QED BY <2>1, ZenonT(60) DEF CTypes
<1>4. \A e \in Entry : ChansOf(e) = {}
  BY <1>0, ZenonT(60) DEF ChansOf
<1>5. Counted
  <2>1. \A e \in Entry : Cardinality(ChansOf(e)) = 0
    BY <1>4, FS_EmptySet, ZenonT(60)
  <2>2. \A e \in Entry : ent[e].inFlight = 0 /\ ent[e].failed = 0
    BY <1>0, ZenonT(60)
  <2> HIDE DEF Init
  <2> QED BY <2>1, <2>2, CodesAssumption DEF Counted
<1>6. Claims /\ Admitted
  BY <1>0, ZenonT(60) DEF Claims, Admitted
<1>7. Listed
  <2>1. Opened = {} /\ codes = {}
    BY <1>0, ZenonT(60) DEF Opened, codes
  <2>2. Opened = 1..Cardinality(Opened)
    BY <2>1, FS_EmptySet
  <2> QED BY <2>1, <2>2, <1>0, <1>4, ZenonT(60) DEF Listed
<1> QED BY <1>1, <1>2, <1>3, <1>5, <1>6, <1>7, ZenonT(60) DEF IInv, WInv, CInv

\* Every handler of the primary and every step of a newcomer keeps both invariants.
LEMMA StepHolds == IInv /\ [Next]_vars => IInv'
<1> SUFFICES ASSUME WInv, CInv, [Next]_vars PROVE WInv' /\ CInv'
  BY ZenonT(60) DEF IInv
<1>1. ASSUME NEW separate \in BOOLEAN, OpenPairingCode(separate) PROVE WInv' /\ CInv'
  <2> DEFINE K == UNION {ChansOf(o) : o \in
                           {o \in codes \ {p \in codes : ent[p].burned \/ ent[p].state = "expired"} :
                              ent[o].id = IF separate THEN Cardinality(Opened) + 1 ELSE 0}}
  <2>1. /\ chan' = Without(K) /\ up' = Ignored(K) /\ down' = Told(K)
        /\ UNCHANGED <<att, members, primary, unanswered>>
    BY <1>1, ZenonT(60) DEF OpenPairingCode, withdraw, endChannel, hist
  <2>2. K \in SUBSET Chan
    BY ZenonT(60) DEF ChansOf
  <2> HIDE DEF K
  <2> QED BY <1>1, <2>1, <2>2, EndsWires, OpenKeeps, ZenonT(60)
<1>2. ASSUME NEW e \in Entry, CancelPairingCode(e) PROVE WInv' /\ CInv'
  <2> DEFINE K == UNION {ChansOf(o) : o \in {e}}
  <2>1. /\ ent' = Refunded(closeCode(Burnt(ent, {e}), {e}), K) /\ {e} \in SUBSET codes
        /\ chan' = Without(K) /\ up' = Ignored(K) /\ down' = Told(K)
        /\ UNCHANGED <<att, members, admits, primary, unanswered>>
    BY <1>2, ZenonT(60) DEF CancelPairingCode, withdraw, endChannel, hist
  <2>2. K \in SUBSET Chan /\ \A o \in {e} : ChansOf(o) \subseteq K
    BY ZenonT(60) DEF ChansOf
  <2> HIDE DEF K
  <2> QED BY <2>1, <2>2, EndsWires, WithdrawKeeps, ZenonT(60)
<1>3. ASSUME NEW e \in Entry, Expire(e) PROVE WInv' /\ CInv'
  <2>1. UNCHANGED <<chan, att, up, down, members, primary, unanswered>>
    BY <1>3, ZenonT(60) DEF Expire, hist
  <2>2. WInv'
    BY <2>1, ZenonT(60) DEF WInv, WTypes, Placed, Ordered, Ending, Welcomed, Waiting
  <2> QED BY <1>3, <2>2, ExpireKeeps, ZenonT(60)
<1>4. ASSUME NEW k \in Chan, Deliver(k) PROVE WInv' /\ CInv'
  BY <1>4, DeliverWires, DeliverCodes, ZenonT(60)
<1>5. ASSUME NEW k \in Chan, ChannelTimeout(k) PROVE WInv' /\ CInv'
  <2>1. {k} \in SUBSET Chan
    BY ZenonT(60)
  <2> QED BY <1>5, <2>1, EndsWires, EndKeeps, ZenonT(60) DEF ChannelTimeout, endChannel, hist
<1>6. ASSUME NEW k \in Chan, step(k) PROVE WInv' /\ CInv'
  <2>1. UNCHANGED <<ent, chan, members, admits>> /\ att \in [Chan -> AttRec]
    BY <1>6, ZenonT(60) DEF step, WInv, WTypes
  <2>2. \A j \in Chan : att'[j].secret = att[j].secret
    <3>1. PICK s : att' = [att EXCEPT ![k].stage = s]
      BY <1>6, ZenonT(60) DEF step
    <3> QED BY <2>1, <3>1, ZenonT(60) DEF AttRec
  <2> QED BY <1>6, <2>1, <2>2, StepWires, AttemptKeeps, ZenonT(60)
<1>7. ASSUME NEW k \in Chan, Leave(k) PROVE WInv' /\ CInv'
  <2>1. UNCHANGED <<ent, chan, members, admits>> /\ att \in [Chan -> AttRec]
    BY <1>7, ZenonT(60) DEF Leave, WInv, WTypes
  <2>2. \A j \in Chan : att'[j].secret = att[j].secret
    BY <1>7, <2>1, ZenonT(60) DEF Leave, AttRec
  <2> QED BY <1>7, <2>1, <2>2, LeaveWires, AttemptKeeps, ZenonT(60)
<1>8. ASSUME NEW k \in Chan, Pair(k) PROVE WInv' /\ CInv'
  <2>1. issued \subseteq {0} \union Entry
    BY ZenonT(60) DEF issued, Opened, CInv, CTypes, EntRec
  <2>2. UNCHANGED <<ent, chan, members, admits>> /\ att[k].stage = "idle"
    BY <1>8, ZenonT(60) DEF Pair
  <2>3. \A j \in Chan : att[j].secret # 0 => att'[j].secret = att[j].secret
    <3>1. PICK r : att' = [att EXCEPT ![k] = r]
      BY <1>8, ZenonT(60) DEF Pair
    <3> QED BY <2>2, <3>1, ZenonT(60) DEF WInv, WTypes, Placed
  <2> QED BY <1>8, <2>1, <2>2, <2>3, PairWires, AttemptKeeps, ZenonT(60)
<1>9. ASSUME stop PROVE WInv' /\ CInv'
  <2> DEFINE K == Chan \ ChansOf(0)
  <2>1. /\ ent' = Refunded(closeCode(Burnt(ent, codes), codes), K) /\ codes \in SUBSET codes
        /\ chan' = Without(K) /\ up' = Ignored(K) /\ down' = Told(K) /\ ~primary'
        /\ UNCHANGED <<att, members, admits, unanswered>>
    BY <1>9, ZenonT(60) DEF stop, endChannel, hist
  <2>2. K \in SUBSET Chan /\ \A e \in codes : ChansOf(e) \subseteq K
    BY DEF ChansOf, codes, Entry
  <2> HIDE DEF K
  <2> QED BY <2>1, <2>2, EndsWires, WithdrawKeeps, ZenonT(60)
<1>10. ASSUME onConnectionState PROVE WInv' /\ CInv'
  <2>1. /\ ent' = Refunded(ent, Chan) /\ chan' = Without(Chan) /\ Chan \in SUBSET Chan
        /\ UNCHANGED <<att, members, admits>>
    BY <1>10, ZenonT(60) DEF onConnectionState
  <2> QED BY <1>10, <2>1, DropWires, EndKeeps, ZenonT(60)
<1>11. CASE UNCHANGED vars
  <2>1. WInv'
    BY <1>11, ZenonT(60) DEF vars, hist, WInv, WTypes, Placed, Ordered, Ending, Welcomed, Waiting
  <2>2. UNCHANGED <<ent, chan, members, admits>> /\ att' = att
    BY <1>11, ZenonT(60) DEF vars
  <2> QED BY <2>1, <2>2, AttemptKeeps, ZenonT(60)
<1> QED BY <1>1, <1>2, <1>3, <1>4, <1>5, <1>6, <1>7, <1>8, <1>9, <1>10, <1>11, ZenonT(60) DEF Next

\* Both invariants hold throughout.
LEMMA Inductive == Spec => []IInv
BY InitHolds, StepHolds, PTL DEF Spec

-----------------------------------------------------------------------------
(* Theorems *)

\* completePairing, Confirm, failAttempt, withdraw: however attempts, timeouts,
\* replacements, drops and demotions interleave, a code admits at most one node,
\* one that held it; a burned code has no channel left that could complete; and
\* a newcomer that was told of success is in the roster.
THEOREM OneAdmission == Spec => []AdmitsOne
<1>1. IInv => AdmitsOne
  <2> SUFFICES ASSUME WInv, CInv PROVE AdmitsOne
    BY ZenonT(60) DEF IInv
  <2>1. ASSUME NEW e \in Entry
        PROVE  /\ Cardinality(admits[e]) <= 1
               /\ \A n \in admits[e] : \E k \in Chan : NodeOf[k] = n /\ att[k].secret = e
               /\ ent[e].burned => ~\E k \in ChansOf(e) : chan[k].claimed
    <3>1. Cardinality(admits[e]) <= 1
      <4>1. CASE admits[e] = {}
        <5>1. Cardinality(admits[e]) = 0
          BY <4>1, FS_EmptySet, ZenonT(60)
        <5> QED BY <5>1
      <4>2. CASE admits[e] # {}
        <5>1. PICK k \in Chan : admits[e] = {NodeOf[k]}
          BY <4>2, ZenonT(60) DEF CInv, Admitted
        <5>2. Cardinality(admits[e]) = 1
          BY <5>1, FS_Singleton, ZenonT(60)
        <5> QED BY <5>2
      <4> QED BY <4>1, <4>2, ZenonT(60)
    <3>2. \A n \in admits[e] : \E k \in Chan : NodeOf[k] = n /\ att[k].secret = e
      BY ZenonT(60) DEF CInv, Admitted
    <3>3. ent[e].burned => ~\E k \in ChansOf(e) : chan[k].claimed
      BY ZenonT(60) DEF CInv, Claims, ChansOf
    <3> QED BY <3>1, <3>2, <3>3, ZenonT(60)
  <2>2. \A k \in Chan : att[k].stage = "paired" => NodeOf[k] \in members
    BY ZenonT(60) DEF WInv, Welcomed
  <2> QED BY <2>1, <2>2, ZenonT(60) DEF AdmitsOne
<1> QED BY <1>1, Inductive, PTL

\* endChannel and failAttempt on every path, a malformed message of the attempt
\* that holds the claim included: the slots a code counts are the channels on it,
\* with the failures they never pass CodeAttempts, its claim is held by one
\* channel or was used, and what is listed is good and alone under its id.
THEOREM SlotsAddUp == Spec => []SlotsExact
<1>1. IInv => SlotsExact
  <2> SUFFICES ASSUME WInv, CInv PROVE SlotsExact
    BY ZenonT(60) DEF IInv
  <2>1. ASSUME NEW e \in Entry
        PROVE  /\ ent[e] \in EntRec /\ ent[e].inFlight = Cardinality(ChansOf(e))
               /\ ent[e].failed + ent[e].inFlight <= CodeAttempts
               /\ ent[e].failed \in 0..CodeAttempts /\ ent[e].inFlight \in 0..CodeAttempts
    <3>1. /\ ent[e] \in EntRec /\ ent[e].inFlight = Cardinality(ChansOf(e)) /\ ent[e].failed \in Nat
          /\ ent[e].failed + ent[e].inFlight <= CodeAttempts /\ Cardinality(ChansOf(e)) \in Nat
      BY ChansFinite, ZenonT(60) DEF CInv, CTypes, Counted, EntRec
    <3> QED BY <3>1, CodesAssumption
  <2>2. TypeOK
    BY <2>1, ZenonT(60) DEF TypeOK, CInv, CTypes, EntRec, WInv, WTypes, ChanRec
  <2>3. ASSUME NEW e \in Entry
        PROVE  Cardinality({k \in ChansOf(e) : chan[k].claimed})
                 = IF ent[e].claimed /\ admits[e] = {} THEN 1 ELSE 0
    <3> DEFINE C == {k \in ChansOf(e) : chan[k].claimed}
    <3>1. CASE ent[e].claimed /\ admits[e] = {}
      <4>1. PICK k \in ChansOf(e) : chan[k].claimed
        BY <3>1, ZenonT(60) DEF CInv, Claims
      <4>2. C = {k}
        BY <4>1 DEF CInv, Claims, ChansOf
      <4>3. Cardinality(C) = 1
        BY <4>2, FS_Singleton, ZenonT(60)
      <4> QED BY <3>1, <4>3, ZenonT(60)
    <3>2. CASE ~(ent[e].claimed /\ admits[e] = {})
      <4>1. C = {}
        BY <3>2, ZenonT(60) DEF CInv, Claims, Admitted, ChansOf
      <4>2. Cardinality(C) = 0
        BY <4>1, FS_EmptySet, ZenonT(60)
      <4> QED BY <3>2, <4>2, ZenonT(60)
    <3> QED BY <3>1, <3>2, ZenonT(60)
  <2>4. \A e \in codes : ~ent[e].burned /\ \A f \in codes : ent[e].id = ent[f].id => e = f
    BY ZenonT(60) DEF CInv, Listed, codes
  <2> QED BY <2>1, <2>2, <2>3, <2>4, ZenonT(60) DEF SlotsExact
<1> QED BY <1>1, Inductive, PTL

\* Every way a channel ends tells its newcomer: one that waits on a primary has
\* something to read, something under way, or a channel with its timer, unless it
\* was refused past the budget for ids never issued.
THEOREM NobodyWaitsForNothing == Spec => []NewcomerHears
<1>1. IInv => NewcomerHears
  BY WaitingChan, ZenonT(60) DEF IInv, WInv, Ending, NewcomerHears
<1> QED BY <1>1, Inductive, PTL
=============================================================================
