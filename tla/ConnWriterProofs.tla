-------------------------- MODULE ConnWriterProofs --------------------------
(***************************************************************************)
(* Theorems about ConnWriter, a relay connection's writer, for any         *)
(* feeders, any number of frames and pings and any limits.                 *)
(*                                                                         *)
(* The property's parts hold each other up. That there is one drain        *)
(* (Single) is what makes the block taken the only one (Busy); that a      *)
(* queue is never without a drain (NothingStranded) is what wakes a feeder *)
(* that waits, and needs the wish to be woken to be noted before the       *)
(* feeder sleeps (Waits); the count of what is queued is exact only with   *)
(* the block being written counted (QueuedExact); and a lane's order on    *)
(* the wire is the order of what is written, the block taken and what is   *)
(* queued together (Lanes, Written), up to the close frame, which comes    *)
(* when nothing is left before it (Ending).                                *)
(***************************************************************************)
EXTENDS MCConnWriter, FiniteSetTheorems, TLAPS

\* The marks that data frames leave on the wire, and the one that the close frame leaves.
DataMarks == [n : 1..MaxFrames, own : BOOLEAN]
End == Mark(Close)

\* The types of the queues, the drains and the socket.
Types ==
    /\ cur \in Frames \cup {Ctl, Close, None}
    /\ pq \in Seq(Frames) /\ q \in Seq(Frames)
    /\ queued \in Nat /\ replies \in Nat
    /\ drains \subseteq [who : Feeder \cup {"go", "ping", "close"}, at : {"pick", "write"}]
    /\ closing \in {"no", "flush", "drop"}
    /\ sock \in {"open", "closed"}
    /\ below \subseteq Feeder
    /\ fpc \in [Feeder -> {"idle", "drain", "check", "wait", "stopping", "gone"}]
    /\ sent \in 0..MaxFrames /\ pings \in 0..MaxPings
    /\ out \in Seq(DataMarks \cup {End})

\* The truth values.
Flags ==
    /\ part \in BOOLEAN /\ pingDue \in BOOLEAN /\ pongDue \in BOOLEAN /\ writing \in BOOLEAN
    /\ closeFrame \in BOOLEAN /\ closeSent \in BOOLEAN /\ readerDone \in BOOLEAN /\ failed \in BOOLEAN

\* The one drain is there exactly while writing is set.
Single == (\A d, e \in drains : d = e) /\ (writing => drains # {}) /\ (drains # {} => writing)

\* A drain that writes has taken something; a block partly on the wire has its drain.
Busy ==
    /\ \A d \in drains : d.at = "write" => cur # None
    /\ part => cur # None /\ writing

\* Closing comes before all that ends the connection, and drops the pings that are due.
Shut ==
    /\ closing = "no" => sock = "open" /\ ~readerDone /\ ~closeFrame /\ ~closeSent /\ fpc[Self] \notin {"stopping", "gone"}
    /\ closing # "no" => ~pingDue /\ ~pongDue

\* A feeder that waits is among those to wake, on an open connection that is being written.
Waits == \A f \in Feeder : fpc[f] = "wait" => f \in below /\ closing = "no" /\ writing /\ queued > 0

\* Of two frames of one lane, the one queued first.
Before(a, b) == a.own = b.own => a.n < b.n

\* What is queued, the block being written included, is in the order it was queued.
Lanes ==
    /\ \A i \in 1..Len(pq) : pq[i].own /\ pq[i].n <= sent
    /\ \A i \in 1..Len(q) : ~q[i].own /\ q[i].n <= sent
    /\ \A i, j \in 1..Len(pq) : i < j => pq[i].n < pq[j].n
    /\ \A i, j \in 1..Len(q) : i < j => q[i].n < q[j].n
    /\ cur \in Frames =>
         /\ cur.n <= sent
         /\ \A i \in 1..Len(pq) : Before(cur, pq[i])
         /\ \A i \in 1..Len(q) : Before(cur, q[i])

\* What is on the wire came before what is queued, in order, and nothing follows the close.
Written ==
    /\ \A i \in 1..Len(out) : out[i] \in DataMarks =>
         /\ out[i].n <= sent
         /\ cur \in Frames => Before(out[i], cur)
         /\ \A j \in 1..Len(pq) : Before(out[i], pq[j])
         /\ \A j \in 1..Len(q) : Before(out[i], q[j])
    /\ \A i, j \in 1..Len(out) : i < j /\ out[j] \in DataMarks => out[i] \in DataMarks /\ Before(out[i], out[j])
    /\ \A i, j \in 1..Len(out) : i < j => out[i] # End

\* The close frame is taken, and written, when nothing is left before it.
Ending ==
    /\ cur = Close => closing # "no" /\ closeSent /\ pq = <<>> /\ q = <<>>
    /\ (\E i \in 1..Len(out) : out[i] = End) => closing # "no" /\ closeSent /\ pq = <<>> /\ q = <<>> /\ cur = None

\* The inductive invariant.
WriterInv ==
    Types /\ Flags /\ Single /\ Busy /\ Shut /\ NothingStranded /\ QueuedExact /\ Waits /\ Lanes /\ Written /\ Ending

USE WriterAssumption, NoneAssumption

\* A lane may be empty.
LEMMA EmptyLane == <<>> \in Seq(Frames)
  OBVIOUS

\* How many of a lane's frames are the connection's own: none of an empty one.
LEMMA AnswersEmpty == Answers(<<>>) = 0
  BY FS_EmptySet DEF Answers

\* It is a number, and 0 unless there are frames.
LEMMA AnswersNat ==
  ASSUME NEW s \in Seq(Frames)
  PROVE  Answers(s) \in Nat /\ IsFiniteSet({i \in 1..Len(s) : s[i].kind = "reply"}) /\ (Answers(s) > 0 => Len(s) > 0)
<1>1. IsFiniteSet(1..Len(s))
  BY FS_Interval
<1>2. IsFiniteSet({i \in 1..Len(s) : s[i].kind = "reply"})
  BY <1>1, FS_Subset, ZenonT(60)
<1>3. Answers(s) \in Nat
  BY <1>2, FS_CardinalityType, ZenonT(60) DEF Answers
<1>4. Len(s) = 0 => {i \in 1..Len(s) : s[i].kind = "reply"} = {}
  OBVIOUS
<1>5. Len(s) = 0 => Answers(s) = 0
  BY <1>4, FS_EmptySet, ZenonT(60) DEF Answers
<1> QED BY <1>2, <1>3, <1>5

\* A frame more.
LEMMA AnswersAppend ==
  ASSUME NEW s \in Seq(Frames), NEW b \in Frames
  PROVE  Answers(Append(s, b)) = Answers(s) + IF b.kind = "reply" THEN 1 ELSE 0
<1> DEFINE I == {i \in 1..Len(s) : s[i].kind = "reply"}
           J == {i \in 1..Len(Append(s, b)) : Append(s, b)[i].kind = "reply"}
<1>1. J = I \cup (IF b.kind = "reply" THEN {Len(s) + 1} ELSE {})
  OBVIOUS
<1>2. IsFiniteSet(I) /\ Answers(s) = Cardinality(I)
  BY AnswersNat, ZenonT(60) DEF Answers
<1>3. Len(s) + 1 \notin I
  OBVIOUS
<1>4. Answers(Append(s, b)) = Cardinality(J)
  BY ZenonT(60) DEF Answers
<1>5. Answers(s) \in Nat
  BY AnswersNat, ZenonT(60)
<1> HIDE DEF I, J
<1>6. CASE b.kind = "reply"
  BY <1>1, <1>2, <1>3, <1>4, <1>6, FS_AddElement, ZenonT(60)
<1>7. CASE b.kind # "reply"
  BY <1>1, <1>2, <1>4, <1>5, <1>7
<1> QED BY <1>6, <1>7, ZenonT(60)

\* A frame less.
LEMMA AnswersTail ==
  ASSUME NEW s \in Seq(Frames), s # <<>>
  PROVE  Answers(s) = Answers(Tail(s)) + IF Head(s).kind = "reply" THEN 1 ELSE 0
<1> DEFINE I == {i \in 1..Len(s) : s[i].kind = "reply"}
           T == {i \in 1..Len(Tail(s)) : Tail(s)[i].kind = "reply"}
           K == I \ {1}
           f == [i \in T |-> i + 1]
<1>1. IsFiniteSet(I) /\ Answers(s) = Cardinality(I) /\ Answers(s) \in Nat
  BY AnswersNat, ZenonT(60) DEF Answers
<1>2. Tail(s) \in Seq(Frames)
  OBVIOUS
<1>3. IsFiniteSet(T) /\ Answers(Tail(s)) = Cardinality(T) /\ Answers(Tail(s)) \in Nat
  BY <1>2, AnswersNat, ZenonT(60) DEF Answers
<1>4. f \in Bijection(T, K)
  <2>1. \A i \in T : i + 1 \in K
    OBVIOUS
  <2>2. \A k \in K : k - 1 \in T
    OBVIOUS
  <2>3. \A i, j \in T : i + 1 = j + 1 => i = j
    OBVIOUS
  <2>4. f \in [T -> K]
    <3> HIDE DEF T, K
    <3> QED BY <2>1, ZenonT(60)
  <2>5. \A k \in K : \E i \in T : f[i] = k
    <3>1. T \subseteq Nat /\ K \subseteq Nat
      OBVIOUS
    <3> HIDE DEF T, K
    <3> QED BY <2>2, <3>1
  <2>6. \A i, j \in T : f[i] = f[j] => i = j
    <3> HIDE DEF T, K
    <3> QED BY <2>3, ZenonT(60)
  <2> HIDE DEF f, T, K
  <2> QED BY <2>4, <2>5, <2>6, ZenonT(60) DEF Bijection, Injection, Surjection, IsInjective
<1>5. Cardinality(K) = Cardinality(T)
  <2> HIDE DEF f, T, K
  <2> QED BY <1>3, <1>4, FS_Bijection, ZenonT(60) DEF ExistsBijection
<1>6. 1 \in I <=> Head(s).kind = "reply"
  OBVIOUS
<1>7. Cardinality(I \ {1}) = IF 1 \in I THEN Cardinality(I) - 1 ELSE Cardinality(I)
  <2> HIDE DEF I
  <2> QED BY <1>1, FS_RemoveElement, ZenonT(60)
<1> HIDE DEF I, T
<1> QED BY <1>1, <1>3, <1>5, <1>6, <1>7


\* The same, for every lane.
LEMMA AnswersIsNat == \A s \in Seq(Frames) : Answers(s) \in Nat /\ (Answers(s) > 0 => Len(s) > 0)
  BY AnswersNat, ZenonT(60)

\* Appending to what is on the wire.
LEMMA AppendOut ==
  ASSUME NEW s \in Seq(DataMarks \cup {End}), NEW b \in DataMarks \cup {End}
  PROVE  /\ Append(s, b) \in Seq(DataMarks \cup {End}) /\ Len(Append(s, b)) = Len(s) + 1
         /\ Len(s) \in Nat
         /\ \A i \in 1..Len(Append(s, b)) :
              \/ i \in 1..Len(s) /\ Append(s, b)[i] = s[i]
              \/ i = Len(s) + 1 /\ Append(s, b)[i] = b
  OBVIOUS

\* What a frame has.
LEMMA FrameFields ==
  ASSUME NEW b \in Frames
  PROVE  b.n \in Nat /\ b.own \in BOOLEAN
  BY DEF Frames

\* The mark it leaves.
LEMMA MarkFields ==
  ASSUME NEW b \in Frames
  PROVE  Mark(b) \in DataMarks /\ Mark(b).n = b.n /\ Mark(b).own = b.own
  BY DEF Frames, DataMarks, Mark

\* The close frame's is none of these.
LEMMA EndMark == End \notin DataMarks
  BY DEF End, DataMarks, Mark, Close

\* All of them are marks.
LEMMA AreMarks == Seq(DataMarks \cup {End}) \subseteq Seq(Marks)
<1>1. DataMarks \cup {End} \subseteq Marks
  <2>1. 1..MaxFrames \subseteq 0..MaxFrames /\ 0 \in 0..MaxFrames
    OBVIOUS
  <2>2. ASSUME NEW m \in DataMarks PROVE m \in Marks
    BY <2>1, ZenonT(60) DEF DataMarks, Marks
  <2>3. End \in Marks
    BY DEF End, Marks, Mark, Close
  <2> QED BY <2>2, <2>3, ZenonT(60)
<1> HIDE DEF DataMarks, End, Marks
<1> QED BY <1>1

\* What the frames of a lane have.
LEMMA LaneFields ==
  ASSUME NEW s \in Seq(Frames)
  PROVE  Len(s) \in Nat /\ \A i \in 1..Len(s) : s[i] \in Frames /\ s[i].n \in Nat
<1>1. Len(s) \in Nat /\ \A i \in 1..Len(s) : s[i] \in Frames
  OBVIOUS
<1> QED BY <1>1, FrameFields, ZenonT(60)

\* A frame queued now comes after all that were queued before.
LEMMA Later ==
  ASSUME NEW k \in Nat, NEW a, NEW b, a.n \in Nat, a.n <= k, b.n = k + 1
  PROVE  a.n <= k + 1 /\ a.n < b.n /\ Before(a, b)
<1>1. a.n <= k + 1 /\ a.n < b.n
  OBVIOUS
<1> QED BY <1>1, ZenonT(60) DEF Before

\* Taking the first of a lane.
LEMMA TailFacts ==
  ASSUME NEW s \in Seq(Frames), s # <<>>
  PROVE  /\ Head(s) \in Frames /\ Head(s) = s[1] /\ 1 \in 1..Len(s)
         /\ Tail(s) \in Seq(Frames) /\ Len(s) = Len(Tail(s)) + 1
         /\ \A i \in 1..Len(Tail(s)) : Tail(s)[i] = s[i + 1] /\ i + 1 \in 1..Len(s)
  OBVIOUS

\* Appending to a lane.
LEMMA AppendFacts ==
  ASSUME NEW s \in Seq(Frames), NEW b \in Frames
  PROVE  /\ Append(s, b) \in Seq(Frames) /\ Len(Append(s, b)) = Len(s) + 1
         /\ \A i \in 1..Len(Append(s, b)) :
              \/ i \in 1..Len(s) /\ Append(s, b)[i] = s[i]
              \/ i = Len(s) + 1 /\ Append(s, b)[i] = b
  OBVIOUS

\* A step that only drops lanes, or ends with the block it had, leaves the rest in order.
LEMMA DropsKeep ==
  ASSUME Lanes, Written, cur' \in {cur, None}, pq' \in {pq, <<>>}, q' \in {q, <<>>}, UNCHANGED <<sent, out>>
  PROVE  Lanes' /\ Written'
<1>1. cur' \in Frames => cur' = cur
  BY ZenonT(60)
<1>2. Len(pq') # 0 => pq' = pq
  OBVIOUS
<1>3. Len(q') # 0 => q' = q
  OBVIOUS
<1>4. \A i : i \in 1..Len(pq') => pq' = pq
  BY <1>2
<1>5. \A i : i \in 1..Len(q') => q' = q
  BY <1>3
<1>6. Lanes'
  BY <1>1, <1>4, <1>5, ZenonT(60) DEF Lanes
<1>7. Written'
  BY <1>1, <1>4, <1>5, ZenonT(60) DEF Written
<1> QED BY <1>6, <1>7, ZenonT(60)

\* enqueue: a frame is queued, and a drain is there to write it.
LEMMA EnqueueKeeps ==
  ASSUME WriterInv, NEW f \in Feeder, NEW own \in BOOLEAN, Enqueue(f, own)
  PROVE  WriterInv'
<1> USE DEF WriterInv
<1>0. closing = "no" /\ sock = "open" /\ sent' = sent + 1 /\ sent \in Nat /\ out' = out /\ sock' = sock /\ closing' = closing
  BY DEF Enqueue, Shut, Types, ends
<1> DEFINE c == Frame(f, sent + 1, own)
<1>a. c \in Frames /\ c.own = own /\ c.n = sent + 1 /\ (c.kind = "reply" <=> f = Self)
  BY DEF Enqueue, Frame, Frames, Types
<1>b. /\ cur' = (IF writing THEN cur ELSE c)
      /\ pq' = (IF writing /\ own THEN Append(pq, c) ELSE pq)
      /\ q' = (IF writing /\ ~own THEN Append(q, c) ELSE q)
  BY ZenonT(60) DEF Enqueue
<1> HIDE DEF c
<1>c. ~writing => cur = None /\ pq = <<>> /\ q = <<>>
  BY <1>0, ZenonT(60) DEF NothingStranded
<1>d. PICK b \in Frames :
        /\ b.own = own /\ b.n = sent + 1 /\ (b.kind = "reply" <=> f = Self)
        /\ \/ cur = None /\ pq = <<>> /\ q = <<>> /\ cur' = b /\ pq' = <<>> /\ q' = <<>>
           \/ own /\ pq' = Append(pq, b) /\ cur' = cur /\ q' = q
           \/ ~own /\ q' = Append(q, b) /\ cur' = cur /\ pq' = pq
  BY <1>a, <1>b, <1>c, ZenonT(60)
<1>t. pq \in Seq(Frames) /\ q \in Seq(Frames) /\ cur \in Frames \cup {Ctl, Close, None} /\ out \in Seq(DataMarks \cup {End})
  BY ZenonT(60) DEF Types
<1>e. cur = None => cur \notin Frames
  BY ZenonT(60)
<1>1. Types'
  <2>1. cur' \in Frames \cup {Ctl, Close, None} /\ pq' \in Seq(Frames) /\ q' \in Seq(Frames)
    <3>1. Append(pq, b) \in Seq(Frames) /\ Append(q, b) \in Seq(Frames) /\ <<>> \in Seq(Frames)
      BY <1>t, AppendFacts
    <3> QED BY <1>d, <1>t, <3>1, ZenonT(60)
  <2>2. sent' \in 0..MaxFrames /\ queued' \in Nat /\ replies' \in Nat
    BY DEF Enqueue, Types
  <2>3. drains' \subseteq [who : Feeder \cup {"go", "ping", "close"}, at : {"pick", "write"}]
    BY DEF Enqueue, Kick, Drain, Types
  <2>4. fpc' \in [Feeder -> {"idle", "drain", "check", "wait", "stopping", "gone"}]
    BY ZenonT(60) DEF Enqueue, Types
  <2> QED BY <2>1, <2>2, <2>3, <2>4, ZenonT(60) DEF Enqueue, ends, Types
<1>2. Flags'
  BY ZenonT(60) DEF Enqueue, Kick, due, ends, Flags
<1>3. Single'
  BY ZenonT(60) DEF Enqueue, Kick, Drain, Frame, Frames, Feeder, Types, lanes, due, ends, Single
<1>4. Busy'
  BY DEF Enqueue, Kick, Drain, Busy, Single
<1>5. Shut'
  BY DEF Enqueue, ends, Shut
<1>6. NothingStranded'
  BY ZenonT(60) DEF Enqueue, Kick, NothingStranded
<1>7. QueuedExact'
  <2>1. /\ queued' = queued + 1 /\ replies' = replies + (IF f = Self THEN 1 ELSE 0)
        /\ queued = Len(pq) + Len(q) + (IF cur \in Frames THEN 1 ELSE 0)
        /\ replies = Answers(pq) + Answers(q) + (IF cur \in Frames /\ cur.kind = "reply" THEN 1 ELSE 0)
    BY <1>0 DEF Enqueue, QueuedExact
  <2>2. Answers(pq) \in Nat /\ Answers(q) \in Nat /\ Answers(<<>>) = 0 /\ Len(pq) \in Nat /\ Len(q) \in Nat
    <3>1. pq \in Seq(Frames) /\ q \in Seq(Frames)
      BY ZenonT(60) DEF Types
    <3>2. Answers(pq) \in Nat /\ Answers(q) \in Nat
      BY <3>1, AnswersIsNat, ZenonT(60)
    <3>3. Len(pq) \in Nat /\ Len(q) \in Nat
      BY <3>1
    <3> QED BY <3>2, <3>3, AnswersEmpty, ZenonT(60)
  <2>3. CASE cur = None /\ pq = <<>> /\ q = <<>> /\ cur' = b /\ pq' = <<>> /\ q' = <<>>
    <3>1. queued = 0 /\ replies = 0
      BY <1>e, <2>1, <2>2, <2>3
    <3>2. Len(pq') = 0 /\ Len(q') = 0 /\ Answers(pq') = 0 /\ Answers(q') = 0 /\ cur' \in Frames /\ (cur'.kind = "reply" <=> f = Self)
      BY <1>d, <2>2, <2>3, ZenonT(60)
    <3> QED BY <1>0, <2>1, <3>1, <3>2 DEF QueuedExact
  <2>4. CASE own /\ pq' = Append(pq, b) /\ cur' = cur /\ q' = q
    <3>1. Answers(pq') = Answers(pq) + (IF f = Self THEN 1 ELSE 0) /\ Len(pq') = Len(pq) + 1
      BY <1>d, <2>4, AnswersAppend, AppendFacts, <1>t, ZenonT(60)
    <3> QED BY <1>0, <2>1, <2>2, <2>4, <3>1 DEF QueuedExact
  <2>5. CASE ~own /\ q' = Append(q, b) /\ cur' = cur /\ pq' = pq
    <3>1. Answers(q') = Answers(q) + (IF f = Self THEN 1 ELSE 0) /\ Len(q') = Len(q) + 1
      BY <1>d, <2>5, AnswersAppend, AppendFacts, <1>t, ZenonT(60)
    <3> QED BY <1>0, <2>1, <2>2, <2>5, <3>1 DEF QueuedExact
  <2> QED BY <1>d, <2>3, <2>4, <2>5, ZenonT(60)
<1>8. Waits'
  BY DEF Enqueue, Kick, ends, Waits, QueuedExact, Shut
<1>9. Lanes'
  <2>1. CASE cur = None /\ pq = <<>> /\ q = <<>> /\ cur' = b /\ pq' = <<>> /\ q' = <<>>
    BY <1>0, <1>d, <2>1 DEF Lanes
  <2>2. CASE own /\ pq' = Append(pq, b) /\ cur' = cur /\ q' = q
    <3>1. /\ Len(pq') = Len(pq) + 1 /\ Len(pq) \in Nat
          /\ \A i \in 1..Len(pq') : (i \in 1..Len(pq) /\ pq'[i] = pq[i]) \/ (i = Len(pq) + 1 /\ pq'[i] = b)
      BY <2>2, AppendFacts, LaneFields, <1>t, ZenonT(60)
    <3>2. (\A i \in 1..Len(pq) : pq[i].n \in Nat) /\ (cur \in Frames => cur.n \in Nat)
      BY <1>t, LaneFields, FrameFields, ZenonT(60)
    <3>3. \A i \in 1..Len(pq) : pq[i].own /\ pq[i].n <= sent
      BY ZenonT(60) DEF Lanes
    <3>4. \A i, j \in 1..Len(pq) : i < j => pq[i].n < pq[j].n
      BY ZenonT(60) DEF Lanes
    <3>9. \A i \in 1..Len(pq) : pq[i].n <= sent + 1
      BY <1>0, <1>d, <3>2, <3>3, Later, ZenonT(60)
    <3>10. b.n <= sent + 1
      BY <1>0, <1>d
    <3>5. \A i \in 1..Len(pq') : pq'[i].own /\ pq'[i].n <= sent + 1
      BY <1>d, <2>2, <3>1, <3>3, <3>9, <3>10, ZenonT(60)
    <3>6. ASSUME NEW i \in 1..Len(pq'), NEW j \in 1..Len(pq'), i < j PROVE pq'[i].n < pq'[j].n
      <4>1. i \in 1..Len(pq) /\ pq'[i] = pq[i]
        BY <3>1, <3>6
      <4>2. CASE j \in 1..Len(pq) /\ pq'[j] = pq[j]
        BY <3>4, <3>6, <4>1, <4>2, ZenonT(60)
      <4>3. CASE pq'[j] = b
        <5>1. pq[i].n <= sent /\ pq[i].n \in Nat /\ b.n = sent + 1 /\ sent \in Nat
          BY <1>0, <1>d, <3>2, <3>3, <4>1, ZenonT(60)
        <5> QED BY <4>1, <4>3, <5>1
      <4> QED BY <3>1, <4>2, <4>3, ZenonT(60)
    <3>11. cur \in Frames => cur.n <= sent + 1 /\ Before(cur, b)
      BY <1>0, <1>d, <3>2, Later, ZenonT(60) DEF Lanes
    <3>7. cur \in Frames => \A i \in 1..Len(pq') : Before(cur, pq'[i])
      BY <3>1, <3>11, ZenonT(60) DEF Lanes
    <3>8. \A i \in 1..Len(q) : q[i].n <= sent + 1
      <4>1. \A i \in 1..Len(q) : q[i].n <= sent /\ q[i].n \in Nat
        BY <1>t, LaneFields, ZenonT(60) DEF Lanes
      <4> QED BY <1>0, <1>d, <4>1, Later, ZenonT(60)
    <3> QED BY <1>0, <2>2, <3>5, <3>6, <3>7, <3>8, <3>11, ZenonT(60) DEF Lanes
  <2>3. CASE ~own /\ q' = Append(q, b) /\ cur' = cur /\ pq' = pq
    <3>1. /\ Len(q') = Len(q) + 1 /\ Len(q) \in Nat
          /\ \A i \in 1..Len(q') : (i \in 1..Len(q) /\ q'[i] = q[i]) \/ (i = Len(q) + 1 /\ q'[i] = b)
      BY <2>3, AppendFacts, LaneFields, <1>t, ZenonT(60)
    <3>2. (\A i \in 1..Len(q) : q[i].n \in Nat) /\ (cur \in Frames => cur.n \in Nat)
      BY <1>t, LaneFields, FrameFields, ZenonT(60)
    <3>3. \A i \in 1..Len(q) : ~q[i].own /\ q[i].n <= sent
      BY ZenonT(60) DEF Lanes
    <3>4. \A i, j \in 1..Len(q) : i < j => q[i].n < q[j].n
      BY ZenonT(60) DEF Lanes
    <3>9. \A i \in 1..Len(q) : q[i].n <= sent + 1
      BY <1>0, <1>d, <3>2, <3>3, Later, ZenonT(60)
    <3>10. b.n <= sent + 1
      BY <1>0, <1>d
    <3>5. \A i \in 1..Len(q') : ~q'[i].own /\ q'[i].n <= sent + 1
      BY <1>d, <2>3, <3>1, <3>3, <3>9, <3>10, ZenonT(60)
    <3>6. ASSUME NEW i \in 1..Len(q'), NEW j \in 1..Len(q'), i < j PROVE q'[i].n < q'[j].n
      <4>1. i \in 1..Len(q) /\ q'[i] = q[i]
        BY <3>1, <3>6
      <4>2. CASE j \in 1..Len(q) /\ q'[j] = q[j]
        BY <3>4, <3>6, <4>1, <4>2, ZenonT(60)
      <4>3. CASE q'[j] = b
        <5>1. q[i].n <= sent /\ q[i].n \in Nat /\ b.n = sent + 1 /\ sent \in Nat
          BY <1>0, <1>d, <3>2, <3>3, <4>1, ZenonT(60)
        <5> QED BY <4>1, <4>3, <5>1
      <4> QED BY <3>1, <4>2, <4>3, ZenonT(60)
    <3>11. cur \in Frames => cur.n <= sent + 1 /\ Before(cur, b)
      BY <1>0, <1>d, <3>2, Later, ZenonT(60) DEF Lanes
    <3>7. cur \in Frames => \A i \in 1..Len(q') : Before(cur, q'[i])
      BY <3>1, <3>11, ZenonT(60) DEF Lanes
    <3>8. \A i \in 1..Len(pq) : pq[i].n <= sent + 1
      <4>1. \A i \in 1..Len(pq) : pq[i].n <= sent /\ pq[i].n \in Nat
        BY <1>t, LaneFields, ZenonT(60) DEF Lanes
      <4> QED BY <1>0, <1>d, <4>1, Later, ZenonT(60)
    <3> QED BY <1>0, <2>3, <3>5, <3>6, <3>7, <3>8, <3>11, ZenonT(60) DEF Lanes
  <2> QED BY <1>d, <2>1, <2>2, <2>3, ZenonT(60)
<1>10. Written'
  <2>0. \A i \in 1..Len(out) : out[i] \in DataMarks => out[i].n \in Nat
    BY DEF DataMarks
  <2>00. \A i \in 1..Len(out) : out[i] \in DataMarks => out[i].n <= sent + 1 /\ Before(out[i], b)
    BY <1>0, <1>d, <2>0, Later, ZenonT(60) DEF Written
  <2>1. CASE cur = None /\ pq = <<>> /\ q = <<>> /\ cur' = b /\ pq' = <<>> /\ q' = <<>>
    <3>1. Len(pq') = 0 /\ Len(q') = 0
      BY <2>1
    <3>2. \A j : j \notin 1..Len(pq') /\ j \notin 1..Len(q')
      BY <3>1
    <3> QED BY <1>0, <2>00, <2>1, <3>2, ZenonT(60) DEF Written
  <2>2. CASE own /\ pq' = Append(pq, b) /\ cur' = cur /\ q' = q
    <3>1. \A i \in 1..Len(pq') : (i \in 1..Len(pq) /\ pq'[i] = pq[i]) \/ (i = Len(pq) + 1 /\ pq'[i] = b)
      BY <2>2, AppendFacts, <1>t, ZenonT(60)
    <3> QED BY <1>0, <2>00, <2>2, <3>1, ZenonT(60) DEF Written
  <2>3. CASE ~own /\ q' = Append(q, b) /\ cur' = cur /\ pq' = pq
    <3>1. \A i \in 1..Len(q') : (i \in 1..Len(q) /\ q'[i] = q[i]) \/ (i = Len(q) + 1 /\ q'[i] = b)
      BY <2>3, AppendFacts, <1>t, ZenonT(60)
    <3> QED BY <1>0, <2>00, <2>3, <3>1, ZenonT(60) DEF Written
  <2> QED BY <1>d, <2>1, <2>2, <2>3, ZenonT(60)
<1>11. Ending'
  <2>1. cur # Close /\ cur' # Close /\ \A i \in 1..Len(out) : out[i] # End
    BY <1>0, <1>d DEF Ending, Close
  <2> QED BY <1>0, <2>1, ZenonT(60) DEF Ending
<1> QED BY <1>1, <1>2, <1>3, <1>4, <1>5, <1>6, <1>7, <1>8, <1>9, <1>10, <1>11, ZenonT(60)

\* waitFor: a feeder goes on, or waits.
LEMMA WaitKeeps ==
  ASSUME WriterInv, NEW f \in Feeder, Wait(f)
  PROVE  WriterInv'
<1> USE DEF WriterInv
<1>s. cur' \in {cur, None} /\ pq' \in {pq, <<>>} /\ q' \in {q, <<>>} /\ UNCHANGED <<sent, out>>
  BY ZenonT(60) DEF Wait, lanes
<1>1. Types'
  BY ZenonT(60) DEF Wait, Types, lanes, ends
<1>2. Flags'
  BY ZenonT(60) DEF Wait, lanes, due, ends, Flags
<1>3. Single'
  BY ZenonT(60) DEF Wait, Single
<1>4. Busy'
  BY ZenonT(60) DEF Wait, lanes, Busy
<1>5. Shut'
  BY DEF Wait, due, ends, Shut
<1>6. NothingStranded'
  BY ZenonT(60) DEF Wait, lanes, due, ends, NothingStranded
<1>7. QueuedExact'
  BY ZenonT(60) DEF Wait, lanes, ends, QueuedExact
<1>8. Waits'
  <2>1. fpc \in [Feeder -> {"idle", "drain", "check", "wait", "stopping", "gone"}] /\ queued \in Nat /\ replies \in Nat
    BY ZenonT(60) DEF Types
  <2>2. UNCHANGED <<queued, writing, closing>>
    BY ZenonT(60) DEF Wait, lanes, ends
  <2>3. CASE f # Relay /\ closing = "no" /\ Full(f)
    <3>1. queued > 0
      <4>1. CASE f # Self
        BY <2>1, <2>3, <4>1 DEF Full
      <4>2. CASE f = Self
        <5>1. replies > 0 /\ sock = "open"
          BY <2>1, <2>3, <4>2 DEF Full, Shut
        <5>2. pq \in Seq(Frames) /\ q \in Seq(Frames)
          BY ZenonT(60) DEF Types
        <5>4. /\ Answers(pq) \in Nat /\ (Answers(pq) > 0 => Len(pq) > 0)
              /\ Answers(q) \in Nat /\ (Answers(q) > 0 => Len(q) > 0)
          BY <5>2, AnswersIsNat, ZenonT(60)
        <5>5. Len(pq) \in Nat /\ Len(q) \in Nat
          BY <5>2
        <5> QED BY <2>3, <5>1, <5>4, <5>5 DEF QueuedExact
      <4> QED BY <4>1, <4>2, ZenonT(60)
    <3>2. writing
      <4>1. SUFFICES ASSUME ~writing PROVE FALSE
        BY ZenonT(60)
      <4>2. cur = None /\ pq = <<>> /\ q = <<>> /\ sock = "open"
        BY <2>3, <4>1, ZenonT(60) DEF NothingStranded, Shut
      <4>3. cur \notin Frames
        BY <4>2, ZenonT(60)
      <4> QED BY <2>3, <3>1, <4>2, <4>3 DEF QueuedExact
    <3>3. fpc' = [fpc EXCEPT ![f] = "wait"] /\ below' = below \cup {f}
      BY <2>3, ZenonT(60) DEF Wait
    <3> QED BY <2>1, <2>2, <2>3, <3>1, <3>2, <3>3, ZenonT(60) DEF Waits
  <2>4. CASE ~(f # Relay /\ closing = "no" /\ Full(f))
    <3>1. fpc' = [fpc EXCEPT ![f] = "idle"] /\ below' = below
      BY <2>4, ZenonT(60) DEF Wait
    <3> QED BY <2>1, <2>2, <3>1, ZenonT(60) DEF Waits
  <2> QED BY <2>3, <2>4, ZenonT(60)
<1>9. Lanes'
  BY <1>s, DropsKeep, ZenonT(60)
<1>10. Written'
  BY <1>s, DropsKeep, ZenonT(60)
<1>11. Ending'
  BY ZenonT(60) DEF Wait, lanes, ends, Ending
<1> QED BY <1>1, <1>2, <1>3, <1>4, <1>5, <1>6, <1>7, <1>8, <1>9, <1>10, <1>11, ZenonT(60)

\* A sender gives the connection up.
LEMMA SenderClosesKeeps ==
  ASSUME WriterInv, NEW f \in Feeder, SenderCloses(f)
  PROVE  WriterInv'
<1> USE DEF WriterInv
<1>s. cur' \in {cur, None} /\ pq' \in {pq, <<>>} /\ q' \in {q, <<>>} /\ UNCHANGED <<sent, out>>
  BY ZenonT(60) DEF SenderCloses, lanes
<1>1. Types'
  BY ZenonT(60) DEF SenderCloses, Types, lanes, ends
<1>2. Flags'
  BY ZenonT(60) DEF SenderCloses, lanes, due, ends, Flags
<1>3. Single'
  BY ZenonT(60) DEF SenderCloses, Single
<1>4. Busy'
  BY ZenonT(60) DEF SenderCloses, lanes, Busy
<1>5. Shut'
  BY DEF SenderCloses, due, ends, Shut
<1>6. NothingStranded'
  BY ZenonT(60) DEF SenderCloses, lanes, due, ends, NothingStranded
<1>7. QueuedExact'
  BY ZenonT(60) DEF SenderCloses, lanes, ends, QueuedExact
<1>8. Waits'
  BY ZenonT(60) DEF SenderCloses, Types, lanes, ends, Waits
<1>9. Lanes'
  BY <1>s, DropsKeep, ZenonT(60)
<1>10. Written'
  BY <1>s, DropsKeep, ZenonT(60)
<1>11. Ending'
  BY ZenonT(60) DEF SenderCloses, lanes, ends, Ending
<1> QED BY <1>1, <1>2, <1>3, <1>4, <1>5, <1>6, <1>7, <1>8, <1>9, <1>10, <1>11, ZenonT(60)

\* A ping is due.
LEMMA PingKeeps ==
  ASSUME WriterInv, Ping
  PROVE  WriterInv'
<1> USE DEF WriterInv
<1>s. cur' \in {cur, None} /\ pq' \in {pq, <<>>} /\ q' \in {q, <<>>} /\ UNCHANGED <<sent, out>>
  BY ZenonT(60) DEF Ping, lanes
<1>1. Types'
  BY DEF Ping, Kick, Drain, Types, lanes, ends
<1>2. Flags'
  BY ZenonT(60) DEF Ping, Kick, lanes, ends, Flags
<1>3. Single'
  BY ZenonT(60) DEF Ping, Kick, Drain, Types, lanes, due, ends, Single
<1>4. Busy'
  BY DEF Ping, Kick, Drain, lanes, Busy
<1>5. Shut'
  BY ZenonT(60) DEF Ping, ends, Shut
<1>6. NothingStranded'
  BY ZenonT(60) DEF Ping, Kick, NothingStranded
<1>7. QueuedExact'
  BY ZenonT(60) DEF Ping, lanes, ends, QueuedExact
<1>8. Waits'
  BY ZenonT(60) DEF Ping, Kick, lanes, ends, Waits
<1>9. Lanes'
  BY <1>s, DropsKeep, ZenonT(60)
<1>10. Written'
  BY <1>s, DropsKeep, ZenonT(60)
<1>11. Ending'
  BY ZenonT(60) DEF Ping, lanes, Ending
<1> QED BY <1>1, <1>2, <1>3, <1>4, <1>5, <1>6, <1>7, <1>8, <1>9, <1>10, <1>11, ZenonT(60)

\* A pong is due.
LEMMA AnswerPingKeeps ==
  ASSUME WriterInv, AnswerPing
  PROVE  WriterInv'
<1> USE DEF WriterInv
<1>s. cur' \in {cur, None} /\ pq' \in {pq, <<>>} /\ q' \in {q, <<>>} /\ UNCHANGED <<sent, out>>
  BY ZenonT(60) DEF AnswerPing, lanes
<1>1. Types'
  BY DEF AnswerPing, Kick, Drain, Feeder, Types, lanes, ends
<1>2. Flags'
  BY ZenonT(60) DEF AnswerPing, Kick, lanes, ends, Flags
<1>3. Single'
  BY ZenonT(60) DEF AnswerPing, Kick, Drain, Feeder, Types, lanes, due, ends, Single
<1>4. Busy'
  BY DEF AnswerPing, Kick, Drain, lanes, Busy
<1>5. Shut'
  BY DEF AnswerPing, ends, Shut
<1>6. NothingStranded'
  BY ZenonT(60) DEF AnswerPing, Kick, NothingStranded
<1>7. QueuedExact'
  BY ZenonT(60) DEF AnswerPing, lanes, ends, QueuedExact
<1>8. Waits'
  BY DEF AnswerPing, Kick, lanes, ends, Waits
<1>9. Lanes'
  BY <1>s, DropsKeep, ZenonT(60)
<1>10. Written'
  BY <1>s, DropsKeep, ZenonT(60)
<1>11. Ending'
  BY ZenonT(60) DEF AnswerPing, lanes, Ending
<1> QED BY <1>1, <1>2, <1>3, <1>4, <1>5, <1>6, <1>7, <1>8, <1>9, <1>10, <1>11, ZenonT(60)

\* drain: the next block is taken, by its priority.
LEMMA DrainPickKeeps ==
  ASSUME WriterInv, NEW d \in drains, DrainPick(d)
  PROVE  WriterInv'
<1> USE DEF WriterInv
<1>t. pq \in Seq(Frames) /\ q \in Seq(Frames) /\ cur \in Frames \cup {Ctl, Close, None} /\ out \in Seq(DataMarks \cup {End})
  BY ZenonT(60) DEF Types
<1>o. /\ part' = part /\ queued' = queued /\ replies' = replies /\ closing' = closing /\ sock' = sock
      /\ sent' = sent /\ out' = out /\ sent \in Nat
  BY DEF DrainPick, Types
<1>p. Ctl \notin Frames /\ Close \notin Frames /\ None \notin Frames /\ Ctl # None /\ Close # None /\ Ctl # Close
  BY DEF Ctl, Close, Frames
<1>c. \/ cur # None /\ cur' = cur /\ pq' = pq /\ q' = q
      \/ cur = None /\ cur' = Ctl /\ pq' = pq /\ q' = q /\ (pingDue \/ pongDue)
      \/ cur = None /\ pq # <<>> /\ cur' = Head(pq) /\ pq' = Tail(pq) /\ q' = q
      \/ cur = None /\ pq = <<>> /\ q # <<>> /\ cur' = Head(q) /\ q' = Tail(q) /\ pq' = pq
      \/ cur = None /\ pq = <<>> /\ q = <<>> /\ cur' = Close /\ pq' = pq /\ q' = q /\ closeFrame /\ ~closeSent /\ closeSent'
  BY ZenonT(60) DEF DrainPick, Pick
<1>k. closeSent => closeSent'
  BY ZenonT(60) DEF DrainPick
<1> DEFINE P == cur = None /\ pq # <<>> /\ cur' = Head(pq) /\ pq' = Tail(pq) /\ q' = q
           Q == cur = None /\ pq = <<>> /\ q # <<>> /\ cur' = Head(q) /\ q' = Tail(q) /\ pq' = pq
<1>r. P \/ Q \/ (pq' = pq /\ q' = q /\ (cur' = cur \/ (cur \notin Frames /\ cur' \notin Frames)))
  BY <1>c, <1>p, ZenonT(60)
<1>h. P => /\ pq[1] \in Frames /\ cur' = pq[1] /\ 1 \in 1..Len(pq) /\ pq' \in Seq(Frames) /\ Len(pq) = Len(pq') + 1
           /\ \A i \in 1..Len(pq') : pq'[i] = pq[i + 1] /\ i + 1 \in 1..Len(pq) /\ 1 < i + 1
  <2> HAVE P
  <2>1. pq \in Seq(Frames) /\ pq # <<>>
    BY <1>t, ZenonT(60)
  <2>2. /\ Head(pq) \in Frames /\ Head(pq) = pq[1] /\ 1 \in 1..Len(pq)
        /\ Tail(pq) \in Seq(Frames) /\ Len(pq) = Len(Tail(pq)) + 1
        /\ \A i \in 1..Len(Tail(pq)) : Tail(pq)[i] = pq[i + 1] /\ i + 1 \in 1..Len(pq)
    BY <2>1, TailFacts, ZenonT(60)
  <2> QED BY <2>2
<1>l. Q => /\ q[1] \in Frames /\ cur' = q[1] /\ 1 \in 1..Len(q) /\ q' \in Seq(Frames) /\ Len(q) = Len(q') + 1
           /\ \A i \in 1..Len(q') : q'[i] = q[i + 1] /\ i + 1 \in 1..Len(q) /\ 1 < i + 1
  <2> HAVE Q
  <2>1. q \in Seq(Frames) /\ q # <<>>
    BY <1>t, ZenonT(60)
  <2>2. /\ Head(q) \in Frames /\ Head(q) = q[1] /\ 1 \in 1..Len(q)
        /\ Tail(q) \in Seq(Frames) /\ Len(q) = Len(Tail(q)) + 1
        /\ \A i \in 1..Len(Tail(q)) : Tail(q)[i] = q[i + 1] /\ i + 1 \in 1..Len(q)
    BY <2>1, TailFacts, ZenonT(60)
  <2> QED BY <2>2
<1>m. Len(pq) \in Nat /\ Len(q) \in Nat
  BY <1>t
<1>1. Types'
  <2>1. cur' \in Frames \cup {Ctl, Close, None} /\ pq' \in Seq(Frames) /\ q' \in Seq(Frames)
    BY <1>c, <1>h, <1>l, <1>t, ZenonT(60)
  <2>2. drains' \subseteq [who : Feeder \cup {"go", "ping", "close"}, at : {"pick", "write"}]
    BY ZenonT(60) DEF DrainPick, Types
  <2> QED BY <2>1, <2>2, ZenonT(60) DEF DrainPick, Types
<1>2. Flags'
  BY ZenonT(60) DEF DrainPick, Flags
<1>3. Single'
  BY ZenonT(60) DEF DrainPick, Pick, Types, lanes, due, ends, Single
<1>4. Busy'
  <2>1. cur' # None
    BY <1>c, <1>h, <1>l, <1>p, ZenonT(60)
  <2>2. writing' = writing /\ part' = part
    BY ZenonT(60) DEF DrainPick
  <2>3. part => writing
    BY ZenonT(60) DEF Busy
  <2> QED BY <2>1, <2>2, <2>3, ZenonT(60) DEF Busy
<1>5. Shut'
  BY ZenonT(60) DEF DrainPick, Pick, Types, lanes, due, ends, Shut
<1>6. NothingStranded'
  BY ZenonT(60) DEF DrainPick, NothingStranded, Single
<1>7. QueuedExact'
  <2>1. CASE P
    <3>0. Answers(q) \in Nat
      BY <1>t, AnswersIsNat, ZenonT(60)
    <3>1. Answers(pq) = Answers(pq') + (IF cur'.kind = "reply" THEN 1 ELSE 0)
      BY <1>t, <2>1, AnswersTail, ZenonT(60)
    <3>2. Answers(pq') \in Nat /\ Len(pq') \in Nat
      <4>1. pq' \in Seq(Frames)
        BY <1>h, <2>1, ZenonT(60)
      <4>2. Answers(pq') \in Nat
        BY <4>1, AnswersIsNat, ZenonT(60)
      <4>3. Len(pq') \in Nat
        BY <4>1
      <4> QED BY <4>2, <4>3, ZenonT(60)
    <3> HIDE DEF P
    <3>3. Len(pq) = Len(pq') + 1 /\ q' = q /\ cur \notin Frames /\ cur' \in Frames
      BY <1>h, <1>l, <1>p, <2>1, ZenonT(60) DEF P
    <3> QED BY <1>m, <1>o, <3>0, <3>1, <3>2, <3>3 DEF QueuedExact
  <2>2. CASE Q
    <3>1. Answers(q) = Answers(q') + (IF cur'.kind = "reply" THEN 1 ELSE 0)
      BY <1>t, <2>2, AnswersTail, ZenonT(60)
    <3>2. Len(q') \in Nat /\ Answers(pq) \in Nat /\ Answers(q') \in Nat
      <4>1. q' \in Seq(Frames)
        BY <1>l, <2>2, ZenonT(60)
      <4>2. Answers(pq) \in Nat /\ Answers(q') \in Nat
        BY <1>t, <4>1, AnswersIsNat, ZenonT(60)
      <4>3. Len(q') \in Nat
        BY <4>1
      <4> QED BY <4>2, <4>3, ZenonT(60)
    <3> HIDE DEF Q
    <3>3. Len(q) = Len(q') + 1 /\ pq' = pq /\ cur \notin Frames /\ cur' \in Frames
      BY <1>h, <1>l, <1>p, <2>2, ZenonT(60) DEF Q
    <3> QED BY <1>m, <1>o, <3>1, <3>2, <3>3 DEF QueuedExact
  <2>3. CASE pq' = pq /\ q' = q /\ (cur' = cur \/ (cur \notin Frames /\ cur' \notin Frames))
    BY <1>o, <2>3, ZenonT(60) DEF QueuedExact
  <2> QED BY <1>r, <2>1, <2>2, <2>3, ZenonT(60)
<1>8. Waits'
  BY ZenonT(60) DEF DrainPick, Waits
<1>9. Lanes'
  <2>1. CASE P
    <3>1. /\ 1 \in 1..Len(pq) /\ cur' = pq[1] /\ q' = q /\ sent' = sent
          /\ \A i \in 1..Len(pq') : pq'[i] = pq[i + 1] /\ i + 1 \in 1..Len(pq) /\ 1 < i + 1
      BY <1>h, <1>o, <2>1, ZenonT(60)
    <3> HIDE DEF P
    <3>2. \A i \in 1..Len(pq') : pq'[i].own /\ pq'[i].n <= sent
      BY <3>1, ZenonT(60) DEF Lanes
    <3>3. \A i, j \in 1..Len(pq') : i < j => pq'[i].n < pq'[j].n
      <4>1. \A i, j \in 1..Len(pq') : i < j => i + 1 < j + 1
        OBVIOUS
      <4> QED BY <3>1, <4>1, ZenonT(60) DEF Lanes
    <3>4. cur'.n <= sent /\ cur'.own
      BY <3>1, ZenonT(60) DEF Lanes
    <3>5. \A i \in 1..Len(pq') : Before(cur', pq'[i])
      BY <3>1, ZenonT(60) DEF Lanes, Before
    <3>6. \A i \in 1..Len(q) : Before(cur', q[i])
      BY <3>4, ZenonT(60) DEF Lanes, Before
    <3> QED BY <3>1, <3>2, <3>3, <3>4, <3>5, <3>6, ZenonT(60) DEF Lanes
  <2>2. CASE Q
    <3>1. /\ 1 \in 1..Len(q) /\ cur' = q[1] /\ pq' = pq /\ sent' = sent
          /\ \A i \in 1..Len(q') : q'[i] = q[i + 1] /\ i + 1 \in 1..Len(q) /\ 1 < i + 1
      BY <1>l, <1>o, <2>2, ZenonT(60)
    <3> HIDE DEF Q
    <3>2. \A i \in 1..Len(q') : ~q'[i].own /\ q'[i].n <= sent
      BY <3>1, ZenonT(60) DEF Lanes
    <3>3. \A i, j \in 1..Len(q') : i < j => q'[i].n < q'[j].n
      <4>1. \A i, j \in 1..Len(q') : i < j => i + 1 < j + 1
        OBVIOUS
      <4> QED BY <3>1, <4>1, ZenonT(60) DEF Lanes
    <3>4. cur'.n <= sent /\ ~cur'.own
      BY <3>1, ZenonT(60) DEF Lanes
    <3>5. \A i \in 1..Len(q') : Before(cur', q'[i])
      BY <3>1, ZenonT(60) DEF Lanes, Before
    <3>6. \A i \in 1..Len(pq) : Before(cur', pq[i])
      BY <3>4, ZenonT(60) DEF Lanes, Before
    <3> QED BY <3>1, <3>2, <3>3, <3>4, <3>5, <3>6, ZenonT(60) DEF Lanes
  <2>3. CASE pq' = pq /\ q' = q /\ (cur' = cur \/ (cur \notin Frames /\ cur' \notin Frames))
    BY <1>o, <2>3, ZenonT(60) DEF Lanes
  <2> QED BY <1>r, <2>1, <2>2, <2>3, ZenonT(60)
<1>10. Written'
  <2>1. CASE P
    <3>1. /\ 1 \in 1..Len(pq) /\ cur' = pq[1] /\ q' = q /\ out' = out /\ sent' = sent
          /\ \A i \in 1..Len(pq') : pq'[i] = pq[i + 1] /\ i + 1 \in 1..Len(pq)
      BY <1>h, <1>o, <2>1, ZenonT(60)
    <3> HIDE DEF P
    <3>2. ASSUME NEW i \in 1..Len(out), out[i] \in DataMarks
          PROVE  /\ out[i].n <= sent' /\ Before(out[i], cur')
                 /\ \A j \in 1..Len(pq') : Before(out[i], pq'[j])
                 /\ \A j \in 1..Len(q') : Before(out[i], q'[j])
      <4>1. /\ out[i].n <= sent
            /\ \A j \in 1..Len(pq) : Before(out[i], pq[j])
            /\ \A j \in 1..Len(q) : Before(out[i], q[j])
        BY <3>2, ZenonT(60) DEF Written
      <4>2. \A j \in 1..Len(pq') : Before(out[i], pq'[j])
        BY <3>1, <4>1, ZenonT(60)
      <4> QED BY <3>1, <4>1, <4>2, ZenonT(60)
    <3> QED BY <3>1, <3>2, ZenonT(60) DEF Written
  <2>2. CASE Q
    <3>1. /\ 1 \in 1..Len(q) /\ cur' = q[1] /\ pq' = pq /\ out' = out /\ sent' = sent
          /\ \A i \in 1..Len(q') : q'[i] = q[i + 1] /\ i + 1 \in 1..Len(q)
      BY <1>l, <1>o, <2>2, ZenonT(60)
    <3> HIDE DEF Q
    <3>2. ASSUME NEW i \in 1..Len(out), out[i] \in DataMarks
          PROVE  /\ out[i].n <= sent' /\ Before(out[i], cur')
                 /\ \A j \in 1..Len(pq') : Before(out[i], pq'[j])
                 /\ \A j \in 1..Len(q') : Before(out[i], q'[j])
      <4>1. /\ out[i].n <= sent
            /\ \A j \in 1..Len(pq) : Before(out[i], pq[j])
            /\ \A j \in 1..Len(q) : Before(out[i], q[j])
        BY <3>2, ZenonT(60) DEF Written
      <4>2. \A j \in 1..Len(q') : Before(out[i], q'[j])
        BY <3>1, <4>1, ZenonT(60)
      <4> QED BY <3>1, <4>1, <4>2, ZenonT(60)
    <3> QED BY <3>1, <3>2, ZenonT(60) DEF Written
  <2>3. CASE pq' = pq /\ q' = q /\ (cur' = cur \/ (cur \notin Frames /\ cur' \notin Frames))
    BY <1>o, <2>3, ZenonT(60) DEF Written
  <2> QED BY <1>r, <2>1, <2>2, <2>3, ZenonT(60)
<1>11. Ending'
  <2>1. ASSUME \E i \in 1..Len(out) : out[i] = End PROVE FALSE
    BY <1>c, <2>1, ZenonT(60) DEF Ending, Shut
  <2>2. ASSUME cur' = Close PROVE closing # "no" /\ closeSent' /\ pq' = <<>> /\ q' = <<>>
    <3>1. ~P /\ ~Q
      BY <1>h, <1>l, <1>p, <2>2, ZenonT(60)
    <3> QED BY <1>c, <1>k, <1>p, <2>2, <3>1, ZenonT(60) DEF Ending, Shut
  <2> QED BY <1>o, <2>1, <2>2, ZenonT(60) DEF Ending
<1> QED BY <1>1, <1>2, <1>3, <1>4, <1>5, <1>6, <1>7, <1>8, <1>9, <1>10, <1>11, ZenonT(60)

\* drain: nothing is left, and it ends.
LEMMA DrainEndKeeps ==
  ASSUME WriterInv, NEW d \in drains, DrainEnd(d)
  PROVE  WriterInv'
<1> USE DEF WriterInv
<1>s. cur' \in {cur, None} /\ pq' \in {pq, <<>>} /\ q' \in {q, <<>>} /\ UNCHANGED <<sent, out>>
  BY ZenonT(60) DEF DrainEnd, lanes
<1>1. Types'
  BY ZenonT(60) DEF DrainEnd, After, Types, lanes
<1>2. Flags'
  BY ZenonT(60) DEF DrainEnd, Pick, After, Types, lanes, due, ends, Flags
<1>3. Single'
  BY ZenonT(60) DEF DrainEnd, Single
<1>4. Busy'
  BY ZenonT(60) DEF DrainEnd, Pick, lanes, Busy
<1>5. Shut'
  BY DEF DrainEnd, After, due, Shut
<1>6. NothingStranded'
  BY ZenonT(60) DEF DrainEnd, Pick, lanes, due, NothingStranded
<1>7. QueuedExact'
  BY ZenonT(60) DEF DrainEnd, lanes, QueuedExact
<1>8. Waits'
  BY DEF DrainEnd, Pick, After, Waits, QueuedExact, Shut
<1>9. Lanes'
  BY <1>s, DropsKeep, ZenonT(60)
<1>10. Written'
  BY <1>s, DropsKeep, ZenonT(60)
<1>11. Ending'
  BY ZenonT(60) DEF DrainEnd, lanes, Ending
<1> QED BY <1>1, <1>2, <1>3, <1>4, <1>5, <1>6, <1>7, <1>8, <1>9, <1>10, <1>11, ZenonT(60)

\* drain: the block is written, and finishedLocked counts it off.
LEMMA DrainWholeKeeps ==
  ASSUME WriterInv, NEW d \in drains, DrainWhole(d)
  PROVE  WriterInv'
<1> USE DEF WriterInv
<1>t. pq \in Seq(Frames) /\ q \in Seq(Frames) /\ cur \in Frames \cup {Ctl, Close, None} /\ out \in Seq(DataMarks \cup {End})
  BY ZenonT(60) DEF Types
<1>p. Ctl \notin Frames /\ Close \notin Frames /\ None \notin Frames /\ Ctl # None /\ Close # None /\ Ctl # Close
  BY DEF Ctl, Close, Frames
<1>c. cur \in Frames \cup {Ctl, Close}
  BY <1>t, ZenonT(60) DEF DrainWhole, Busy
<1>i. IsData(cur) <=> cur \in Frames
  BY <1>c, <1>p, ZenonT(60) DEF IsData
<1>o. /\ pq' = pq /\ q' = q /\ closing' = closing /\ sock' = sock /\ sock = "open" /\ sent' = sent /\ cur' = None
      /\ closeSent' = closeSent /\ closeFrame' = closeFrame /\ readerDone' = readerDone
      /\ UNCHANGED <<pingDue, pongDue>>
  BY ZenonT(60) DEF DrainWhole, due, ends
<1>u. out' = IF cur = Ctl THEN out ELSE Append(out, Mark(cur))
  BY ZenonT(60) DEF DrainWhole
<1>v. cur = Ctl \/ (cur \in Frames \cup {Close} /\ out' = Append(out, Mark(cur)))
  BY <1>c, <1>u, ZenonT(60)
<1>n. /\ cur \in Frames => Mark(cur) \in DataMarks /\ Mark(cur).n = cur.n /\ \A a : Before(cur, a) => Before(Mark(cur), a)
      /\ cur = Close => Mark(cur) = End
  BY MarkFields, ZenonT(60) DEF Before, End
<1>x. /\ cur \in Frames => \A a : Before(a, cur) => Before(a, Mark(cur))
      /\ Mark(cur) \in DataMarks /\ cur # Ctl => cur \in Frames
  BY MarkFields, EndMark, <1>n, <1>c, ZenonT(60) DEF Before
<1>e. cur # Ctl => Mark(cur) \in DataMarks \cup {End}
  BY <1>c, <1>n, ZenonT(60)
<1>w. cur # Ctl => /\ out' \in Seq(DataMarks \cup {End}) /\ Len(out') = Len(out) + 1 /\ Len(out) \in Nat
                   /\ \A i \in 1..Len(out') : \/ i \in 1..Len(out) /\ out'[i] = out[i]
                                              \/ i = Len(out) + 1 /\ out'[i] = Mark(cur)
  <2> SUFFICES ASSUME cur # Ctl
               PROVE  /\ out' \in Seq(DataMarks \cup {End}) /\ Len(out') = Len(out) + 1 /\ Len(out) \in Nat
                      /\ \A i \in 1..Len(out') : \/ i \in 1..Len(out) /\ out'[i] = out[i]
                                                 \/ i = Len(out) + 1 /\ out'[i] = Mark(cur)
    BY ZenonT(60)
  <2>1. Mark(cur) \in DataMarks \cup {End} /\ out' = Append(out, Mark(cur)) /\ out \in Seq(DataMarks \cup {End})
    BY <1>t, <1>v, <1>e, ZenonT(60)
  <2>2. /\ Append(out, Mark(cur)) \in Seq(DataMarks \cup {End}) /\ Len(Append(out, Mark(cur))) = Len(out) + 1
        /\ Len(out) \in Nat
        /\ \A i \in 1..Len(Append(out, Mark(cur))) :
              \/ i \in 1..Len(out) /\ Append(out, Mark(cur))[i] = out[i]
              \/ i = Len(out) + 1 /\ Append(out, Mark(cur))[i] = Mark(cur)
    BY <2>1, AppendOut, ZenonT(60)
  <2> QED BY <2>1, <2>2, ZenonT(60)
<1>f. fpc' = (IF cur \in Frames THEN Release(fpc) ELSE fpc) /\ below' = (IF cur \in Frames THEN {} ELSE below)
  BY <1>i, ZenonT(60) DEF DrainWhole
<1>q. /\ queued' = (IF cur \in Frames THEN MinusOne(queued) ELSE queued)
      /\ replies' = (IF cur \in Frames /\ cur.kind = "reply" THEN MinusOne(replies) ELSE replies)
  BY <1>i, ZenonT(60) DEF DrainWhole, Finished
<1>1. Types'
  <2>1. out' \in Seq(DataMarks \cup {End})
    BY <1>t, <1>u, <1>w, ZenonT(60)
  <2>2. drains' \subseteq [who : Feeder \cup {"go", "ping", "close"}, at : {"pick", "write"}]
    BY ZenonT(60) DEF DrainWhole, Types
  <2>3. queued' \in Nat /\ replies' \in Nat
    BY <1>q DEF MinusOne, Types
  <2>4. fpc' \in [Feeder -> {"idle", "drain", "check", "wait", "stopping", "gone"}] /\ below' \subseteq Feeder
    BY <1>f, ZenonT(60) DEF Release, Types
  <2>5. UNCHANGED <<pings, sent>>
    BY ZenonT(60) DEF DrainWhole
  <2> QED BY <1>o, <2>1, <2>2, <2>3, <2>4, <2>5, ZenonT(60) DEF Types
<1>2. Flags'
  BY ZenonT(60) DEF DrainWhole, Finished, Release, MinusOne, IsData, Types, lanes, due, ends, Flags
<1>3. Single'
  BY ZenonT(60) DEF DrainWhole, Finished, Release, MinusOne, IsData, Types, lanes, due, ends, Single
<1>4. Busy'
  BY ZenonT(60) DEF DrainWhole, Types, Busy, Single
<1>5. Shut'
  <2>1. fpc'[Self] \in {fpc[Self], "check"}
    BY <1>f, ZenonT(60) DEF Release, Feeder
  <2> QED BY <1>o, <2>1, ZenonT(60) DEF Shut
<1>6. NothingStranded'
  BY ZenonT(60) DEF DrainWhole, NothingStranded, Single
<1>7. QueuedExact'
  <2>1. cur' \notin Frames
    BY <1>o, <1>p, ZenonT(60)
  <2>2. Len(pq) \in Nat /\ Len(q) \in Nat /\ Answers(pq) \in Nat /\ Answers(q) \in Nat /\ queued \in Nat /\ replies \in Nat
    <3>1. queued \in Nat /\ replies \in Nat
      BY ZenonT(60) DEF Types
    <3>2. Answers(pq) \in Nat /\ Answers(q) \in Nat
      BY <1>t, AnswersIsNat, ZenonT(60)
    <3>3. Len(pq) \in Nat /\ Len(q) \in Nat
      BY <1>t
    <3> QED BY <3>1, <3>2, <3>3, ZenonT(60)
  <2> QED BY <1>o, <1>q, <2>1, <2>2 DEF QueuedExact, MinusOne
<1>8. Waits'
  BY ZenonT(60) DEF DrainWhole, Finished, Release, ends, Waits
<1>9. Lanes'
  BY ZenonT(60) DEF DrainWhole, Lanes
<1>10. Written'
  <2>1. cur' \notin Frames
    BY <1>o, <1>p, ZenonT(60)
  <2>2. CASE cur = Ctl
    BY <1>o, <1>u, <2>1, <2>2, ZenonT(60) DEF Written
  <2>3. CASE cur # Ctl
    <3>1. \A i \in 1..Len(out) : out[i] \in DataMarks \cup {End} /\ out[i] # End
      <4>1. \A i \in 1..Len(out) : out[i] \in DataMarks \cup {End}
        BY <1>t
      <4>2. \A i \in 1..Len(out) : out[i] # End
        BY <1>c, <1>p, ZenonT(60) DEF Ending
      <4> QED BY <4>1, <4>2, ZenonT(60)
    <3>2. \A i \in 1..Len(out') : out'[i] \in DataMarks =>
            /\ out'[i].n <= sent'
            /\ \A j \in 1..Len(pq') : Before(out'[i], pq'[j])
            /\ \A j \in 1..Len(q') : Before(out'[i], q'[j])
      BY <1>o, <1>n, <1>w, <1>x, <2>3, ZenonT(60) DEF Written, Lanes
    <3>3. \A i, j \in 1..Len(out') : i < j => i \in 1..Len(out) /\ out'[i] = out[i]
      BY <1>w, <2>3
    <3>4. \A i, j \in 1..Len(out') : i < j /\ out'[j] \in DataMarks => out'[i] \in DataMarks /\ Before(out'[i], out'[j])
      BY <1>w, <1>x, <2>3, <3>1, <3>3, ZenonT(60) DEF Written
    <3>5. \A i, j \in 1..Len(out') : i < j => out'[i] # End
      BY <3>1, <3>3, ZenonT(60)
    <3>6. \A i \in 1..Len(out') : out'[i] \in DataMarks =>
            /\ out'[i].n <= sent'
            /\ cur' \in Frames => Before(out'[i], cur')
            /\ \A j \in 1..Len(pq') : Before(out'[i], pq'[j])
            /\ \A j \in 1..Len(q') : Before(out'[i], q'[j])
      BY <2>1, <3>2, ZenonT(60)
    <3> QED BY <3>4, <3>5, <3>6, ZenonT(60) DEF Written
  <2> QED BY <2>2, <2>3, ZenonT(60)
<1>11. Ending'
  <2>1. \A i \in 1..Len(out) : out[i] # End
    BY <1>c, <1>p, ZenonT(60) DEF Ending
  <2>2. (\E i \in 1..Len(out') : out'[i] = End) => cur = Close
    BY <1>c, <1>n, <1>u, <1>w, <2>1, EndMark, ZenonT(60)
  <2>3. cur = Close => closing # "no" /\ closeSent /\ pq = <<>> /\ q = <<>>
    BY ZenonT(60) DEF Ending
  <2> QED BY <1>o, <1>p, <2>2, <2>3, ZenonT(60) DEF Ending
<1> QED BY <1>1, <1>2, <1>3, <1>4, <1>5, <1>6, <1>7, <1>8, <1>9, <1>10, <1>11, ZenonT(60)

\* drain: the write fails.
LEMMA DrainFailKeeps ==
  ASSUME WriterInv, NEW d \in drains, DrainFail(d)
  PROVE  WriterInv'
<1> USE DEF WriterInv
<1>s. cur' \in {cur, None} /\ pq' \in {pq, <<>>} /\ q' \in {q, <<>>} /\ UNCHANGED <<sent, out>>
  BY ZenonT(60) DEF DrainFail
<1>1. Types'
  <2>1. cur' \in Frames \cup {Ctl, Close, None} /\ pq' \in Seq(Frames) /\ q' \in Seq(Frames)
    <3>1. cur' \in {cur, None} /\ pq' \in {pq, <<>>} /\ q' \in {q, <<>>}
      BY ZenonT(60) DEF DrainFail
    <3>2. cur \in Frames \cup {Ctl, Close, None} /\ pq \in Seq(Frames) /\ q \in Seq(Frames) /\ <<>> \in Seq(Frames)
      BY EmptyLane, ZenonT(60) DEF Types
    <3> QED BY <3>1, <3>2, ZenonT(60)
  <2>2. queued' \in Nat /\ replies' \in Nat /\ closing' \in {"no", "flush", "drop"} /\ below' \subseteq Feeder
    BY DEF DrainFail, Types
  <2>3. fpc' \in [Feeder -> {"idle", "drain", "check", "wait", "stopping", "gone"}]
    BY ZenonT(60) DEF DrainFail, After, Release, Types
  <2>4. sock' \in {"open", "closed"} /\ UNCHANGED <<sent, pings, out>> /\ drains' \subseteq drains
    BY ZenonT(60) DEF DrainFail
  <2> QED BY <2>1, <2>2, <2>3, <2>4, ZenonT(60) DEF Types
<1>2. Flags'
  BY ZenonT(60) DEF DrainFail, After, Release, Types, lanes, due, ends, Flags
<1>3. Single'
  BY ZenonT(60) DEF DrainFail, Single
<1>4. Busy'
  BY ZenonT(60) DEF DrainFail, Busy, Single
<1>5. Shut'
  BY ZenonT(60) DEF DrainFail, due, Shut
<1>6. NothingStranded'
  BY ZenonT(60) DEF DrainFail, NothingStranded
<1>7. QueuedExact'
  BY ZenonT(60) DEF DrainFail, QueuedExact
<1>8. Waits'
  BY ZenonT(60) DEF DrainFail, After, Release, Types, lanes, due, ends, Waits, QueuedExact, Shut, NothingStranded
<1>9. Lanes'
  BY <1>s, DropsKeep, ZenonT(60)
<1>10. Written'
  BY <1>s, DropsKeep, ZenonT(60)
<1>11. Ending'
  BY ZenonT(60) DEF DrainFail, Ending
<1> QED BY <1>1, <1>2, <1>3, <1>4, <1>5, <1>6, <1>7, <1>8, <1>9, <1>10, <1>11, ZenonT(60)

\* drain: the socket takes some of the block, or none.
LEMMA DrainPartKeeps ==
  ASSUME WriterInv, NEW d \in drains, NEW some \in BOOLEAN, DrainPart(d, some)
  PROVE  WriterInv'
<1> USE DEF WriterInv
<1>s. cur' \in {cur, None} /\ pq' \in {pq, <<>>} /\ q' \in {q, <<>>} /\ UNCHANGED <<sent, out>>
  BY ZenonT(60) DEF DrainPart
<1>1. Types'
  BY DEF DrainPart, After, Types, ends
<1>2. Flags'
  BY ZenonT(60) DEF DrainPart, due, ends, Flags
<1>3. Single'
  BY ZenonT(60) DEF DrainPart, After, Types, lanes, due, ends, Single
<1>4. Busy'
  BY ZenonT(60) DEF DrainPart, Busy, Single
<1>5. Shut'
  BY DEF DrainPart, After, due, ends, Shut
<1>6. NothingStranded'
  BY ZenonT(60) DEF DrainPart, NothingStranded, Single
<1>7. QueuedExact'
  BY ZenonT(60) DEF DrainPart, ends, QueuedExact
<1>8. Waits'
  BY DEF DrainPart, After, ends, Waits
<1>9. Lanes'
  BY <1>s, DropsKeep, ZenonT(60)
<1>10. Written'
  BY <1>s, DropsKeep, ZenonT(60)
<1>11. Ending'
  BY ZenonT(60) DEF DrainPart, ends, Ending
<1> QED BY <1>1, <1>2, <1>3, <1>4, <1>5, <1>6, <1>7, <1>8, <1>9, <1>10, <1>11, ZenonT(60)

\* closeWith, flushing or dropping.
LEMMA CloseWithKeeps ==
  ASSUME WriterInv, NEW flush \in BOOLEAN, CloseWith(flush)
  PROVE  WriterInv'
<1> USE DEF WriterInv
<1>s. cur' \in {cur, None} /\ pq' \in {pq, <<>>} /\ q' \in {q, <<>>} /\ UNCHANGED <<sent, out>>
  BY ZenonT(60) DEF CloseWith, BeginClose
<1>1. Types'
  BY DEF CloseWith, BeginClose, Kick, Drain, Release, Types
<1>2. Flags'
  BY ZenonT(60) DEF CloseWith, BeginClose, Kick, Drain, Release, Types, lanes, due, ends, Flags
<1>3. Single'
  BY ZenonT(60) DEF CloseWith, BeginClose, Kick, Drain, Release, Types, lanes, due, ends, Single
<1>4. Busy'
  BY DEF CloseWith, BeginClose, Kick, Drain, Busy
<1>5. Shut'
  BY ZenonT(60) DEF CloseWith, BeginClose, Shut
<1>6. NothingStranded'
  BY ZenonT(60) DEF CloseWith, Kick, NothingStranded
<1>7. QueuedExact'
  BY ZenonT(60) DEF CloseWith, BeginClose, QueuedExact, Shut
<1>8. Waits'
  BY ZenonT(60) DEF CloseWith, Release, Waits
<1>9. Lanes'
  BY <1>s, DropsKeep, ZenonT(60)
<1>10. Written'
  BY <1>s, DropsKeep, ZenonT(60)
<1>11. Ending'
  BY ZenonT(60) DEF CloseWith, BeginClose, Ending
<1> QED BY <1>1, <1>2, <1>3, <1>4, <1>5, <1>6, <1>7, <1>8, <1>9, <1>10, <1>11, ZenonT(60)

\* abort: the socket is closed at once.
LEMMA AbortKeeps ==
  ASSUME WriterInv, Abort
  PROVE  WriterInv'
<1> USE DEF WriterInv
<1>s. cur' \in {cur, None} /\ pq' \in {pq, <<>>} /\ q' \in {q, <<>>} /\ UNCHANGED <<sent, out>>
  BY ZenonT(60) DEF Abort, BeginClose, lanes
<1>1. Types'
  <2>1. cur' \in Frames \cup {Ctl, Close, None} /\ pq' \in Seq(Frames) /\ q' \in Seq(Frames)
    <3>1. cur' \in {cur, None} /\ pq' \in {pq, <<>>} /\ q' \in {q, <<>>}
      BY ZenonT(60) DEF Abort, BeginClose, lanes
    <3>2. cur \in Frames \cup {Ctl, Close, None} /\ pq \in Seq(Frames) /\ q \in Seq(Frames) /\ <<>> \in Seq(Frames)
      BY EmptyLane, ZenonT(60) DEF Types
    <3> QED BY <3>1, <3>2, ZenonT(60)
  <2>2. queued' \in Nat /\ replies' \in Nat /\ closing' \in {"no", "flush", "drop"} /\ below' \subseteq Feeder
    BY DEF Abort, BeginClose, lanes, Types
  <2>3. fpc' \in [Feeder -> {"idle", "drain", "check", "wait", "stopping", "gone"}]
    BY ZenonT(60) DEF Abort, BeginClose, Release, Types
  <2>4. sock' \in {"open", "closed"} /\ UNCHANGED <<sent, pings, out>> /\ drains' \subseteq drains
    BY ZenonT(60) DEF Abort
  <2> QED BY <2>1, <2>2, <2>3, <2>4, ZenonT(60) DEF Types
<1>2. Flags'
  BY ZenonT(60) DEF Abort, BeginClose, Release, Types, lanes, due, ends, Flags
<1>3. Single'
  BY ZenonT(60) DEF Abort, Single
<1>4. Busy'
  BY ZenonT(60) DEF Abort, BeginClose, lanes, Busy
<1>5. Shut'
  BY ZenonT(60) DEF Abort, BeginClose, due, Shut
<1>6. NothingStranded'
  BY ZenonT(60) DEF Abort, NothingStranded
<1>7. QueuedExact'
  BY ZenonT(60) DEF Abort, BeginClose, lanes, QueuedExact
<1>8. Waits'
  BY ZenonT(60) DEF Abort, BeginClose, Release, Waits
<1>9. Lanes'
  BY <1>s, DropsKeep, ZenonT(60)
<1>10. Written'
  BY <1>s, DropsKeep, ZenonT(60)
<1>11. Ending'
  BY ZenonT(60) DEF Abort, BeginClose, lanes, Ending
<1> QED BY <1>1, <1>2, <1>3, <1>4, <1>5, <1>6, <1>7, <1>8, <1>9, <1>10, <1>11, ZenonT(60)

\* The reader ends.
LEMMA ReaderStopsKeeps ==
  ASSUME WriterInv, ReaderStops
  PROVE  WriterInv'
<1> USE DEF WriterInv
<1>s. cur' \in {cur, None} /\ pq' \in {pq, <<>>} /\ q' \in {q, <<>>} /\ UNCHANGED <<sent, out>>
  BY ZenonT(60) DEF ReaderStops, BeginClose, lanes
<1>1. Types'
  <2>1. cur' \in Frames \cup {Ctl, Close, None} /\ pq' \in Seq(Frames) /\ q' \in Seq(Frames)
    <3>1. cur' \in {cur, None} /\ pq' \in {pq, <<>>} /\ q' \in {q, <<>>}
      BY ZenonT(60) DEF ReaderStops, BeginClose, lanes
    <3>2. cur \in Frames \cup {Ctl, Close, None} /\ pq \in Seq(Frames) /\ q \in Seq(Frames) /\ <<>> \in Seq(Frames)
      BY EmptyLane, ZenonT(60) DEF Types
    <3> QED BY <3>1, <3>2, ZenonT(60)
  <2>2. queued' \in Nat /\ replies' \in Nat /\ closing' \in {"no", "flush", "drop"} /\ below' \subseteq Feeder
    BY DEF ReaderStops, BeginClose, lanes, Types
  <2>3. fpc' \in [Feeder -> {"idle", "drain", "check", "wait", "stopping", "gone"}]
    BY ZenonT(60) DEF ReaderStops, BeginClose, Release, Feeder, Types
  <2>4. sock' \in {"open", "closed"} /\ UNCHANGED <<sent, pings, out>> /\ drains' \subseteq drains
    BY ZenonT(60) DEF ReaderStops, Types
  <2> QED BY <2>1, <2>2, <2>3, <2>4, ZenonT(60) DEF Types
<1>2. Flags'
  BY ZenonT(60) DEF ReaderStops, BeginClose, Release, Feeder, Types, lanes, due, ends, Flags
<1>3. Single'
  BY ZenonT(60) DEF ReaderStops, Single
<1>4. Busy'
  BY ZenonT(60) DEF ReaderStops, BeginClose, lanes, Busy
<1>5. Shut'
  BY ZenonT(60) DEF ReaderStops, BeginClose, due, Shut
<1>6. NothingStranded'
  BY ZenonT(60) DEF ReaderStops, BeginClose, lanes, due, NothingStranded
<1>7. QueuedExact'
  BY ZenonT(60) DEF ReaderStops, BeginClose, Release, Feeder, Types, lanes, due, ends, QueuedExact, Shut, NothingStranded, IsData, MinusOne
<1>8. Waits'
  BY ZenonT(60) DEF ReaderStops, BeginClose, Release, Feeder, Types, lanes, due, ends, Waits, QueuedExact, Shut, NothingStranded
<1>9. Lanes'
  BY <1>s, DropsKeep, ZenonT(60)
<1>10. Written'
  BY <1>s, DropsKeep, ZenonT(60)
<1>11. Ending'
  BY ZenonT(60) DEF ReaderStops, BeginClose, lanes, Ending
<1> QED BY <1>1, <1>2, <1>3, <1>4, <1>5, <1>6, <1>7, <1>8, <1>9, <1>10, <1>11, ZenonT(60)

\* The reader has ended.
LEMMA ReaderDoneKeeps ==
  ASSUME WriterInv, ReaderDone
  PROVE  WriterInv'
<1> USE DEF WriterInv
<1>s. cur' \in {cur, None} /\ pq' \in {pq, <<>>} /\ q' \in {q, <<>>} /\ UNCHANGED <<sent, out>>
  BY ZenonT(60) DEF ReaderDone, lanes
<1>1. Types'
  BY ZenonT(60) DEF ReaderDone, Feeder, Types, lanes
<1>2. Flags'
  BY ZenonT(60) DEF ReaderDone, lanes, due, Flags
<1>3. Single'
  BY ZenonT(60) DEF ReaderDone, Single
<1>4. Busy'
  BY ZenonT(60) DEF ReaderDone, lanes, Busy
<1>5. Shut'
  BY ZenonT(60) DEF ReaderDone, due, Shut
<1>6. NothingStranded'
  BY ZenonT(60) DEF ReaderDone, NothingStranded
<1>7. QueuedExact'
  BY ZenonT(60) DEF ReaderDone, lanes, QueuedExact
<1>8. Waits'
  BY DEF ReaderDone, Waits, Shut
<1>9. Lanes'
  BY <1>s, DropsKeep, ZenonT(60)
<1>10. Written'
  BY <1>s, DropsKeep, ZenonT(60)
<1>11. Ending'
  BY ZenonT(60) DEF ReaderDone, Types, lanes, Ending
<1> QED BY <1>1, <1>2, <1>3, <1>4, <1>5, <1>6, <1>7, <1>8, <1>9, <1>10, <1>11, ZenonT(60)
\* The invariant holds of a new connection.
LEMMA WriterInit == Init => WriterInv
<1> SUFFICES ASSUME Init PROVE WriterInv
  BY ZenonT(60)
<1>1. Types
  BY DEF Init, Types
<1>2. Flags
  BY ZenonT(60) DEF Init, Flags
<1>3. cur \notin Frames /\ cur # Close
  BY ZenonT(60) DEF Init
<1>4. QueuedExact
  BY <1>3, AnswersEmpty DEF Init, QueuedExact
<1>5. Single /\ Busy /\ Shut /\ NothingStranded /\ Waits
  BY ZenonT(60) DEF Init, Single, Busy, Shut, NothingStranded, Waits, Feeder
<1>6. Lanes /\ Written /\ Ending
  BY <1>3 DEF Init, Lanes, Written, Ending
<1> QED BY <1>1, <1>2, <1>4, <1>5, <1>6, ZenonT(60) DEF WriterInv

\* Every step keeps it.
LEMMA WriterNext == WriterInv /\ [Next]_vars => WriterInv'
<1> SUFFICES ASSUME WriterInv, [Next]_vars PROVE WriterInv'
  BY ZenonT(60)
<1>0. ASSUME NEW f \in Feeder, NEW own \in BOOLEAN, Enqueue(f, own) PROVE WriterInv'
  BY <1>0, EnqueueKeeps, ZenonT(60)
<1>1. ASSUME NEW f \in Feeder, Wait(f) \/ SenderCloses(f) PROVE WriterInv'
  BY <1>1, WaitKeeps, SenderClosesKeeps, ZenonT(60)
<1>2. CASE Ping \/ AnswerPing
  BY <1>2, PingKeeps, AnswerPingKeeps, ZenonT(60)
<1>3. ASSUME NEW d \in drains, DrainPick(d) \/ DrainEnd(d) \/ DrainWhole(d) \/ DrainFail(d) PROVE WriterInv'
  BY <1>3, DrainPickKeeps, DrainEndKeeps, DrainWholeKeeps, DrainFailKeeps, ZenonT(60)
<1>4. ASSUME NEW d \in drains, NEW some \in BOOLEAN, DrainPart(d, some) PROVE WriterInv'
  BY <1>4, DrainPartKeeps, ZenonT(60)
<1>5. ASSUME NEW flush \in BOOLEAN, CloseWith(flush) PROVE WriterInv'
  BY <1>5, CloseWithKeeps, ZenonT(60)
<1>6. CASE Abort \/ ReaderStops \/ ReaderDone
  BY <1>6, AbortKeeps, ReaderStopsKeeps, ReaderDoneKeeps, ZenonT(60)
<1>7. CASE UNCHANGED vars
  <2>1. UNCHANGED <<cur, part, pq, q, queued, replies, pingDue, pongDue, writing, drains, closing, closeFrame,
                   closeSent, readerDone, sock, below, fpc, sent, failed, pings, out>>
    BY <1>7, ZenonT(60) DEF vars, lanes, due, ends
  <2>2. Types' /\ Flags' /\ Single' /\ Busy' /\ Shut' /\ NothingStranded'
    BY <2>1, ZenonT(60) DEF WriterInv, Types, Flags, Single, Busy, Shut, NothingStranded
  <2>3. QueuedExact' /\ Waits' /\ Lanes' /\ Written' /\ Ending'
    BY <2>1, ZenonT(60) DEF WriterInv, QueuedExact, Waits, Lanes, Written, Ending
  <2> QED BY <2>2, <2>3, ZenonT(60) DEF WriterInv
<1> QED BY <1>0, <1>1, <1>2, <1>3, <1>4, <1>5, <1>6, <1>7, ZenonT(60) DEF Next

\* It gives the property.
LEMMA WriterGives == WriterInv => WriterKept
<1> SUFFICES ASSUME WriterInv PROVE WriterKept
  BY ZenonT(60)
<1>1. TypeOK
  BY AreMarks, ZenonT(60) DEF WriterInv, Types, Flags, TypeOK
<1>2. Cardinality(drains) <= 1
  <2>1. CASE drains = {}
    BY <2>1, FS_EmptySet
  <2>2. CASE drains # {}
    <3>1. PICK d \in drains : TRUE
      BY <2>2, ZenonT(60)
    <3>2. drains = {d}
      BY <3>1, ZenonT(60) DEF WriterInv, Single
    <3>3. Cardinality(drains) = 1
      BY <3>2, FS_Singleton, ZenonT(60)
    <3> QED BY <3>3
  <2> QED BY <2>1, <2>2, ZenonT(60)
<1>3. OneWriter
  BY <1>1, <1>2, ZenonT(60) DEF OneWriter, WriterInv, Single
<1>4. InOrder
  <2> SUFFICES ASSUME NEW i \in 1..Len(out), NEW j \in 1..Len(out), i < j
               PROVE  /\ out[i] # End
                      /\ out[j] # End /\ out[i].own = out[j].own => out[i].n < out[j].n
    BY ZenonT(60) DEF InOrder, End
  <2>1. out \in Seq(DataMarks \cup {End})
    BY ZenonT(60) DEF WriterInv, Types
  <2>2. out[j] \in DataMarks \cup {End}
    BY <2>1
  <2>3. out[i] # End /\ (out[j] \in DataMarks => Before(out[i], out[j]))
    BY ZenonT(60) DEF WriterInv, Written
  <2> QED BY <2>2, <2>3, ZenonT(60) DEF Before
<1>5. WaitersAreServed
  BY ZenonT(60) DEF WriterInv, Waits, WaitersAreServed
<1> QED BY <1>3, <1>4, <1>5, ZenonT(60) DEF WriterKept, WriterInv

\* kickLocked, drain, finishedLocked, waitFor: for any feeders, frames, limits and pings, one
\* drain writes at a time, nothing is queued without one, what is counted as queued is what is
\* queued, a feeder that waits has a wake-up coming, and each lane is written in its order.
THEOREM WriterHolds == Spec => []WriterKept
<1>1. Spec => []WriterInv
  BY WriterInit, WriterNext, PTL DEF Spec
<1> QED BY <1>1, WriterGives, PTL

\* drain, enqueueLocked: a frame partly on the wire is finished before anything else of the
\* connection's is written.
THEOREM FramesWhole == Spec => NeverTorn
<1>1. Spec => []WriterInv
  BY WriterInit, WriterNext, PTL DEF Spec
<1>2. ASSUME WriterInv, [Next]_vars
      PROVE  [part /\ cur # Ctl /\ cur' # cur => sock' = "closed" \/ out' = Append(out, Mark(cur))]_vars
  <2> SUFFICES ASSUME Next, part, cur # Ctl, cur' # cur
               PROVE  sock' = "closed" \/ out' = Append(out, Mark(cur))
    BY <1>2, ZenonT(60)
  <2>1. cur # None /\ writing
    BY <1>2, ZenonT(60) DEF WriterInv, Busy
  <2>2. ASSUME NEW f \in Feeder, NEW own \in BOOLEAN, Enqueue(f, own) PROVE FALSE
    BY <2>1, <2>2, ZenonT(60) DEF Enqueue
  <2>3. ASSUME NEW f \in Feeder, Wait(f) \/ SenderCloses(f) PROVE FALSE
    BY <2>3, ZenonT(60) DEF Wait, SenderCloses, lanes
  <2>4. CASE Ping \/ AnswerPing
    BY <2>4, ZenonT(60) DEF Ping, AnswerPing, lanes
  <2>5. ASSUME NEW d \in drains, DrainPick(d) PROVE FALSE
    <3>1. Pick = "cur"
      BY <2>1, ZenonT(60) DEF Pick
    <3> QED BY <2>5, <3>1, ZenonT(60) DEF DrainPick
  <2>6. ASSUME NEW d \in drains, DrainEnd(d) PROVE FALSE
    BY <2>6, ZenonT(60) DEF DrainEnd, lanes
  <2>7. ASSUME NEW d \in drains, DrainWhole(d) PROVE out' = Append(out, Mark(cur))
    BY <2>7, ZenonT(60) DEF DrainWhole
  <2>8. ASSUME NEW d \in drains, DrainFail(d) PROVE sock' = "closed"
    BY <2>8, ZenonT(60) DEF DrainFail
  <2>9. ASSUME NEW d \in drains, NEW some \in BOOLEAN, DrainPart(d, some) PROVE FALSE
    BY <2>9, ZenonT(60) DEF DrainPart
  <2>10. ASSUME NEW flush \in BOOLEAN, CloseWith(flush) PROVE FALSE
    BY <2>10, ZenonT(60) DEF CloseWith, BeginClose
  <2>11. CASE Abort
    BY <2>11, ZenonT(60) DEF Abort
  <2>12. CASE ReaderStops \/ ReaderDone
    BY <2>12, ZenonT(60) DEF ReaderStops, ReaderDone, BeginClose, lanes
  <2> QED BY <2>2, <2>3, <2>4, <2>5, <2>6, <2>7, <2>8, <2>9, <2>10, <2>11, <2>12, ZenonT(60) DEF Next
<1> QED BY <1>1, <1>2, PTL DEF Spec, NeverTorn
=============================================================================
