------------------------------- MODULE Stamps -------------------------------
(***************************************************************************)
(* The stamps of handshake inits (src/client-go/member.go nextStamp;       *)
(* sessions.go lastStamp, rosterAdded, retainedStamps, rosterChanged and   *)
(* the stamp check of onInit).  An init can be kept by the relay and sent  *)
(* again at any later time: its stamp is all that tells it from a new one. *)
(* Members' wall clocks may be put forward or back, both sides restart,    *)
(* and members leave the responder's roster and are admitted again.        *)
(*                                                                         *)
(* One responder; every init any member ever sent it stays in `sent'.      *)
(* `now' is time itself, which the monotonic clocks follow; a wall clock   *)
(* is `now' plus an offset.                                                *)
(***************************************************************************)
EXTENDS Integers, Sequences, FiniteSets

CONSTANTS
  Member,       \* the initiators
  W,            \* stampWindowMs
  RetainedCap,  \* retainedCap
  Start,        \* when it begins
  MaxTime,      \* bound on time
  Offsets,      \* offsets wall clocks may have
  MaxSent,      \* bound: inits sent
  MaxEvents     \* bound: clock steps, restarts, leaves and admissions

ASSUME StampsAssumption == W \in Nat /\ Start \in Nat /\ Offsets \subseteq Int

VARIABLES
  now, off, roff,   \* time, and the offsets of the members' and the responder's clocks
  last,      \* last[m]: the last stamp m sent since it started
  sent,      \* every init sent
  roster,    \* the responder's roster
  stamps,    \* stamps[m]: the greatest accepted from m (0: none)
  retained, order,   \* retainedStamps
  started,   \* startedMono
  added,     \* addedMono (0: since the start)
  taken,     \* history: the inits accepted since the responder started
  forgot,    \* history: the members whose retained stamp was pushed out since
  twice,     \* history: an init of another member was accepted again
  events

stampVars == <<now, off, roff, last, sent, roster, stamps, retained, order, started, added,
          taken, forgot, twice, events>>
clocks == <<now, off, roff>>
responder == <<roster, stamps, retained, order, started, added, taken, forgot, twice>>

Zero == [m \in Member |-> 0]

StampInit ==
  /\ now = Start /\ off \in [Member -> Offsets] /\ roff \in Offsets
  /\ last = Zero /\ sent = {}
  /\ roster = Member /\ stamps = Zero /\ retained = Zero /\ order = <<>>
  /\ started = Start /\ added = Zero /\ taken = {} /\ forgot = {}
  /\ twice = FALSE /\ events = 0

Larger(i, j) == IF i > j THEN i ELSE j

-----------------------------------------------------------------------------
nextStampAfter(wall, lastStamp) ==
  IF wall > 0 /\ wall > lastStamp + 1 THEN wall ELSE lastStamp + 1

\* initiate: an init with the next stamp.
Initiate(m) ==
  LET stamp == nextStampAfter(now + off[m], last[m])
  IN  /\ Cardinality(sent) < MaxSent
      /\ last' = [last EXCEPT ![m] = stamp]
      /\ sent' = sent \cup {[m |-> m, stamp |-> stamp, at |-> now]}
      /\ UNCHANGED <<clocks, responder, events>>

\* Variant: W is added and not taken off.
floorLate(m) == Larger(now + roff - (now - Larger(started, added[m])) + W, 0)

\* lastStamp: the greater of the stamp stored and the floor, which is when the
\* responder started or the member was added, in wall time now, less W.
floor(m) == Larger(now + roff - (now - Larger(started, added[m])) - W, 0)
lastStamp(m) == Larger(stamps[m], floor(m))

Accepts(f) ==
  /\ f.m \in roster
  /\ f.stamp <= Larger(now + roff, 0) + W
  /\ f.stamp > lastStamp(f.m)

\* onInit: an init arrives, for the first time or again.
Arrive(f) ==
  /\ Accepts(f)
  /\ stamps' = [stamps EXCEPT ![f.m] = f.stamp]
  /\ taken' = taken \cup {f}
  /\ twice' = (twice \/ (f \in taken /\ f.m \notin forgot))
  /\ UNCHANGED <<clocks, last, sent, roster, retained, order, started, added, forgot, events>>

-----------------------------------------------------------------------------
Event == events < MaxEvents /\ events' = events + 1

Without(m) == SelectSeq(order, LAMBDA x : x # m)

\* put: the last stamps of ids that left, the oldest beyond the cap pushed out.
put(m) ==
  LET ids == Append(Without(m), m)
      gone == IF Len(ids) > RetainedCap THEN {Head(ids)} ELSE {}
  IN  /\ order' = IF gone = {} THEN ids ELSE Tail(ids)
      /\ retained' = [x \in Member |-> IF x \in gone THEN 0
                                       ELSE IF x = m THEN stamps[m] ELSE retained[x]]
      /\ forgot' = forgot \cup gone

\* rosterChanged: a member leaves the roster.
Leave(m) ==
  /\ m \in roster /\ Event
  /\ roster' = roster \ {m}
  /\ added' = [added EXCEPT ![m] = 0]
  /\ stamps' = [stamps EXCEPT ![m] = 0]
  /\ IF stamps[m] = 0 THEN UNCHANGED <<order, retained, forgot>> ELSE put(m)
  /\ UNCHANGED <<clocks, last, sent, started, taken, twice>>

\* Variant: what was retained is not looked up.
takeNone(m) == 0

\* take: the stamp retained from before the member left (0: none).
take(m) == retained[m]

\* rosterAdded: a member is admitted, again or for the first time.
Admit(m) ==
  /\ m \notin roster /\ Event
  /\ roster' = roster \cup {m}
  /\ added' = [added EXCEPT ![m] = now]
  /\ stamps' = [stamps EXCEPT ![m] = take(m)]
  /\ retained' = [retained EXCEPT ![m] = 0] /\ order' = Without(m)
  /\ UNCHANGED <<clocks, last, sent, started, taken, forgot, twice>>

\* newSessionManager: the responder starts again, with nothing stored.
Restart ==
  /\ Event /\ started' = now
  /\ stamps' = Zero /\ retained' = Zero /\ order' = <<>> /\ added' = Zero
  /\ taken' = {} /\ forgot' = {}
  /\ UNCHANGED <<clocks, last, sent, roster, twice>>

\* A member starts again: its stamps come from its wall clock alone.
MemberRestart(m) ==
  /\ last[m] # 0 /\ Event
  /\ last' = [last EXCEPT ![m] = 0]
  /\ UNCHANGED <<clocks, sent, responder>>

Tick == now < MaxTime /\ now' = now + 1
        /\ UNCHANGED <<off, roff, last, sent, responder, events>>

\* A wall clock is put right, or wrong.
ClockStep ==
  /\ Event
  /\ \/ \E m \in Member, o \in Offsets : off' = [off EXCEPT ![m] = o] /\ UNCHANGED roff
     \/ roff' \in Offsets /\ UNCHANGED off
  /\ UNCHANGED <<now, last, sent, responder>>

StampNext ==
  \/ \E m \in Member : Initiate(m) \/ Leave(m) \/ Admit(m) \/ MemberRestart(m)
  \/ \E f \in sent : Arrive(f)
  \/ Restart \/ Tick \/ ClockStep

StampSpec == StampInit /\ [][StampNext]_stampVars

-----------------------------------------------------------------------------
StampTypeOK ==
  /\ now \in Nat /\ started \in Nat /\ added \in [Member -> Nat]
  /\ roff \in Int /\ off \in [Member -> Int] /\ last \in [Member -> Nat]
  /\ roster \subseteq Member
  /\ stamps \in [Member -> Nat] /\ retained \in [Member -> Nat]
  /\ sent \subseteq [m : Member, stamp : Nat \ {0}, at : Nat] /\ taken \subseteq sent
  /\ twice \in BOOLEAN

(* No init is accepted twice while the responder runs: once accepted it stays refused,
   while its member is on the roster, off it and admitted again, whatever the clocks do,
   unless more ids have left since than stamps are retained (sessions.go, onInit,
   rosterChanged, rosterAdded). *)
NeverTwice == StampTypeOK /\ ~twice

(* A fresh init is never refused: one that arrives promptly from a member whose clock is
   less than W from the responder's, whose stamp is its clock's and above all it sent
   before, is accepted, unless it was already; however recently the responder started
   or the member was admitted (sessions.go, lastStamp; member.go, nextStamp). *)
FreshAccepted ==
  \A f \in sent :
    /\ f.at = now /\ f.m \in roster /\ f \notin taken
    /\ f.stamp = now + off[f.m]
    /\ off[f.m] - roff < W /\ roff - off[f.m] < W
    /\ \A g \in sent : g.m = f.m /\ g # f => g.stamp < f.stamp
    => Accepts(f)

-----------------------------------------------------------------------------
(* Said of the code and not true of it (README, "Differences"). *)

\* protocol.md section 7.1: "A registered member is never refused by `F`: its clock is at most
\* `W` behind." An init must be stamped after F, and a clock exactly W behind stamps it F in
\* the millisecond of joining.
NeverBelowFloor ==
  \A f \in sent :
    f.at = now /\ f.stamp = now + off[f.m] /\ roff - off[f.m] <= W => f.stamp > floor(f.m)
=============================================================================
