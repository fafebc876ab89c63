--------------------------- MODULE ControlBudget ----------------------------
(***************************************************************************)
(* The budgets for control read ahead of shaping                           *)
(* (relay/internal/relay: network.go's allowControl, controlCeilingLocked, *)
(* limits.go's allow, read.go's holdUnless): each member's own, and a      *)
(* ceiling for the network that follows the rate in force.                 *)
(*                                                                         *)
(* A budget is one theoretical arrival time: it refills one unit of time   *)
(* per unit of time and holds a burst.  Connections' readers read the      *)
(* clock before they take the network's lock, so times may come out of     *)
(* order; a member's budget is shared by its connections, of which there   *)
(* are two while one that was replaced still handles its last frame.       *)
(* The rate in force changes with the quota and the limits (module         *)
(* Shaping), here at any time.  Mark starts the window the properties are  *)
(* about: any window, since it may happen at any time.                     *)
(***************************************************************************)
EXTENDS Integers

CONSTANTS
    Member,
    Reader,       \* connections
    MemberOf,     \* the member each connection is registered as
    Size,         \* sizes of control frames
    Rate,         \* rates in force there may be (0: none)
    Second,       \* one second, in the clock's unit
    CtlRate, CtlBurst,        \* ctlRate, ctlBurst
    NetCtlRate, NetCtlBurst,  \* netCtlRate, netCtlBurst
    MaxTime,      \* bound: the clock
    NoTime        \* the zero time

ASSUME BudgetAssumption ==
    /\ MemberOf \in [Reader -> Member]
    /\ Size \subseteq Nat /\ Rate \subseteq Nat
    /\ Second \in Nat /\ MaxTime \in Nat
    /\ CtlRate \in Nat \ {0} /\ CtlBurst \in Nat
    /\ NetCtlRate \in Nat \ {0} /\ NetCtlBurst \in Nat
    /\ NoTime \notin Nat

VARIABLES
    now,
    inForce,    \* the rate shapeRateLocked returns
    memberCtl,  \* each member's budget, by node id
    ctlTAT,     \* the network's
    reader,     \* the time each connection's reader read before it waits for the lock, or NoTime
    mark,       \* history: when the window began
    spent,      \* history: what each member's budget gave to frames timed since then
    netSpent    \* history: what the network's gave

budgetVars == <<now, inForce, memberCtl, ctlTAT, reader, mark, spent, netSpent>>

BudgetInit ==
    /\ now = 0 /\ inForce \in Rate
    /\ memberCtl = [m \in Member |-> 0] /\ ctlTAT = 0
    /\ reader = [c \in Reader |-> NoTime]
    /\ mark = 0 /\ spent = [m \in Member |-> 0] /\ netSpent = 0

Larger(a, b) == IF a >= b THEN a ELSE b
Smaller(a, b) == IF a <= b THEN a ELSE b

\* The time a budget of this rate takes to give size bytes.
Cost(size, rate) == (size * Second) \div rate

\* controlCeilingLocked: at most half the rate in force, and at least four members' bursts.
CeilingRate(r) ==
    IF r > 0 THEN Larger(1, Smaller(NetCtlRate, r \div 2)) ELSE NetCtlRate
CeilingBurst(r) ==
    IF r > 0 THEN Smaller(NetCtlBurst, Larger(4 * CtlBurst, CeilingRate(r))) ELSE NetCtlBurst

\* What a frame costs a member's budget and the network's, and what each may hold.
Own(size) == Cost(size, CtlRate)
Net(size) == Cost(size, CeilingRate(inForce))
OwnBurst  == Cost(CtlBurst, CtlRate)
NetBurst(r) == Cost(CeilingBurst(r), CeilingRate(r))

\* allow: where the budget would be, and whether it has that much.
Next1(tat, t, cost) == Larger(tat, t) + cost
Allows(tat, t, cost, burst) == Next1(tat, t, cost) - t <= burst

-----------------------------------------------------------------------------

\* A held reader comes to a control frame, and reads the clock.
Held(c) ==
    /\ reader[c] = NoTime
    /\ reader' = [reader EXCEPT ![c] = now]
    /\ UNCHANGED <<now, inForce, memberCtl, ctlTAT, mark, spent, netSpent>>

\* Variant: the budget is spent from where it was, however long ago that is.
AllowControlSaved(c, size) ==
    /\ reader[c] # NoTime
    /\ LET t == reader[c]
           m == MemberOf[c]
           own == memberCtl[m] + Own(size)
           net == Next1(ctlTAT, t, Net(size))
       IN  /\ own - t <= OwnBurst
           /\ Allows(ctlTAT, t, Net(size), NetBurst(inForce))
           /\ memberCtl' = [memberCtl EXCEPT ![m] = own]
           /\ ctlTAT' = net
           /\ spent' = IF t >= mark THEN [spent EXCEPT ![m] = @ + Own(size)] ELSE spent
           /\ netSpent' = IF t >= mark THEN netSpent + Net(size) ELSE netSpent
    /\ reader' = [reader EXCEPT ![c] = NoTime]
    /\ UNCHANGED <<now, inForce, mark>>

\* Variant: only the member's own budget is looked at.
AllowControlOwn(c, size) ==
    /\ reader[c] # NoTime
    /\ LET t == reader[c]
           m == MemberOf[c]
       IN  /\ Allows(memberCtl[m], t, Own(size), OwnBurst)
           /\ memberCtl' = [memberCtl EXCEPT ![m] = Next1(@, t, Own(size))]
           /\ ctlTAT' = Next1(ctlTAT, t, Net(size))
           /\ spent' = IF t >= mark THEN [spent EXCEPT ![m] = @ + Own(size)] ELSE spent
           /\ netSpent' = IF t >= mark THEN netSpent + Net(size) ELSE netSpent
    /\ reader' = [reader EXCEPT ![c] = NoTime]
    /\ UNCHANGED <<now, inForce, mark>>

\* allowControl: both have it, and both are spent.
AllowControl(c, size) ==
    /\ reader[c] # NoTime
    /\ LET t == reader[c]
           m == MemberOf[c]
       IN  /\ Allows(memberCtl[m], t, Own(size), OwnBurst)
           /\ Allows(ctlTAT, t, Net(size), NetBurst(inForce))
           /\ memberCtl' = [memberCtl EXCEPT ![m] = Next1(@, t, Own(size))]
           /\ ctlTAT' = Next1(ctlTAT, t, Net(size))
           /\ spent' = IF t >= mark THEN [spent EXCEPT ![m] = @ + Own(size)] ELSE spent
           /\ netSpent' = IF t >= mark THEN netSpent + Net(size) ELSE netSpent
    /\ reader' = [reader EXCEPT ![c] = NoTime]
    /\ UNCHANGED <<now, inForce, mark>>

\* Variant: a refusal gives back what it did not take.
RefuseControlRefunds(c, size) ==
    /\ reader[c] # NoTime
    /\ LET t == reader[c]
           m == MemberOf[c]
       IN  /\ ~(/\ Allows(memberCtl[m], t, Own(size), OwnBurst)
                /\ Allows(ctlTAT, t, Net(size), NetBurst(inForce)))
           /\ memberCtl' = [memberCtl EXCEPT ![m] = @ - Own(size)]
    /\ reader' = [reader EXCEPT ![c] = NoTime]
    /\ UNCHANGED <<now, inForce, ctlTAT, mark, spent, netSpent>>

\* allowControl: one of them lacks it, and neither is spent; the frame waits like data.
RefuseControl(c, size) ==
    /\ reader[c] # NoTime
    /\ LET t == reader[c]
           m == MemberOf[c]
       IN  ~(/\ Allows(memberCtl[m], t, Own(size), OwnBurst)
             /\ Allows(ctlTAT, t, Net(size), NetBurst(inForce)))
    /\ reader' = [reader EXCEPT ![c] = NoTime]
    /\ UNCHANGED <<now, inForce, memberCtl, ctlTAT, mark, spent, netSpent>>

\* The rate in force changes.
Reshaped ==
    /\ inForce' \in Rate
    /\ UNCHANGED <<now, memberCtl, ctlTAT, reader, mark, spent, netSpent>>

Mark ==
    /\ mark' = now
    /\ spent' = [m \in Member |-> 0] /\ netSpent' = 0
    /\ UNCHANGED <<now, inForce, memberCtl, ctlTAT, reader>>

Tick ==
    /\ now < MaxTime
    /\ now' = now + 1
    /\ UNCHANGED <<inForce, memberCtl, ctlTAT, reader, mark, spent, netSpent>>

BudgetNext ==
    \/ \E c \in Reader : Held(c) \/ \E size \in Size : AllowControl(c, size) \/ RefuseControl(c, size)
    \/ Reshaped \/ Mark \/ Tick

BudgetSpec == BudgetInit /\ [][BudgetNext]_budgetVars

-----------------------------------------------------------------------------
(* Properties. *)

\* The types of the variables.
BudgetTypeOK ==
    /\ now \in Nat /\ inForce \in Rate
    /\ memberCtl \in [Member -> Nat] /\ ctlTAT \in Nat
    /\ reader \in [Reader -> Nat \cup {NoTime}]
    /\ mark \in Nat /\ spent \in [Member -> Nat] /\ netSpent \in Nat

\* In any window, a member's budget gives at most its burst and what refilled in the window,
\* whatever order the times it is given come in ("4096 bytes per second, with 131072 bytes of
\* burst", protocol section 9).
MemberBounded == \A m \in Member : spent[m] <= OwnBurst + (now - mark)

\* In any window, the network's ceiling gives at most one of its bursts and what refilled in
\* the window, however the rate in force changes in it.
NetworkBounded == \E r \in Rate : netSpent <= NetBurst(r) + (now - mark)

=============================================================================
