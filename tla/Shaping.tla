------------------------------ MODULE Shaping -------------------------------
(***************************************************************************)
(* What the relay charges one network, and what it tells its members       *)
(* (relay/internal/relay: network.go's chargeLocked, reshapeLocked,        *)
(* shapingLoop, reshapeAll, usageRequest; limits.go's hourWindow;          *)
(* limits_file.go's ReloadLimits).                                         *)
(*                                                                         *)
(* The hour's window decides whether the quota is spent, and so which rate *)
(* is in force; members hold the last notice they were sent.  An action    *)
(* is one critical section under the network's lock.  Handlers read the    *)
(* clock before they take the lock, so a section may run with a time that  *)
(* is behind another's.  The clock counts five-minute steps, and no        *)
(* handler is more than one step late.                                     *)
(***************************************************************************)
EXTENDS Integers, Functions

CONSTANTS
    Member,
    Limits,      \* the limits the environment or a limits file may set:
                 \* [rate : Nat, quota : Nat, trickle : Nat]
    HourSlots,   \* hourSlots
    MaxTime,     \* bound: steps of the clock
    MaxCharges,  \* bound: charges
    MaxReloads,  \* bound: reloads of the limits
    None

ASSUME ShapingAssumption ==
    /\ \A l \in Limits : l.rate \in Nat /\ l.quota \in Nat /\ l.trickle \in Nat
    /\ HourSlots \in Nat \ {0} /\ MaxTime \in Nat /\ MaxCharges \in Nat /\ MaxReloads \in Nat
    /\ None \notin Nat

VARIABLES
    clock,
    lim,        \* what limitsOf(n) returns
    hour,       \* the network's hourWindow
    rateNow, slowed,
    watched,    \* the network is in slowNets
    members,
    told,       \* history: the last shaping notice each member was sent
    hpc,        \* each member's reader: None, or what it is about to do and the time it read
    loop,       \* the shaping loop has the network in its list
    reload,     \* reshapeAll has yet to look at the network: None, or the time it read
    charged,    \* history: bytes charged at each step of the clock
    charges, reloads

net  == <<hour, rateNow, slowed, watched, told>>
vars == <<clock, lim, net, members, hpc, loop, reload, charged, charges, reloads>>

Time == 0..MaxTime
Slots == 0..(HourSlots - 1)

Notice(r, s) == [rate |-> r, slowed |-> s]

Init ==
    /\ clock = 0
    /\ lim \in Limits
    /\ hour = [slots |-> [i \in Slots |-> 0], sum |-> 0, step |-> 0]
    /\ rateNow = 0 /\ slowed = FALSE /\ watched = FALSE
    /\ members = {} /\ told = [m \in Member |-> None]
    /\ hpc = [m \in Member |-> None]
    /\ loop = FALSE /\ reload = None
    /\ charged = [t \in Time |-> 0] /\ charges = 0 /\ reloads = 0

-----------------------------------------------------------------------------
(* hourWindow. *)

SlotsOf(steps) == {s % HourSlots : s \in steps}
SumOver(f, S) == SumFunctionOnSet(f, S)

\* The slots of the steps after w's, up to t.
Gone(w, t) == IF t - w.step >= HourSlots THEN Slots ELSE SlotsOf((w.step + 1)..t)

\* Variant: the sum keeps what the slots lose.
AdvanceKeeps(w, t) ==
    [slots |-> [i \in Slots |-> IF i \in Gone(w, t) THEN 0 ELSE w.slots[i]], sum |-> w.sum, step |-> t]

\* advance: the slots of the steps passed are emptied. The step is set to t's, also when t is
\* behind it.
Advance(w, t) ==
    [slots |-> [i \in Slots |-> IF i \in Gone(w, t) THEN 0 ELSE w.slots[i]],
     sum   |-> w.sum - SumOver(w.slots, Gone(w, t)),
     step  |-> t]

\* add
Add(w, size, t) ==
    LET v == Advance(w, t)
    IN  [v EXCEPT !.slots[t % HourSlots] = @ + size, !.sum = @ + size]

-----------------------------------------------------------------------------
(* reshapeLocked. *)

\* quotaLocked looks at the window, and so brings it up to date, only under a quota.
QuotaLocked(w, t) == IF lim.quota > 0 THEN Advance(w, t) ELSE w

\* shapingLocked, for the window quotaLocked leaves.
SlowedBy(w) == lim.quota > 0 /\ w.sum >= lim.quota /\ lim.trickle > 0
InForce(w)  == Notice(IF SlowedBy(w) THEN lim.trickle ELSE lim.rate, SlowedBy(w))
Changed(w)  == InForce(w) # Notice(rateNow, slowed)

\* Variant: only the trickle's start and end are told.
ReshapeSlowed(w, ms) ==
    /\ hour' = w
    /\ rateNow' = InForce(w).rate /\ slowed' = SlowedBy(w)
    /\ told' = [m \in Member |-> IF m \in ms /\ SlowedBy(w) # slowed THEN InForce(w) ELSE told[m]]
    /\ watched' = (watched \/ (Changed(w) /\ SlowedBy(w)))

\* reshapeLocked with the window w: members ms are told what changed.
Reshape(w, ms) ==
    /\ hour' = w
    /\ rateNow' = InForce(w).rate /\ slowed' = SlowedBy(w)
    /\ told' = [m \in Member |-> IF m \in ms /\ Changed(w) THEN InForce(w) ELSE told[m]]
    /\ watched' = (watched \/ (Changed(w) /\ SlowedBy(w)))

-----------------------------------------------------------------------------
(* Members. *)

\* admit: told right after registered, whether or not the shaping changed.
Register(m) ==
    /\ m \notin members
    /\ LET w == QuotaLocked(hour, clock)
       IN  /\ members' = members \cup {m}
           /\ hour' = w
           /\ rateNow' = InForce(w).rate /\ slowed' = SlowedBy(w)
           /\ told' = [x \in Member |->
                  IF x = m \/ (x \in members /\ Changed(w)) THEN InForce(w) ELSE told[x]]
           /\ watched' = (watched \/ SlowedBy(w))
    /\ UNCHANGED <<clock, lim, hpc, loop, reload, charged, charges, reloads>>

\* unregister
Leave(m) ==
    /\ m \in members /\ hpc[m] = None
    /\ members' = members \ {m}
    /\ told' = [told EXCEPT ![m] = None]
    /\ UNCHANGED <<clock, lim, hour, rateNow, slowed, watched, hpc, loop, reload, charged, charges, reloads>>

\* A handler reads the clock (route, charge, allowControl, usageRequest) ...
Handles(m, what) ==
    /\ m \in members /\ hpc[m] = None
    /\ what = "charge" => charges < MaxCharges
    /\ hpc' = [hpc EXCEPT ![m] = [what |-> what, t |-> clock]]
    /\ charges' = IF what = "charge" THEN charges + 1 ELSE charges
    /\ UNCHANGED <<clock, lim, net, members, loop, reload, charged, reloads>>

Done(m) == hpc' = [hpc EXCEPT ![m] = None]

\* ... and then takes the network's lock: chargeLocked,
Charge(m) ==
    /\ hpc[m] # None /\ hpc[m].what = "charge"
    /\ Reshape(Add(hour, 1, hpc[m].t), members)
    /\ charged' = [charged EXCEPT ![hpc[m].t] = @ + 1]
    /\ Done(m)
    /\ UNCHANGED <<clock, lim, members, loop, reload, charges, reloads>>

\* controlCeilingLocked,
Control(m) ==
    /\ hpc[m] # None /\ hpc[m].what = "control"
    /\ Reshape(QuotaLocked(hour, hpc[m].t), members)
    /\ Done(m)
    /\ UNCHANGED <<clock, lim, members, loop, reload, charged, charges, reloads>>

\* or quotaLocked and, quota or not, the hour's total, for the primary's usage: the window is
\* brought up to date and nobody is told.
Usage(m) ==
    /\ hpc[m] # None /\ hpc[m].what = "usage"
    /\ hour' = Advance(QuotaLocked(hour, hpc[m].t), hpc[m].t)
    /\ Done(m)
    /\ UNCHANGED <<clock, lim, rateNow, slowed, watched, told, members, loop, reload, charged, charges, reloads>>

-----------------------------------------------------------------------------
(* The shaping loop and the limits. *)

\* shapingLoop: the networks to look at are copied under slowMu ...
LoopTakes ==
    /\ watched /\ ~loop
    /\ loop' = TRUE
    /\ UNCHANGED <<clock, lim, net, members, hpc, reload, charged, charges, reloads>>

\* Variant: what the loop forgets is decided by what it saw when it took its list.
LoopVisitsForgets ==
    /\ loop
    /\ loop' = FALSE
    /\ LET w == IF members = {} THEN hour ELSE QuotaLocked(hour, clock)
       IN  /\ hour' = w
           /\ IF members = {} THEN UNCHANGED <<rateNow, slowed, told>>
              ELSE /\ rateNow' = InForce(w).rate /\ slowed' = SlowedBy(w)
                   /\ told' = [m \in Member |-> IF m \in members /\ Changed(w) THEN InForce(w) ELSE told[m]]
           /\ watched' = FALSE
    /\ UNCHANGED <<clock, lim, members, hpc, reload, charged, charges, reloads>>

\* Variant: the window is taken as the last charge left it.
LoopVisitsStale ==
    /\ loop
    /\ loop' = FALSE
    /\ watched' = (members # {})
    /\ UNCHANGED <<clock, lim, hour, rateNow, slowed, told, members, hpc, reload, charged, charges, reloads>>

\* ... and each is looked at under its lock, and forgotten when it is not slowed any more or
\* nobody is connected.
LoopVisits ==
    /\ loop
    /\ loop' = FALSE
    /\ LET w == IF members = {} THEN hour ELSE QuotaLocked(hour, clock)
       IN  /\ hour' = w
           /\ IF members = {} THEN UNCHANGED <<rateNow, slowed, told>>
              ELSE /\ rateNow' = InForce(w).rate /\ slowed' = SlowedBy(w)
                   /\ told' = [m \in Member |-> IF m \in members /\ Changed(w) THEN InForce(w) ELSE told[m]]
           /\ watched' = (members # {} /\ SlowedBy(w))
    /\ UNCHANGED <<clock, lim, members, hpc, reload, charged, charges, reloads>>

\* Variant: limits take effect as networks are next charged.
ReloadLimitsLazy(l) ==
    /\ reload = None /\ reloads < MaxReloads
    /\ lim' = l
    /\ reloads' = reloads + 1
    /\ UNCHANGED <<clock, net, members, hpc, loop, reload, charged, charges>>

\* ReloadLimits: the new limits are stored, and reshapeAll reads the clock ...
ReloadLimits(l) ==
    /\ reload = None /\ reloads < MaxReloads
    /\ lim' = l
    /\ reload' = clock
    /\ reloads' = reloads + 1
    /\ UNCHANGED <<clock, net, members, hpc, loop, charged, charges>>

\* ... and in time comes to this network.
ReshapeAll ==
    /\ reload # None
    /\ Reshape(QuotaLocked(hour, reload), members)
    /\ reload' = None
    /\ UNCHANGED <<clock, lim, members, hpc, loop, charged, charges, reloads>>

\* The clock moves on; nobody is more than one step late.
Tick ==
    /\ clock < MaxTime
    /\ \A m \in Member : hpc[m] # None => hpc[m].t = clock
    /\ reload # None => reload = clock
    /\ clock' = clock + 1
    /\ UNCHANGED <<lim, net, members, hpc, loop, reload, charged, charges, reloads>>

-----------------------------------------------------------------------------

\* shapingLoop
Loop == LoopTakes \/ LoopVisits

Next ==
    \/ Tick
    \/ \E m \in Member :
          \/ Register(m) \/ Leave(m)
          \/ \E what \in {"charge", "control", "usage"} : Handles(m, what)
          \/ Charge(m) \/ Control(m) \/ Usage(m)
    \/ Loop
    \/ \E l \in Limits : ReloadLimits(l)
    \/ ReshapeAll

Spec == Init /\ [][Next]_vars

(* The shaping loop runs once a second. *)
FairSpec == Spec /\ WF_vars(Loop)

-----------------------------------------------------------------------------
(* Properties. *)

\* What was charged in the hour that ends now, and what the window makes of it.
InHour  == SumOver(charged, {s \in Time : clock - HourSlots < s /\ s <= clock})
Counted == Advance(hour, clock).sum

\* The last notice each connected member was sent is the shaping in force as the relay has
\* it: notices go out under the network's lock, in the order the changes happened, and a
\* member that registers between them is told too.
ToldCurrent == \A m \in members : told[m] = Notice(rateNow, slowed)

\* The rate in force is the one the limits set, or their trickle; it is the trickle whenever
\* the window has spent the quota, and never when the limits have no quota or no trickle.  So the
\* trickle is never late to start; it may be late to lift, after a usage request that brought
\* the window up to date without a reshape (LiftIsTold has it lift).  A reload that has yet to
\* come to this network is excepted, and a network nobody is connected to.
ShapingCurrent ==
    reload = None /\ members # {} =>
        /\ rateNow = IF slowed THEN lim.trickle ELSE lim.rate
        /\ SlowedBy(hour) => slowed
        /\ slowed => lim.quota > 0 /\ lim.trickle > 0

\* A slowed network with a member connected is one the shaping loop will look at, though the
\* loop forgets networks while members register, leave and spend the quota.
SlowedIsWatched == slowed /\ members # {} => watched

\* The window's sum is that of its slots, and it never counts more than was charged in the
\* last hour, however late the times it is given are.
HourSound ==
    /\ hour.sum = SumOver(hour.slots, Slots)
    /\ Counted <= InHour

\* reshape and charge: members know the shaping in force; it is the limits' rate or trickle,
\* the trickle as soon as the window has spent the quota; the loop watches a slowed network; and
\* the window counts no more than was charged.
ShapingSound == ToldCurrent /\ ShapingCurrent /\ SlowedIsWatched /\ HourSound

\* The trickle lifts with the window, with or without traffic, and the members hear of it.
LiftIsTold ==
    members # {} /\ slowed /\ ~SlowedBy(Advance(hour, clock))
        ~> \/ members = {} \/ SlowedBy(Advance(hour, clock))
           \/ ~slowed /\ \A m \in members : ~told[m].slowed

-----------------------------------------------------------------------------
(* Said of the code and not true of it (README, "Differences"). *)

\* The window counts all that was charged in the last hour ("hourWindow counts bytes over the last
\* hour").
HourExact == Counted = InHour

=============================================================================
