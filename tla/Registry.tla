------------------------------ MODULE Registry ------------------------------
(***************************************************************************)
(* The relay's registry for one network id: which network object the       *)
(* server's table holds, the effective roster of each object, and which    *)
(* connection stands for each member (relay/internal/relay/network.go,     *)
(* server.go).                                                             *)
(*                                                                         *)
(* Atomicity follows the locks.  One action is one critical section under  *)
(* network.mu (and netShard.mu where the code also holds it).  The closes  *)
(* that admit and pushRoster do after unlocking are steps of their own:    *)
(* evict, demoted and old are the handler's local variables while it is    *)
(* there, and any other connection's step may come in between.             *)
(*                                                                         *)
(* A connection is used once, as in the code: Conn is the supply of        *)
(* sockets, Obj the supply of *network values.  roster[o] = None is an     *)
(* object not made yet.  net[c] # None is stateRegistered.                 *)
(***************************************************************************)
EXTENDS Integers, FiniteSets

CONSTANTS
    Conn,     \* the connections that may be made
    Node,     \* node ids
    Obj,      \* the *network values that may be allocated for the id
    Rosters,  \* the validly signed rosters of the network
    None      \* nil

ASSUME RosterAssumption ==
    /\ Rosters \subseteq [version : Nat, members : SUBSET Node, primary : Node]
    /\ \A r \in Rosters : r.primary \in r.members

ASSUME NoneAssumption == None \notin Conn /\ None \notin Obj /\ None \notin Rosters /\ None \notin Node

VARIABLES
    held,     \* sh.m[id]: the object in the server's table
    roster,   \* n.roster
    compact,  \* n.roster.Raw == nil
    members,  \* n.members
    rpc,      \* where the connection's reader is
    net,      \* c.network
    id,       \* c.id
    closing,  \* "open", or why the connection was closed first
    evict,    \* the handler's evict: to be closed 4008
    demoted,  \* the handler's demoted
    old,      \* the handler's old: to be closed 4005
    latest    \* history: the last connection admitted for each node

vars == <<held, roster, compact, members, rpc, net, id, closing, evict, demoted, old, latest>>

netVars == <<held, roster, compact, members>>
jobVars == <<evict, demoted, old>>

Codes == {"open", "notMember", "replaced", "other"}

Empty(o) == \A x \in Node : members[o][x] = None

Init ==
    /\ held = None
    /\ roster = [o \in Obj |-> None]
    /\ compact = [o \in Obj |-> FALSE]
    /\ members = [o \in Obj |-> [x \in Node |-> None]]
    /\ rpc = [c \in Conn |-> "new"]
    /\ net = [c \in Conn |-> None]
    /\ id = [c \in Conn |-> None]
    /\ closing = [c \in Conn |-> "open"]
    /\ evict = [c \in Conn |-> {}]
    /\ demoted = [c \in Conn |-> None]
    /\ old = [c \in Conn |-> None]
    /\ latest = [x \in Node |-> None]

-----------------------------------------------------------------------------
(* Closing a connection: only the first close counts (beginCloseLocked).   *)

CloseWith(c, code) ==
    closing' = [closing EXCEPT ![c] = IF @ = "open" THEN code ELSE @]

-----------------------------------------------------------------------------
(* The reader. *)

\* upgrade: the connection is in the server's table and its reader runs.
Upgrade(c) ==
    /\ rpc[c] = "new"
    /\ rpc' = [rpc EXCEPT ![c] = "read"]
    /\ UNCHANGED <<netVars, net, id, closing, jobVars, latest>>

\* run: a data frame is begun only on a connection that is not closing; the body
\* may take long (shaping, a slow peer), and it is handled even if the connection
\* was closed meanwhile.
BeginFrame(c) ==
    /\ rpc[c] = "read"
    /\ closing[c] = "open"
    /\ rpc' = [rpc EXCEPT ![c] = "frame"]
    /\ UNCHANGED <<netVars, net, id, closing, jobVars, latest>>

\* A frame whose handler changes nothing here (routed frames, usage, errors).
OtherFrame(c) ==
    /\ rpc[c] = "frame"
    /\ net[c] # None
    /\ rpc' = [rpc EXCEPT ![c] = "read"]
    /\ UNCHANGED <<netVars, net, id, closing, jobVars, latest>>

\* The reader stops: the peer went away or sent its close, a read timed out, a frame
\* was malformed, a registration failed steps 1 to 5, or the address may not register or
\* make another network yet (ipRegister, ipNetworks). finalize closes first.
Finish(c) ==
    /\ rpc[c] \in {"read", "frame"}
    /\ rpc' = [rpc EXCEPT ![c] = "leave"]
    /\ CloseWith(c, "other")
    /\ UNCHANGED <<netVars, net, id, jobVars, latest>>

\* Any of the relay's other reasons to close a connection from outside its reader:
\* a missed pong, a slow peer, a drain, a shutdown.
Abort(c) ==
    /\ rpc[c] \notin {"new", "gone"}
    /\ closing[c] = "open"
    /\ CloseWith(c, "other")
    /\ UNCHANGED <<netVars, rpc, net, id, jobVars, latest>>

-----------------------------------------------------------------------------
(* Rosters. *)

\* adoptLocked: r replaces o's roster. The connections of the nodes it drops leave
\* members and are returned to be closed, and so is the former primary's connection
\* when r names another member primary.
Dropped(o, r) == {x \in Node \ r.members : members[o][x] # None}

Demoted(o, r) ==
    LET p == roster[o].primary
    IN  IF r.primary # p /\ p \in r.members THEN members[o][p] ELSE None

Kept(o, r) == [x \in Node |-> IF x \in r.members THEN members[o][x] ELSE None]

AdoptLocked(c, o, r) ==
    /\ roster' = [roster EXCEPT ![o] = r]
    /\ compact' = [compact EXCEPT ![o] = FALSE]
    /\ evict' = [evict EXCEPT ![c] = {members[o][x] : x \in Dropped(o, r)}]
    /\ demoted' = [demoted EXCEPT ![c] = Demoted(o, r)]

\* Variant: any roster with the same members restores.
RestoresAny(o, r) == compact[o] /\ r.members = roster[o].members

\* The roster the compact record was cut from, back whole.
Restores(o, r) ==
    /\ compact[o]
    /\ r.version = roster[o].version
    /\ r.members = roster[o].members

-----------------------------------------------------------------------------
(* admit: node x registers on c and presents roster r. *)

\* The member part: c stands for x in o from now on, and what it replaces is closed later.
Enter(c, o, x, ms) ==
    /\ members' = [members EXCEPT ![o] = [ms EXCEPT ![x] = c]]
    /\ net' = [net EXCEPT ![c] = o]
    /\ id' = [id EXCEPT ![c] = x]
    /\ old' = [old EXCEPT ![c] = ms[x]]
    /\ latest' = [latest EXCEPT ![x] = c]
    /\ rpc' = [rpc EXCEPT ![c] = "after"]

\* The relay holds nothing for the id: a member's roster starts an object, anyone
\* else is refused.
RegisterNew(c, x, r) ==
    /\ rpc[c] = "frame"
    /\ net[c] = None
    /\ held = None
    /\ x \in r.members
    /\ \E o \in Obj :
        /\ roster[o] = None
        /\ held' = o
        /\ roster' = [roster EXCEPT ![o] = r]
        /\ Enter(c, o, x, members[o])
    /\ UNCHANGED <<compact, closing, evict, demoted>>

RefuseNew(c, x, r) ==
    /\ rpc[c] = "frame"
    /\ net[c] = None
    /\ held = None
    /\ x \notin r.members
    /\ CloseWith(c, "notMember")
    /\ rpc' = [rpc EXCEPT ![c] = "leave"]
    /\ UNCHANGED <<netVars, net, id, jobVars, latest>>

\* r is newer: it becomes the relay's before membership is judged, so a node r leaves
\* out is refused by the roster it presented itself.
RegisterNewer(c, x, r) ==
    /\ rpc[c] = "frame"
    /\ net[c] = None
    /\ held # None
    /\ r.version > roster[held].version
    /\ AdoptLocked(c, held, r)
    /\ IF x \in r.members
       THEN Enter(c, held, x, Kept(held, r))
       ELSE /\ members' = [members EXCEPT ![held] = Kept(held, r)]
            /\ rpc' = [rpc EXCEPT ![c] = "refuse"]
            /\ UNCHANGED <<net, id, old, latest>>
    /\ UNCHANGED <<held, closing>>

\* r is older, or the same version: the relay's roster judges. A roster of the same
\* version brings a compact record back whole when it lists the same members.
RegisterHeld(c, x, r) ==
    /\ rpc[c] = "frame"
    /\ net[c] = None
    /\ held # None
    /\ r.version <= roster[held].version
    /\ roster' = [roster EXCEPT ![held] = IF Restores(held, r) THEN r ELSE @]
    /\ compact' = [compact EXCEPT ![held] = @ /\ ~Restores(held, r)]
    /\ IF x \in roster[held].members
       THEN Enter(c, held, x, members[held])
       ELSE /\ rpc' = [rpc EXCEPT ![c] = "refuse"]
            /\ UNCHANGED <<members, net, id, old, latest>>
    /\ UNCHANGED <<held, closing, evict, demoted>>

\* pushRoster: a registered connection hands the relay a roster. It is taken when
\* newer than that of the object the connection registered with, held or not, and
\* whether or not the connection still stands for its node there.
PushRoster(c, r) ==
    /\ rpc[c] = "frame"
    /\ net[c] # None
    /\ LET o == net[c]
       IN  IF r.version <= roster[o].version
           THEN /\ rpc' = [rpc EXCEPT ![c] = "read"]
                /\ UNCHANGED <<roster, compact, members, evict, demoted>>
           ELSE /\ AdoptLocked(c, o, r)
                /\ members' = [members EXCEPT ![o] = Kept(o, r)]
                /\ rpc' = [rpc EXCEPT ![c] = "after"]
    /\ UNCHANGED <<held, net, id, closing, old, latest>>

-----------------------------------------------------------------------------
(* What admit and pushRoster do once they hold no lock. *)

CloseEvicted(c) ==
    /\ rpc[c] \in {"after", "refuse"}
    /\ \E e \in evict[c] :
        /\ CloseWith(e, "notMember")
        /\ evict' = [evict EXCEPT ![c] = @ \ {e}]
    /\ UNCHANGED <<netVars, rpc, net, id, demoted, old, latest>>

\* demoted.demote(): the former primary keeps its connection. (Its pairing channels are
\* the subject of module Pairing.)
Demote(c) ==
    /\ rpc[c] \in {"after", "refuse"}
    /\ evict[c] = {}
    /\ demoted[c] # None
    /\ demoted' = [demoted EXCEPT ![c] = None]
    /\ UNCHANGED <<netVars, rpc, net, id, closing, evict, old, latest>>

\* Variant: the connection to close is looked up after unlocking.
CloseCurrent(c) ==
    /\ rpc[c] = "after"
    /\ evict[c] = {}
    /\ demoted[c] = None
    /\ LET now == members[net[c]][id[c]]
       IN  IF now \in {None, c} THEN UNCHANGED closing ELSE CloseWith(now, "replaced")
    /\ old' = [old EXCEPT ![c] = None]
    /\ rpc' = [rpc EXCEPT ![c] = "read"]
    /\ UNCHANGED <<netVars, net, id, evict, demoted, latest>>

CloseReplaced(c) ==
    /\ rpc[c] = "after"
    /\ evict[c] = {}
    /\ demoted[c] = None
    /\ IF old[c] = None THEN UNCHANGED closing ELSE CloseWith(old[c], "replaced")
    /\ old' = [old EXCEPT ![c] = None]
    /\ rpc' = [rpc EXCEPT ![c] = "read"]
    /\ UNCHANGED <<netVars, net, id, evict, demoted, latest>>

CloseRefused(c) ==
    /\ rpc[c] = "refuse"
    /\ evict[c] = {}
    /\ demoted[c] = None
    /\ CloseWith(c, "notMember")
    /\ rpc' = [rpc EXCEPT ![c] = "leave"]
    /\ UNCHANGED <<netVars, net, id, jobVars, latest>>

-----------------------------------------------------------------------------
(* Leaving, and forgetting networks nobody is connected to. *)

\* Variant: the node is taken out whoever stands for it.
UnregisterAny(c) ==
    /\ rpc[c] = "leave"
    /\ IF net[c] # None
       THEN members' = [members EXCEPT ![net[c]][id[c]] = None]
       ELSE UNCHANGED members
    /\ rpc' = [rpc EXCEPT ![c] = "gone"]
    /\ UNCHANGED <<held, roster, compact, net, id, closing, jobVars, latest>>

\* unregister: only a connection that still stands for its node takes the node out.
Unregister(c) ==
    /\ rpc[c] = "leave"
    /\ IF net[c] # None /\ members[net[c]][id[c]] = c
       THEN members' = [members EXCEPT ![net[c]][id[c]] = None]
       ELSE UNCHANGED members
    /\ rpc' = [rpc EXCEPT ![c] = "gone"]
    /\ UNCHANGED <<held, roster, compact, net, id, closing, jobVars, latest>>

\* janitorLoop and trimIdle forget the network when it is empty. (When the TTL has
\* passed, or the budget is short, is left open; module IdleRosters has the budget.)
Forget ==
    /\ held # None
    /\ Empty(held)
    /\ held' = None
    /\ UNCHANGED <<roster, compact, members, rpc, net, id, closing, jobVars, latest>>

\* trimIdle cuts an empty network's roster to its version and member ids.
Compact ==
    /\ held # None
    /\ Empty(held)
    /\ ~compact[held]
    /\ compact' = [compact EXCEPT ![held] = TRUE]
    /\ UNCHANGED <<held, roster, members, rpc, net, id, closing, jobVars, latest>>

-----------------------------------------------------------------------------

Register(c) ==
    \E x \in Node, r \in Rosters :
        RegisterNew(c, x, r) \/ RefuseNew(c, x, r) \/ RegisterNewer(c, x, r) \/ RegisterHeld(c, x, r)

AfterUnlock(c) == CloseEvicted(c) \/ Demote(c) \/ CloseReplaced(c) \/ CloseRefused(c)

ConnStep(c) ==
    \/ Upgrade(c)
    \/ BeginFrame(c)
    \/ OtherFrame(c)
    \/ Finish(c)
    \/ Abort(c)
    \/ Register(c)
    \/ \E r \in Rosters : PushRoster(c, r)
    \/ AfterUnlock(c)
    \/ Unregister(c)

Next == (\E c \in Conn : ConnStep(c)) \/ Forget \/ Compact

Spec == Init /\ [][Next]_vars

-----------------------------------------------------------------------------
(* Properties. *)

\* The types of the registry's variables, and nil closed under what each may hold.
TypeOK ==
    /\ held \in Obj \cup {None}
    /\ roster \in [Obj -> Rosters \cup {None}]
    /\ compact \in [Obj -> BOOLEAN]
    /\ members \in [Obj -> [Node -> Conn \cup {None}]]
    /\ rpc \in [Conn -> {"new", "read", "frame", "after", "refuse", "leave", "gone"}]
    /\ net \in [Conn -> Obj \cup {None}]
    /\ id \in [Conn -> Node \cup {None}]
    /\ closing \in [Conn -> Codes]
    /\ evict \in [Conn -> SUBSET Conn]
    /\ demoted \in [Conn -> Conn \cup {None}]
    /\ old \in [Conn -> Conn \cup {None}]
    /\ latest \in [Node -> Conn \cup {None}]

\* A close is already on its way to c: some handler has it in its evict or old.
CloseDue(c) == \E d \in Conn : c \in evict[d] \/ old[d] = c

\* A registered connection that is open, and that no handler is about to close, stands for
\* its node in the object the table holds, and the effective roster lists that node: no
\* interleaving of admissions, replacements, evictions, departures and forgetting strands a
\* live member where nobody can reach it, or keeps a revoked one (admit, adoptLocked,
\* unregister, janitorLoop, trimIdle).
LiveIsReachable ==
    \A c \in Conn :
        net[c] # None /\ closing[c] = "open" /\ ~CloseDue(c) =>
            /\ net[c] = held
            /\ members[held][id[c]] = c
            /\ id[c] \in roster[held].members

\* When several connections of one node race, the last one admitted is never told it was
\* replaced (4005 makes a client stop for good), so a node cannot lose all its connections
\* to each other (admit's closing of old after it unlocks).
LatestNotReplaced ==
    \A x \in Node : latest[x] # None => closing[latest[x]] # "replaced"

\* An object's roster never goes back to an older version, and at the same version it keeps
\* its member list, so a revoked node is not let back in by an old or a restored roster
\* (admit's and pushRoster's version comparisons, trimIdle's compact record).
NoRollback ==
    [][\A o \in Obj : roster[o] # None =>
          /\ roster'[o].version >= roster[o].version
          /\ roster'[o].version = roster[o].version => roster'[o].members = roster[o].members]_vars

-----------------------------------------------------------------------------
(* Said of the code and not true of it (README, "Differences"). *)

\* When an object's roster comes to name another primary and still lists the former one, the
\* former one's connection, if it stays, is demoted ("the former primary's connection when the
\* roster names another member primary: that one stays, demoted in place", adoptLocked).
FormerPrimaryDemoted ==
    [][\A o \in Obj :
          LET p == roster[o].primary
          IN  roster[o] # None /\ roster'[o].primary # p /\ p \in roster'[o].members
                /\ members[o][p] # None /\ members'[o][p] = members[o][p]
                => \E c \in Conn : demoted'[c] = members[o][p]]_vars

=============================================================================
