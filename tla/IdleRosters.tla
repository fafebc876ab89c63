---------------------------- MODULE IdleRosters ----------------------------
(***************************************************************************)
(* The memory budget for the rosters of networks nobody is connected to    *)
(* (relay/internal/relay/idle.go), with the parts of admit, pushRoster,    *)
(* unregister and janitorLoop that enter and leave its accounting.         *)
(*                                                                         *)
(* One action is one critical section under network.mu; trimIdle's loop is *)
(* two, because it picks a victim under idle.mu, lets go, and takes the    *)
(* victim's own locks after.  Nodes are not told apart here: a connection  *)
(* in mem[o] stands for some member, and a registration or a newer roster  *)
(* may take others out of mem[o] (replaced, evicted).  Those still have    *)
(* c.network = o until their own unregister.                               *)
(***************************************************************************)
EXTENDS Integers, Sequences, FiniteSets, Functions

CONSTANTS
    NetId,         \* network ids
    Obj,         \* the *network values that may be allocated
    Conn,        \* the connections that may be made
    Owner,       \* client addresses
    Ip,          \* Ip[c]: the address of connection c
    Sizes,       \* how many members a roster may list
    RawBytes,    \* signed bytes of a roster for each member it lists
    Limit,       \* LINK_IDLE_ROSTERS_BYTES
    MaxVersion,  \* bound on roster versions
    Expires,     \* whether LINK_NETWORK_TTL may pass while the behaviour lasts
    None

ASSUME IdleAssumption ==
    /\ Ip \in [Conn -> Owner] /\ IsFiniteSet(Owner)
    /\ Sizes \subseteq Nat /\ RawBytes \in Nat
    /\ Limit \in Nat \ {0} /\ MaxVersion \in Nat \ {0} /\ Expires \in BOOLEAN
    /\ None \notin NetId /\ None \notin Obj

VARIABLES
    table,   \* sh.m: the object held for each network id
    netId,   \* n.id; None for an object not made yet
    ver,     \* n.roster.Version
    count,   \* len(n.roster.Members)
    full,    \* n.roster.Raw != nil
    mem,     \* the connections in n.members
    at,      \* c.network
    pc,      \* where the connection is
    victim,  \* trimIdle's n
    order,   \* each address's idle networks, longest idle first
    size,    \* n.idleSize
    owned,   \* idleOwner.bytes
    bytes    \* idleRosters.bytes

netVars  == <<table, netId, ver, count, full, mem>>
idleVars == <<order, size, owned, bytes>>
vars     == <<netVars, at, pc, victim, idleVars>>

Init ==
    /\ table = [n \in NetId |-> None]
    /\ netId = [o \in Obj |-> None]
    /\ ver = [o \in Obj |-> 0]
    /\ count = [o \in Obj |-> 0]
    /\ full = [o \in Obj |-> FALSE]
    /\ mem = [o \in Obj |-> {}]
    /\ at = [c \in Conn |-> None]
    /\ pc = [c \in Conn |-> "new"]
    /\ victim = [c \in Conn |-> None]
    /\ order = [w \in Owner |-> <<>>]
    /\ size = [o \in Obj |-> 0]
    /\ owned = [w \in Owner |-> 0]
    /\ bytes = 0

-----------------------------------------------------------------------------
(* The accounting. *)

RosterCost(k, whole) == IF whole THEN 64 + RawBytes * k + 88 * k ELSE 64 + 56 * k

\* n.idleAt != nil
Idle(o) == \E w \in Owner : o \in Range(order[w])

\* list.Remove of the element n.idleAt.
Without(s, o) ==
    LET k == CHOOSE i \in DOMAIN s : s[i] = o
    IN  SubSeq(s, 1, k - 1) \o SubSeq(s, k + 1, Len(s))

OwnerOf(o) == CHOOSE w \in Owner : o \in Range(order[w])

Resize(o, new) ==
    /\ size' = [size EXCEPT ![o] = new]
    /\ owned' = [owned EXCEPT ![OwnerOf(o)] = @ + new - size[o]]
    /\ bytes' = bytes + new - size[o]

RemoveIdle(o) ==
    /\ Resize(o, 0)
    /\ order' = [order EXCEPT ![OwnerOf(o)] = Without(@, o)]

PushIdle(o, w, new) ==
    /\ order' = [order EXCEPT ![w] = Append(@, o)]
    /\ size' = [size EXCEPT ![o] = new]
    /\ owned' = [owned EXCEPT ![w] = @ + new]
    /\ bytes' = bytes + new

\* Variant: a network a member joins again stays listed.
SyncIdleKeep(o, w, ms, new) ==
    IF ms # {}
    THEN UNCHANGED idleVars
    ELSE IF Idle(o) THEN Resize(o, new) /\ UNCHANGED order ELSE PushIdle(o, w, new)

\* syncIdleLocked, with the members and the roster cost the step leaves o with.
SyncIdleLocked(o, w, ms, new) ==
    IF ms # {}
    THEN IF Idle(o) THEN RemoveIdle(o) ELSE UNCHANGED idleVars
    ELSE IF Idle(o) THEN Resize(o, new) /\ UNCHANGED order ELSE PushIdle(o, w, new)

\* dropIdleLocked
DropIdleLocked(o) == IF Idle(o) THEN RemoveIdle(o) ELSE UNCHANGED idleVars

-----------------------------------------------------------------------------
(* Registrations and pushes, as the accounting sees them. *)

\* adoptLocked's part in the accounting: a newer roster, of k members, held whole.
Adopt(o, k) ==
    /\ ver[o] < MaxVersion
    /\ ver' = [ver EXCEPT ![o] = @ + 1]
    /\ count' = [count EXCEPT ![o] = k]
    /\ full' = [full EXCEPT ![o] = TRUE]

\* admit with the network unknown: a new object, with c its first member.
Create(c, n) ==
    /\ pc[c] = "new"
    /\ table[n] = None
    /\ \E o \in Obj, k \in Sizes :
        /\ netId[o] = None
        /\ table' = [table EXCEPT ![n] = o]
        /\ netId' = [netId EXCEPT ![o] = n]
        /\ ver' = [ver EXCEPT ![o] = 1]
        /\ count' = [count EXCEPT ![o] = k]
        /\ full' = [full EXCEPT ![o] = TRUE]
        /\ mem' = [mem EXCEPT ![o] = {c}]
        /\ at' = [at EXCEPT ![c] = o]
    /\ pc' = [pc EXCEPT ![c] = "in"]
    /\ UNCHANGED <<victim, idleVars>>

\* admit with an older roster or the same version. The same version brings a compact record
\* back whole, whoever presents it; for a member, at most the node's former connection
\* leaves mem.
Join(c, n) ==
    /\ pc[c] = "new"
    /\ table[n] # None
    /\ LET o == table[n]
       IN  \E replaced \in {{}} \cup {{d} : d \in mem[o]}, restore, member \in BOOLEAN :
            LET ms == IF member THEN (mem[o] \ replaced) \cup {c} ELSE mem[o]
            IN  /\ mem' = [mem EXCEPT ![o] = ms]
                /\ full' = [full EXCEPT ![o] = @ \/ restore]
                /\ at' = [at EXCEPT ![c] = IF member THEN o ELSE None]
                /\ pc' = [pc EXCEPT ![c] = IF member THEN "in" ELSE "gone"]
                /\ SyncIdleLocked(o, Ip[c], ms, RosterCost(count[o], full'[o]))
    /\ UNCHANGED <<table, netId, ver, count, victim>>

\* admit with a newer roster, by a member of it or not. One it refuses has no c.network,
\* so its unregister does not come back to the accounting.
JoinNewer(c, n) ==
    /\ pc[c] = "new"
    /\ table[n] # None
    /\ LET o == table[n]
       IN  \E gone \in SUBSET mem[o], k \in Sizes, member \in BOOLEAN :
            LET ms == (mem[o] \ gone) \cup (IF member THEN {c} ELSE {})
            IN  /\ Adopt(o, k)
                /\ mem' = [mem EXCEPT ![o] = ms]
                /\ at' = [at EXCEPT ![c] = IF member THEN o ELSE None]
                /\ pc' = [pc EXCEPT ![c] = IF member THEN "in" ELSE "gone"]
                /\ SyncIdleLocked(o, Ip[c], ms, RosterCost(k, TRUE))
    /\ UNCHANGED <<table, netId, victim>>

\* pushRoster on the object c registered with.
Push(c) ==
    /\ pc[c] = "in"
    /\ LET o == at[c]
       IN  \E gone \in SUBSET mem[o], k \in Sizes :
            /\ Adopt(o, k)
            /\ mem' = [mem EXCEPT ![o] = @ \ gone]
            /\ SyncIdleLocked(o, Ip[c], mem[o] \ gone, RosterCost(k, TRUE))
    /\ UNCHANGED <<table, netId, at, pc, victim>>

-----------------------------------------------------------------------------
(* Leaving, and making room. *)

\* unregister up to its trimIdle.
Unregister(c) ==
    /\ pc[c] = "in"
    /\ LET o == at[c]
       IN  /\ mem' = [mem EXCEPT ![o] = @ \ {c}]
           /\ SyncIdleLocked(o, Ip[c], mem[o] \ {c}, RosterCost(count[o], full[o]))
    /\ pc' = [pc EXCEPT ![c] = "trim"]
    /\ UNCHANGED <<table, netId, ver, count, full, at, victim>>

\* trimIdle's check under idle.mu: done within the budget, else the longest idle network
\* of an address that holds the most.
TrimPick(c) ==
    /\ pc[c] = "trim"
    /\ bytes > Limit
    /\ \E w \in Owner :
        /\ order[w] # <<>>
        /\ \A v \in Owner : owned[v] <= owned[w]
        /\ victim' = [victim EXCEPT ![c] = Head(order[w])]
    /\ pc' = [pc EXCEPT ![c] = "cut"]
    /\ UNCHANGED <<netVars, at, idleVars>>

TrimDone(c) ==
    /\ pc[c] = "trim"
    /\ bytes <= Limit \/ \A w \in Owner : order[w] = <<>>
    /\ pc' = [pc EXCEPT ![c] = "gone"]
    /\ victim' = [victim EXCEPT ![c] = None]
    /\ UNCHANGED <<netVars, at, idleVars>>

\* Variant: a roster is cut without counting it again.
TrimCutUncounted(c) ==
    /\ pc[c] = "cut"
    /\ LET o == victim[c]
       IN  IF Idle(o) /\ mem[o] = {} /\ table[netId[o]] = o
           THEN IF full[o]
                THEN /\ full' = [full EXCEPT ![o] = FALSE]
                     /\ order' = [order EXCEPT ![OwnerOf(o)] = Append(Without(@, o), o)]
                     /\ UNCHANGED <<table, size, owned, bytes>>
                ELSE /\ table' = [table EXCEPT ![netId[o]] = None]
                     /\ DropIdleLocked(o)
                     /\ UNCHANGED full
           ELSE UNCHANGED <<table, full, idleVars>>
    /\ pc' = [pc EXCEPT ![c] = "trim"]
    /\ UNCHANGED <<netId, ver, count, mem, at, victim>>

\* Under the victim's locks: a full roster is cut and goes behind the owner's others, a
\* compact one is forgotten, and one that is not idle or not held any more is left alone.
TrimCut(c) ==
    /\ pc[c] = "cut"
    /\ LET o == victim[c]
       IN  IF Idle(o) /\ mem[o] = {} /\ table[netId[o]] = o
           THEN IF full[o]
                THEN /\ full' = [full EXCEPT ![o] = FALSE]
                     /\ Resize(o, RosterCost(count[o], FALSE))
                     /\ order' = [order EXCEPT ![OwnerOf(o)] = Append(Without(@, o), o)]
                     /\ UNCHANGED table
                ELSE /\ table' = [table EXCEPT ![netId[o]] = None]
                     /\ DropIdleLocked(o)
                     /\ UNCHANGED full
           ELSE UNCHANGED <<table, full, idleVars>>
    /\ pc' = [pc EXCEPT ![c] = "trim"]
    /\ UNCHANGED <<netId, ver, count, mem, at, victim>>

\* janitorLoop: where TTLs expire, an empty network's may have passed at any time.
Janitor(n) ==
    /\ Expires
    /\ table[n] # None
    /\ mem[table[n]] = {}
    /\ table' = [table EXCEPT ![n] = None]
    /\ DropIdleLocked(table[n])
    /\ UNCHANGED <<netId, ver, count, full, mem, at, pc, victim>>

-----------------------------------------------------------------------------

Trim(c) == TrimPick(c) \/ TrimDone(c) \/ TrimCut(c)

Next ==
    \/ \E c \in Conn, n \in NetId : Create(c, n) \/ Join(c, n) \/ JoinNewer(c, n)
    \/ \E c \in Conn : Push(c) \/ Unregister(c) \/ Trim(c)
    \/ \E n \in NetId : Janitor(n)

Spec == Init /\ [][Next]_vars

\* unregister runs on the connection's own goroutine, which nothing suspends.
FairSpec == Spec /\ \A c \in Conn : WF_vars(Trim(c))

-----------------------------------------------------------------------------
(* Properties. *)

\* The types of the accounting's variables.
TypeOK ==
    /\ table \in [NetId -> Obj \cup {None}]
    /\ netId \in [Obj -> NetId \cup {None}]
    /\ ver \in [Obj -> 0..MaxVersion]
    /\ count \in [Obj -> Sizes \cup {0}]
    /\ full \in [Obj -> BOOLEAN]
    /\ mem \in [Obj -> SUBSET Conn]
    /\ at \in [Conn -> Obj \cup {None}]
    /\ pc \in [Conn -> {"new", "in", "trim", "cut", "gone"}]
    /\ victim \in [Conn -> Obj \cup {None}]
    /\ \A w \in Owner : order[w] \in Seq(Obj)
    /\ size \in [Obj -> Nat]
    /\ owned \in [Owner -> Nat]
    /\ bytes \in Nat

\* The totals that trimIdle decides by are exact: what is listed is listed once, each
\* listed network counts what its roster costs now (adopted, restored or cut since it went
\* idle), and the addresses' bytes and the relay's are the sums (syncIdleLocked,
\* resizeLocked, removeLocked).
BooksBalance ==
    /\ TypeOK
    /\ \A w \in Owner : IsInjective(order[w])
    /\ \A v, w \in Owner : v # w => Range(order[v]) \cap Range(order[w]) = {}
    /\ \A o \in Obj : size[o] = IF Idle(o) THEN RosterCost(count[o], full[o]) ELSE 0
    /\ \A w \in Owner : owned[w] = SumFunctionOnSet(size, Range(order[w]))
    /\ bytes = SumFunction(owned)

\* A held network is in the accounting exactly while nobody is connected to it, so none
\* escapes the budget, and none with a member connected is ever a candidate to be cut; and
\* a network with a member connected is the one held for its id.
IdleIffEmpty ==
    /\ \A n \in NetId : table[n] # None => (Idle(table[n]) <=> mem[table[n]] = {})
    /\ \A o \in Obj : mem[o] # {} => table[netId[o]] = o /\ ~Idle(o)

\* Both: syncIdleLocked and trimIdle keep the books balanced, and a held network in them
\* exactly while it is empty. (One the relay forgot may be in them too: TrimEnds.)
IdleKept == BooksBalance /\ IdleIffEmpty

\* trimIdle ends: each round cuts or forgets a network, or finds that "a member that
\* registered meanwhile took it out, and the loop looks again".
TrimEnds == \A c \in Conn : pc[c] = "trim" ~> pc[c] = "gone"

-----------------------------------------------------------------------------
(* Said of the code and not true of it (README, "Differences"). *)

\* "its full ones are cut before any record goes" (trimIdle): a compact record is forgotten
\* to make room only when its address has no full roster idle.
FullCutFirst ==
    [][\A n \in NetId :
          LET o == table[n]
          IN  o # None /\ table'[n] = None /\ (\E c \in Conn : pc[c] = "cut" /\ pc'[c] = "trim")
                => \A p \in Range(order[OwnerOf(o)]) : ~full[p]]_vars

\* "bounds what the relay keeps for networks nobody is connected to" (idleRosters): with no
\* connection on its way out, the idle rosters are within the budget.
WithinBudget ==
    (\A c \in Conn : pc[c] \in {"new", "gone"} \/ (pc[c] = "in" /\ c \in mem[at[c]])) => bytes <= Limit

=============================================================================
