----------------------------- MODULE Admission ------------------------------
(***************************************************************************)
(* Connections coming and going, and the relay shutting down               *)
(* (relay/internal/relay: server.go's upgrade, unregister, eachConn,       *)
(* Shutdown; limits.go's ipConns; admin.go's Drain; the end of read.go's   *)
(* finalize).                                                              *)
(*                                                                         *)
(* A connection is counted against its address before the upgrade, put in  *)
(* a shard of the table under the shard's lock, registered at most once,   *)
(* and taken out and counted off by its own reader.  Shutdown walks the    *)
(* shards one lock at a time.  An action is one critical section, or one   *)
(* access to the atomic closing flag.                                      *)
(***************************************************************************)
EXTENDS Integers, FiniteSets

CONSTANTS
    Conn,       \* connections that may be made
    Addr,       \* client addresses
    AddrOf,     \* AddrOf[c]: the address c comes from
    Shards,     \* the number of shards of the connection table
    ShardOf,    \* ShardOf[c]: the shard of c's key
    IPPending,  \* LINK_IP_PENDING (0: off)
    IPConns     \* LINK_IP_CONNECTIONS (0: off)

ASSUME AdmissionAssumption ==
    /\ IsFiniteSet(Conn) /\ Shards \in Nat
    /\ \A c \in Conn : AddrOf[c] \in Addr /\ ShardOf[c] \in 1..Shards
    /\ IPPending \in Nat /\ IPConns \in Nat

VARIABLES
    cpc,       \* where each connection is
    pending,   \* ipCount.pending of each address
    total,     \* ipCount.total of each address
    ipPending, \* conn.ipPending
    table,     \* the connections in the shards' maps
    group,     \* the counter of the WaitGroup conns
    ended,     \* connections closeWith has begun to close
    closing,   \* Server.closing
    spc,       \* Shutdown: "run", "walk", "close", "wait", "stopped", "expired"
    visit,     \* the shard eachConn is at
    batch      \* the connections it copied from that shard

ip   == <<pending, total, ipPending>>
srv  == <<closing, spc, visit, batch>>
admitVars == <<cpc, ip, table, group, ended, srv>>

AdmitInit ==
    /\ cpc = [c \in Conn |-> "new"]
    /\ pending = [a \in Addr |-> 0] /\ total = [a \in Addr |-> 0]
    /\ ipPending = [c \in Conn |-> FALSE]
    /\ table = {} /\ group = 0 /\ ended = {}
    /\ closing = FALSE /\ spc = "run" /\ visit = 1 /\ batch = {}

Goto(c, l) == cpc' = [cpc EXCEPT ![c] = l]

-----------------------------------------------------------------------------
(* upgrade. *)

\* A relay that is closing answers 503.
Arrive(c) ==
    /\ cpc[c] = "new"
    /\ Goto(c, IF closing THEN "refused" ELSE "arrived")
    /\ UNCHANGED <<ip, table, group, ended, srv>>

\* acquire
Acquire(c) ==
    /\ cpc[c] = "arrived"
    /\ LET a == AddrOf[c]
       IN  IF (IPPending > 0 /\ pending[a] >= IPPending) \/ (IPConns > 0 /\ total[a] >= IPConns)
           THEN Goto(c, "refused") /\ UNCHANGED ip
           ELSE /\ pending' = [pending EXCEPT ![a] = @ + 1]
                /\ total' = [total EXCEPT ![a] = @ + 1]
                /\ ipPending' = [ipPending EXCEPT ![c] = TRUE]
                /\ Goto(c, "counted")
    /\ UNCHANGED <<table, group, ended, srv>>

\* Variant: the address keeps it among its pending.
ReleaseTotal(c) ==
    /\ total' = [total EXCEPT ![AddrOf[c]] = @ - 1]
    /\ UNCHANGED <<pending, ipPending>>

\* release, for a connection that is still pending or not.
Release(c) ==
    LET a == AddrOf[c]
    IN  /\ total' = [total EXCEPT ![a] = @ - 1]
        /\ pending' = [pending EXCEPT ![a] = IF ipPending[c] THEN @ - 1 ELSE @]
        /\ UNCHANGED ipPending

\* The WebSocket upgrade fails.
UpgradeFails(c) ==
    /\ cpc[c] = "counted"
    /\ Release(c)
    /\ Goto(c, "refused")
    /\ UNCHANGED <<table, group, ended, srv>>

\* Variant: closing was looked at before, and is not again.
EnterUnchecked(c) ==
    /\ cpc[c] = "counted"
    /\ table' = table \cup {c}
    /\ group' = group + 1
    /\ Goto(c, "open")
    /\ UNCHANGED <<ip, ended, srv>>

\* Under its shard's lock it is put in the table, unless the relay is closing by now.
Enter(c) ==
    /\ cpc[c] = "counted"
    /\ IF closing
       THEN Release(c) /\ Goto(c, "refused") /\ UNCHANGED <<table, group>>
       ELSE table' = table \cup {c} /\ group' = group + 1 /\ Goto(c, "open") /\ UNCHANGED ip
    /\ UNCHANGED <<ended, srv>>

-----------------------------------------------------------------------------
(* The connection's life. *)

\* admit: registered (ipConns), once. A pairing newcomer never is.
Registered(c) ==
    /\ cpc[c] = "open" /\ ipPending[c]
    /\ pending' = [pending EXCEPT ![AddrOf[c]] = @ - 1]
    /\ ipPending' = [ipPending EXCEPT ![c] = FALSE]
    /\ UNCHANGED <<cpc, total, table, group, ended, srv>>

\* closeWith by anyone: a handler, another connection's registration, Drain.
Close(c) ==
    /\ c \in table /\ c \notin ended
    /\ ended' = ended \cup {c}
    /\ UNCHANGED <<cpc, ip, table, group, srv>>

\* finalize: the reader stops, because the peer left or the connection is closing, and
\* unregister counts it off ...
Unregister(c) ==
    /\ cpc[c] = "open"
    /\ ended' = ended \cup {c}
    /\ Release(c)
    /\ Goto(c, "left")
    /\ UNCHANGED <<table, group, srv>>

\* Variant: it is left in its shard.
DeleteNot(c) ==
    /\ cpc[c] = "left"
    /\ Goto(c, "deleted")
    /\ UNCHANGED <<ip, table, group, ended, srv>>

\* ... takes it out of its shard ...
Delete(c) ==
    /\ cpc[c] = "left"
    /\ table' = table \ {c}
    /\ Goto(c, "deleted")
    /\ UNCHANGED <<ip, group, ended, srv>>

\* Variant: a connection's end is not counted.
DoneUncounted(c) ==
    /\ cpc[c] = "deleted"
    /\ Goto(c, "gone")
    /\ UNCHANGED <<ip, group, table, ended, srv>>

\* ... and finalize ends, after the peer's answer or the grace, with conns.Done.
ConnsDone(c) ==
    /\ cpc[c] = "deleted"
    /\ group' = group - 1
    /\ Goto(c, "gone")
    /\ UNCHANGED <<ip, table, ended, srv>>

-----------------------------------------------------------------------------
(* Shutdown. *)

\* closing is set, and the HTTP servers stop accepting.
Shutdown ==
    /\ spc = "run"
    /\ closing' = TRUE
    /\ spc' = "walk"
    /\ UNCHANGED <<cpc, ip, table, group, ended, visit, batch>>

\* eachConn: a shard's connections are copied under its lock ...
Walk ==
    /\ spc = "walk"
    /\ IF visit <= Shards
       THEN batch' = {c \in table : ShardOf[c] = visit} /\ spc' = "close" /\ UNCHANGED visit
       ELSE spc' = "wait" /\ UNCHANGED <<batch, visit>>
    /\ UNCHANGED <<cpc, ip, table, group, ended, closing>>

\* ... and closed outside it, one by one.
CloseNext ==
    /\ spc = "close"
    /\ IF batch = {}
       THEN spc' = "walk" /\ visit' = visit + 1 /\ UNCHANGED <<ended, batch>>
       ELSE \E c \in batch :
                ended' = ended \cup {c} /\ batch' = batch \ {c} /\ UNCHANGED <<spc, visit>>
    /\ UNCHANGED <<cpc, ip, table, group, closing>>

\* Every connection has finished, or the context ends and the rest are dropped.
Stop ==
    /\ spc = "wait"
    /\ \/ group = 0 /\ spc' = "stopped"
       \/ spc' = "expired"
    /\ UNCHANGED <<cpc, ip, table, group, ended, closing, visit, batch>>

-----------------------------------------------------------------------------

Step(c) ==
    \/ Arrive(c) \/ Acquire(c) \/ UpgradeFails(c) \/ Enter(c)
    \/ Registered(c) \/ Close(c) \/ Unregister(c) \/ Delete(c) \/ ConnsDone(c)

AdmitNext ==
    \/ \E c \in Conn : Step(c)
    \/ Shutdown \/ Walk \/ CloseNext \/ Stop

AdmitSpec == AdmitInit /\ [][AdmitNext]_admitVars

(* Shutdown goes on once begun. A connection told to close is finished by its reader (module *)
(* Keepalive: CloseGrace bounds it).                                                         *)
AdmitFairSpec ==
    /\ AdmitSpec
    /\ WF_admitVars(Walk) /\ WF_admitVars(CloseNext)
    /\ WF_admitVars(spc = "wait" /\ group = 0 /\ Stop)
    /\ \A c \in Conn :
          /\ WF_admitVars(c \in ended /\ Unregister(c))
          /\ WF_admitVars(Delete(c)) /\ WF_admitVars(ConnsDone(c))

-----------------------------------------------------------------------------
(* Properties. *)

\* The types of the variables; no count goes below zero.
TypeOK ==
    /\ cpc \in [Conn -> {"new", "arrived", "refused", "counted", "open", "left", "deleted", "gone"}]
    /\ pending \in [Addr -> Nat] /\ total \in [Addr -> Nat]
    /\ ipPending \in [Conn -> BOOLEAN]
    /\ table \subseteq Conn /\ group \in Nat /\ ended \subseteq Conn
    /\ closing \in BOOLEAN
    /\ spc \in {"run", "walk", "close", "wait", "stopped", "expired"}
    /\ visit \in Nat /\ batch \subseteq Conn

CountedIn(c) == cpc[c] \in {"counted", "open"}

\* What an address is counted for is its connections that are open, and those of them not
\* registered yet, through failed upgrades, a shutdown in between and every end; so no address
\* has more of either than its limits (ipConns.acquire, registered, release).
CountsExact ==
    /\ TypeOK
    /\ \A a \in Addr :
        /\ total[a] = Cardinality({c \in Conn : AddrOf[c] = a /\ CountedIn(c)})
        /\ pending[a] = Cardinality({c \in Conn : AddrOf[c] = a /\ CountedIn(c) /\ ipPending[c]})
        /\ IPPending > 0 => pending[a] <= IPPending
        /\ IPConns > 0 => total[a] <= IPConns

\* Once Shutdown waits, every connection in the table has been told to close: an upgrade that
\* saw the relay open put its connection where the walk found it.
NoneMissed == spc \in {"wait", "stopped"} => table \subseteq ended

\* Both: acquire and release run outside the shard locks under which upgrade and Shutdown meet.
AdmissionKept == CountsExact /\ NoneMissed

\* Nothing is added to the WaitGroup that Shutdown waits on, and once it is done no connection
\* is left.
NoLateArrival ==
    [][/\ (spc \in {"wait", "stopped"}) => group' <= group
       /\ spc' = "stopped" => table' = {}]_admitVars

\* A shutdown ends with every connection finished, or with its context.
ShutdownEnds == closing ~> spc \in {"stopped", "expired"}

=============================================================================
