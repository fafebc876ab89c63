------------------------------ MODULE Pairing ------------------------------
(***************************************************************************)
(* The relay's pairing channels (relay/internal/relay/pairing.go): a       *)
(* newcomer's connection joined to the connection of its network's         *)
(* primary, while the registry replaces, demotes, evicts and loses that    *)
(* connection underneath.                                                  *)
(*                                                                         *)
(* One action is one critical section: under network.mu (the primary's     *)
(* lookup, adoption, unregister), under Server.chmu (the channel table),   *)
(* or under a connection's wmu (queueing one message, closing).  pair()    *)
(* and endChannel() take these one after another, so other steps come      *)
(* between.  A newcomer has at most one channel, so the newcomer names it. *)
(* Of the registry, only the primary's connection is kept: primary is      *)
(* n.members[n.roster.Primary].                                            *)
(***************************************************************************)
EXTENDS Integers

CONSTANTS
    MemberConn, \* registered connections
    Newcomer,   \* connections that send pair
    NoConn

ASSUME MemberConnAssumption == NoConn \notin MemberConn

VARIABLES
    primary,   \* n.members[n.roster.Primary]
    mpc,       \* a member connection: "in", "out" of members, "gone"
    closing,   \* connections that are closing, of either kind
    stale,     \* former primaries' connections still to be closed (4005, 4008)
    due,       \* demoted connections whose demote() has not looked at its channels
    npc,       \* where the newcomer's reader is
    chPrimary, \* ch.primary
    open,      \* Server.channels (and each primary's pairs)
    calls,     \* endChannel calls under way
    told,      \* history: the channels whose primary was sent pairing
    endsP,     \* history: how many pairEnd the channel's primary was sent
    endsN,     \* history: how many pairEnd its newcomer was sent
    quit       \* history: channels whose primary sent pairEnd

pairVars == <<primary, mpc, closing, stale, due, npc, chPrimary, open, calls, told, endsP, endsN, quit>>

regVars == <<primary, mpc, stale, due>>

PairInit ==
    /\ primary = NoConn
    /\ mpc = [m \in MemberConn |-> "in"]
    /\ closing = {}
    /\ stale = {}
    /\ due = {}
    /\ npc = [n \in Newcomer |-> "new"]
    /\ chPrimary = [n \in Newcomer |-> NoConn]
    /\ open = {}
    /\ calls = {}
    /\ told = {}
    /\ endsP = [n \in Newcomer |-> 0]
    /\ endsN = [n \in Newcomer |-> 0]
    /\ quit = {}

\* A call endChannel(ch, endsPrimary, endsNewcomer), about to take chmu.
Call(n, tellP, tellN) == [ch |-> n, tellP |-> tellP, tellN |-> tellN, at |-> "lock"]

\* sendJSON of a pairEnd: refused on a closing connection.
SendEnd(ends, n, conn) == IF conn \in closing THEN ends ELSE [ends EXCEPT ![n] = @ + 1]

-----------------------------------------------------------------------------
(* The registry, as pairing sees it. *)

\* A roster or a registration makes m the primary's connection. The former one is demoted
\* in place when it is still a member, and is on its way out when its node was dropped
\* or m is the same node's newer connection.
NewPrimary(m, demotes) ==
    /\ mpc[m] = "in"
    /\ m # primary
    /\ primary' = m
    /\ due' = IF demotes /\ primary # NoConn THEN due \cup {primary} ELSE due
    /\ stale' = IF ~demotes /\ primary # NoConn THEN stale \cup {primary} ELSE stale
    /\ UNCHANGED <<mpc, closing, npc, chPrimary, open, calls, endsP, endsN, quit, told>>

\* A member connection closes: replaced, evicted, dropped, or its peer left.
CloseMember(m) ==
    /\ m \notin closing
    /\ closing' = closing \cup {m}
    /\ UNCHANGED <<regVars, npc, chPrimary, open, calls, endsP, endsN, quit, told>>

\* unregister, under network.mu.
LeaveMembers(m) ==
    /\ mpc[m] = "in"
    /\ m \in closing
    /\ mpc' = [mpc EXCEPT ![m] = "out"]
    /\ primary' = IF primary = m THEN NoConn ELSE primary
    /\ UNCHANGED <<closing, stale, due, npc, chPrimary, open, calls, endsP, endsN, quit, told>>

\* unregister, under chmu: the channels the connection holds, each then ended.
EndOwned(m) ==
    /\ mpc[m] = "out"
    /\ mpc' = [mpc EXCEPT ![m] = "gone"]
    /\ calls' = calls \cup {Call(n, FALSE, TRUE) : n \in {k \in open : chPrimary[k] = m}}
    /\ UNCHANGED <<primary, closing, stale, due, npc, chPrimary, open, endsP, endsN, quit, told>>

\* demote, under chmu.
DemoteEnds(m) ==
    /\ m \in due
    /\ due' = due \ {m}
    /\ calls' = calls \cup {Call(n, TRUE, TRUE) : n \in {k \in open : chPrimary[k] = m}}
    /\ UNCHANGED <<primary, mpc, closing, stale, npc, chPrimary, open, endsP, endsN, quit, told>>

-----------------------------------------------------------------------------
(* pair, on the newcomer's reader. *)

Lookup(n) ==
    /\ npc[n] = "new"
    /\ chPrimary' = [chPrimary EXCEPT ![n] = primary]
    /\ npc' = [npc EXCEPT ![n] = IF primary = NoConn THEN "leave" ELSE "found"]
    /\ closing' = IF primary = NoConn THEN closing \cup {n} ELSE closing
    /\ UNCHANGED <<regVars, open, calls, endsP, endsN, quit, told>>

OpenChannel(n) ==
    /\ npc[n] = "found"
    /\ open' = open \cup {n}
    /\ npc' = [npc EXCEPT ![n] = "opened"]
    /\ UNCHANGED <<regVars, closing, chPrimary, calls, endsP, endsN, quit, told>>

\* Variant: a message the primary's connection refused goes unnoticed.
TellPrimaryAnyway(n) ==
    /\ npc[n] = "opened"
    /\ npc' = [npc EXCEPT ![n] = "told"]
    /\ told' = told \cup {n}
    /\ UNCHANGED <<regVars, closing, chPrimary, open, calls, endsP, endsN, quit>>

TellPrimary(n) ==
    /\ npc[n] = "opened"
    /\ IF chPrimary[n] \in closing
       THEN /\ calls' = calls \cup {Call(n, FALSE, TRUE)}
            /\ npc' = [npc EXCEPT ![n] = "leave"]
            /\ UNCHANGED told
       ELSE /\ told' = told \cup {n}
            /\ npc' = [npc EXCEPT ![n] = "told"]
            /\ UNCHANGED calls
    /\ UNCHANGED <<regVars, closing, chPrimary, open, endsP, endsN, quit>>

TellNewcomer(n) ==
    /\ npc[n] = "told"
    /\ npc' = [npc EXCEPT ![n] = "pairing"]
    /\ UNCHANGED <<regVars, closing, chPrimary, open, calls, endsP, endsN, quit, told>>

-----------------------------------------------------------------------------
(* The channel in use. *)

\* (Pair frames change nothing but the two sides' queues, and are left out.) A pairEnd is
\* handled even if the connection was closed after its frame was begun.
NewcomerEnd(n) ==
    /\ npc[n] = "pairing"
    /\ n \in open
    /\ calls' = calls \cup {Call(n, TRUE, FALSE)}
    /\ npc' = [npc EXCEPT ![n] = "leave"]
    /\ UNCHANGED <<regVars, closing, chPrimary, open, endsP, endsN, quit, told>>

\* A registered connection's pairEnd, for a channel it holds.
PrimaryEnd(n) ==
    /\ n \in open
    /\ mpc[chPrimary[n]] = "in"
    /\ calls' = calls \cup {Call(n, FALSE, TRUE)}
    /\ quit' = quit \cup {n}
    /\ UNCHANGED <<regVars, closing, npc, chPrimary, open, endsP, endsN, told>>

\* Variant: only the newcomer hears of the timeout.
PairTimeoutQuiet(n) ==
    /\ n \in open
    /\ calls' = calls \cup {Call(n, FALSE, TRUE)}
    /\ UNCHANGED <<regVars, closing, npc, chPrimary, open, endsP, endsN, quit, told>>

\* ch.timer, until endChannel stops it.
PairTimeout(n) ==
    /\ n \in open
    /\ calls' = calls \cup {Call(n, TRUE, TRUE)}
    /\ UNCHANGED <<regVars, closing, npc, chPrimary, open, endsP, endsN, quit, told>>

\* The newcomer's reader stops, and unregister ends its channel.
NewcomerStops(n) ==
    /\ npc[n] \in {"new", "pairing"}
    /\ npc' = [npc EXCEPT ![n] = "leave"]
    /\ UNCHANGED <<regVars, closing, chPrimary, open, calls, endsP, endsN, quit, told>>

NewcomerLeaves(n) ==
    /\ npc[n] = "leave"
    /\ npc' = [npc EXCEPT ![n] = "gone"]
    /\ closing' = closing \cup {n}
    /\ calls' = IF chPrimary[n] = NoConn THEN calls ELSE calls \cup {Call(n, TRUE, FALSE)}
    /\ UNCHANGED <<regVars, chPrimary, open, endsP, endsN, quit, told>>

-----------------------------------------------------------------------------
(* endChannel: once, by whoever takes the channel out of the table. *)

\* Variant: the table is not looked at first.
EndLockAlways(k) ==
    /\ k.at = "lock"
    /\ calls' = (calls \ {k}) \cup {[k EXCEPT !.at = "primary"]}
    /\ open' = open \ {k.ch}
    /\ UNCHANGED <<regVars, closing, npc, chPrimary, endsP, endsN, quit, told>>

EndLock(k) ==
    /\ k.at = "lock"
    /\ calls' = (calls \ {k}) \cup (IF k.ch \in open THEN {[k EXCEPT !.at = "primary"]} ELSE {})
    /\ open' = open \ {k.ch}
    /\ UNCHANGED <<regVars, closing, npc, chPrimary, endsP, endsN, quit, told>>

EndTellPrimary(k) ==
    /\ k.at = "primary"
    /\ calls' = (calls \ {k}) \cup {[k EXCEPT !.at = "newcomer"]}
    /\ endsP' = IF k.tellP THEN SendEnd(endsP, k.ch, chPrimary[k.ch]) ELSE endsP
    /\ UNCHANGED <<regVars, closing, npc, chPrimary, open, endsN, quit, told>>

EndTellNewcomer(k) ==
    /\ k.at = "newcomer"
    /\ calls' = (calls \ {k}) \cup {[k EXCEPT !.at = "close"]}
    /\ endsN' = IF k.tellN THEN SendEnd(endsN, k.ch, k.ch) ELSE endsN
    /\ UNCHANGED <<regVars, closing, npc, chPrimary, open, endsP, quit, told>>

\* Variant: the newcomer is told, and not closed.
EndCloseNot(k) ==
    /\ k.at = "close"
    /\ calls' = calls \ {k}
    /\ UNCHANGED <<regVars, closing, npc, chPrimary, open, endsP, endsN, quit, told>>

EndClose(k) ==
    /\ k.at = "close"
    /\ calls' = calls \ {k}
    /\ closing' = closing \cup {k.ch}
    /\ UNCHANGED <<regVars, npc, chPrimary, open, endsP, endsN, quit, told>>

EndChannel(k) == EndLock(k) \/ EndTellPrimary(k) \/ EndTellNewcomer(k) \/ EndClose(k)

-----------------------------------------------------------------------------

PairStep(n) == Lookup(n) \/ OpenChannel(n) \/ TellPrimary(n) \/ TellNewcomer(n)

MemberStep(m) ==
    \/ \E demotes \in BOOLEAN : NewPrimary(m, demotes)
    \/ CloseMember(m) \/ LeaveMembers(m) \/ EndOwned(m) \/ DemoteEnds(m)

NewcomerStep(n) ==
    \/ PairStep(n) \/ NewcomerEnd(n) \/ PrimaryEnd(n)
    \/ PairTimeout(n) \/ NewcomerStops(n) \/ NewcomerLeaves(n)

PairNext ==
    \/ \E m \in MemberConn : MemberStep(m)
    \/ \E n \in Newcomer : NewcomerStep(n)
    \/ \E k \in calls : EndChannel(k)

PairSpec == PairInit /\ [][PairNext]_pairVars

(* Handlers and endChannel run to their end, the timer fires, and a closing newcomer's *)
(* reader stops (its close is flushed and answered within CloseGrace, or cut).         *)
PairFairness ==
    /\ \A n \in Newcomer :
        /\ WF_pairVars(PairStep(n))
        /\ WF_pairVars(PairTimeout(n))
        /\ WF_pairVars(n \in closing /\ NewcomerStops(n))
        /\ WF_pairVars(NewcomerLeaves(n))
    /\ WF_pairVars(\E k \in calls : EndChannel(k))

PairFairSpec == PairSpec /\ PairFairness

-----------------------------------------------------------------------------
(* Properties. *)

Calls == [ch : Newcomer, tellP : BOOLEAN, tellN : BOOLEAN, at : {"lock", "primary", "newcomer", "close"}]

\* The types of the pairing variables.
PairTypeOK ==
    /\ primary \in MemberConn \cup {NoConn}
    /\ mpc \in [MemberConn -> {"in", "out", "gone"}]
    /\ closing \subseteq MemberConn \cup Newcomer
    /\ stale \subseteq MemberConn /\ due \subseteq MemberConn
    /\ npc \in [Newcomer -> {"new", "found", "opened", "told", "pairing", "leave", "gone"}]
    /\ chPrimary \in [Newcomer -> MemberConn \cup {NoConn}]
    /\ open \subseteq {n \in Newcomer : chPrimary[n] # NoConn} /\ quit \subseteq Newcomer
    /\ calls \subseteq Calls
    /\ endsP \in [Newcomer -> Nat] /\ endsN \in [Newcomer -> Nat]
    /\ told \subseteq Newcomer

\* Timers, both sides' pairEnd, both sides' departures and a demotion may all end one
\* channel at once; whoever wins, each side hears pairEnd at most once (endChannel's check
\* of the table under chmu).
EndedOnce ==
    PairTypeOK /\ \A n \in Newcomer : endsP[n] <= 1 /\ endsN[n] <= 1

\* No channel outlives its primary's connection unnoticed: once that connection is gone, a
\* channel of it still in the table is one whose pair() has yet to find the connection
\* closing, or that an endChannel call is about to end (unregister collects the channels
\* after closing, pair() queues after opening).
NoneOutlivesPrimary ==
    \A n \in open :
        mpc[chPrimary[n]] = "gone" => npc[n] = "opened" \/ \E k \in calls : k.ch = n /\ k.at = "lock"

\* "pairEnd goes to each side still connected that did not end it itself" (endChannel): once
\* a channel has ended, a primary that was told of it, is still connected and did not end it
\* has heard pairEnd. (That it comes after the pairing it is about is not said: pair tells the
\* primary outside the lock, and an end may be queued ahead of it.)
PrimaryHears ==
    \A n \in Newcomer :
        /\ n \in told \ (open \cup quit)
        /\ chPrimary[n] \notin closing
        /\ ~\E k \in calls : k.ch = n /\ k.at = "primary"
        => endsP[n] = 1

\* endChannel, pair, unregister: each side hears the end of a channel at most once,
\* no channel outlives its primary's connection, and a primary owed pairEnd gets it.
PairingKept == EndedOnce /\ NoneOutlivesPrimary /\ PrimaryHears

\* Every newcomer that opens a channel is let go in the end, whatever happens to the
\* primary's connection (PairTimeout, endChannel's close, unregister).
NewcomerReleased == \A n \in Newcomer : npc[n] = "opened" ~> npc[n] = "gone" /\ n \notin open

\* "The relay ends every pairing channel of the demoted connection" (protocol section 4.2,
\* demote): when no demotion, close or ending is under way, a channel in use is held by
\* the primary's connection.
ChannelsFollowPrimary ==
    \A n \in open :
        /\ npc[n] = "pairing"
        /\ chPrimary[n] \notin closing \cup stale \cup due
        /\ ~\E k \in calls : k.ch = n
        => chPrimary[n] = primary

=============================================================================
