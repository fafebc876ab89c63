--------------------------- MODULE RegistryProofs ---------------------------
(***************************************************************************)
(* Theorems about the relay's networks. Registry, for any number of        *)
(* connections, nodes, network objects and rosters: who is registered is   *)
(* reachable, and nothing is rolled back. ControlBudget, for any members,  *)
(* connections, rates and sizes: the two bounds on what is read ahead of   *)
(* shaping.                                                                *)
(*                                                                         *)
(* None of Registry's properties is inductive. LiveIsReachable speaks of   *)
(* open connections; to keep it, a step must know that whoever is in a     *)
(* members table agrees about it (Placed), that a registered connection    *)
(* out of its place is closing or about to be closed (Standing), and that  *)
(* a handler starts with nothing left to do from an earlier one (Jobs).    *)
(* LatestNotReplaced needs that no handler's old is a node's latest        *)
(* connection (Latest).                                                    *)
(*                                                                         *)
(* A bound on what was spent is not inductive either: it says nothing of   *)
(* what may be spent next. What is: that all spent in the window lies      *)
(* between the window's beginning and the arrival time, and that the       *)
(* arrival time is never further ahead of the clock than the burst. The    *)
(* second needs that the times readers hold are in the past.               *)
(***************************************************************************)
EXTENDS Registry, ControlBudget, TLAPS

\* A member table entry and the connection in it agree, the roster lists the node, and the
\* object is the one held.
Placed ==
    \A o \in Obj, x \in Node : members[o][x] # None =>
        /\ net[members[o][x]] = o
        /\ id[members[o][x]] = x
        /\ held = o
        /\ roster[o] # None
        /\ x \in roster[o].members

\* The object held was made, and so was the one a connection registered with.
Made ==
    /\ held # None => roster[held] # None
    /\ \A c \in Conn : net[c] # None => roster[net[c]] # None /\ id[c] # None

\* A registered connection is in its place, or closing, or some handler will close it.
Standing ==
    \A c \in Conn : net[c] # None => members[net[c]][id[c]] = c \/ closing[c] # "open" \/ CloseDue(c)

\* Where readers can be, and what they still have to do there.
Jobs ==
    /\ \A c \in Conn : rpc[c] \in {"leave", "gone"} => closing[c] # "open"
    /\ \A c \in Conn : evict[c] # {} \/ demoted[c] # None => rpc[c] \in {"after", "refuse"}
    /\ \A c \in Conn : old[c] # None => rpc[c] = "after" /\ net[old[c]] # None
    /\ \A c \in Conn : closing[c] = "replaced" => net[c] # None

\* The last connection admitted for a node is in no handler's old, and was not replaced.
Latest ==
    \A x \in Node : latest[x] # None =>
        /\ net[latest[x]] # None
        /\ id[latest[x]] = x
        /\ closing[latest[x]] # "replaced"
        /\ \A d \in Conn : old[d] # latest[x]

IInv == TypeOK /\ Placed /\ Made /\ Standing /\ Jobs /\ Latest

\* The initial states satisfy the inductive invariant.
LEMMA InitInv == Init => IInv
  BY NoneAssumption DEF Init, IInv, TypeOK, Placed, Made, Standing, Jobs, Latest, Codes

USE NoneAssumption

\* The fields of a roster.
LEMMA RosterTypes == \A r \in Rosters : r.version \in Nat /\ r.primary \in Node
  BY RosterAssumption, ZenonT(60)

\* What adoptLocked takes out, keeps and returns has the types of connections.
LEMMA AdoptTypes ==
    ASSUME TypeOK, NEW o \in Obj, roster[o] # None, NEW r \in Rosters
    PROVE  /\ Kept(o, r) \in [Node -> Conn \cup {None}]
           /\ {members[o][x] : x \in Dropped(o, r)} \in SUBSET Conn
           /\ Demoted(o, r) \in Conn \cup {None}
<1> /\ roster[o] \in Rosters
    /\ roster[o].primary \in Node
    /\ members[o] \in [Node -> Conn \cup {None}]
  BY RosterAssumption DEF TypeOK
<1>1. Kept(o, r) \in [Node -> Conn \cup {None}]
  BY ZenonT(60) DEF Kept
<1>2. {members[o][x] : x \in Dropped(o, r)} \in SUBSET Conn
  BY ZenonT(60) DEF Dropped
<1>3. Demoted(o, r) \in Conn \cup {None}
  BY ZenonT(60) DEF Demoted
<1> QED BY <1>1, <1>2, <1>3, ZenonT(60)

\* Entering a member table keeps the types.
LEMMA EnterTypes ==
    ASSUME TypeOK, NEW c \in Conn, NEW o \in Obj, NEW x \in Node,
           NEW ms \in [Node -> Conn \cup {None}], Enter(c, o, x, ms)
    PROVE  /\ members' \in [Obj -> [Node -> Conn \cup {None}]]
           /\ net' \in [Conn -> Obj \cup {None}]
           /\ id' \in [Conn -> Node \cup {None}]
           /\ old' \in [Conn -> Conn \cup {None}]
           /\ latest' \in [Node -> Conn \cup {None}]
           /\ rpc' \in [Conn -> {"new", "read", "frame", "after", "refuse", "leave", "gone"}]
<1>1. [ms EXCEPT ![x] = c] \in [Node -> Conn \cup {None}] /\ ms[x] \in Conn \cup {None}
  BY ZenonT(60)
<1>2. members' \in [Obj -> [Node -> Conn \cup {None}]]
  BY <1>1, ZenonT(60) DEF Enter, TypeOK
<1>3. /\ net' \in [Conn -> Obj \cup {None}]
      /\ id' \in [Conn -> Node \cup {None}]
      /\ latest' \in [Node -> Conn \cup {None}]
  BY ZenonT(60) DEF Enter, TypeOK
<1>4. old' \in [Conn -> Conn \cup {None}]
  BY <1>1, ZenonT(60) DEF Enter, TypeOK
<1>5. rpc' \in [Conn -> {"new", "read", "frame", "after", "refuse", "leave", "gone"}]
  BY ZenonT(60) DEF Enter, TypeOK
<1> QED BY <1>2, <1>3, <1>4, <1>5, ZenonT(60)

\* Every step keeps the types.
LEMMA TypeStep == TypeOK /\ Jobs /\ Made /\ [Next]_vars => TypeOK'
<1> SUFFICES ASSUME TypeOK, Jobs, Made, [Next]_vars PROVE TypeOK'
  BY ZenonT(60)
<1>1. CASE UNCHANGED vars
  BY <1>1, ZenonT(60) DEF vars, TypeOK
<1>2. ASSUME NEW c \in Conn, ConnStep(c) PROVE TypeOK'
  <2>1. CASE Upgrade(c) \/ BeginFrame(c) \/ OtherFrame(c) \/ Finish(c) \/ Abort(c)
    <3>1. CASE Upgrade(c)
      BY <3>1, ZenonT(60) DEF Upgrade, netVars, jobVars, TypeOK
    <3>2. CASE BeginFrame(c)
      BY <3>2, ZenonT(60) DEF BeginFrame, netVars, jobVars, TypeOK
    <3>3. CASE OtherFrame(c)
      BY <3>3, ZenonT(60) DEF OtherFrame, netVars, jobVars, TypeOK
    <3>5. CASE Finish(c)
      BY <3>5, ZenonT(60) DEF Finish, CloseWith, netVars, jobVars, TypeOK, Codes
    <3>4. CASE Abort(c)
      BY <3>4, ZenonT(60) DEF Abort, CloseWith, netVars, jobVars, TypeOK, Codes
    <3> QED BY <2>1, <3>1, <3>2, <3>3, <3>4, <3>5, ZenonT(60)
  <2>2. CASE Register(c)
    <3> PICK x \in Node, r \in Rosters :
          RegisterNew(c, x, r) \/ RefuseNew(c, x, r) \/ RegisterNewer(c, x, r) \/ RegisterHeld(c, x, r)
      BY <2>2, ZenonT(60) DEF Register
    <3>1. CASE RegisterNew(c, x, r)
      <4> PICK o \in Obj : roster[o] = None /\ held' = o /\ roster' = [roster EXCEPT ![o] = r] /\ Enter(c, o, x, members[o])
        BY <3>1, ZenonT(60) DEF RegisterNew
      <4>1. members[o] \in [Node -> Conn \cup {None}]
        BY ZenonT(60) DEF TypeOK
      <4> QED BY <3>1, <4>1, EnterTypes, ZenonT(60) DEF RegisterNew, TypeOK
    <3>2. CASE RefuseNew(c, x, r)
      BY <3>2, ZenonT(60) DEF RefuseNew, CloseWith, netVars, jobVars, TypeOK, Codes
    <3>3. CASE RegisterNewer(c, x, r)
      <4>1. held \in Obj /\ roster[held] # None
        BY <3>3, ZenonT(60) DEF RegisterNewer, TypeOK, Made
      <4>2. Kept(held, r) \in [Node -> Conn \cup {None}]
        BY <4>1, AdoptTypes, ZenonT(60)
      <4>3. roster' \in [Obj -> Rosters \cup {None}] /\ compact' \in [Obj -> BOOLEAN]
            /\ evict' \in [Conn -> SUBSET Conn] /\ demoted' \in [Conn -> Conn \cup {None}]
        BY <3>3, <4>1, AdoptTypes, ZenonT(60) DEF RegisterNewer, AdoptLocked, TypeOK
      <4>4. CASE x \in r.members
        BY <3>3, <4>1, <4>2, <4>3, <4>4, EnterTypes, ZenonT(60) DEF RegisterNewer, TypeOK
      <4>5. CASE x \notin r.members
        <5>1. /\ members' = [members EXCEPT ![held] = Kept(held, r)]
              /\ rpc' = [rpc EXCEPT ![c] = "refuse"]
              /\ UNCHANGED <<held, net, id, closing, old, latest>>
          BY <3>3, <4>5, ZenonT(60) DEF RegisterNewer
        <5> QED BY <4>1, <4>2, <4>3, <5>1, ZenonT(60) DEF TypeOK
      <4> QED BY <4>4, <4>5, ZenonT(60)
    <3>4. CASE RegisterHeld(c, x, r)
      <4>1. held \in Obj /\ members[held] \in [Node -> Conn \cup {None}]
        BY <3>4, ZenonT(60) DEF RegisterHeld, TypeOK
      <4>2. roster' \in [Obj -> Rosters \cup {None}] /\ compact' \in [Obj -> BOOLEAN]
        BY <3>4, ZenonT(60) DEF RegisterHeld, TypeOK
      <4>3. CASE x \in roster[held].members
        BY <3>4, <4>1, <4>2, <4>3, EnterTypes, ZenonT(60) DEF RegisterHeld, TypeOK
      <4>4. CASE x \notin roster[held].members
        BY <3>4, <4>2, <4>4 DEF RegisterHeld, TypeOK
      <4> QED BY <4>3, <4>4, ZenonT(60)
    <3> QED BY <3>1, <3>2, <3>3, <3>4, ZenonT(60)
  <2>3. ASSUME NEW r \in Rosters, PushRoster(c, r) PROVE TypeOK'
    <3>1. net[c] \in Obj /\ roster[net[c]] # None
      BY <2>3, ZenonT(60) DEF PushRoster, TypeOK, Made
    <3>2. CASE r.version <= roster[net[c]].version
      BY <2>3, <3>2, ZenonT(60) DEF PushRoster, TypeOK
    <3>3. CASE ~(r.version <= roster[net[c]].version)
      <4>0. /\ AdoptLocked(c, net[c], r)
            /\ members' = [members EXCEPT ![net[c]] = Kept(net[c], r)]
            /\ rpc' = [rpc EXCEPT ![c] = "after"]
            /\ UNCHANGED <<held, net, id, closing, old, latest>>
        BY <2>3, <3>3, ZenonT(60) DEF PushRoster
      <4>1. Kept(net[c], r) \in [Node -> Conn \cup {None}]
        BY <3>1, AdoptTypes, ZenonT(60)
      <4>2. roster' \in [Obj -> Rosters \cup {None}] /\ compact' \in [Obj -> BOOLEAN]
            /\ evict' \in [Conn -> SUBSET Conn] /\ demoted' \in [Conn -> Conn \cup {None}]
        BY <3>1, <4>0, AdoptTypes, ZenonT(60) DEF AdoptLocked, TypeOK
      <4> QED BY <3>1, <4>0, <4>1, <4>2, ZenonT(60) DEF TypeOK
    <3> QED BY <3>2, <3>3, ZenonT(60)
  <2>4. CASE AfterUnlock(c)
    <3>1. CASE CloseEvicted(c)
      BY <3>1 DEF CloseEvicted, CloseWith, netVars, TypeOK, Codes
    <3>2. CASE Demote(c)
      BY <3>2, ZenonT(60) DEF Demote, netVars, TypeOK
    <3>3. CASE CloseReplaced(c)
      BY <3>3 DEF CloseReplaced, CloseWith, netVars, TypeOK, Codes
    <3>4. CASE CloseRefused(c)
      BY <3>4, ZenonT(60) DEF CloseRefused, CloseWith, netVars, jobVars, TypeOK, Codes
    <3> QED BY <2>4, <3>1, <3>2, <3>3, <3>4, ZenonT(60) DEF AfterUnlock
  <2>5. CASE Unregister(c)
    <3>1. members' \in [Obj -> [Node -> Conn \cup {None}]]
      <4>1. CASE net[c] # None /\ members[net[c]][id[c]] = c
        <5>1. net[c] \in Obj /\ id[c] \in Node
          BY <4>1, ZenonT(60) DEF TypeOK, Made
        <5>2. [members[net[c]] EXCEPT ![id[c]] = None] \in [Node -> Conn \cup {None}]
          BY <5>1, ZenonT(60) DEF TypeOK
        <5> QED BY <2>5, <4>1, <5>1, <5>2, ZenonT(60) DEF Unregister, TypeOK
      <4>2. CASE ~(net[c] # None /\ members[net[c]][id[c]] = c)
        BY <2>5, <4>2, ZenonT(60) DEF Unregister, TypeOK
      <4> QED BY <4>1, <4>2, ZenonT(60)
    <3> QED BY <2>5, <3>1, ZenonT(60) DEF Unregister, jobVars, TypeOK
  <2> QED BY <1>2, <2>1, <2>2, <2>3, <2>4, <2>5, ZenonT(60) DEF ConnStep
<1>3. CASE Forget \/ Compact
  BY <1>3, ZenonT(60) DEF Forget, Compact, jobVars, TypeOK
<1> QED BY <1>1, <1>2, <1>3, ZenonT(60) DEF Next

Rest == Placed /\ Made /\ Standing /\ Jobs /\ Latest

\* ms is o's table without the nodes r leaves out, and their connections are c's to close.
Room(c, o, r, ms) ==
    /\ \A y \in Node : ms[y] = IF y \in r.members THEN members[o][y] ELSE None
    /\ \A y \in Node \ r.members : members[o][y] # None => members[o][y] \in evict'[c]
    /\ \A d \in Conn \ {c} : evict'[d] = evict[d] /\ demoted'[d] = demoted[d]

\* admit's member part: whatever roster r the object has after the step, if the table keeps
\* just the nodes r lists and the connections of the others are in the handler's evict, the
\* new connection may take its node's place.
LEMMA EnterStep ==
    ASSUME IInv, TypeOK', NEW c \in Conn, NEW o \in Obj, NEW x \in Node,
           NEW ms \in [Node -> Conn \cup {None}], NEW r \in Rosters,
           rpc[c] = "frame", net[c] = None, held \in {None, o}, held' = o,
           roster' = [roster EXCEPT ![o] = r], x \in r.members,
           Room(c, o, r, ms), UNCHANGED closing, Enter(c, o, x, ms)
    PROVE  Rest'
<1> USE DEF IInv
<1>1. /\ \A y \in Node : members'[o][y] = IF y = x THEN c ELSE ms[y]
      /\ \A q \in Obj \ {o} : members'[q] = members[q]
      /\ net'[c] = o /\ id'[c] = x /\ old'[c] = ms[x] /\ rpc'[c] = "after"
      /\ \A d \in Conn \ {c} : net'[d] = net[d] /\ id'[d] = id[d] /\ old'[d] = old[d] /\ rpc'[d] = rpc[d]
      /\ latest'[x] = c /\ \A y \in Node \ {x} : latest'[y] = latest[y]
  BY DEF Enter, TypeOK
<1>12. /\ net'[c] = o /\ old'[c] = ms[x] /\ rpc'[c] = "after"
       /\ \A d \in Conn \ {c} : net'[d] = net[d] /\ old'[d] = old[d]
  BY <1>1, ZenonT(60)
<1>2. /\ roster'[o] = r /\ r # None
      /\ \A q \in Obj \ {o} : roster'[q] = roster[q]
  <2>1. roster \in [Obj -> Rosters \cup {None}]
    BY ZenonT(60) DEF TypeOK
  <2> QED BY <2>1, ZenonT(60)
<1>3. \A q \in Obj, y \in Node : members[q][y] # c
  BY SMTT(30) DEF Placed
<1>4. evict[c] = {} /\ old[c] = None /\ demoted[c] = None
  BY ZenonT(60) DEF Jobs, TypeOK
<1>5. \A q \in Obj \ {o}, y \in Node : members[q][y] = None
  BY DEF Placed, TypeOK
<1>6. ms[x] # None => ms[x] \in Conn \ {c} /\ net[ms[x]] = o /\ id[ms[x]] = x
  BY <1>3 DEF Placed, Room
<1>7. Placed'
  <2> SUFFICES ASSUME NEW y \in Node, members'[o][y] # None
               PROVE  net'[members'[o][y]] = o /\ id'[members'[o][y]] = y /\ y \in r.members
    BY <1>1, <1>2, <1>5 DEF Placed
  <2>1. CASE y = x
    BY <2>1, <1>1, ZenonT(60)
  <2>2. CASE y # x
    <3>1. members'[o][y] = ms[y] /\ ms[y] = members[o][y] /\ y \in r.members
      BY <2>2, <1>1 DEF Room
    <3>2. members[o][y] \in Conn \ {c} /\ net[members[o][y]] = o /\ id[members[o][y]] = y
      BY <3>1, <1>3 DEF Placed
    <3> QED BY <3>1, <3>2, <1>1
  <2> QED BY <2>1, <2>2, ZenonT(60)
<1>8. Made'
  <2>1. ASSUME NEW d \in Conn, net'[d] # None PROVE roster'[net'[d]] # None /\ id'[d] # None
    <3>1. CASE d = c
      BY <3>1, <1>1, <1>2, ZenonT(60)
    <3>2. CASE d # c
      <4>1. net'[d] = net[d] /\ id'[d] = id[d]
        BY <3>2, <1>1, ZenonT(60)
      <4>2. net[d] \in Obj /\ roster[net[d]] # None /\ id[d] # None
        BY <2>1, <4>1, ZenonT(60) DEF Made, TypeOK
      <4> QED BY <4>1, <4>2, <1>2, ZenonT(60)
    <3> QED BY <3>1, <3>2, ZenonT(60)
  <2> QED BY <2>1, <1>2, ZenonT(60) DEF Made
<1>9. Standing'
  <2> SUFFICES ASSUME NEW d \in Conn, net'[d] # None, closing[d] = "open", ~CloseDue(d)'
               PROVE  members'[net'[d]][id'[d]] = d
    BY ZenonT(60) DEF Standing
  <2>1. CASE d = c
    BY <2>1, <1>1, ZenonT(60)
  <2>2. CASE d # c
    <3>1. ~CloseDue(d)
      <4>1. \A e \in Conn : d \notin evict'[e] /\ old'[e] # d
        BY ZenonT(60) DEF CloseDue
      <4>2. \A e \in Conn \ {c} : evict'[e] = evict[e] /\ old'[e] = old[e]
        BY <1>12, ZenonT(60) DEF Room
      <4>3. d \notin evict[c] /\ old[c] # d
        BY <1>4, ZenonT(60)
      <4> QED BY <4>1, <4>2, <4>3, ZenonT(60) DEF CloseDue
    <3>2. members[net[d]][id[d]] = d /\ net[d] \in Obj /\ id[d] \in Node
      BY <2>2, <3>1, <1>1 DEF Standing, Made, TypeOK
    <3>3. net[d] = o
      BY <3>2, <1>5, ZenonT(60)
    <3>6. members[o][id[d]] = d /\ d # None
      BY <3>2, <3>3, ZenonT(60)
    <3>7. d \notin evict'[c] /\ d # old'[c]
      BY ZenonT(60) DEF CloseDue
    <3>4. id[d] \in r.members
      BY <3>6, <3>7, <3>2 DEF Room
    <3>5. id[d] # x
      <4>1. ms[id[d]] = d
        BY <3>2, <3>4, <3>6, ZenonT(60) DEF Room
      <4> QED BY <4>1, <3>7, <1>12, ZenonT(60)
    <3> QED BY <2>2, <3>2, <3>3, <3>4, <3>5, <1>1 DEF Room
  <2> QED BY <2>1, <2>2, ZenonT(60)
<1>10. Jobs'
  <2>1. \A d \in Conn : rpc'[d] \in {"leave", "gone"} => closing'[d] # "open"
    BY <1>1, ZenonT(60) DEF Jobs
  <2>2. \A d \in Conn : evict'[d] # {} \/ demoted'[d] # None => rpc'[d] \in {"after", "refuse"}
    <3>1. \A d \in Conn \ {c} : evict[d] # {} \/ demoted[d] # None => rpc[d] \in {"after", "refuse"}
      BY ZenonT(60) DEF Jobs
    <3>2. \A d \in Conn \ {c} : evict'[d] = evict[d] /\ demoted'[d] = demoted[d] /\ rpc'[d] = rpc[d]
      BY <1>1, ZenonT(60) DEF Room
    <3> QED BY <3>1, <3>2, <1>12, ZenonT(60)
  <2>3. ASSUME NEW d \in Conn, old'[d] # None PROVE rpc'[d] = "after" /\ net'[old'[d]] # None
    <3>1. CASE d = c
      <4>1. ms[x] # None /\ old'[d] = ms[x] /\ rpc'[d] = "after"
        BY <2>3, <3>1, <1>12, ZenonT(60)
      <4>2. ms[x] \in Conn \ {c} /\ net[ms[x]] = o
        BY <4>1, <1>6, ZenonT(60)
      <4>3. net'[ms[x]] = o
        BY <4>2, <1>12, ZenonT(60)
      <4> QED BY <4>1, <4>3, ZenonT(60)
    <3>2. CASE d # c
      <4>1. rpc[d] = "after" /\ net[old[d]] # None /\ old[d] \in Conn /\ old[d] # c
        <5>1. old'[d] = old[d]
          BY <3>2, <1>12, ZenonT(60)
        <5>2. old[d] \in Conn \cup {None} /\ old[d] # None
          BY <2>3, <5>1, ZenonT(60) DEF TypeOK
        <5> QED BY <5>2, <1>1, ZenonT(60) DEF Jobs
      <4>2. rpc'[d] = rpc[d] /\ old'[d] = old[d]
        BY <3>2, <1>1, ZenonT(60)
      <4>3. net'[old[d]] = net[old[d]]
        BY <4>1, <1>12, ZenonT(60)
      <4> QED BY <4>1, <4>2, <4>3, ZenonT(60)
    <3> QED BY <3>1, <3>2, ZenonT(60)
  <2>4. \A d \in Conn : closing'[d] = "replaced" => net'[d] # None
    BY <1>1 DEF Jobs
  <2> QED BY <2>1, <2>2, <2>3, <2>4, ZenonT(60) DEF Jobs
<1>11. Latest'
  <2> SUFFICES ASSUME NEW y \in Node, latest'[y] # None
               PROVE  /\ net'[latest'[y]] # None /\ id'[latest'[y]] = y
                      /\ closing[latest'[y]] # "replaced"
                      /\ \A d \in Conn : old'[d] # latest'[y]
    BY ZenonT(60) DEF Latest
  <2>1. CASE y = x
    <3>1. \A d \in Conn \ {c} : old[d] # c
      BY ZenonT(60) DEF Jobs
    <3>2. closing[c] # "replaced"
      BY ZenonT(60) DEF Jobs
    <3>3. latest'[y] = c /\ net'[c] = o /\ id'[c] = x /\ o # None
      BY <2>1, <1>1, ZenonT(60)
    <3>4. \A d \in Conn : old'[d] # c
      <4>1. old'[c] # c
        BY <1>6, <1>12, ZenonT(60)
      <4> QED BY <3>1, <4>1, <1>12, ZenonT(60)
    <3> QED BY <2>1, <3>2, <3>3, <3>4, ZenonT(60)
  <2>2. CASE y # x
    <3>1. latest'[y] = latest[y] /\ latest[y] \in Conn
      BY <2>2, <1>1, SMTT(30) DEF TypeOK
    <3>2. /\ net[latest[y]] # None /\ id[latest[y]] = y /\ latest[y] # c
          /\ closing[latest[y]] # "replaced" /\ \A d \in Conn : old[d] # latest[y]
      BY <3>1, ZenonT(60) DEF Latest
    <3>3. old'[c] # latest[y]
      <4>1. ms[x] # latest[y]
        BY <2>2, <3>1, <3>2, <1>6, ZenonT(60)
      <4> QED BY <4>1, <1>1, ZenonT(60)
    <3> QED BY <3>1, <3>2, <3>3, <1>1
  <2> QED BY <2>1, <2>2, ZenonT(60)
<1> QED BY <1>7, <1>8, <1>9, <1>10, <1>11, ZenonT(60) DEF Rest

\* Adopting a roster without entering (a push, or a registration the roster itself refuses):
\* the connections that lose their place are in the handler's evict.
LEMMA AdoptStep ==
    ASSUME IInv, TypeOK', NEW c \in Conn, NEW o \in Obj, NEW r \in Rosters, roster[o] # None,
           rpc[c] = "frame", AdoptLocked(c, o, r), NEW p \in {"after", "refuse"},
           rpc' = [rpc EXCEPT ![c] = p],
           members' = [members EXCEPT ![o] = Kept(o, r)],
           UNCHANGED <<held, net, id, closing, old, latest>>
    PROVE  Rest'
<1> USE DEF IInv
<1>1. /\ \A y \in Node : members'[o][y] = IF y \in r.members THEN members[o][y] ELSE None
      /\ \A q \in Obj \ {o} : members'[q] = members[q]
      /\ rpc'[c] = p /\ \A d \in Conn \ {c} : rpc'[d] = rpc[d]
  BY DEF Kept, TypeOK
<1>2. /\ roster'[o] = r /\ r # None
      /\ \A q \in Obj \ {o} : roster'[q] = roster[q]
      /\ evict'[c] = {members[o][y] : y \in Dropped(o, r)}
      /\ \A d \in Conn \ {c} : evict'[d] = evict[d] /\ demoted'[d] = demoted[d]
  BY DEF AdoptLocked, TypeOK
<1>3. evict[c] = {} /\ old[c] = None /\ demoted[c] = None
  BY ZenonT(60) DEF Jobs, TypeOK
<1>4. Placed'
  BY <1>1, <1>2 DEF Placed, TypeOK
<1>5. Made'
  BY <1>1, <1>2, SMTT(30) DEF Made, TypeOK
<1>6. Standing'
  <2> SUFFICES ASSUME NEW d \in Conn, net[d] # None, closing[d] = "open", ~CloseDue(d)'
               PROVE  members'[net[d]][id[d]] = d
    BY ZenonT(60) DEF Standing
  <2>1. ~CloseDue(d) /\ d \notin evict'[c]
    BY <1>2, <1>3, ZenonT(60) DEF CloseDue
  <2>2. members[net[d]][id[d]] = d /\ net[d] \in Obj /\ id[d] \in Node
    BY <2>1, ZenonT(60) DEF Standing, Made, TypeOK
  <2>3. CASE net[d] = o
    <3>1. id[d] \in r.members
      BY <2>1, <2>2, <2>3, <1>2, ZenonT(60) DEF Dropped
    <3> QED BY <2>2, <2>3, <3>1, <1>1
  <2>4. CASE net[d] # o
    BY <2>2, <2>4, <1>1, ZenonT(60)
  <2> QED BY <2>3, <2>4, ZenonT(60)
<1>7. Jobs'
  BY <1>1, <1>2, <1>3, SMTT(30) DEF Jobs, TypeOK
<1>8. Latest'
  BY ZenonT(60) DEF Latest
<1> QED BY <1>4, <1>5, <1>6, <1>7, <1>8, ZenonT(60) DEF Rest

\* The steps that change neither tables nor what handlers have left to do.
LEMMA ReaderStep ==
    ASSUME IInv, NEW c \in Conn,
           Upgrade(c) \/ BeginFrame(c) \/ OtherFrame(c) \/ Finish(c) \/ Abort(c)
             \/ (\E x \in Node, r \in Rosters : RefuseNew(c, x, r))
    PROVE  Rest'
<1> USE DEF IInv
<1>1. UNCHANGED <<netVars, net, id, jobVars, latest>>
  BY ZenonT(60) DEF Upgrade, BeginFrame, OtherFrame, Finish, Abort, RefuseNew
<1>2. \A d \in Conn : /\ closing[d] # "open" => closing'[d] = closing[d]
                      /\ closing'[d] = "replaced" => closing[d] = "replaced"
  BY ZenonT(60) DEF Upgrade, BeginFrame, OtherFrame, Finish, Abort, RefuseNew, CloseWith, TypeOK
<1>3. /\ rpc[c] \in {"new", "read", "frame"} \/ rpc' = rpc
      /\ \A d \in Conn : d # c => rpc'[d] = rpc[d]
      /\ rpc'[c] \in {"leave", "gone"} => closing'[c] # "open"
  BY DEF Upgrade, BeginFrame, OtherFrame, Finish, Abort, RefuseNew, CloseWith, TypeOK, Jobs
<1>4. Placed' /\ Made'
  BY <1>1, ZenonT(60) DEF Placed, Made, netVars
<1>5. Standing'
  BY <1>1, <1>2, ZenonT(60) DEF Standing, CloseDue, netVars, jobVars
<1>6. Jobs'
  <2>1. evict' = evict /\ demoted' = demoted /\ old' = old /\ net' = net
    BY <1>1, ZenonT(60) DEF jobVars
  <2>2. \A d \in Conn : rpc'[d] \in {"leave", "gone"} => closing'[d] # "open"
    <3>1. ASSUME NEW d \in Conn, d # c, rpc'[d] \in {"leave", "gone"} PROVE closing'[d] # "open"
      <4>1. closing[d] # "open"
        BY <1>3, <3>1, ZenonT(60) DEF Jobs
      <4> QED BY <1>2, <4>1, ZenonT(60)
    <3> QED BY <1>3, <3>1, ZenonT(60)
  <2>3. \A d \in Conn : rpc[d] \in {"after", "refuse"} => rpc'[d] = rpc[d]
    BY <1>3, ZenonT(60)
  <2> QED BY <1>2, <2>1, <2>2, <2>3, ZenonT(60) DEF Jobs
<1>7. Latest'
  BY <1>1, <1>2 DEF Latest, jobVars, TypeOK
<1> QED BY <1>4, <1>5, <1>6, <1>7, ZenonT(60) DEF Rest

\* What handlers do after unlocking: a connection leaves a handler's evict or old only as it
\* is closed.
LEMMA AfterStep ==
    ASSUME IInv, NEW c \in Conn, AfterUnlock(c)
    PROVE  Rest'
<1> USE DEF IInv
<1>1. UNCHANGED <<netVars, net, id, latest>>
  BY ZenonT(60) DEF AfterUnlock, CloseEvicted, Demote, CloseReplaced, CloseRefused
<1>2. Placed' /\ Made'
  BY <1>1, ZenonT(60) DEF Placed, Made, netVars
<1>3. CASE CloseEvicted(c)
  <2> PICK e \in evict[c] : /\ CloseWith(e, "notMember")
                            /\ evict' = [evict EXCEPT ![c] = @ \ {e}]
    BY <1>3, ZenonT(60) DEF CloseEvicted
  <2>1. /\ \A d \in Conn : closing'[d] = IF d = e /\ closing[d] = "open" THEN "notMember" ELSE closing[d]
        /\ \A d \in Conn : evict'[d] = IF d = c THEN evict[c] \ {e} ELSE evict[d]
        /\ UNCHANGED <<rpc, demoted, old>>
        /\ e \in Conn
    BY <1>3 DEF CloseEvicted, CloseWith, TypeOK
  <2>2. Standing'
    BY <1>1, <2>1, ZenonT(60) DEF Standing, CloseDue, netVars, TypeOK
  <2>3. Jobs'
    BY <1>1, <2>1, ZenonT(60) DEF Jobs, TypeOK
  <2>4. Latest'
    BY <1>1, <2>1 DEF Latest, TypeOK
  <2> QED BY <1>2, <2>2, <2>3, <2>4, ZenonT(60) DEF Rest
<1>4. CASE Demote(c)
  <2>1. Standing' /\ Latest'
    BY <1>1, <1>4 DEF Demote, Standing, CloseDue, netVars, Latest
  <2>2. Jobs'
    BY <1>1, <1>4, ZenonT(60) DEF Demote, Jobs, TypeOK
  <2> QED BY <1>2, <2>1, <2>2, ZenonT(60) DEF Rest
<1>5. CASE CloseReplaced(c)
  <2>1. /\ \A d \in Conn : closing'[d] = IF d = old[c] /\ closing[d] = "open" THEN "replaced" ELSE closing[d]
        /\ \A d \in Conn : old'[d] = IF d = c THEN None ELSE old[d]
        /\ \A d \in Conn : rpc'[d] = IF d = c THEN "read" ELSE rpc[d]
        /\ UNCHANGED <<evict, demoted>> /\ evict[c] = {} /\ demoted[c] = None
    BY <1>5 DEF CloseReplaced, CloseWith, TypeOK
  <2>2. Standing'
    <3> SUFFICES ASSUME NEW d \in Conn, net[d] # None, closing'[d] = "open", ~CloseDue(d)'
                 PROVE  members[net[d]][id[d]] = d
      BY <1>1, ZenonT(60) DEF Standing, netVars
    <3>1. closing[d] = "open" /\ d # old[c]
      BY <2>1, ZenonT(60)
    <3>2. ~CloseDue(d)
      BY <2>1, <3>1, ZenonT(60) DEF CloseDue
    <3> QED BY <3>1, <3>2, ZenonT(60) DEF Standing
  <2>3. Jobs'
    <3>1. \A d \in Conn : closing'[d] = "replaced" => net'[d] # None
      BY <1>1, <2>1 DEF Jobs
    <3>2. \A d \in Conn : old'[d] # None => rpc'[d] = "after" /\ net'[old'[d]] # None
      BY <1>1, <2>1, ZenonT(60) DEF Jobs
    <3>3. \A d \in Conn : /\ rpc'[d] \in {"leave", "gone"} => closing'[d] # "open"
                          /\ evict'[d] # {} \/ demoted'[d] # None => rpc'[d] \in {"after", "refuse"}
      BY <2>1, ZenonT(60) DEF Jobs
    <3> QED BY <3>1, <3>2, <3>3, ZenonT(60) DEF Jobs
  <2>4. Latest'
    BY <1>1, <2>1 DEF Latest, TypeOK
  <2> QED BY <1>2, <2>2, <2>3, <2>4, ZenonT(60) DEF Rest
<1>6. CASE CloseRefused(c)
  <2>1. /\ \A d \in Conn : closing'[d] = IF d = c /\ closing[d] = "open" THEN "notMember" ELSE closing[d]
        /\ \A d \in Conn : rpc'[d] = IF d = c THEN "leave" ELSE rpc[d]
        /\ UNCHANGED <<evict, demoted, old>> /\ evict[c] = {} /\ demoted[c] = None /\ old[c] = None
    BY <1>6, ZenonT(60) DEF CloseRefused, CloseWith, jobVars, TypeOK, Jobs
  <2>2. Standing'
    BY <1>1, <2>1, ZenonT(60) DEF Standing, CloseDue, netVars, TypeOK
  <2>3. Jobs'
    BY <1>1, <2>1, ZenonT(60) DEF Jobs, TypeOK
  <2>4. Latest'
    BY <1>1, <2>1 DEF Latest, TypeOK
  <2> QED BY <1>2, <2>2, <2>3, <2>4, ZenonT(60) DEF Rest
<1> QED BY <1>3, <1>4, <1>5, <1>6, ZenonT(60) DEF AfterUnlock

\* Leaving, forgetting and compacting.
LEMMA LeaveStep ==
    ASSUME IInv, NEW c \in Conn, Unregister(c)
    PROVE  Rest'
<1> USE DEF IInv
<1>1. /\ UNCHANGED <<held, roster, net, id, closing, evict, demoted, old, latest>>
      /\ \A d \in Conn : rpc'[d] = IF d = c THEN "gone" ELSE rpc[d]
      /\ rpc[c] = "leave"
  BY ZenonT(60) DEF Unregister, jobVars, TypeOK
<1>2. \A o \in Obj, x \in Node : members'[o][x] # members[o][x] => members[o][x] = c /\ members'[o][x] = None
  <2>1. CASE net[c] # None /\ members[net[c]][id[c]] = c
    <3>1. net[c] \in Obj /\ id[c] \in Node
      BY <2>1, ZenonT(60) DEF TypeOK, Made
    <3>2. members \in [Obj -> [Node -> Conn \cup {None}]] /\ members' = [members EXCEPT ![net[c]][id[c]] = None]
      BY <2>1, ZenonT(60) DEF Unregister, TypeOK
    <3>3. members'[net[c]] = [members[net[c]] EXCEPT ![id[c]] = None] /\ \A o \in Obj : o # net[c] => members'[o] = members[o]
      BY <3>1, <3>2, ZenonT(60)
    <3>4. members'[net[c]][id[c]] = None /\ \A x \in Node : x # id[c] => members'[net[c]][x] = members[net[c]][x]
      BY <3>1, <3>2, <3>3, ZenonT(60)
    <3> QED BY <2>1, <3>3, <3>4, ZenonT(60)
  <2>2. CASE ~(net[c] # None /\ members[net[c]][id[c]] = c)
    BY <2>2, ZenonT(60) DEF Unregister
  <2> QED BY <2>1, <2>2, ZenonT(60)
<1>3. Placed'
  <2> SUFFICES ASSUME NEW o \in Obj, NEW x \in Node, members'[o][x] # None
               PROVE  /\ net[members'[o][x]] = o /\ id[members'[o][x]] = x /\ held = o
                      /\ roster[o] # None /\ x \in roster[o].members
    BY <1>1 DEF Placed
  <2>1. members'[o][x] = members[o][x]
    BY <1>2, ZenonT(60)
  <2> QED BY <2>1, ZenonT(60) DEF Placed
<1>4. Made' /\ Latest'
  BY <1>1, ZenonT(60) DEF Made, Latest
<1>5. Standing'
  <2> SUFFICES ASSUME NEW d \in Conn, net[d] # None, closing[d] = "open", ~CloseDue(d)
               PROVE  members'[net[d]][id[d]] = d
    BY <1>1, ZenonT(60) DEF Standing, CloseDue
  <2>1. d # c
    BY <1>1, ZenonT(60) DEF Jobs
  <2>2. members[net[d]][id[d]] = d /\ net[d] \in Obj /\ id[d] \in Node
    BY DEF Standing, Made, TypeOK
  <2> QED BY <2>1, <2>2, <1>2, ZenonT(60)
<1>6. Jobs'
  <2>1. \A d \in Conn : rpc[d] \in {"after", "refuse"} => rpc'[d] = rpc[d]
    BY <1>1, ZenonT(60)
  <2>2. \A d \in Conn : rpc'[d] \in {"leave", "gone"} => rpc[d] \in {"leave", "gone"}
    BY <1>1, ZenonT(60)
  <2> QED BY <1>1, <2>1, <2>2, ZenonT(60) DEF Jobs
<1> QED BY <1>3, <1>4, <1>5, <1>6, ZenonT(60) DEF Rest

\* Only an empty network is forgotten, so nobody loses their place.
LEMMA ForgetStep ==
    ASSUME IInv, Forget \/ Compact
    PROVE  Rest'
<1> USE DEF IInv
<1>1. UNCHANGED <<roster, members, rpc, net, id, closing, evict, demoted, old, latest>>
  BY ZenonT(60) DEF Forget, Compact, jobVars
<1>2. held' \in {held, None} /\ held # None /\ Empty(held)
  BY ZenonT(60) DEF Forget, Compact
<1>3. \A o \in Obj, x \in Node : members[o][x] = None
  BY <1>2 DEF Placed, Empty, TypeOK
<1>4. Placed' /\ Made'
  BY <1>1, <1>2, <1>3, ZenonT(60) DEF Placed, Made
<1>5. Standing' /\ Jobs' /\ Latest'
  BY <1>1, ZenonT(60) DEF Standing, CloseDue, Jobs, Latest
<1> QED BY <1>4, <1>5, ZenonT(60) DEF Rest

\* The invariant is inductive.
LEMMA NextInv == IInv /\ [Next]_vars => IInv'
<1> SUFFICES ASSUME IInv, [Next]_vars PROVE IInv'
  BY ZenonT(60)
<1>1. TypeOK'
  BY TypeStep, ZenonT(60) DEF IInv
<1> SUFFICES Rest'
  BY <1>1, ZenonT(60) DEF IInv, Rest
<1> USE DEF IInv
<1>2. CASE UNCHANGED vars
  <2>1. Placed' /\ Made'
    BY <1>2, ZenonT(60) DEF vars, Placed, Made
  <2>2. Standing' /\ Latest'
    BY <1>2, ZenonT(60) DEF vars, Standing, CloseDue, Latest
  <2>3. Jobs'
    BY <1>2, ZenonT(60) DEF vars, Jobs
  <2> QED BY <2>1, <2>2, <2>3, ZenonT(60) DEF Rest
<1>3. ASSUME NEW c \in Conn, ConnStep(c) PROVE Rest'
  <2>1. CASE Upgrade(c) \/ BeginFrame(c) \/ OtherFrame(c) \/ Finish(c) \/ Abort(c)
    BY <2>1, ReaderStep, ZenonT(60)
  <2>2. ASSUME NEW x \in Node, NEW r \in Rosters, RegisterNew(c, x, r) PROVE Rest'
    <3> PICK o \in Obj : roster[o] = None /\ held' = o /\ roster' = [roster EXCEPT ![o] = r] /\ Enter(c, o, x, members[o])
      BY <2>2, ZenonT(60) DEF RegisterNew
    <3>1. \A y \in Node : members[o][y] = None
      BY ZenonT(60) DEF Placed
    <3>2. members[o] \in [Node -> Conn \cup {None}]
      BY ZenonT(60) DEF TypeOK
    <3>3. /\ rpc[c] = "frame" /\ net[c] = None /\ held = None /\ x \in r.members
          /\ UNCHANGED <<compact, closing, evict, demoted>>
      BY <2>2, ZenonT(60) DEF RegisterNew
    <3>4. Room(c, o, r, members[o]) /\ held \in {None, o}
      BY <3>1, <3>3, ZenonT(60) DEF Room
    <3> QED BY <1>1, <3>2, <3>3, <3>4, EnterStep, ZenonT(60)
  <2>3. ASSUME NEW x \in Node, NEW r \in Rosters, RefuseNew(c, x, r) PROVE Rest'
    BY <2>3, ReaderStep, ZenonT(60)
  <2>4. ASSUME NEW x \in Node, NEW r \in Rosters, RegisterNewer(c, x, r) PROVE Rest'
    <3>1. /\ rpc[c] = "frame" /\ net[c] = None /\ held \in Obj /\ held' = held /\ roster[held] # None
          /\ AdoptLocked(c, held, r) /\ UNCHANGED closing
      BY <2>4, ZenonT(60) DEF RegisterNewer, TypeOK, Made
    <3>2. CASE x \in r.members
      <4>1. Enter(c, held, x, Kept(held, r))
        BY <2>4, <3>2, ZenonT(60) DEF RegisterNewer
      <4>2. /\ Kept(held, r) \in [Node -> Conn \cup {None}]
            /\ \A y \in Node : Kept(held, r)[y] = IF y \in r.members THEN members[held][y] ELSE None
        BY <3>1, AdoptTypes, ZenonT(60) DEF Kept
      <4>3. roster' = [roster EXCEPT ![held] = r]
        BY <3>1, ZenonT(60) DEF AdoptLocked
      <4>4. \A y \in Node \ r.members : members[held][y] # None => members[held][y] \in evict'[c]
        BY <3>1, ZenonT(60) DEF AdoptLocked, Dropped, TypeOK
      <4>5. \A d \in Conn \ {c} : evict'[d] = evict[d] /\ demoted'[d] = demoted[d]
        BY <3>1, ZenonT(60) DEF AdoptLocked, TypeOK
      <4>6. Room(c, held, r, Kept(held, r)) /\ held \in {None, held}
        BY <4>2, <4>4, <4>5, ZenonT(60) DEF Room
      <4> HIDE DEF IInv
      <4> QED BY <1>1, <3>1, <3>2, <4>1, <4>2, <4>3, <4>6, EnterStep, ZenonT(60)
    <3>3. CASE x \notin r.members
      <4>1. /\ members' = [members EXCEPT ![held] = Kept(held, r)]
            /\ rpc' = [rpc EXCEPT ![c] = "refuse"]
            /\ UNCHANGED <<net, id, old, latest>>
        BY <2>4, <3>3, ZenonT(60) DEF RegisterNewer
      <4> QED BY <1>1, <3>1, <4>1, AdoptStep, ZenonT(60)
    <3> QED BY <3>2, <3>3, ZenonT(60)
  <2>5. ASSUME NEW x \in Node, NEW r \in Rosters, RegisterHeld(c, x, r) PROVE Rest'
    <3>1. /\ rpc[c] = "frame" /\ net[c] = None /\ held \in Obj /\ held' = held /\ roster[held] \in Rosters
          /\ UNCHANGED <<closing, evict, demoted>>
      BY <2>5, ZenonT(60) DEF RegisterHeld, TypeOK, Made
    <3>2. PICK q \in Rosters : roster' = [roster EXCEPT ![held] = q] /\ q.members = roster[held].members
      <4>1. CASE Restores(held, r)
        BY <2>5, <4>1, ZenonT(60) DEF RegisterHeld, Restores
      <4>2. CASE ~Restores(held, r)
        BY <2>5, <3>1, <4>2, ZenonT(60) DEF RegisterHeld
      <4> QED BY <4>1, <4>2, ZenonT(60)
    <3>3. \A y \in Node : members[held][y] = IF y \in q.members THEN members[held][y] ELSE None
      BY <3>1, <3>2, ZenonT(60) DEF Placed
    <3>4. CASE x \in roster[held].members
      <4>1. Enter(c, held, x, members[held])
        BY <2>5, <3>4, ZenonT(60) DEF RegisterHeld
      <4>2. members[held] \in [Node -> Conn \cup {None}]
        BY <3>1, ZenonT(60) DEF TypeOK
      <4>3. Room(c, held, q, members[held]) /\ held \in {None, held} /\ x \in q.members
        BY <3>1, <3>2, <3>3, <3>4, ZenonT(60) DEF Room
      <4> HIDE DEF IInv
      <4> QED BY <1>1, <3>1, <3>2, <4>1, <4>2, <4>3, EnterStep, ZenonT(60)
    <3>5. CASE x \notin roster[held].members
      <4>1. rpc' = [rpc EXCEPT ![c] = "refuse"] /\ UNCHANGED <<members, net, id, old, latest>>
        BY <2>5, <3>5, ZenonT(60) DEF RegisterHeld
      <4>2. /\ roster'[held] = q /\ q # None /\ \A o \in Obj \ {held} : roster'[o] = roster[o]
            /\ \A d \in Conn : rpc'[d] = IF d = c THEN "refuse" ELSE rpc[d]
        BY <3>1, <3>2, <4>1, ZenonT(60) DEF TypeOK
      <4>3. Placed'
        BY <3>1, <3>2, <4>1, <4>2 DEF Placed
      <4>4. Made' /\ Latest'
        <5>1. \A o \in Obj : roster[o] # None => roster'[o] # None
          BY <4>2, ZenonT(60)
        <5> QED BY <3>1, <4>1, <5>1 DEF Made, Latest, TypeOK
      <4>5. Standing'
        BY <3>1, <4>1, ZenonT(60) DEF Standing, CloseDue
      <4>6. Jobs'
        <5>1. \A d \in Conn : rpc[d] \in {"after", "refuse"} => rpc'[d] = rpc[d]
          BY <3>1, <4>2, ZenonT(60)
        <5>2. \A d \in Conn : rpc'[d] \in {"leave", "gone"} => rpc[d] \in {"leave", "gone"}
          BY <4>2, ZenonT(60)
        <5>3. UNCHANGED <<closing, evict, demoted, old, net>>
          BY <3>1, <4>1, ZenonT(60)
        <5>4. \A d \in Conn : rpc'[d] \in {"leave", "gone"} => closing'[d] # "open"
          BY <5>2, <5>3, ZenonT(60) DEF Jobs
        <5>5. \A d \in Conn : evict'[d] # {} \/ demoted'[d] # None => rpc'[d] \in {"after", "refuse"}
          BY <5>1, <5>3, ZenonT(60) DEF Jobs
        <5>6. \A d \in Conn : old'[d] # None => rpc'[d] = "after" /\ net'[old'[d]] # None
          BY <5>1, <5>3, ZenonT(60) DEF Jobs
        <5>7. \A d \in Conn : closing'[d] = "replaced" => net'[d] # None
          BY <5>3, ZenonT(60) DEF Jobs
        <5> QED BY <5>4, <5>5, <5>6, <5>7, ZenonT(60) DEF Jobs
      <4> QED BY <4>3, <4>4, <4>5, <4>6, ZenonT(60) DEF Rest
    <3> QED BY <3>4, <3>5, ZenonT(60)
  <2>6. ASSUME NEW r \in Rosters, PushRoster(c, r) PROVE Rest'
    <3>1. /\ rpc[c] = "frame" /\ net[c] \in Obj /\ roster[net[c]] # None
          /\ UNCHANGED <<held, net, id, closing, old, latest>>
      BY <2>6 DEF PushRoster, TypeOK, Made
    <3>2. CASE r.version <= roster[net[c]].version
      <4>1. rpc' = [rpc EXCEPT ![c] = "read"] /\ UNCHANGED <<roster, members, evict, demoted>>
        BY <2>6, <3>2, ZenonT(60) DEF PushRoster
      <4>2. \A d \in Conn : rpc'[d] = IF d = c THEN "read" ELSE rpc[d]
        BY <4>1, ZenonT(60) DEF TypeOK
      <4>3. Placed'
        BY <3>1, <4>1, ZenonT(60) DEF Placed
      <4>4. Made' /\ Latest'
        BY <3>1, <4>1, ZenonT(60) DEF Made, Latest
      <4>5. Standing'
        BY <3>1, <4>1, ZenonT(60) DEF Standing, CloseDue
      <4>6. Jobs'
        BY <3>1, <4>1, <4>2, SMTT(30) DEF Jobs
      <4> QED BY <4>3, <4>4, <4>5, <4>6, ZenonT(60) DEF Rest
    <3>3. CASE ~(r.version <= roster[net[c]].version)
      <4>1. /\ AdoptLocked(c, net[c], r)
            /\ members' = [members EXCEPT ![net[c]] = Kept(net[c], r)]
            /\ rpc' = [rpc EXCEPT ![c] = "after"]
        BY <2>6, <3>3, ZenonT(60) DEF PushRoster
      <4> QED BY <1>1, <3>1, <4>1, AdoptStep, ZenonT(60)
    <3> QED BY <3>2, <3>3, ZenonT(60)
  <2>7. CASE AfterUnlock(c)
    BY <2>7, AfterStep, ZenonT(60)
  <2>8. CASE Unregister(c)
    BY <2>8, LeaveStep, ZenonT(60)
  <2> QED BY <1>3, <2>1, <2>2, <2>3, <2>4, <2>5, <2>6, <2>7, <2>8, ZenonT(60) DEF ConnStep, Register
<1>4. CASE Forget \/ Compact
  BY <1>4, ForgetStep, ZenonT(60)
<1> QED BY <1>2, <1>3, <1>4, ZenonT(60) DEF Next

\* The inductive invariant holds in every reachable state.
THEOREM Invariance == Spec => []IInv
<1> QED BY InitInv, NextInv, PTL DEF Spec

\* The registry's variables keep their types (Registry's TypeOK).
THEOREM TypeCorrect == Spec => []TypeOK
<1>1. IInv => TypeOK
  BY ZenonT(60) DEF IInv
<1> QED BY <1>1, Invariance, PTL

\* For any number of connections, nodes, objects and rosters, no interleaving of
\* registrations, pushes, closes, departures and forgetting leaves a live registered
\* connection that nobody is about to close outside the held network's table or off its
\* roster (admit, adoptLocked, pushRoster, unregister, janitorLoop).
THEOREM Reachable == Spec => []LiveIsReachable
<1>1. IInv => LiveIsReachable
  <2> SUFFICES ASSUME IInv, NEW c \in Conn, net[c] # None, closing[c] = "open", ~CloseDue(c)
               PROVE  net[c] = held /\ members[held][id[c]] = c /\ id[c] \in roster[held].members
    BY ZenonT(60) DEF LiveIsReachable
  <2>1. net[c] \in Obj /\ id[c] \in Node /\ members[net[c]][id[c]] = c
    BY SMTT(30) DEF IInv, TypeOK, Made, Standing
  <2>2. members[net[c]][id[c]] # None
    BY <2>1, ZenonT(60)
  <2>3. held = net[c] /\ id[c] \in roster[net[c]].members
    BY <2>1, <2>2, ZenonT(60) DEF IInv, Placed
  <2> QED BY <2>1, <2>3, ZenonT(60)
<1> QED BY <1>1, Invariance, PTL

\* The last connection admitted for a node is never closed as replaced, however its
\* admission races with others of the same node (admit's close of old after it unlocks).
THEOREM NotReplaced == Spec => []LatestNotReplaced
<1>1. IInv => LatestNotReplaced
  BY ZenonT(60) DEF IInv, Latest, LatestNotReplaced
<1> QED BY <1>1, Invariance, PTL

\* No step takes an object's roster back to an older version, nor changes its member list
\* within a version (admit's and pushRoster's comparisons, the restore of a compact record).
THEOREM NeverBack == Spec => NoRollback
<1> DEFINE Forward(o) == roster[o] # None =>
          /\ roster'[o].version >= roster[o].version
          /\ roster'[o].version = roster[o].version => roster'[o].members = roster[o].members
<1> DEFINE Newer(o) == \E r \in Rosters :
          /\ roster'[o] = r
          /\ r.version > roster[o].version \/ (r.version = roster[o].version /\ r.members = roster[o].members)
<1> HIDE DEF Forward
<1>1. TypeOK /\ Next => \A o \in Obj : roster[o] # None /\ roster'[o] # roster[o] => Newer(o)
  <2> SUFFICES ASSUME TypeOK, Next, NEW o \in Obj, roster[o] # None, roster'[o] # roster[o] PROVE Newer(o)
    BY ZenonT(60)
  <2>1. PICK c \in Conn : Register(c) \/ \E r \in Rosters : PushRoster(c, r)
    BY ZenonT(60) DEF Next, ConnStep, Upgrade, BeginFrame, OtherFrame, Finish, Abort, AfterUnlock, CloseEvicted,
           Demote, CloseReplaced, CloseRefused, Unregister, Forget, Compact, netVars
  <2>3. roster[o] \in Rosters
    BY ZenonT(60) DEF TypeOK
  <2>4. CASE Register(c)
    <3> PICK x \in Node, r \in Rosters :
          RegisterNew(c, x, r) \/ RefuseNew(c, x, r) \/ RegisterNewer(c, x, r) \/ RegisterHeld(c, x, r)
      BY <2>4, ZenonT(60) DEF Register
    <3>1. CASE RegisterNew(c, x, r)
      BY <3>1, ZenonT(60) DEF RegisterNew, TypeOK
    <3>2. CASE RegisterNewer(c, x, r)
      BY <3>2, ZenonT(60) DEF RegisterNewer, AdoptLocked, TypeOK
    <3>3. CASE RegisterHeld(c, x, r)
      BY <3>3, ZenonT(60) DEF RegisterHeld, Restores, TypeOK
    <3>4. CASE RefuseNew(c, x, r)
      BY <3>4, ZenonT(60) DEF RefuseNew, netVars
    <3> QED BY <3>1, <3>2, <3>3, <3>4, ZenonT(60)
  <2>5. ASSUME NEW r \in Rosters, PushRoster(c, r)
        PROVE  roster'[o] = r /\ r.version > roster[o].version
    <3>1. net[c] = o /\ ~(r.version <= roster[o].version) /\ roster' = [roster EXCEPT ![o] = r]
      BY <2>5 DEF PushRoster, AdoptLocked, TypeOK
    <3> QED BY RosterTypes, <2>3, <3>1 DEF TypeOK
  <2> QED BY <2>1, <2>4, <2>5, ZenonT(60)
<1> HIDE DEF Newer
<1>2. IInv /\ [Next]_vars => [\A o \in Obj : Forward(o)]_vars
  <2> SUFFICES ASSUME IInv, Next PROVE \A o \in Obj : Forward(o)
    BY ZenonT(60)
  <2> SUFFICES ASSUME NEW o \in Obj, roster[o] # None PROVE Forward(o)
    BY ZenonT(60) DEF Forward
  <2>1. TypeOK /\ roster[o] \in Rosters
    BY ZenonT(60) DEF IInv, TypeOK
  <2>3. CASE roster'[o] = roster[o]
    BY <2>1, RosterTypes, <2>3 DEF Forward
  <2>4. CASE roster'[o] # roster[o]
    <3>1. Newer(o)
      BY <1>1, <2>1, <2>4, ZenonT(60)
    <3> QED BY <2>1, RosterTypes, <3>1 DEF Forward, Newer
  <2> QED BY <2>3, <2>4, ZenonT(60)
<1> QED BY <1>2, Invariance, PTL DEF Spec, NoRollback, Forward

-----------------------------------------------------------------------------
(* The control budgets. *)

\* The times readers and the window hold have been.
PastTimes ==
    /\ mark <= now
    /\ \A c \in Reader : reader[c] # NoTime => reader[c] <= now

\* What a member spent in the window is within its arrival time, which is within its burst.
OwnInv ==
    \A m \in Member :
        /\ spent[m] <= Larger(memberCtl[m], mark) - mark
        /\ memberCtl[m] <= now + OwnBurst

\* The same of the network's, whose burst is that of some rate there was.
NetInv ==
    /\ netSpent <= Larger(ctlTAT, mark) - mark
    /\ \E r \in Rate : ctlTAT <= now + NetBurst(r)

BudgetInv == BudgetTypeOK /\ PastTimes /\ OwnInv /\ NetInv

-----------------------------------------------------------------------------

\* A quotient of naturals is natural: costs and bursts are times.
LEMMA CostNat == ASSUME NEW n \in Nat, NEW rate \in Nat \ {0} PROVE Cost(n, rate) \in Nat
  <1>1. n * Second \in Nat
    BY BudgetAssumption, SMTT(30)
  <1>2. ASSUME NEW x \in Nat PROVE x \div rate \in Nat
    BY SMTT(30)
  <1>. QED
    BY <1>1, <1>2, ZenonT(60) DEF Cost

\* controlCeilingLocked never gives the rate zero, by which it is divided.
LEMMA CeilingTypes ==
    ASSUME NEW r \in Rate
    PROVE  CeilingRate(r) \in Nat \ {0} /\ CeilingBurst(r) \in Nat
  <1>1. r \in Nat /\ r \div 2 \in Nat
    BY BudgetAssumption, SMTT(30)
  <1>2. CeilingRate(r) \in Nat \ {0}
    BY <1>1, BudgetAssumption, SMTT(30) DEF CeilingRate, Larger, Smaller
  <1>. QED
    BY <1>2, BudgetAssumption, SMTT(30) DEF CeilingBurst, Larger, Smaller

LEMMA CostTypes ==
    /\ OwnBurst \in Nat
    /\ \A r \in Rate : NetBurst(r) \in Nat
    /\ \A n \in Size : Own(n) \in Nat
    /\ \A n \in Size : inForce \in Rate => Net(n) \in Nat
  <1>1. OwnBurst \in Nat
    BY CostNat, BudgetAssumption, ZenonT(60) DEF OwnBurst
  <1>2. \A r \in Rate : NetBurst(r) \in Nat
    BY CostNat, CeilingTypes, ZenonT(60) DEF NetBurst
  <1>3. \A n \in Size : Own(n) \in Nat
    BY CostNat, BudgetAssumption, ZenonT(60) DEF Own
  <1>4. \A n \in Size : inForce \in Rate => Net(n) \in Nat
    BY CostNat, CeilingTypes, BudgetAssumption, ZenonT(60) DEF Net
  <1>. QED
    BY <1>1, <1>2, <1>3, <1>4, ZenonT(60)

\* allow, on one budget: if all spent since the mark lay within the arrival time, it still does
\* once a frame timed at t (spent in the window only if t is in it) is taken, and the arrival
\* time is within the burst of a clock that t is not ahead of.
LEMMA AllowBound ==
    ASSUME NEW tat \in Nat, NEW t \in Nat, NEW cost \in Nat, NEW burst \in Nat,
           NEW mk \in Nat, NEW sp \in Nat, NEW clock \in Nat,
           t <= clock,
           sp <= Larger(tat, mk) - mk,
           Allows(tat, t, cost, burst)
    PROVE  /\ Next1(tat, t, cost) \in Nat
           /\ Next1(tat, t, cost) <= clock + burst
           /\ sp <= Larger(Next1(tat, t, cost), mk) - mk
           /\ t >= mk => sp + cost <= Larger(Next1(tat, t, cost), mk) - mk
  BY SMTT(30) DEF Allows, Next1, Larger

-----------------------------------------------------------------------------

LEMMA BudgetStarts == BudgetInit => BudgetInv
  <1>. SUFFICES ASSUME BudgetInit PROVE BudgetInv
    BY ZenonT(60)
  <1>1. BudgetTypeOK
    BY BudgetAssumption, ZenonT(60) DEF BudgetInit, BudgetTypeOK
  <1>2. PastTimes
    BY DEF BudgetInit, PastTimes
  <1>3. OwnInv
    <2>1. OwnBurst \in Nat
      BY CostTypes, ZenonT(60)
    <2>. SUFFICES ASSUME NEW m \in Member
                  PROVE  spent[m] <= Larger(memberCtl[m], mark) - mark /\ memberCtl[m] <= now + OwnBurst
      BY ZenonT(60) DEF OwnInv
    <2>2. spent[m] = 0 /\ memberCtl[m] = 0 /\ mark = 0 /\ now = 0
      BY ZenonT(60) DEF BudgetInit
    <2>. QED
      BY <2>1, <2>2 DEF Larger
  <1>4. NetInv
    BY CostTypes DEF BudgetInit, NetInv, Larger
  <1>. QED
    BY <1>1, <1>2, <1>3, <1>4, ZenonT(60) DEF BudgetInv

LEMMA AllowStep ==
    ASSUME BudgetInv, NEW c \in Reader, NEW n \in Size, AllowControl(c, n)
    PROVE  BudgetInv'
  <1>. DEFINE t == reader[c]
              m == MemberOf[c]
              own == Next1(memberCtl[m], t, Own(n))
              all == Next1(ctlTAT, t, Net(n))
  <1>1. /\ t \in Nat /\ t <= now /\ m \in Member
        /\ memberCtl[m] \in Nat /\ ctlTAT \in Nat /\ spent[m] \in Nat /\ netSpent \in Nat
        /\ now \in Nat /\ mark \in Nat /\ inForce \in Rate
    BY BudgetAssumption, ZenonT(60) DEF BudgetInv, BudgetTypeOK, PastTimes, AllowControl
  <1>2. Own(n) \in Nat /\ Net(n) \in Nat /\ OwnBurst \in Nat /\ NetBurst(inForce) \in Nat
    BY <1>1, CostTypes, ZenonT(60)
  <1>3. /\ own \in Nat /\ own <= now + OwnBurst
        /\ spent[m] <= Larger(own, mark) - mark
        /\ t >= mark => spent[m] + Own(n) <= Larger(own, mark) - mark
    <2>1. Allows(memberCtl[m], t, Own(n), OwnBurst)
      BY ZenonT(60) DEF AllowControl
    <2>2. spent[m] <= Larger(memberCtl[m], mark) - mark
      BY <1>1, ZenonT(60) DEF BudgetInv, OwnInv
    <2>. QED
      BY <1>1, <1>2, <2>1, <2>2, AllowBound, ZenonT(60)
  <1>4. /\ all \in Nat /\ all <= now + NetBurst(inForce)
        /\ netSpent <= Larger(all, mark) - mark
        /\ t >= mark => netSpent + Net(n) <= Larger(all, mark) - mark
    <2>1. Allows(ctlTAT, t, Net(n), NetBurst(inForce))
      BY ZenonT(60) DEF AllowControl
    <2>2. netSpent <= Larger(ctlTAT, mark) - mark
      BY ZenonT(60) DEF BudgetInv, NetInv
    <2>. QED
      BY <1>1, <1>2, <2>1, <2>2, AllowBound, ZenonT(60)
  <1>5. /\ memberCtl' = [memberCtl EXCEPT ![m] = own] /\ ctlTAT' = all
        /\ spent' = IF t >= mark THEN [spent EXCEPT ![m] = @ + Own(n)] ELSE spent
        /\ netSpent' = IF t >= mark THEN netSpent + Net(n) ELSE netSpent
        /\ reader' = [reader EXCEPT ![c] = NoTime]
        /\ now' = now /\ inForce' = inForce /\ mark' = mark
    BY ZenonT(60) DEF AllowControl
  <1>. HIDE DEF t, m, own, all
  <1>6. BudgetTypeOK'
    BY <1>1, <1>2, <1>3, <1>4, <1>5, SMTT(30) DEF BudgetInv, BudgetTypeOK
  <1>7. PastTimes'
    BY <1>5, ZenonT(60) DEF BudgetInv, BudgetTypeOK, PastTimes
  <1>8. OwnInv'
    <2>. SUFFICES ASSUME NEW k \in Member
                  PROVE  /\ spent'[k] <= Larger(memberCtl'[k], mark) - mark
                         /\ memberCtl'[k] <= now + OwnBurst
      BY <1>5, ZenonT(60) DEF OwnInv
    <2>1. CASE k = m
      <3>1. memberCtl'[k] = own /\ spent'[k] = IF t >= mark THEN spent[m] + Own(n) ELSE spent[m]
        BY <2>1, <1>1, <1>5, ZenonT(60) DEF BudgetInv, BudgetTypeOK
      <3>. QED
        BY <3>1, <1>3, ZenonT(60)
    <2>2. CASE k # m
      <3>1. memberCtl'[k] = memberCtl[k] /\ spent'[k] = spent[k]
        BY <2>2, <1>1, <1>5, ZenonT(60) DEF BudgetInv, BudgetTypeOK
      <3>. QED
        BY <3>1, ZenonT(60) DEF BudgetInv, OwnInv
    <2>. QED
      BY <2>1, <2>2, ZenonT(60)
  <1>9. NetInv'
    <2>1. netSpent' <= Larger(all, mark) - mark
      BY <1>4, <1>5, ZenonT(60)
    <2>2. ctlTAT' <= now' + NetBurst(inForce)
      BY <1>4, <1>5, ZenonT(60)
    <2>. QED
      BY <2>1, <2>2, <1>1, <1>5, ZenonT(60) DEF NetInv, Larger, NetBurst
  <1>. QED
    BY <1>6, <1>7, <1>8, <1>9, ZenonT(60) DEF BudgetInv
\* The clock, the window's mark and the rate in force.
LEMMA ClockStep == ASSUME BudgetInv, Mark \/ Tick \/ Reshaped PROVE BudgetInv'
  <1>0. /\ now \in Nat /\ mark \in Nat /\ now' \in Nat /\ mark' \in Nat
        /\ mark <= now /\ now <= now' /\ mark' <= now'
        /\ memberCtl' = memberCtl /\ ctlTAT' = ctlTAT /\ reader' = reader
        /\ OwnBurst \in Nat /\ ctlTAT \in Nat
    BY CostTypes, SMTT(30) DEF BudgetInv, BudgetTypeOK, PastTimes, Mark, Tick, Reshaped
  <1>1. BudgetTypeOK'
    BY <1>0, SMTT(30) DEF BudgetInv, BudgetTypeOK, Mark, Tick, Reshaped
  <1>2. PastTimes'
    <2>. SUFFICES ASSUME NEW c \in Reader, reader[c] # NoTime PROVE reader[c] <= now'
      BY <1>0, ZenonT(60) DEF PastTimes
    <2>1. reader[c] \in Nat /\ reader[c] <= now
      BY ZenonT(60) DEF BudgetInv, BudgetTypeOK, PastTimes
    <2>. QED
      BY <2>1, <1>0
  <1>3. OwnInv'
    <2>. SUFFICES ASSUME NEW m \in Member
                  PROVE  /\ spent'[m] <= Larger(memberCtl[m], mark') - mark'
                         /\ memberCtl[m] <= now' + OwnBurst
      BY <1>0, ZenonT(60) DEF OwnInv, OwnBurst, Larger
    <2>1. /\ memberCtl[m] \in Nat /\ spent[m] \in Nat
          /\ spent[m] <= Larger(memberCtl[m], mark) - mark /\ memberCtl[m] <= now + OwnBurst
      BY ZenonT(60) DEF BudgetInv, BudgetTypeOK, OwnInv
    <2>2. spent'[m] = 0 \/ (spent'[m] = spent[m] /\ mark' = mark)
      BY ZenonT(60) DEF Mark, Tick, Reshaped
    <2>. QED
      BY <2>1, <2>2, <1>0, SMTT(30) DEF Larger
  <1>4. NetInv'
    <2>1. netSpent' = 0 \/ (netSpent' = netSpent /\ mark' = mark)
      BY ZenonT(60) DEF Mark, Tick, Reshaped
    <2>2. netSpent' <= Larger(ctlTAT', mark') - mark'
      BY <2>1, <1>0, SMTT(30) DEF BudgetInv, NetInv, Larger
    <2>3. PICK r \in Rate : ctlTAT <= now + NetBurst(r)
      BY ZenonT(60) DEF BudgetInv, NetInv
    <2>4. NetBurst(r) \in Nat
      BY CostTypes, ZenonT(60)
    <2>5. ctlTAT' <= now' + NetBurst(r)
      BY <2>3, <2>4, <1>0
    <2>. QED
      BY <2>2, <2>5, ZenonT(60) DEF NetInv, NetBurst, Larger
  <1>. QED
    BY <1>1, <1>2, <1>3, <1>4, ZenonT(60) DEF BudgetInv

\* A reader that comes to a frame, or is refused, spends nothing.
LEMMA HeldStep ==
    ASSUME BudgetInv, NEW c \in Reader,
           Held(c) \/ \E n \in Size : RefuseControl(c, n)
    PROVE  BudgetInv'
  <1>1. /\ reader' = [reader EXCEPT ![c] = now] \/ reader' = [reader EXCEPT ![c] = NoTime]
        /\ UNCHANGED <<now, inForce, memberCtl, ctlTAT, mark, spent, netSpent>>
    BY ZenonT(60) DEF Held, RefuseControl
  <1>2. BudgetTypeOK'
    BY <1>1, ZenonT(60) DEF BudgetInv, BudgetTypeOK
  <1>3. PastTimes'
    BY <1>1, SMTT(30) DEF BudgetInv, BudgetTypeOK, PastTimes
  <1>4. OwnInv' /\ NetInv'
    BY <1>1, ZenonT(60) DEF BudgetInv, OwnInv, NetInv, OwnBurst, NetBurst, Larger
  <1>. QED
    BY <1>2, <1>3, <1>4, ZenonT(60) DEF BudgetInv

LEMMA BudgetStep == BudgetInv /\ [BudgetNext]_budgetVars => BudgetInv'
  <1>. SUFFICES ASSUME BudgetInv, [BudgetNext]_budgetVars PROVE BudgetInv'
    BY ZenonT(60)
  <1>1. CASE UNCHANGED budgetVars
    BY <1>1, ZenonT(60) DEF budgetVars, BudgetInv, BudgetTypeOK, PastTimes, OwnInv, NetInv, OwnBurst, NetBurst, Larger
  <1>2. ASSUME NEW c \in Reader, NEW n \in Size, AllowControl(c, n) PROVE BudgetInv'
    BY <1>2, AllowStep, ZenonT(60)
  <1>3. ASSUME NEW c \in Reader, Held(c) \/ \E n \in Size : RefuseControl(c, n) PROVE BudgetInv'
    BY <1>3, HeldStep, ZenonT(60)
  <1>4. CASE Mark \/ Tick \/ Reshaped
    BY <1>4, ClockStep, ZenonT(60)
  <1>. QED
    BY <1>1, <1>2, <1>3, <1>4, ZenonT(60) DEF BudgetNext

-----------------------------------------------------------------------------

\* The invariant holds in every reachable state.
THEOREM BudgetInvariance == BudgetSpec => []BudgetInv
  BY BudgetStarts, BudgetStep, PTL DEF BudgetSpec

\* The variables keep their types: no budget and no cost is ever negative.
THEOREM BudgetTypes == BudgetSpec => []BudgetTypeOK
  <1>1. BudgetInv => BudgetTypeOK
    BY ZenonT(60) DEF BudgetInv
  <1>. QED
    BY <1>1, BudgetInvariance, PTL

\* allowControl gives each member, in any window, at most its burst and what refilled,
\* whatever the sizes and the order of the times its connections' readers bring.
THEOREM MemberBound == BudgetSpec => []MemberBounded
  <1>1. BudgetInv => MemberBounded
    <2>. SUFFICES ASSUME BudgetInv, NEW m \in Member PROVE spent[m] <= OwnBurst + (now - mark)
      BY ZenonT(60) DEF MemberBounded, MemberBounded
    <2>1. /\ now \in Nat /\ mark \in Nat /\ mark <= now /\ memberCtl[m] \in Nat /\ spent[m] \in Nat
          /\ spent[m] <= Larger(memberCtl[m], mark) - mark /\ memberCtl[m] <= now + OwnBurst
      BY ZenonT(60) DEF BudgetInv, BudgetTypeOK, PastTimes, OwnInv
    <2>. QED
      BY <2>1, CostTypes, SMTT(30) DEF Larger
  <1>. QED
    BY <1>1, BudgetInvariance, PTL

\* The ceiling gives all members together, in any window, at most the burst of some rate and
\* what refilled, however often the rate in force changes.
THEOREM NetworkBound == BudgetSpec => []NetworkBounded
  <1>1. BudgetInv => NetworkBounded
    <2>. SUFFICES ASSUME BudgetInv PROVE NetworkBounded
      BY ZenonT(60)
    <2>1. PICK r \in Rate : ctlTAT <= now + NetBurst(r)
      BY ZenonT(60) DEF BudgetInv, NetInv
    <2>2. /\ now \in Nat /\ mark \in Nat /\ mark <= now /\ ctlTAT \in Nat /\ netSpent \in Nat
          /\ netSpent <= Larger(ctlTAT, mark) - mark /\ NetBurst(r) \in Nat
      BY CostTypes, ZenonT(60) DEF BudgetInv, BudgetTypeOK, PastTimes, NetInv
    <2>3. netSpent <= NetBurst(r) + (now - mark)
      BY <2>1, <2>2, SMTT(30) DEF Larger
    <2>. QED
      BY <2>3, ZenonT(60) DEF NetworkBounded, NetworkBounded
  <1>. QED
    BY <1>1, BudgetInvariance, PTL
=============================================================================
