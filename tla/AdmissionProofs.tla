-------------------------- MODULE AdmissionProofs ---------------------------
(***************************************************************************)
(* Theorems about what the relay lets in. Admission, for any finite set of *)
(* connections, any addresses, shards and limits: what an address is       *)
(* counted for is what it has, Shutdown's walk misses no connection, and   *)
(* nothing arrives once it waits. Shaping, for any number of slots,        *)
(* members and limits: what members are told of the rate is what is in     *)
(* force, a slowed network is watched, and the hour's ring never counts    *)
(* more than the hour saw.                                                 *)
(*                                                                         *)
(* The counts are cardinalities, so each step is about one element that    *)
(* joins or leaves a set. The walk needs to say more than the property     *)
(* does: while it goes on, the connections in the shards behind it have    *)
(* been told, and those in the shard it is at are told or in its batch     *)
(* (Walked). That no one enters behind it is upgrade's second look at      *)
(* closing, under the shard's lock.                                        *)
(*                                                                         *)
(* The sum kept beside the ring is exact whatever happens (Kept). That it  *)
(* stays within the hour needs a correspondence: every slot that has not   *)
(* lapsed holds charges of one moment of the hour with the slot's          *)
(* remainder (Fits), and a moment has one slot, so the slots' sum is at    *)
(* most the hour's. The handlers read the clock before they take the       *)
(* network's lock, so the ring may be told an older time than it has seen; *)
(* the clock is at most one step ahead of a handler under way (InStep),    *)
(* which is what keeps Fits.                                               *)
(***************************************************************************)
EXTENDS Admission, Shaping, ArithmeticTheorems

\* Where a connection can be.
Places == {"new", "arrived", "refused", "counted", "open", "left", "deleted", "gone"}

\* The connections counted against an address, and those of them still pending.
From(a) == {c \in Conn : AddrOf[c] = a /\ CountedIn(c)}
Unregistered(a) == {c \in Conn : AddrOf[c] = a /\ CountedIn(c) /\ ipPending[c]}

\* The connections the WaitGroup waits for.
Unfinished == {c \in Conn : cpc[c] \in {"open", "left", "deleted"}}

\* The counters are exact, and within the limits.
Counts ==
  /\ \A a \in Addr : total[a] = Cardinality(From(a)) /\ pending[a] = Cardinality(Unregistered(a))
  /\ IPPending > 0 => \A a \in Addr : pending[a] <= IPPending
  /\ IPConns > 0 => \A a \in Addr : total[a] <= IPConns
  /\ group = Cardinality(Unfinished)

\* The table is the connections between upgrade and unregister; the walk has told those behind it.
Walked ==
  /\ table = {c \in Conn : cpc[c] \in {"open", "left"}}
  /\ IF spc = "run" THEN visit = 1 ELSE closing
  /\ spc \in {"walk", "close"} => \A c \in table : ShardOf[c] < visit => c \in ended
  /\ spc = "close" => \A c \in table : ShardOf[c] = visit => c \in ended \cup batch
  /\ spc \in {"wait", "stopped"} => table \subseteq ended
  /\ spc = "stopped" => table = {}

\* The inductive invariant.
IInv == TypeOK /\ Counts /\ Walked

\* One more connection is counted.
LEMMA Grows ==
  ASSUME NEW A \in SUBSET Conn, NEW c \in Conn \ A
  PROVE  Cardinality(A) \in Nat /\ Cardinality(A \cup {c}) = Cardinality(A) + 1
  BY AdmissionAssumption, FS_Subset, FS_AddElement, FS_CardinalityType, ZenonT(60)

\* One fewer.
LEMMA Shrinks ==
  ASSUME NEW A \in SUBSET Conn, NEW c \in A
  PROVE  /\ Cardinality(A) \in Nat \ {0} /\ Cardinality(A \ {c}) = Cardinality(A) - 1
         /\ Cardinality(A \ {c}) \in Nat
<1>1. IsFiniteSet(A)
  BY AdmissionAssumption, FS_Subset, ZenonT(60)
<1>2. Cardinality(A) \in Nat /\ Cardinality(A) # 0
  BY <1>1, FS_CardinalityType, FS_EmptySet, ZenonT(60)
<1>3. Cardinality(A \ {c}) = Cardinality(A) - 1
  BY <1>1, FS_RemoveElement, ZenonT(60)
<1> QED BY <1>2, <1>3

\* A relay begins with no connection.
LEMMA InitHolds == AdmitInit => IInv
<1> SUFFICES ASSUME AdmitInit PROVE IInv
  BY ZenonT(60)
<1>1. TypeOK
  <2>1. ipPending \in [Conn -> BOOLEAN] /\ closing \in BOOLEAN
    BY ZenonT(60) DEF AdmitInit
  <2> QED BY <2>1, ZenonT(60) DEF AdmitInit, TypeOK
<1>2. Cardinality({}) = 0
  BY FS_EmptySet, ZenonT(60)
<1>3. (\A a \in Addr : From(a) = {} /\ Unregistered(a) = {}) /\ Unfinished = {}
  BY ZenonT(60) DEF AdmitInit, From, Unregistered, Unfinished, CountedIn
<1>4. Counts
  <2>1. \A a \in Addr : total[a] = 0 /\ pending[a] = 0
    BY ZenonT(60) DEF AdmitInit
  <2>2. 0 <= IPPending /\ 0 <= IPConns
    BY AdmissionAssumption
  <2>3. group = 0
    BY ZenonT(60) DEF AdmitInit
  <2> QED BY <1>2, <1>3, <2>1, <2>2, <2>3, ZenonT(60) DEF Counts
<1>5. Walked
  BY ZenonT(60) DEF AdmitInit, Walked
<1> QED BY <1>1, <1>4, <1>5, ZenonT(60) DEF IInv

\* release: a connection is counted off its address.
LEMMA Released ==
  ASSUME IInv, NEW c \in Conn, CountedIn(c), Release(c), ~CountedIn(c)', NEW l, cpc' = [cpc EXCEPT ![c] = l]
  PROVE  /\ pending' \in [Addr -> Nat] /\ total' \in [Addr -> Nat] /\ ipPending' = ipPending
         /\ \A a \in Addr : /\ total'[a] = Cardinality(From(a)')
                            /\ pending'[a] = Cardinality(Unregistered(a)')
                            /\ IPPending > 0 => pending'[a] <= IPPending
                            /\ IPConns > 0 => total'[a] <= IPConns
<1> USE AdmissionAssumption DEF IInv
<1> DEFINE a0 == AddrOf[c]
<1>1. /\ a0 \in Addr /\ ipPending' = ipPending
      /\ total' = [total EXCEPT ![a0] = @ - 1]
      /\ pending' = [pending EXCEPT ![a0] = IF ipPending[c] THEN @ - 1 ELSE @]
  BY ZenonT(60) DEF Release
<1>2. c \in From(a0) /\ From(a0)' = From(a0) \ {c}
  BY <1>1, ZenonT(60) DEF From, CountedIn, TypeOK
<1>3. \A a \in Addr \ {a0} : From(a)' = From(a) /\ Unregistered(a)' = Unregistered(a)
  BY <1>1, ZenonT(60) DEF From, Unregistered, CountedIn, TypeOK
<1>4. IF ipPending[c] THEN c \in Unregistered(a0) /\ Unregistered(a0)' = Unregistered(a0) \ {c}
                      ELSE Unregistered(a0)' = Unregistered(a0)
  BY <1>1, ZenonT(60) DEF Unregistered, CountedIn, TypeOK
<1>5. From(a0) \in SUBSET Conn /\ Unregistered(a0) \in SUBSET Conn
  BY ZenonT(60) DEF From, Unregistered
<1>6. total[a0] = Cardinality(From(a0)) /\ pending[a0] = Cardinality(Unregistered(a0))
  BY <1>1, ZenonT(60) DEF Counts
<1>7. /\ total[a0] \in Nat \ {0} /\ total[a0] - 1 = Cardinality(From(a0)')
      /\ ipPending[c] => pending[a0] \in Nat \ {0}
      /\ (IF ipPending[c] THEN pending[a0] - 1 ELSE pending[a0]) = Cardinality(Unregistered(a0)')
  <2> HIDE DEF a0, IInv
  <2>1. total[a0] \in Nat \ {0} /\ total[a0] - 1 = Cardinality(From(a0)')
    BY <1>2, <1>5, <1>6, Shrinks, ZenonT(60)
  <2>2. CASE ipPending[c]
    <3>1. pending[a0] \in Nat \ {0} /\ pending[a0] - 1 = Cardinality(Unregistered(a0)')
      BY <2>2, <1>4, <1>5, <1>6, Shrinks
    <3> QED BY <2>1, <2>2, <3>1, ZenonT(60)
  <2>3. CASE ~ipPending[c]
    BY <2>1, <2>3, <1>4, <1>6, ZenonT(60)
  <2> QED BY <2>2, <2>3, ZenonT(60)
<1>8. /\ total'[a0] = total[a0] - 1
      /\ pending'[a0] = IF ipPending[c] THEN pending[a0] - 1 ELSE pending[a0]
      /\ \A a \in Addr \ {a0} : total'[a] = total[a] /\ pending'[a] = pending[a]
  BY <1>1, ZenonT(60) DEF TypeOK
<1> HIDE DEF a0
<1>9. pending' \in [Addr -> Nat] /\ total' \in [Addr -> Nat]
  BY <1>1, <1>7 DEF TypeOK
<1>10. ASSUME NEW a \in Addr
       PROVE  /\ total'[a] = Cardinality(From(a)') /\ pending'[a] = Cardinality(Unregistered(a)')
              /\ IPPending > 0 => pending'[a] <= IPPending
              /\ IPConns > 0 => total'[a] <= IPConns
  <2>1. CASE a = a0
    BY <2>1, <1>1, <1>7, <1>8 DEF Counts, TypeOK
  <2>2. CASE a # a0
    BY <2>2, <1>3, <1>8, ZenonT(60) DEF Counts
  <2> QED BY <2>1, <2>2, ZenonT(60)
<1> QED BY <1>1, <1>9, <1>10, ZenonT(60)

\* A step that leaves the address counts alone, and who is counted.
LEMMA SameCounts ==
  ASSUME IInv, UNCHANGED ip, \A c \in Conn : CountedIn(c)' <=> CountedIn(c)
  PROVE  \A a \in Addr : /\ total'[a] = Cardinality(From(a)')
                         /\ pending'[a] = Cardinality(Unregistered(a)')
                         /\ IPPending > 0 => pending'[a] <= IPPending
                         /\ IPConns > 0 => total'[a] <= IPConns
<1>1. total' = total /\ pending' = pending /\ ipPending' = ipPending
  BY ZenonT(60) DEF ip
<1>2. \A a \in Addr : From(a)' = From(a) /\ Unregistered(a)' = Unregistered(a)
  BY <1>1, ZenonT(60) DEF From, Unregistered
<1> QED BY <1>1, <1>2, ZenonT(60) DEF IInv, Counts

\* One step per action.
LEMMA StepHolds == IInv /\ [AdmitNext]_admitVars => IInv'
<1> SUFFICES ASSUME IInv, [AdmitNext]_admitVars PROVE IInv'
  BY ZenonT(60)
<1> USE AdmissionAssumption DEF IInv, Places
<1>1. ASSUME NEW c \in Conn, Arrive(c) PROVE IInv'
  <2>1. /\ cpc[c] = "new" /\ cpc' \in [Conn -> Places]
        /\ cpc'[c] \in {"arrived", "refused"} /\ \A d \in Conn \ {c} : cpc'[d] = cpc[d]
    BY <1>1, ZenonT(60) DEF Arrive, Goto, TypeOK
  <2>2. UNCHANGED <<ip, table, group, ended, srv>> /\ UNCHANGED ip
    BY <1>1, ZenonT(60) DEF Arrive
  <2>3. TypeOK'
    BY <2>1, <2>2, ZenonT(60) DEF TypeOK, ip, srv
  <2>4. \A d \in Conn : CountedIn(d)' <=> CountedIn(d)
    BY <2>1, ZenonT(60) DEF CountedIn
  <2>5. Unfinished' = Unfinished
    BY <2>1, ZenonT(60) DEF Unfinished
  <2>6. Counts'
    BY <2>2, <2>4, <2>5, SameCounts, ZenonT(60) DEF Counts
  <2>7. Walked'
    BY <2>1, <2>2, ZenonT(60) DEF Walked, srv
  <2> QED BY <2>3, <2>6, <2>7, ZenonT(60)
<1>2. ASSUME NEW c \in Conn, Acquire(c) PROVE IInv'
  <2> DEFINE a0 == AddrOf[c]
  <2>1. CASE UNCHANGED ip /\ Goto(c, "refused")
    <3>1. /\ cpc[c] = "arrived" /\ cpc'[c] = "refused" /\ \A d \in Conn \ {c} : cpc'[d] = cpc[d]
          /\ cpc' \in [Conn -> Places]
      BY <1>2, <2>1, ZenonT(60) DEF Acquire, Goto, TypeOK
    <3>2. UNCHANGED <<ip, table, group, ended, srv>>
      BY <1>2, <2>1, ZenonT(60) DEF Acquire
    <3>3. TypeOK'
      BY <3>1, <3>2, ZenonT(60) DEF TypeOK, ip, srv
    <3>4. \A d \in Conn : CountedIn(d)' <=> CountedIn(d)
      BY <3>1, ZenonT(60) DEF CountedIn
    <3>5. Unfinished' = Unfinished
      BY <3>1, ZenonT(60) DEF Unfinished
    <3>6. Counts'
      BY <2>1, <3>2, <3>4, <3>5, SameCounts, ZenonT(60) DEF Counts
    <3>7. Walked'
      BY <3>1, <3>2, ZenonT(60) DEF Walked, srv
    <3> QED BY <3>3, <3>6, <3>7, ZenonT(60)
  <2>2. CASE /\ ~(IPPending > 0 /\ pending[a0] >= IPPending) /\ ~(IPConns > 0 /\ total[a0] >= IPConns)
             /\ pending' = [pending EXCEPT ![a0] = @ + 1] /\ total' = [total EXCEPT ![a0] = @ + 1]
             /\ ipPending' = [ipPending EXCEPT ![c] = TRUE] /\ Goto(c, "counted")
    <3>0. ipPending' \in [Conn -> BOOLEAN]
      BY <2>2, ZenonT(60) DEF TypeOK
    <3>1. /\ cpc[c] = "arrived" /\ cpc'[c] = "counted" /\ \A d \in Conn \ {c} : cpc'[d] = cpc[d]
          /\ cpc' \in [Conn -> Places]
          /\ UNCHANGED <<table, group, ended, srv>> /\ a0 \in Addr
      BY <1>2, <2>2, ZenonT(60) DEF Acquire, Goto, TypeOK
    <3>2. ipPending'[c] /\ \A d \in Conn \ {c} : ipPending'[d] = ipPending[d]
      BY <2>2, ZenonT(60) DEF TypeOK
    <3>3. pending' \in [Addr -> Nat] /\ total' \in [Addr -> Nat]
      BY <2>2 DEF TypeOK
    <3>4. TypeOK'
      BY <3>0, <3>1, <3>3, ZenonT(60) DEF TypeOK, srv
    <3>5. /\ c \notin From(a0) /\ From(a0)' = From(a0) \cup {c} /\ From(a0) \in SUBSET Conn
          /\ c \notin Unregistered(a0) /\ Unregistered(a0)' = Unregistered(a0) \cup {c}
          /\ Unregistered(a0) \in SUBSET Conn
      BY <3>1, <3>2, ZenonT(60) DEF From, Unregistered, CountedIn
    <3>6. \A a \in Addr \ {a0} : From(a)' = From(a) /\ Unregistered(a)' = Unregistered(a)
      BY <3>1, <3>2, ZenonT(60) DEF From, Unregistered, CountedIn
    <3>7. total[a0] + 1 = Cardinality(From(a0)') /\ pending[a0] + 1 = Cardinality(Unregistered(a0)')
      BY <3>1, <3>5, Grows DEF Counts
    <3>8. /\ total'[a0] = total[a0] + 1 /\ pending'[a0] = pending[a0] + 1
          /\ \A a \in Addr \ {a0} : total'[a] = total[a] /\ pending'[a] = pending[a]
      BY <2>2, <3>1, ZenonT(60) DEF TypeOK
    <3>9. total[a0] \in Nat /\ pending[a0] \in Nat
      BY <3>1, ZenonT(60) DEF TypeOK
    <3> HIDE DEF a0
    <3>10. ASSUME NEW a \in Addr
           PROVE  /\ total'[a] = Cardinality(From(a)') /\ pending'[a] = Cardinality(Unregistered(a)')
                  /\ IPPending > 0 => pending'[a] <= IPPending
                  /\ IPConns > 0 => total'[a] <= IPConns
      <4>1. CASE a = a0
        BY <4>1, <2>2, <3>7, <3>8, <3>9, SMTT(20)
      <4>2. CASE a # a0
        BY <4>2, <3>6, <3>8, ZenonT(60) DEF Counts
      <4> QED BY <4>1, <4>2, ZenonT(60)
    <3>11. Unfinished' = Unfinished
      BY <3>1, ZenonT(60) DEF Unfinished
    <3>12. Counts'
      BY <3>1, <3>10, <3>11, ZenonT(60) DEF Counts
    <3>13. Walked'
      BY <3>1, ZenonT(60) DEF Walked, srv
    <3> QED BY <3>4, <3>12, <3>13, ZenonT(60)
  <2> QED BY <1>2, <2>1, <2>2, ZenonT(60) DEF Acquire
\* A refused connection is counted off: UpgradeFails, and Enter once the relay is closing.
<1>3. ASSUME NEW c \in Conn, cpc[c] = "counted", Release(c), Goto(c, "refused"),
             UNCHANGED <<table, group, ended, srv>>
      PROVE  IInv'
  <2>1. /\ cpc'[c] = "refused" /\ \A d \in Conn \ {c} : cpc'[d] = cpc[d]
        /\ cpc' \in [Conn -> Places]
        /\ cpc' = [cpc EXCEPT ![c] = "refused"]
    BY <1>3, ZenonT(60) DEF Goto, TypeOK
  <2>2. CountedIn(c) /\ ~CountedIn(c)'
    BY <1>3, <2>1, ZenonT(60) DEF CountedIn
  <2>3. /\ pending' \in [Addr -> Nat] /\ total' \in [Addr -> Nat] /\ ipPending' = ipPending
        /\ \A a \in Addr : /\ total'[a] = Cardinality(From(a)')
                           /\ pending'[a] = Cardinality(Unregistered(a)')
                           /\ IPPending > 0 => pending'[a] <= IPPending
                           /\ IPConns > 0 => total'[a] <= IPConns
    BY <1>3, <2>1, <2>2, Released, ZenonT(60)
  <2>4. TypeOK'
    BY <1>3, <2>1, <2>3, ZenonT(60) DEF TypeOK, srv
  <2>5. Unfinished' = Unfinished
    BY <1>3, <2>1, ZenonT(60) DEF Unfinished
  <2>6. Counts'
    BY <1>3, <2>3, <2>5, ZenonT(60) DEF Counts
  <2>7. Walked'
    BY <1>3, <2>1, ZenonT(60) DEF Walked, srv
  <2> QED BY <2>4, <2>6, <2>7, ZenonT(60)
<1>4. ASSUME NEW c \in Conn, UpgradeFails(c) PROVE IInv'
  BY <1>3, <1>4, ZenonT(60) DEF UpgradeFails
<1>5. ASSUME NEW c \in Conn, Enter(c) PROVE IInv'
  <2>1. CASE closing
    BY <1>3, <1>5, <2>1, ZenonT(60) DEF Enter
  <2>2. CASE ~closing
    <3>1. /\ cpc[c] = "counted" /\ cpc'[c] = "open" /\ \A d \in Conn \ {c} : cpc'[d] = cpc[d]
          /\ cpc' \in [Conn -> Places]
          /\ table' = table \cup {c} /\ group' = group + 1 /\ UNCHANGED ip
          /\ UNCHANGED <<ended, srv>>
      BY <1>5, <2>2, ZenonT(60) DEF Enter, Goto, TypeOK
    <3>2. TypeOK'
      BY <3>1, SMTT(20) DEF TypeOK, ip, srv
    <3>3. \A d \in Conn : CountedIn(d)' <=> CountedIn(d)
      BY <3>1, ZenonT(60) DEF CountedIn
    <3>4. c \notin Unfinished /\ Unfinished' = Unfinished \cup {c} /\ Unfinished \in SUBSET Conn
      BY <3>1, ZenonT(60) DEF Unfinished
    <3>5. Cardinality(Unfinished') = Cardinality(Unfinished) + 1
      BY <3>4, Grows, ZenonT(60)
    <3>6. Counts'
      BY <3>1, <3>3, <3>5, SameCounts, ZenonT(60) DEF Counts
    <3>7. spc = "run" /\ spc' = "run"
      BY <2>2, <3>1, ZenonT(60) DEF Walked, srv
    <3>8. Walked'
      BY <3>1, <3>7, ZenonT(60) DEF Walked, srv
    <3> QED BY <3>2, <3>6, <3>8, ZenonT(60)
  <2> QED BY <2>1, <2>2, ZenonT(60)
<1>6. ASSUME NEW c \in Conn, Registered(c) PROVE IInv'
  <2> DEFINE a0 == AddrOf[c]
  <2>0. ipPending' \in [Conn -> BOOLEAN] /\ ~ipPending'[c]
    BY <1>6, ZenonT(60) DEF TypeOK, Registered
  <2>1. /\ cpc[c] = "open" /\ ipPending[c] /\ UNCHANGED <<cpc, total, table, group, ended, srv>>
        /\ pending' = [pending EXCEPT ![a0] = @ - 1] /\ a0 \in Addr
        /\ \A d \in Conn \ {c} : ipPending'[d] = ipPending[d]
    BY <1>6, ZenonT(60) DEF Registered, TypeOK
  <2>2. \A a \in Addr : From(a)' = From(a)
    BY <2>1, ZenonT(60) DEF From, CountedIn
  <2>3. /\ Unregistered(a0) \in SUBSET Conn /\ c \in Unregistered(a0)
        /\ Unregistered(a0)' = Unregistered(a0) \ {c}
    BY <2>0, <2>1, ZenonT(60) DEF Unregistered, CountedIn
  <2>4. \A a \in Addr \ {a0} : Unregistered(a)' = Unregistered(a)
    BY <2>0, <2>1, ZenonT(60) DEF Unregistered, CountedIn
  <2>5. pending[a0] \in Nat \ {0} /\ pending[a0] - 1 = Cardinality(Unregistered(a0)')
    <3>1. pending[a0] = Cardinality(Unregistered(a0))
      BY <2>1, ZenonT(60) DEF Counts
    <3> QED BY <2>3, <3>1, Shrinks, ZenonT(60)
  <2>6. pending'[a0] = pending[a0] - 1 /\ \A a \in Addr \ {a0} : pending'[a] = pending[a]
    BY <2>1, ZenonT(60) DEF TypeOK
  <2>7. pending' \in [Addr -> Nat]
    BY <2>1, <2>5, SMTT(20) DEF TypeOK
  <2>8. TypeOK'
    BY <2>0, <2>1, <2>7, ZenonT(60) DEF TypeOK, srv
  <2> HIDE DEF a0
  <2>9. ASSUME NEW a \in Addr
        PROVE  pending'[a] = Cardinality(Unregistered(a)') /\ (IPPending > 0 => pending'[a] <= IPPending)
    <3>1. CASE a = a0
      BY <3>1, <2>1, <2>5, <2>6, SMTT(20) DEF Counts
    <3>2. CASE a # a0
      BY <3>2, <2>4, <2>6, ZenonT(60) DEF Counts
    <3> QED BY <3>1, <3>2, ZenonT(60)
  <2>10. Unfinished' = Unfinished
    BY <2>1, ZenonT(60) DEF Unfinished
  <2>11. Counts'
    BY <2>1, <2>2, <2>9, <2>10, ZenonT(60) DEF Counts
  <2>12. Walked'
    BY <2>1, ZenonT(60) DEF Walked, srv
  <2> QED BY <2>8, <2>11, <2>12, ZenonT(60)
<1>7. ASSUME NEW c \in Conn, Close(c) PROVE IInv'
  <2>1. ended' = ended \cup {c} /\ UNCHANGED <<cpc, ip, table, group, srv>> /\ UNCHANGED ip
    BY <1>7, ZenonT(60) DEF Close
  <2>2. TypeOK'
    BY <2>1, ZenonT(60) DEF TypeOK, ip, srv
  <2>3. (\A d \in Conn : CountedIn(d)' <=> CountedIn(d)) /\ Unfinished' = Unfinished
    BY <2>1, ZenonT(60) DEF CountedIn, Unfinished
  <2>4. Counts'
    BY <2>1, <2>3, SameCounts, ZenonT(60) DEF Counts
  <2>5. Walked'
    BY <2>1, ZenonT(60) DEF Walked, srv
  <2> QED BY <2>2, <2>4, <2>5, ZenonT(60)
<1>8. ASSUME NEW c \in Conn, Unregister(c) PROVE IInv'
  <2>1. /\ cpc[c] = "open" /\ cpc'[c] = "left" /\ \A d \in Conn \ {c} : cpc'[d] = cpc[d]
        /\ cpc' \in [Conn -> Places]
        /\ cpc' = [cpc EXCEPT ![c] = "left"]
        /\ ended' = ended \cup {c} /\ Release(c) /\ UNCHANGED <<table, group, srv>>
    BY <1>8, ZenonT(60) DEF Unregister, Goto, TypeOK
  <2>2. CountedIn(c) /\ ~CountedIn(c)'
    BY <2>1, ZenonT(60) DEF CountedIn
  <2>3. /\ pending' \in [Addr -> Nat] /\ total' \in [Addr -> Nat] /\ ipPending' = ipPending
        /\ \A a \in Addr : /\ total'[a] = Cardinality(From(a)')
                           /\ pending'[a] = Cardinality(Unregistered(a)')
                           /\ IPPending > 0 => pending'[a] <= IPPending
                           /\ IPConns > 0 => total'[a] <= IPConns
    BY <2>1, <2>2, Released, ZenonT(60)
  <2>4. TypeOK'
    BY <2>1, <2>3, ZenonT(60) DEF TypeOK, srv
  <2>5. Unfinished' = Unfinished
    BY <2>1, ZenonT(60) DEF Unfinished
  <2>6. Counts'
    BY <2>1, <2>3, <2>5, ZenonT(60) DEF Counts
  <2>7. Walked'
    BY <2>1, ZenonT(60) DEF Walked, srv
  <2> QED BY <2>4, <2>6, <2>7, ZenonT(60)
<1>9. ASSUME NEW c \in Conn, Delete(c) PROVE IInv'
  <2>1. /\ cpc[c] = "left" /\ cpc'[c] = "deleted" /\ \A d \in Conn \ {c} : cpc'[d] = cpc[d]
        /\ cpc' \in [Conn -> Places]
        /\ table' = table \ {c} /\ UNCHANGED ip /\ UNCHANGED <<group, ended, srv>>
    BY <1>9, ZenonT(60) DEF Delete, Goto, TypeOK
  <2>2. TypeOK'
    BY <2>1, ZenonT(60) DEF TypeOK, ip, srv
  <2>3. (\A d \in Conn : CountedIn(d)' <=> CountedIn(d)) /\ Unfinished' = Unfinished
    BY <2>1, ZenonT(60) DEF CountedIn, Unfinished
  <2>4. Counts'
    BY <2>1, <2>3, SameCounts, ZenonT(60) DEF Counts
  <2>5. Walked'
    BY <2>1, ZenonT(60) DEF Walked, srv
  <2> QED BY <2>2, <2>4, <2>5, ZenonT(60)
<1>10. ASSUME NEW c \in Conn, ConnsDone(c) PROVE IInv'
  <2>1. /\ cpc[c] = "deleted" /\ cpc'[c] = "gone" /\ \A d \in Conn \ {c} : cpc'[d] = cpc[d]
        /\ cpc' \in [Conn -> Places]
        /\ group' = group - 1 /\ UNCHANGED ip /\ UNCHANGED <<table, ended, srv>>
    BY <1>10, ZenonT(60) DEF ConnsDone, Goto, TypeOK
  <2>2. \A d \in Conn : CountedIn(d)' <=> CountedIn(d)
    BY <2>1, ZenonT(60) DEF CountedIn
  <2>3. c \in Unfinished /\ Unfinished' = Unfinished \ {c} /\ Unfinished \in SUBSET Conn
    BY <2>1, ZenonT(60) DEF Unfinished
  <2>4. group' = Cardinality(Unfinished') /\ group' \in Nat
    BY <2>1, <2>3, Shrinks, ZenonT(60) DEF Counts
  <2>5. TypeOK'
    BY <2>1, <2>4, ZenonT(60) DEF TypeOK, ip, srv
  <2>6. Counts'
    BY <2>1, <2>2, <2>4, SameCounts, ZenonT(60) DEF Counts
  <2>7. Walked'
    BY <2>1, ZenonT(60) DEF Walked, srv
  <2> QED BY <2>5, <2>6, <2>7, ZenonT(60)
\* What Shutdown's own steps leave alone.
<1>11. ASSUME UNCHANGED <<cpc, ip, table, group>> PROVE Counts'
  <2>1. (\A d \in Conn : CountedIn(d)' <=> CountedIn(d)) /\ Unfinished' = Unfinished /\ UNCHANGED ip
    BY <1>11, ZenonT(60) DEF CountedIn, Unfinished
  <2> QED BY <1>11, <2>1, SameCounts, ZenonT(60) DEF Counts
<1>12. CASE Shutdown
  <2>1. TypeOK'
    <3>1. closing' \in BOOLEAN
      BY <1>12, ZenonT(60) DEF Shutdown
    <3> QED BY <1>12, <3>1, ZenonT(60) DEF Shutdown, TypeOK, ip
  <2>2. closing'
    BY <1>12, ZenonT(60) DEF Shutdown
  <2>3. visit' = visit /\ table' = table /\ ended' = ended /\ batch' = batch /\ cpc' = cpc /\ spc' = "walk" /\ spc = "run"
    BY <1>12, ZenonT(60) DEF Shutdown
  <2>4. visit = 1 /\ \A c \in table : ~(ShardOf[c] < visit)
    BY <2>3 DEF Walked, TypeOK
  <2>5. Walked'
    BY <2>2, <2>3, <2>4, ZenonT(60) DEF Walked
  <2> QED BY <1>11, <1>12, <2>1, <2>5, ZenonT(60) DEF Shutdown
<1>13. CASE Walk
  <2>1. UNCHANGED <<cpc, ip, table, group, ended, closing, visit>> /\ spc = "walk"
    BY <1>13, ZenonT(60) DEF Walk
  <2>2. CASE visit <= Shards /\ batch' = {c \in table : ShardOf[c] = visit} /\ spc' = "close"
    <3>1. TypeOK'
      BY <2>1, <2>2, ZenonT(60) DEF TypeOK, ip
    <3>2. Walked'
      BY <2>1, <2>2, ZenonT(60) DEF Walked
    <3> QED BY <1>11, <2>1, <3>1, <3>2, ZenonT(60)
  <2>3. CASE ~(visit <= Shards) /\ spc' = "wait" /\ UNCHANGED batch
    <3>1. TypeOK'
      BY <2>1, <2>3, ZenonT(60) DEF TypeOK, ip
    <3>2. \A c \in table : ShardOf[c] < visit
      BY <2>3, SMTT(20) DEF TypeOK
    <3>3. Walked'
      BY <2>1, <2>3, <3>2, ZenonT(60) DEF Walked
    <3> QED BY <1>11, <2>1, <3>1, <3>3, ZenonT(60)
  <2> QED BY <1>13, <2>2, <2>3, ZenonT(60) DEF Walk
<1>14. CASE CloseNext
  <2>1. UNCHANGED <<cpc, ip, table, group, closing>> /\ spc = "close"
    BY <1>14, ZenonT(60) DEF CloseNext
  <2>2. CASE batch = {} /\ spc' = "walk" /\ visit' = visit + 1 /\ UNCHANGED <<ended, batch>>
    <3>1. TypeOK'
      BY <2>1, <2>2, SMTT(20) DEF TypeOK, ip
    <3>2. \A c \in table : ShardOf[c] < visit + 1 => ShardOf[c] < visit \/ ShardOf[c] = visit
      BY SMTT(20) DEF TypeOK
    <3>3. Walked'
      BY <2>1, <2>2, <3>2, ZenonT(60) DEF Walked
    <3> QED BY <1>11, <2>1, <3>1, <3>3, ZenonT(60)
  <2>3. ASSUME NEW c \in batch, ended' = ended \cup {c}, batch' = batch \ {c}, UNCHANGED <<spc, visit>>
        PROVE  IInv'
    <3>1. TypeOK'
      BY <2>1, <2>3, ZenonT(60) DEF TypeOK, ip
    <3>2. Walked'
      BY <2>1, <2>3, ZenonT(60) DEF Walked
    <3> QED BY <1>11, <2>1, <3>1, <3>2, ZenonT(60)
  <2> QED BY <1>14, <2>2, <2>3, ZenonT(60) DEF CloseNext
<1>15. CASE Stop
  <2>1. UNCHANGED <<cpc, ip, table, group, ended, closing, visit, batch>> /\ spc = "wait"
    BY <1>15, ZenonT(60) DEF Stop
  <2>2. (spc' = "stopped" /\ group = 0) \/ spc' = "expired"
    BY <1>15, ZenonT(60) DEF Stop
  <2>3. TypeOK'
    BY <2>1, <2>2, ZenonT(60) DEF TypeOK, ip
  <2>4. ASSUME group = 0 PROVE table = {}
    <3>1. IsFiniteSet(Unfinished) /\ Unfinished \in SUBSET Conn
      BY FS_Subset, ZenonT(60) DEF Unfinished
    <3>2. Unfinished = {}
      BY <2>4, <3>1, FS_EmptySet, ZenonT(60) DEF Counts
    <3>3. table \subseteq Unfinished
      BY ZenonT(60) DEF Walked, Unfinished
    <3> QED BY <3>2, <3>3, ZenonT(60)
  <2>5. Walked'
    BY <2>1, <2>2, <2>4, ZenonT(60) DEF Walked
  <2> QED BY <1>11, <2>1, <2>3, <2>5, ZenonT(60)
<1>16. CASE UNCHANGED admitVars
  <2>1. TypeOK'
    BY <1>16, ZenonT(60) DEF TypeOK, admitVars, ip, srv
  <2>2. Walked'
    BY <1>16, ZenonT(60) DEF Walked, admitVars, srv
  <2> QED BY <1>11, <1>16, <2>1, <2>2, ZenonT(60) DEF admitVars
<1> QED BY <1>1, <1>2, <1>4, <1>5, <1>6, <1>7, <1>8, <1>9, <1>10, <1>12, <1>13, <1>14, <1>15, <1>16, ZenonT(60)
, SMTT(20) DEF AdmitNext, Step

\* The invariant holds throughout.
LEMMA InvKept == AdmitSpec => []IInv
<1>1. AdmitInit => IInv BY InitHolds, ZenonT(60)
<1>2. IInv /\ [AdmitNext]_admitVars => IInv' BY StepHolds, ZenonT(60)
<1> QED BY <1>1, <1>2, PTL DEF AdmitSpec

\* acquire, registered, release, Shutdown: each address is counted for the connections it has,
\* within its limits, and once Shutdown waits every connection in the table was told to close.
THEOREM AdmissionHolds == AdmitSpec => []AdmissionKept
<1>1. IInv => AdmissionKept
  BY ZenonT(60) DEF IInv, Counts, Walked, AdmissionKept, CountsExact, NoneMissed, From, Unregistered
<1> QED BY <1>1, InvKept, PTL

\* Once Shutdown waits, closing is set: upgrade refuses, and conns only goes down.
LEMMA OnlyShrinks ==
  ASSUME IInv, [AdmitNext]_admitVars, spc \in {"wait", "stopped"}
  PROVE  group' <= group
<1> USE DEF IInv
<1>1. closing /\ group \in Nat
  BY ZenonT(60) DEF Walked, TypeOK
<1>2. ASSUME NEW c \in Conn, Step(c) PROVE group' <= group
  <2>1. CASE Arrive(c) BY <1>1, <2>1, SMTT(20) DEF Arrive
  <2>2. CASE Acquire(c) BY <1>1, <2>2 DEF Acquire
  <2>3. CASE UpgradeFails(c) BY <1>1, <2>3 DEF UpgradeFails
  <2>4. CASE Enter(c) BY <1>1, <2>4 DEF Enter
  <2>5. CASE Registered(c) BY <1>1, <2>5 DEF Registered
  <2>6. CASE Close(c) BY <1>1, <2>6 DEF Close
  <2>7. CASE Unregister(c) BY <1>1, <2>7 DEF Unregister
  <2>8. CASE Delete(c) BY <1>1, <2>8 DEF Delete
  <2>9. CASE ConnsDone(c) BY <1>1, <2>9 DEF ConnsDone
  <2> QED BY <1>2, <2>1, <2>2, <2>3, <2>4, <2>5, <2>6, <2>7, <2>8, <2>9, ZenonT(60) DEF Step
<1>3. CASE Shutdown BY <1>1, <1>3, ZenonT(60) DEF Shutdown
<1>4. CASE Walk BY <1>1, <1>4, ZenonT(60) DEF Walk
<1>5. CASE CloseNext BY <1>1, <1>5, ZenonT(60) DEF CloseNext
<1>6. CASE Stop BY <1>1, <1>6 DEF Stop
<1>7. CASE UNCHANGED admitVars BY <1>1, <1>7 DEF admitVars
<1> QED BY <1>2, <1>3, <1>4, <1>5, <1>6, <1>7, ZenonT(60) DEF AdmitNext

\* upgrade, Shutdown: nothing is added to the WaitGroup Shutdown waits on, and once it has
\* stopped, no connection is left in the table.
THEOREM NoneArrivesLate == AdmitSpec => NoLateArrival
<1>1. IInv /\ [AdmitNext]_admitVars => IInv'
  BY StepHolds, ZenonT(60)
<1>2. IInv' => (spc' = "stopped" => table' = {})
  BY ZenonT(60) DEF IInv, Walked
<1>3. IInv /\ [AdmitNext]_admitVars
        => [/\ (spc \in {"wait", "stopped"}) => group' <= group
            /\ spc' = "stopped" => table' = {}]_admitVars
  <2> SUFFICES ASSUME IInv, [AdmitNext]_admitVars
               PROVE  /\ (spc \in {"wait", "stopped"}) => group' <= group
                      /\ spc' = "stopped" => table' = {}
    BY ZenonT(60)
  <2> QED BY <1>1, <1>2, OnlyShrinks, ZenonT(60)
<1> QED BY <1>3, InvKept, PTL DEF AdmitSpec, NoLateArrival

-----------------------------------------------------------------------------
(* Shaping. *)

\* What a ring is.
Window == [slots : [Slots -> Nat], sum : Nat, step : Time]

\* The sum beside the slots is theirs.
Kept(w) == w \in Window /\ w.sum = SumFunctionOnSet(w.slots, Slots)

\* The slot holds charges of one moment of the hour that ends at c.
Holds(w, c, ch, i) ==
  \E s \in Time : c - HourSlots < s /\ s <= c /\ s % HourSlots = i /\ w.slots[i] <= ch[s]

\* Every slot is empty, lapsed at c, or holds what one moment of the hour was charged.
Fits(w, c, ch) ==
  /\ w.step <= c
  /\ \A i \in Slots : w.slots[i] = 0 \/ i \in Gone(w, c) \/ Holds(w, c, ch, i)

\* There are finitely many slots and moments.
LEMMA SlotsFinite == IsFiniteSet(Slots) /\ IsFiniteSet(Time)
  BY ShapingAssumption, FS_Interval DEF Slots, Time

\* What lapses are slots.
LEMMA GoneSlots ==
  ASSUME NEW w \in Window, NEW t \in Time
  PROVE  Gone(w, t) \in SUBSET Slots
<1>1. \A s \in (w.step + 1)..t : s % HourSlots \in Slots
  <2>1. w.step \in Int /\ t \in Int /\ HourSlots \in Nat \ {0}
    BY ShapingAssumption DEF Window, Time
  <2>2. ASSUME NEW s \in (w.step + 1)..t PROVE s % HourSlots \in Slots
    <3>1. s \in Int
      BY <2>1, SMTT(20)
    <3> QED BY <2>1, <3>1, ModRange, ZenonT(60) DEF Slots
  <2> QED BY <2>2, ZenonT(60)
<1> QED BY <1>1, ZenonT(60) DEF Gone, SlotsOf

\* rolling.advance: the sum stays exact, whatever time it is told, and never grows; what is
\* left is what the slots that have not lapsed hold.
LEMMA AdvanceKept ==
  ASSUME NEW w, Kept(w), NEW t \in Time
  PROVE  /\ Kept(Advance(w, t)) /\ Advance(w, t).sum <= w.sum /\ Advance(w, t).step = t
         /\ Advance(w, t).sum = SumFunctionOnSet(w.slots, Slots \ Gone(w, t))
<1> DEFINE g == Gone(w, t)
           rest == Slots \ g
           v == Advance(w, t)
           sum(f, A) == SumFunctionOnSet(f, A)
<1>1. w \in Window /\ w.sum \in Nat /\ w.slots \in [Slots -> Nat] /\ w.sum = sum(w.slots, Slots)
  BY ZenonT(60) DEF Kept, Window
<1>2. g \in SUBSET Slots /\ rest \in SUBSET Slots
  BY <1>1, GoneSlots, ZenonT(60)
<1>3. v = [slots |-> [i \in Slots |-> IF i \in g THEN 0 ELSE w.slots[i]],
           sum |-> w.sum - sum(w.slots, g), step |-> t]
  BY ZenonT(60) DEF Advance, SumOver
<1>4. /\ v.slots = [i \in Slots |-> IF i \in g THEN 0 ELSE w.slots[i]]
      /\ v.sum = w.sum - sum(w.slots, g) /\ v.step = t
  BY <1>3, SMTT(20)
<1>5. v.slots \in [Slots -> Nat]
  BY <1>1, <1>4
<1>6. IsFiniteSet(g) /\ IsFiniteSet(rest)
  BY <1>2, SlotsFinite, FS_Subset, ZenonT(60)
<1> HIDE DEF g, v
<1>7. sum(w.slots, Slots) = sum(w.slots, g) + sum(w.slots, rest)
  <2>1. \A i \in Slots : w.slots[i] \in Int
    BY <1>1, SMTT(20)
  <2> QED BY <2>1, <1>2, SlotsFinite, SumSplit, ZenonT(60)
<1>8. sum(v.slots, Slots) = sum(v.slots, g) + sum(v.slots, rest)
  <2>1. \A i \in Slots : v.slots[i] \in Int
    BY <1>5
  <2> QED BY <2>1, <1>2, SlotsFinite, SumSplit, ZenonT(60)
<1>9. sum(v.slots, g) = 0
  <2>1. \A i \in g : v.slots[i] = 0
    BY <1>2, <1>4, ZenonT(60)
  <2> QED BY <2>1, <1>6, SumZero, ZenonT(60)
<1>10. sum(v.slots, rest) = sum(w.slots, rest)
  <2>1. \A i \in rest : v.slots[i] = w.slots[i]
    BY <1>2, <1>4, ZenonT(60)
  <2> HIDE DEF rest
  <2> QED BY <2>1, <1>6, SumSame, ZenonT(60)
<1>11. sum(w.slots, g) \in Nat /\ sum(w.slots, rest) \in Nat
  <2>1. (\A i \in g : w.slots[i] \in Nat) /\ (\A i \in rest : w.slots[i] \in Nat)
    BY <1>1, <1>2, ZenonT(60)
  <2> HIDE DEF rest
  <2> QED BY <2>1, <1>6, SumNat, ZenonT(60)
<1>12. v.sum = sum(w.slots, rest) /\ v.sum \in Nat /\ v.sum <= w.sum
  <2> HIDE DEF rest, sum
  <2> QED BY <1>1, <1>4, <1>7, <1>11, SMTT(20)
<1>13. v.sum = sum(v.slots, Slots)
  <2> HIDE DEF rest, sum
  <2> QED BY <1>8, <1>9, <1>10, <1>11, <1>12, SMTT(20)
<1>14. v \in Window
  BY <1>3, <1>4, <1>5, <1>12, ZenonT(60) DEF Window
<1> QED BY <1>4, <1>12, <1>13, <1>14, ZenonT(60) DEF Kept, v, g

\* A time is a natural number.
LEMMA TimeNat == \A t \in Time : t \in Nat
BY DEF Time

\* The steps from a to c are those to b and those from b on; the H steps after a are among
\* those to c when c is that far on.
LEMMA StepsSplit ==
  ASSUME NEW a \in Int, NEW b \in Int, NEW c \in Int, NEW x \in (a + 1)..c
  PROVE  x \in (a + 1)..b \/ x \in (b + 1)..c
OBVIOUS

LEMMA StepsAmong ==
  ASSUME NEW a \in Int, NEW c \in Int, NEW h \in Nat \ {0}, c - a >= h, NEW x \in (a + 1)..(a + h)
  PROVE  x \in (a + 1)..c
OBVIOUS

\* rolling.advance to the present or one step back: a slot that survives it and has not
\* lapsed by now had not before, or a whole turn of the ring would have passed.
LEMMA AdvanceFits ==
  ASSUME NEW w \in Window, NEW c \in Time, NEW ch, Fits(w, c, ch), NEW t \in Time, t <= c, c <= t + 1
  PROVE  Fits(Advance(w, t), c, ch)
<1> DEFINE v == Advance(w, t)
<1>1. /\ v.slots = [i \in Slots |-> IF i \in Gone(w, t) THEN 0 ELSE w.slots[i]]
      /\ v.step = t
  BY ZenonT(60) DEF Advance
<1> HIDE DEF v
<1>2. c \in Int /\ t \in Int /\ w.step \in Int /\ HourSlots \in Nat \ {0} /\ Slots = 0..(HourSlots - 1)
  BY ShapingAssumption, SMTT(20) DEF Time, Window, Slots
<1>3. ASSUME NEW i \in Slots, v.slots[i] # 0, i \notin Gone(v, c)
      PROVE  Holds(v, c, ch, i)
  <2>1. i \notin Gone(w, t) /\ v.slots[i] = w.slots[i]
    BY <1>1, <1>3, ZenonT(60)
  <2>2. t - w.step < HourSlots /\ \A x \in (w.step + 1)..t : x % HourSlots # i
    <3>1. ~(t - w.step >= HourSlots)
      BY <2>1, ZenonT(60) DEF Gone
    <3>2. i \notin SlotsOf((w.step + 1)..t)
      BY <2>1, <3>1, ZenonT(60) DEF Gone
    <3>3. t - w.step < HourSlots
      BY <3>1, <1>2
    <3> QED BY <3>2, <3>3, ZenonT(60) DEF SlotsOf
  <2>3. c - t < HourSlots /\ \A x \in (t + 1)..c : x % HourSlots # i
    <3>1. ~(c - t >= HourSlots)
      BY <1>1, <1>3, ZenonT(60) DEF Gone
    <3>2. i \notin SlotsOf((t + 1)..c)
      BY <1>1, <1>3, <3>1, ZenonT(60) DEF Gone
    <3>3. c - t < HourSlots
      BY <3>1, <1>2
    <3> QED BY <3>2, <3>3, ZenonT(60) DEF SlotsOf
  <2>4. \A x \in (w.step + 1)..c : x % HourSlots # i
    BY <2>2, <2>3, <1>2, StepsSplit, ZenonT(60)
  <2>5. ASSUME c - w.step >= HourSlots PROVE FALSE
    <3>1. PICK x \in (w.step + 1)..(w.step + HourSlots) : x % HourSlots = i
      BY <1>2, ModCovers, ZenonT(60)
    <3>2. x \in (w.step + 1)..c
      BY <1>2, <2>5, <3>1, StepsAmong, ZenonT(60)
    <3> QED BY <2>4, <3>1, <3>2, ZenonT(60)
  <2>6. i \notin Gone(w, c)
    BY <2>4, <2>5, <1>2, ZenonT(60) DEF Gone, SlotsOf
  <2>7. Holds(w, c, ch, i)
    BY <2>1, <2>6, <1>3, ZenonT(60) DEF Fits
  <2> QED BY <2>1, <2>7, ZenonT(60) DEF Holds
<1> QED BY <1>1, <1>3, ZenonT(60) DEF Fits, v

\* rolling.add: the charge goes to the sum and to one slot.
LEMMA AddKept ==
  ASSUME NEW w, Kept(w), NEW t \in Time
  PROVE  Kept(Add(w, 1, t))
<1> DEFINE v == Advance(w, t)
           k == t % HourSlots
           z == Add(w, 1, t)
<1>1. Kept(v)
  BY AdvanceKept, ZenonT(60)
<1>2. k \in Slots
  BY ShapingAssumption, ModRange DEF Slots, Time
<1>3. z = [v EXCEPT !.slots[k] = @ + 1, !.sum = @ + 1]
  BY ZenonT(60) DEF Add
<1> HIDE DEF v, z, k
<1>4. v.slots \in [Slots -> Nat] /\ v.sum \in Nat /\ v \in Window
  BY <1>1, ZenonT(60) DEF Kept, Window
<1>5. z.slots = [v.slots EXCEPT ![k] = @ + 1] /\ z.sum = v.sum + 1
  BY <1>2, <1>3, <1>4, ZenonT(60) DEF Window
<1>10. z \in Window
  <2>1. [v.slots EXCEPT ![k] = @ + 1] \in [Slots -> Nat] /\ v.sum + 1 \in Nat /\ v.step \in Time
    BY <1>2, <1>4 DEF Window
  <2>2. v = [slots |-> v.slots, sum |-> v.sum, step |-> v.step]
    BY <1>4, ZenonT(60) DEF Window
  <2>3. z = [slots |-> [v.slots EXCEPT ![k] = @ + 1], sum |-> v.sum + 1, step |-> v.step]
    BY <1>3, <2>2, ZenonT(60)
  <2> QED BY <2>1, <2>3, ZenonT(60) DEF Window
<1>6. SumFunctionOnSet(z.slots, Slots) = SumFunctionOnSet(v.slots, Slots) + z.slots[k] - v.slots[k]
  <2>1. /\ \A x \in Slots : v.slots[x] \in Int
        /\ z.slots[k] \in Int
        /\ \A x \in Slots \ {k} : z.slots[x] = v.slots[x]
    BY <1>2, <1>4, <1>5
  <2>2. PICK f, g : f = v.slots /\ g = z.slots
    BY ZenonT(60)
  <2>4. /\ \A x \in Slots : f[x] \in Int
        /\ g[k] \in Int
        /\ \A x \in Slots \ {k} : g[x] = f[x]
    BY <2>1, <2>2, ZenonT(60)
  <2>3. SumFunctionOnSet(g, Slots) = SumFunctionOnSet(f, Slots) + g[k] - f[k]
    BY <2>4, <1>2, SlotsFinite, SumUpdate, SMTT(20)
  <2> QED BY <2>2, <2>3, ZenonT(60)
<1>7. z.slots[k] = v.slots[k] + 1 /\ v.slots[k] \in Nat
  BY <1>2, <1>4, <1>5, ZenonT(60)
<1>8. v.sum = SumFunctionOnSet(v.slots, Slots)
  BY <1>1, ZenonT(60) DEF Kept
<1>9. z.sum = SumFunctionOnSet(z.slots, Slots)
  BY <1>4, <1>5, <1>6, <1>7, <1>8, SMTT(20)
<1> QED BY <1>9, <1>10, ZenonT(60) DEF Kept, z

\* rolling.add: the slot charged held the same moment's charges, since no other moment of
\* the hour has its remainder.
LEMMA AddFits ==
  ASSUME NEW w, Kept(w), NEW c \in Time, NEW ch \in [Time -> Nat], Fits(w, c, ch),
         NEW t \in Time, t <= c, c <= t + 1
  PROVE  Fits(Add(w, 1, t), c, [ch EXCEPT ![t] = @ + 1])
<1> DEFINE v == Advance(w, t)
           k == t % HourSlots
           z == Add(w, 1, t)
           dh == [ch EXCEPT ![t] = @ + 1]
<1>1. Kept(v) /\ Fits(v, c, ch) /\ v.step = t
  BY AdvanceKept, AdvanceFits, ZenonT(60) DEF Kept
<1>2. k \in Slots
  BY ShapingAssumption, ModRange DEF Slots, Time
<1>3. z = [v EXCEPT !.slots[k] = @ + 1, !.sum = @ + 1]
  BY ZenonT(60) DEF Add
<1> HIDE DEF v, z
<1>4. v.slots \in [Slots -> Nat] /\ v \in Window
  BY <1>1, ZenonT(60) DEF Kept, Window
<1>5. z.slots = [v.slots EXCEPT ![k] = @ + 1] /\ z.step = t
  BY <1>1, <1>2, <1>3, <1>4, ZenonT(60) DEF Window
<1>6. c \in Int /\ t \in Int /\ HourSlots \in Nat \ {0} /\ Slots = 0..(HourSlots - 1)
  BY ShapingAssumption DEF Time, Slots
<1>7. Gone(z, c) = Gone(v, c)
  BY <1>1, <1>5, ZenonT(60) DEF Gone
<1>8. \A s \in Time : dh[s] \in Nat /\ ch[s] \in Nat /\ ch[s] <= dh[s] /\ dh[t] = ch[t] + 1
  OBVIOUS
<1>9. ASSUME NEW i \in Slots, z.slots[i] # 0, i \notin Gone(z, c)
      PROVE  Holds(z, c, dh, i)
  <2>1. v.slots[i] \in Nat /\ (v.slots[i] # 0 => Holds(v, c, ch, i))
    BY <1>1, <1>4, <1>7, <1>9, ZenonT(60) DEF Fits
  <2>2. CASE i # k
    <3>1. z.slots[i] = v.slots[i]
      BY <1>2, <1>4, <1>5, <2>2, ZenonT(60)
    <3>2. PICK s \in Time : c - HourSlots < s /\ s <= c /\ s % HourSlots = i /\ v.slots[i] <= ch[s]
      BY <1>9, <2>1, <3>1, ZenonT(60) DEF Holds
    <3>3. z.slots[i] <= dh[s]
      BY <3>1, <3>2, <1>8, <2>1, SMTT(20)
    <3> QED BY <3>2, <3>3, ZenonT(60) DEF Holds
  <2>3. CASE i = k
    <3>1. z.slots[i] = v.slots[i] + 1
      BY <1>2, <1>4, <1>5, <2>3, ZenonT(60)
    <3>2. c - HourSlots < t
      <4>1. ~(c - t >= HourSlots)
        BY <1>5, <1>9, ZenonT(60) DEF Gone
      <4> QED BY <4>1, <1>6, SMTT(20)
    <3>3. v.slots[i] <= ch[t]
      <4>1. CASE v.slots[i] = 0
        BY <4>1, <1>8, SMTT(20)
      <4>2. CASE v.slots[i] # 0
        <5>1. PICK s \in Time : c - HourSlots < s /\ s <= c /\ s % HourSlots = i /\ v.slots[i] <= ch[s]
          BY <2>1, <4>2, ZenonT(60) DEF Holds
        <5>2. s \in Int /\ s < t + HourSlots /\ t < s + HourSlots /\ s % HourSlots = t % HourSlots
          BY <5>1, <3>2, <1>6, <2>3, SMTT(20) DEF Time
        <5>3. s = t
          BY <5>2, <1>6, ModUnique, ZenonT(60)
        <5> QED BY <5>1, <5>3, ZenonT(60)
      <4> QED BY <4>1, <4>2, ZenonT(60)
    <3>4. z.slots[i] <= dh[t] /\ t % HourSlots = i
      BY <3>1, <3>3, <1>8, <2>1, <2>3, SMTT(30)
    <3> QED BY <3>2, <3>4, ZenonT(60) DEF Holds
  <2> QED BY <2>2, <2>3, ZenonT(60)
<1> QED BY <1>5, <1>9, ZenonT(60) DEF Fits, z

\* Time passing: the one moment that leaves the hour has the slot of the one that begins.
LEMMA TickFits ==
  ASSUME NEW w \in Window, NEW c \in Time, NEW d \in Time, d = c + 1, NEW ch, Fits(w, c, ch)
  PROVE  Fits(w, d, ch)
<1>1. c \in Int /\ d \in Int /\ w.step \in Int /\ w.step <= c /\ HourSlots \in Nat \ {0} /\ Slots = 0..(HourSlots - 1)
  BY ShapingAssumption DEF Time, Window, Slots, Fits
<1>2. ASSUME NEW i \in Slots, w.slots[i] # 0, i \notin Gone(w, d)
      PROVE  Holds(w, d, ch, i)
  <2>1. ~(d - w.step >= HourSlots)
    BY <1>2, ZenonT(60) DEF Gone
  <2>2. i \notin SlotsOf((w.step + 1)..d)
    BY <1>2, <2>1, ZenonT(60) DEF Gone
  <2>3. \A x \in (w.step + 1)..d : x % HourSlots # i
    BY <2>2, ZenonT(60) DEF SlotsOf
  <2>4. i \notin Gone(w, c)
    <3>1. ~(c - w.step >= HourSlots)
      BY <1>1, <2>1
    <3>2. \A x \in (w.step + 1)..c : x \in (w.step + 1)..d
      BY <1>1
    <3>3. i \notin SlotsOf((w.step + 1)..c)
      BY <2>3, <3>2, ZenonT(60) DEF SlotsOf
    <3> QED BY <3>1, <3>3, ZenonT(60) DEF Gone
  <2>5. PICK s \in Time : c - HourSlots < s /\ s <= c /\ s % HourSlots = i /\ w.slots[i] <= ch[s]
    BY <1>2, <2>4, ZenonT(60) DEF Fits, Holds
  <2>6. s # d - HourSlots
    <3>1. d % HourSlots # i
      BY <1>1, <2>3
    <3>2. (d - HourSlots) % HourSlots = d % HourSlots
      BY <1>1, ModBack, ZenonT(60)
    <3> QED BY <2>5, <3>1, <3>2, ZenonT(60)
  <2>7. d - HourSlots < s /\ s <= d
    <3>1. s \in Int
      BY ShapingAssumption, SMTT(20) DEF Time
    <3> QED BY <1>1, <2>5, <2>6, <3>1
  <2> QED BY <2>5, <2>7, ZenonT(60) DEF Holds
<1> QED BY <1>1, <1>2, SMTT(30) DEF Fits

\* The correspondence bounds the sum: what is counted now is at most what the hour was charged.
LEMMA HourFits ==
  ASSUME NEW w, Kept(w), NEW c \in Time, NEW ch \in [Time -> Nat], Fits(w, c, ch)
  PROVE  Advance(w, c).sum <= SumFunctionOnSet(ch, {s \in Time : c - HourSlots < s /\ s <= c})
<1> DEFINE rest == Slots \ Gone(w, c)
           span == {s \in Time : c - HourSlots < s /\ s <= c}
           at0(i, s) == s \in span /\ s % HourSlots = i /\ w.slots[i] <= ch[s]
           h == [i \in rest |-> CHOOSE s : at0(i, s)]
<1>1. Advance(w, c).sum = SumFunctionOnSet(w.slots, rest)
  BY AdvanceKept, ZenonT(60)
<1>2. IsFiniteSet(rest) /\ IsFiniteSet(span)
  BY SlotsFinite, FS_Subset, ZenonT(60)
<1>3. (\A i \in rest : w.slots[i] \in Nat) /\ (\A s \in span : ch[s] \in Nat)
  BY ZenonT(60) DEF Kept, Window
<1>4. ASSUME NEW i \in rest, w.slots[i] # 0 PROVE at0(i, h[i])
  <2>1. Holds(w, c, ch, i)
    BY <1>4, ZenonT(60) DEF Fits
  <2>2. \E s : at0(i, s)
    BY <2>1, ZenonT(60) DEF Holds
  <2> HIDE DEF at0
  <2> QED BY <2>2, ZenonT(60)
<1>5. \A i \in rest : w.slots[i] # 0 => h[i] \in span /\ w.slots[i] <= ch[h[i]]
  BY <1>4, ZenonT(60)
<1>6. \A i, j \in rest : w.slots[i] # 0 /\ w.slots[j] # 0 /\ h[i] = h[j] => i = j
  <2> HIDE DEF h, rest
  <2> QED BY <1>4, ZenonT(60)
<1> HIDE DEF rest, span, h
<1>7. SumFunctionOnSet(w.slots, rest) <= SumFunctionOnSet(ch, span)
  BY <1>2, <1>3, <1>5, <1>6, SumInject, ZenonT(60)
<1> QED BY <1>1, <1>7, ZenonT(60) DEF span

\* The types; the ring's sum is exact.
STypes ==
  /\ clock \in Time /\ lim \in Limits /\ Kept(hour)
  /\ slowed \in BOOLEAN /\ watched \in BOOLEAN /\ members \in SUBSET Member
  /\ told = [m \in Member |-> told[m]]
  /\ hpc \in [Member -> {None} \cup [what : {"charge", "control", "usage"}, t : Time]]
  /\ reload \in {None} \cup Time /\ charged \in [Time -> Nat]

\* The clock is at most a step ahead of a handler that has read it, and of a reload.
InStep ==
  /\ \A m \in Member : hpc[m] # None => hpc[m].t <= clock /\ clock <= hpc[m].t + 1
  /\ reload # None => reload <= clock /\ clock <= reload + 1

\* The inductive invariant.
SInv ==
  /\ STypes /\ InStep /\ Fits(hour, clock, charged)
  /\ ToldCurrent /\ ShapingCurrent /\ SlowedIsWatched

\* A new relay.
LEMMA ShapingInit == Init => SInv
<1> SUFFICES ASSUME Init PROVE SInv
  BY ZenonT(60)
<1>1. clock \in Time /\ lim \in Limits
  BY ShapingAssumption DEF Init, Time
<1>2. hour.slots = [i \in Slots |-> 0] /\ hour.sum = 0 /\ hour.step = 0 /\ hour \in Window
  BY <1>1, ZenonT(60) DEF Init, Window
<1>3. Kept(hour)
  <2>1. SumFunctionOnSet(hour.slots, Slots) = 0
    <3>1. \A i \in Slots : hour.slots[i] = 0
      BY <1>2, ZenonT(60)
    <3> QED BY <3>1, SlotsFinite, SumZero, ZenonT(60)
  <2> QED BY <1>2, <2>1, ZenonT(60) DEF Kept
<1>4. slowed \in BOOLEAN /\ watched \in BOOLEAN
  BY ZenonT(60) DEF Init
<1>5. STypes
  BY <1>1, <1>3, <1>4, ZenonT(60) DEF Init, STypes
<1>6. Fits(hour, clock, charged)
  BY <1>2, SMTT(20) DEF Init, Fits
<1> QED BY <1>5, <1>6, ZenonT(60) DEF Init, SInv, InStep, ToldCurrent, ShapingCurrent, SlowedIsWatched

\* What inForce returns agrees with its own slowed flag.
LEMMA InForceIs ==
  ASSUME NEW w
  PROVE  /\ SlowedBy(w) \in BOOLEAN
         /\ InForce(w) = Notice(InForce(w).rate, SlowedBy(w))
         /\ InForce(w).rate = IF SlowedBy(w) THEN lim.trickle ELSE lim.rate
         /\ SlowedBy(w) => lim.quota > 0 /\ lim.trickle > 0
<1>1. SlowedBy(w) \in BOOLEAN /\ (SlowedBy(w) => lim.quota > 0 /\ lim.trickle > 0)
  BY ZenonT(60) DEF SlowedBy
<1> QED BY <1>1, ZenonT(60) DEF InForce, Notice

\* The window quotaLocked leaves keeps its sum and its charges.
LEMMA QuotaFits ==
  ASSUME STypes, Fits(hour, clock, charged), NEW t \in Time, t <= clock, clock <= t + 1
  PROVE  LET w == QuotaLocked(hour, t)
         IN  Kept(w) /\ Fits(w, clock, charged) /\ w.sum <= hour.sum
<1>1. Kept(hour) /\ hour \in Window /\ clock \in Time
  BY ZenonT(60) DEF STypes, Kept
<1>2. hour.sum <= hour.sum
  BY <1>1 DEF Window
<1>3. Kept(Advance(hour, t)) /\ Advance(hour, t).sum <= hour.sum
  BY <1>1, AdvanceKept, ZenonT(60)
<1>4. Fits(Advance(hour, t), clock, charged)
  BY <1>1, AdvanceFits, ZenonT(60)
<1> QED BY <1>1, <1>2, <1>3, <1>4, ZenonT(60) DEF QuotaLocked

\* reshape tells every member what changed, and has the network watched when it is slowed.
LEMMA ReshapeSound ==
  ASSUME STypes, ToldCurrent, SlowedIsWatched, NEW w, Reshape(w, members),
         members' = members, lim' = lim
  PROVE  /\ ToldCurrent' /\ ShapingCurrent' /\ SlowedIsWatched'
         /\ slowed' \in BOOLEAN /\ watched' \in BOOLEAN /\ told' = [m \in Member |-> told'[m]]
         /\ hour' = w
<1>1. /\ hour' = w /\ rateNow' = InForce(w).rate /\ slowed' = SlowedBy(w)
      /\ told' = [m \in Member |-> IF m \in members /\ Changed(w) THEN InForce(w) ELSE told[m]]
      /\ watched' = (watched \/ (Changed(w) /\ SlowedBy(w)))
  BY ZenonT(60) DEF Reshape
<1>2. InForce(w) = Notice(rateNow', slowed')
  BY <1>1, InForceIs, ZenonT(60)
<1>3. ToldCurrent'
  BY <1>1, <1>2, ZenonT(60) DEF STypes, ToldCurrent, Changed
<1>4. slowed' \in BOOLEAN /\ watched' \in BOOLEAN
  BY <1>1, InForceIs, ZenonT(60) DEF STypes
<1>5. SlowedBy(hour)' => SlowedBy(w)
  BY <1>1, ZenonT(60) DEF SlowedBy
<1>6. ShapingCurrent'
  BY <1>1, <1>4, <1>5, InForceIs, ZenonT(60) DEF ShapingCurrent
<1>7. ~Changed(w) => slowed = SlowedBy(w)
  BY InForceIs DEF Changed, Notice, STypes
<1>8. slowed' /\ members' # {} => watched'
  BY <1>1, <1>4, <1>7, ZenonT(60) DEF STypes, SlowedIsWatched
<1> QED BY <1>1, <1>3, <1>4, <1>6, <1>8, ZenonT(60) DEF SlowedIsWatched

\* One step per action.
LEMMA ShapingStep == SInv /\ [Next]_vars => SInv'
<1> SUFFICES ASSUME SInv, [Next]_vars PROVE SInv'
  BY ZenonT(60)
<1> USE DEF SInv
<1>0. clock \in Int /\ \A t \in Time : t \in Int
  BY ShapingAssumption DEF STypes, Time
<1>13. Kept(QuotaLocked(hour, clock)) /\ Fits(QuotaLocked(hour, clock), clock, charged)
  <2>1. clock \in Time /\ clock <= clock /\ clock <= clock + 1
    BY <1>0 DEF STypes
  <2> QED BY <2>1, QuotaFits, ZenonT(60)
<1>1. CASE Tick
  <2>1. /\ clock' = clock + 1 /\ clock' \in Time
        /\ \A m \in Member : hpc[m] # None => hpc[m].t = clock
        /\ reload # None => reload = clock
        /\ UNCHANGED <<lim, hour, rateNow, slowed, watched, told, members, hpc, reload, charged>>
    BY <1>1, ShapingAssumption, SMTT(20) DEF Tick, net, STypes, Time
  <2>2. Fits(hour, clock', charged)
    BY <2>1, TickFits, ZenonT(60) DEF STypes, Kept
  <2>3. STypes' /\ InStep'
    <3>1. STypes'
      BY <2>1, ZenonT(60) DEF STypes, Kept, Window
    <3>2. \A m \in Member : hpc'[m] # None => hpc'[m].t <= clock' /\ clock' <= hpc'[m].t + 1
      BY <1>0, <2>1, SMTT(30)
    <3>3. reload' # None => reload' <= clock' /\ clock' <= reload' + 1
      BY <1>0, <2>1, SMTT(20)
    <3> QED BY <3>1, <3>2, <3>3, ZenonT(60) DEF InStep
  <2>4. ToldCurrent' /\ ShapingCurrent' /\ SlowedIsWatched'
    BY <2>1, ZenonT(60) DEF ToldCurrent, ShapingCurrent, SlowedIsWatched, SlowedBy
  <2>5. Fits(hour, clock, charged)'
    BY <2>1, <2>2, ZenonT(60) DEF Fits, Holds, Gone
  <2> QED BY <2>3, <2>4, <2>5, ZenonT(60)
<1>2. ASSUME NEW m \in Member, Register(m) PROVE SInv'
  <2> DEFINE w == QuotaLocked(hour, clock)
  <2>1. Kept(w) /\ Fits(w, clock, charged)
    BY <1>13, ZenonT(60)
  <2>2. /\ members' = members \cup {m} /\ hour' = w
        /\ rateNow' = InForce(w).rate /\ slowed' = SlowedBy(w)
        /\ told' = [x \in Member |->
               IF x = m \/ (x \in members /\ Changed(w)) THEN InForce(w) ELSE told[x]]
        /\ watched' = (watched \/ SlowedBy(w))
        /\ UNCHANGED <<clock, lim, hpc, reload, charged>>
    BY <1>2, ZenonT(60) DEF Register
  <2> HIDE DEF w
  <2>3. slowed' \in BOOLEAN /\ watched' \in BOOLEAN
    BY <2>2, InForceIs, ZenonT(60) DEF STypes
  <2>4. STypes'
    BY <2>1, <2>2, <2>3, ZenonT(60) DEF STypes
  <2>5. InForce(w) = Notice(rateNow', slowed')
    BY <2>2, InForceIs, ZenonT(60)
  <2>6. ToldCurrent'
    BY <2>2, <2>5, ZenonT(60) DEF STypes, ToldCurrent, Changed
  <2>7. ShapingCurrent'
    <3>1. SlowedBy(hour)' => SlowedBy(w)
      BY <2>2, ZenonT(60) DEF SlowedBy
    <3> QED BY <2>2, <2>3, <3>1, InForceIs, ZenonT(60) DEF ShapingCurrent
  <2>8. SlowedIsWatched' /\ InStep'
    BY <2>2, <2>3, ZenonT(60) DEF SlowedIsWatched, InStep
  <2>9. Fits(hour, clock, charged)'
    BY <2>1, <2>2, ZenonT(60)
  <2> QED BY <2>4, <2>6, <2>7, <2>8, <2>9, ZenonT(60)
<1>3. ASSUME NEW m \in Member, Leave(m) PROVE SInv'
  <2>1. /\ m \in members /\ members' = members \ {m} /\ told' = [told EXCEPT ![m] = None]
        /\ UNCHANGED <<clock, lim, hour, rateNow, slowed, watched, hpc, reload, charged>>
    BY <1>3, ZenonT(60) DEF Leave
  <2>2. told' = [x \in Member |-> told'[x]] /\ \A x \in Member \ {m} : told'[x] = told[x]
    BY <2>1, ZenonT(60) DEF STypes
  <2>3. STypes' /\ InStep' /\ Fits(hour, clock, charged)'
    BY <2>1, <2>2, ZenonT(60) DEF STypes, InStep
  <2>4. ToldCurrent'
    BY <2>1, <2>2, ZenonT(60) DEF ToldCurrent, STypes
  <2> QED BY <2>1, <2>3, <2>4, ZenonT(60) DEF ShapingCurrent, SlowedIsWatched, SlowedBy
<1>4. ASSUME NEW m \in Member, NEW what \in {"charge", "control", "usage"}, Handles(m, what) PROVE SInv'
  <2>1. /\ hpc' = [hpc EXCEPT ![m] = [what |-> what, t |-> clock]]
        /\ UNCHANGED <<clock, lim, hour, rateNow, slowed, watched, told, members, reload, charged>>
    BY <1>4, ZenonT(60) DEF Handles, net
  <2>2. STypes'
    BY <2>1, ZenonT(60) DEF STypes
  <2>3. InStep'
    BY <1>0, <2>1, SMTT(20) DEF STypes, InStep
  <2>4. Fits(hour, clock, charged)'
    BY <2>1, ZenonT(60)
  <2> QED BY <2>1, <2>2, <2>3, <2>4, ZenonT(60) DEF ToldCurrent, ShapingCurrent, SlowedIsWatched, SlowedBy
<1>5. ASSUME NEW m \in Member, Charge(m) PROVE SInv'
  <2> DEFINE t == hpc[m].t
             w == Add(hour, 1, t)
  <2>1. t \in Time /\ t <= clock /\ clock <= t + 1
    BY <1>5, ZenonT(60) DEF Charge, STypes, InStep
  <2>2. /\ Reshape(w, members) /\ charged' = [charged EXCEPT ![t] = @ + 1]
        /\ hpc' = [hpc EXCEPT ![m] = None] /\ UNCHANGED <<clock, lim, members, reload>>
    BY <1>5, ZenonT(60) DEF Charge, Done
  <2>3. Kept(w) /\ Fits(w, clock, charged')
    <3> HIDE DEF t
    <3> QED BY <2>1, <2>2, AddKept, AddFits, ZenonT(60) DEF STypes
  <2> HIDE DEF w, t
  <2>4. /\ ToldCurrent' /\ ShapingCurrent' /\ SlowedIsWatched'
        /\ slowed' \in BOOLEAN /\ watched' \in BOOLEAN /\ told' = [x \in Member |-> told'[x]]
        /\ hour' = w
    BY <2>2, ReshapeSound, ZenonT(60)
  <2>5. charged' \in [Time -> Nat]
    BY <2>1, <2>2 DEF STypes
  <2>6. hpc' \in [Member -> {None} \cup [what : {"charge", "control", "usage"}, t : Time]]
    BY <2>2, ZenonT(60) DEF STypes
  <2>7. STypes'
    BY <2>2, <2>3, <2>4, <2>5, <2>6, ZenonT(60) DEF STypes
  <2>8. InStep'
    BY <2>2, ZenonT(60) DEF STypes, InStep
  <2>9. Fits(hour, clock, charged)'
    BY <2>2, <2>3, <2>4, ZenonT(60)
  <2> QED BY <2>4, <2>7, <2>8, <2>9, ZenonT(60)
<1>6. ASSUME NEW m \in Member, Control(m) PROVE SInv'
  <2> DEFINE t == hpc[m].t
             w == QuotaLocked(hour, t)
  <2>1. t \in Time /\ t <= clock /\ clock <= t + 1
    BY <1>6, ZenonT(60) DEF Control, STypes, InStep
  <2>2. /\ Reshape(w, members) /\ hpc' = [hpc EXCEPT ![m] = None]
        /\ UNCHANGED <<clock, lim, members, reload, charged>>
    BY <1>6, ZenonT(60) DEF Control, Done
  <2>3. Kept(w) /\ Fits(w, clock, charged)
    <3> HIDE DEF t
    <3> QED BY <2>1, QuotaFits, ZenonT(60)
  <2> HIDE DEF w, t
  <2>4. /\ ToldCurrent' /\ ShapingCurrent' /\ SlowedIsWatched'
        /\ slowed' \in BOOLEAN /\ watched' \in BOOLEAN /\ told' = [x \in Member |-> told'[x]]
        /\ hour' = w
    BY <2>2, ReshapeSound, ZenonT(60)
  <2>6. hpc' \in [Member -> {None} \cup [what : {"charge", "control", "usage"}, t : Time]]
    BY <2>2, ZenonT(60) DEF STypes
  <2>7. STypes'
    BY <2>2, <2>3, <2>4, <2>6, ZenonT(60) DEF STypes
  <2>8. InStep'
    BY <2>2, ZenonT(60) DEF STypes, InStep
  <2>9. Fits(hour, clock, charged)'
    BY <2>2, <2>3, <2>4, ZenonT(60)
  <2> QED BY <2>4, <2>7, <2>8, <2>9, ZenonT(60)
<1>7. ASSUME NEW m \in Member, Usage(m) PROVE SInv'
  <2> DEFINE t == hpc[m].t
  <2>1. t \in Time /\ t <= clock /\ clock <= t + 1
    BY <1>7, ZenonT(60) DEF Usage, STypes, InStep
  <2>2. /\ hour' = Advance(QuotaLocked(hour, t), t)
        /\ hpc' = [hpc EXCEPT ![m] = None]
        /\ UNCHANGED <<clock, lim, rateNow, slowed, watched, told, members, reload, charged>>
    BY <1>7, ZenonT(60) DEF Usage, Done
  <2> HIDE DEF t
  <2>3. Kept(hour') /\ Fits(hour', clock, charged) /\ hour'.sum <= hour.sum
    <3> DEFINE w == QuotaLocked(hour, t)
    <3>1. Kept(w) /\ Fits(w, clock, charged) /\ w.sum <= hour.sum
      BY <2>1, QuotaFits, ZenonT(60)
    <3> HIDE DEF w
    <3>2. w \in Window /\ clock \in Time /\ charged \in [Time -> Nat] /\ hour \in Window
      BY <3>1, ZenonT(60) DEF STypes, Kept
    <3>3. Kept(Advance(w, t)) /\ Advance(w, t).sum <= w.sum
      BY <2>1, <3>1, <3>2, AdvanceKept, ZenonT(60)
    <3>4. Fits(Advance(w, t), clock, charged)
      BY <2>1, <3>1, <3>2, AdvanceFits, ZenonT(60)
    <3>5. Advance(w, t).sum \in Nat /\ w.sum \in Nat /\ hour.sum \in Nat
      BY <3>2, <3>3, ZenonT(60) DEF Kept, Window
    <3>6. Advance(w, t).sum <= hour.sum
      BY <3>1, <3>3, <3>5
    <3> QED BY <2>2, <3>3, <3>4, <3>6, ZenonT(60) DEF w
  <2>4. ShapingCurrent'
    <3>1. hour.sum \in Nat /\ hour'.sum \in Nat /\ lim.quota \in Nat
      BY <2>3, ShapingAssumption, ZenonT(60) DEF STypes, Kept, Window
    <3>2. SlowedBy(hour)' => SlowedBy(hour)
      BY <2>2, <2>3, <3>1 DEF SlowedBy
    <3> QED BY <2>2, <3>2, ZenonT(60) DEF ShapingCurrent
  <2>6. hpc' \in [Member -> {None} \cup [what : {"charge", "control", "usage"}, t : Time]]
    BY <2>2, ZenonT(60) DEF STypes
  <2>7. STypes'
    BY <2>2, <2>3, <2>6, ZenonT(60) DEF STypes
  <2>8. InStep'
    BY <2>2, ZenonT(60) DEF STypes, InStep
  <2>9. Fits(hour, clock, charged)'
    BY <2>2, <2>3, ZenonT(60)
  <2> QED BY <2>2, <2>4, <2>7, <2>8, <2>9, ZenonT(60) DEF ToldCurrent, SlowedIsWatched
<1>8. CASE LoopTakes
  BY <1>8, ZenonT(60) DEF LoopTakes, net, STypes, InStep, ToldCurrent, ShapingCurrent, SlowedIsWatched, SlowedBy
<1>9. CASE LoopVisits
  <2>1. CASE members = {}
    <3>1. /\ UNCHANGED <<hour, rateNow, slowed, told, clock, lim, members, hpc, reload, charged>>
          /\ watched' = FALSE
      BY <1>9, <2>1, ZenonT(60) DEF LoopVisits
    <3>2. watched' \in BOOLEAN
      BY <3>1, ZenonT(60)
    <3> QED BY <2>1, <3>1, <3>2, ZenonT(60) DEF STypes, InStep, ToldCurrent, ShapingCurrent, SlowedIsWatched
  <2>2. CASE members # {}
    <3> DEFINE w == QuotaLocked(hour, clock)
    <3>1. Kept(w) /\ Fits(w, clock, charged)
      BY <1>13, ZenonT(60)
    <3>2. /\ hour' = w /\ rateNow' = InForce(w).rate /\ slowed' = SlowedBy(w)
          /\ told' = [m \in Member |-> IF m \in members /\ Changed(w) THEN InForce(w) ELSE told[m]]
          /\ watched' = SlowedBy(w)
          /\ UNCHANGED <<clock, lim, members, hpc, reload, charged>>
      BY <1>9, <2>2, ZenonT(60) DEF LoopVisits, SlowedBy
    <3> HIDE DEF w
    <3>3. slowed' \in BOOLEAN /\ watched' \in BOOLEAN
      BY <3>2, InForceIs, ZenonT(60)
    <3>4. InForce(w) = Notice(rateNow', slowed')
      BY <3>2, InForceIs, ZenonT(60)
    <3>5. ToldCurrent'
      BY <3>2, <3>4, ZenonT(60) DEF STypes, ToldCurrent, Changed
    <3>6. ShapingCurrent'
      <4>1. SlowedBy(hour)' => SlowedBy(w)
        BY <3>2, ZenonT(60) DEF SlowedBy
      <4> QED BY <3>2, <3>3, <4>1, InForceIs, ZenonT(60) DEF ShapingCurrent
    <3>7. STypes' /\ InStep' /\ SlowedIsWatched'
      BY <3>1, <3>2, <3>3, ZenonT(60) DEF STypes, InStep, SlowedIsWatched
    <3>8. Fits(hour, clock, charged)'
      BY <3>1, <3>2, ZenonT(60)
    <3> QED BY <3>5, <3>6, <3>7, <3>8, ZenonT(60)
  <2> QED BY <2>1, <2>2, ZenonT(60)
<1>10. ASSUME NEW l \in Limits, ReloadLimits(l) PROVE SInv'
  <2>1. /\ lim' = l /\ reload' = clock
        /\ UNCHANGED <<clock, hour, rateNow, slowed, watched, told, members, hpc, charged>>
    BY <1>10, ZenonT(60) DEF ReloadLimits, net
  <2>2. reload' # None
    <3>1. clock \in Nat
      BY TimeNat, ZenonT(60) DEF STypes
    <3> QED BY <2>1, <3>1, ShapingAssumption, ZenonT(60)
  <2>3. STypes' /\ InStep'
    BY <1>0, <2>1 DEF STypes, InStep
  <2>4. Fits(hour, clock, charged)'
    BY <2>1, ZenonT(60)
  <2> QED BY <2>1, <2>2, <2>3, <2>4, ZenonT(60) DEF ToldCurrent, ShapingCurrent, SlowedIsWatched
<1>11. CASE ReshapeAll
  <2> DEFINE w == QuotaLocked(hour, reload)
  <2>1. reload \in Time /\ reload <= clock /\ clock <= reload + 1
    BY <1>11, ZenonT(60) DEF ReshapeAll, STypes, InStep
  <2>2. Reshape(w, members) /\ reload' = None /\ UNCHANGED <<clock, lim, members, hpc, charged>>
    BY <1>11, ZenonT(60) DEF ReshapeAll
  <2>3. Kept(w) /\ Fits(w, clock, charged)
    BY <2>1, QuotaFits, ZenonT(60)
  <2> HIDE DEF w
  <2>4. /\ ToldCurrent' /\ ShapingCurrent' /\ SlowedIsWatched'
        /\ slowed' \in BOOLEAN /\ watched' \in BOOLEAN /\ told' = [x \in Member |-> told'[x]]
        /\ hour' = w
    BY <2>2, ReshapeSound, ZenonT(60)
  <2>5. STypes' /\ InStep'
    BY <2>2, <2>3, <2>4, ZenonT(60) DEF STypes, InStep
  <2>6. Fits(hour, clock, charged)'
    BY <2>2, <2>3, <2>4, ZenonT(60)
  <2> QED BY <2>4, <2>5, <2>6, ZenonT(60)
<1>12. CASE UNCHANGED vars
  BY <1>12, ZenonT(60) DEF vars, net, STypes, InStep, ToldCurrent, ShapingCurrent, SlowedIsWatched, SlowedBy
<1> QED BY <1>1, <1>2, <1>3, <1>4, <1>5, <1>6, <1>7, <1>8, <1>9, <1>10, <1>11, <1>12, ZenonT(60) DEF Next, Loop

\* The invariant is enough.
LEMMA ShapingKept == SInv => ShapingSound
<1> SUFFICES ASSUME SInv PROVE HourSound
  BY ZenonT(60) DEF SInv, ShapingSound
<1>1. hour.sum = SumOver(hour.slots, Slots)
  BY ZenonT(60) DEF SInv, STypes, Kept, SumOver
<1>2. Counted <= InHour
  BY HourFits, ZenonT(60) DEF SInv, STypes, Counted, InHour, SumOver
<1> QED BY <1>1, <1>2, ZenonT(60) DEF HourSound

\* network.go, limits.go: the members have been told the shaping in force; it is the limits'
\* rate or their trickle, and the trickle once the window has spent the quota; a slowed network
\* is one the shaping loop visits; and the hour's count is its slots' sum and within the hour's
\* charges.
THEOREM ShapingHolds == Spec => []ShapingSound
  BY ShapingInit, ShapingStep, ShapingKept, PTL DEF Spec
=============================================================================
