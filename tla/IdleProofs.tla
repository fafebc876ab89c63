----------------------------- MODULE IdleProofs -----------------------------
(***************************************************************************)
(* Theorems about IdleRosters, for any networks, connections, sizes and    *)
(* limit and any finite set of addresses: the books that trimIdle decides  *)
(* by balance, and a held network is in them exactly while it is empty.    *)
(*                                                                         *)
(* The books are sums over the lists, so a step is about one network that  *)
(* enters, leaves or changes its list, or changes its size (Resized,       *)
(* Booked), and the sums follow by the theorems of ArithmeticTheorems. The *)
(* invariant adds to the property what those steps rely on: a network is   *)
(* held under its own id, one that was never made is not listed (Holds),   *)
(* and a connection or a trim that refers to a network refers to one that  *)
(* was made (Points).                                                      *)
(***************************************************************************)
EXTENDS IdleRosters, ArithmeticTheorems, SequenceTheorems

\* What a list holds is finite.
LEMMA Listing ==
  ASSUME NEW s \in Seq(Obj)
  PROVE  Range(s) \in SUBSET Obj /\ IsFiniteSet(Range(s))
<1>1. Range(s) = {s[i] : i \in 1..Len(s)} /\ Len(s) \in Nat
  BY DEF Range
<1>2. IsFiniteSet(1..Len(s))
  BY <1>1, FS_Interval
<1>3. IsFiniteSet(Range(s))
  <2>1. s \in Surjection(1..Len(s), Range(s))
    BY <1>1 DEF Surjection
  <2> QED BY <2>1, <1>2, FS_Surjection, ZenonT(60)
<1>4. Range(s) \in SUBSET Obj
  BY <1>1
<1> QED BY <1>1, <1>3, <1>4, ZenonT(60)

\* PushBack: a list without repetitions stays so when something new is appended.
LEMMA Appending ==
  ASSUME NEW s \in Seq(Obj), NEW o \in Obj, IsInjective(s), o \notin Range(s)
  PROVE  /\ Append(s, o) \in Seq(Obj) /\ IsInjective(Append(s, o))
         /\ Range(Append(s, o)) = Range(s) \cup {o}
<1> DEFINE t == Append(s, o)
<1>1. /\ t \in Seq(Obj) /\ Len(t) = Len(s) + 1 /\ t[Len(s) + 1] = o /\ Len(s) \in Nat
      /\ \A i \in 1..Len(s) : t[i] = s[i]
  OBVIOUS
<1>2. DOMAIN s = 1..Len(s) /\ DOMAIN t = 1..(Len(s) + 1)
  BY <1>1
<1> HIDE DEF t
<1>3. \A i \in 1..Len(s) : s[i] # o
  BY <1>2, ZenonT(60) DEF Range
<1>4. IsInjective(t)
  <2> SUFFICES ASSUME NEW a \in 1..(Len(s) + 1), NEW b \in 1..(Len(s) + 1), t[a] = t[b] PROVE a = b
    BY <1>2, ZenonT(60) DEF IsInjective
  <2>1. CASE a \in 1..Len(s) /\ b \in 1..Len(s)
    BY <2>1, <1>1, <1>2, ZenonT(60) DEF IsInjective
  <2>2. CASE a = Len(s) + 1 \/ b = Len(s) + 1
    BY <2>2, <1>1, <1>3
  <2> QED BY <2>1, <2>2, <1>1
<1>5. Range(t) = Range(s) \cup {o}
  <2>1. \A x : x \in Range(t) <=> \E i \in 1..(Len(s) + 1) : x = t[i]
    BY <1>2, ZenonT(60) DEF Range
  <2>2. \A x : x \in Range(s) <=> \E i \in 1..Len(s) : x = s[i]
    BY <1>2, ZenonT(60) DEF Range
  <2>3. \A i : i \in 1..(Len(s) + 1) <=> i \in 1..Len(s) \/ i = Len(s) + 1
    BY <1>1
  <2>4. \A x : x \in Range(t) <=> x \in Range(s) \/ x = o
    BY <1>1, <2>1, <2>2, <2>3
  <2> QED BY <2>4, ZenonT(60)
<1> QED BY <1>1, <1>4, <1>5, ZenonT(60) DEF t

\* Without: removing an element removes it and nothing else.
LEMMA Removing ==
  ASSUME NEW s \in Seq(Obj), NEW o, IsInjective(s), o \in Range(s)
  PROVE  /\ Without(s, o) \in Seq(Obj) /\ IsInjective(Without(s, o))
         /\ Range(Without(s, o)) = Range(s) \ {o}
<1>0. DOMAIN s = 1..Len(s) /\ Len(s) \in Nat
  OBVIOUS
<1>1. PICK k \in 1..Len(s) : s[k] = o /\ k = CHOOSE i \in DOMAIN s : s[i] = o
  BY <1>0, ZenonT(60) DEF Range
<1> DEFINE n == Len(s)
           u == SubSeq(s, 1, k - 1)
           v == SubSeq(s, k + 1, n)
           t == u \o v
<1>2. Without(s, o) = t
  BY <1>1, ZenonT(60) DEF Without
<1>3. u \in Seq(Obj) /\ Len(u) = k - 1 /\ \A i \in 1..(k - 1) : u[i] = s[i]
  <2>1. \A i \in 1..(k - 1) : s[i] \in Obj
    BY <1>0
  <2>2. 1 \in Int /\ k - 1 \in Int
    OBVIOUS
  <2>3. /\ u \in Seq(Obj)
        /\ Len(u) = IF 1 <= k - 1 THEN (k - 1) - 1 + 1 ELSE 0
        /\ \A i \in 1..((k - 1) - 1 + 1) : u[i] = s[1 + i - 1]
    BY <2>1, <2>2, SubSeqProperties
  <2> HIDE DEF u
  <2>4. Len(u) = k - 1 /\ (k - 1) - 1 + 1 = k - 1
    BY <2>3
  <2>5. \A i \in 1..(k - 1) : 1 + i - 1 = i
    OBVIOUS
  <2> QED BY <2>3, <2>4, <2>5, ZenonT(60)
<1>4. v \in Seq(Obj) /\ Len(v) = n - k /\ \A i \in 1..(n - k) : v[i] = s[k + i]
  <2>1. \A i \in (k + 1)..n : s[i] \in Obj
    BY <1>0
  <2>2. k + 1 \in Int /\ n \in Int
    BY <1>0
  <2> HIDE DEF n
  <2>3. /\ v \in Seq(Obj)
        /\ Len(v) = IF k + 1 <= n THEN n - (k + 1) + 1 ELSE 0
        /\ \A i \in 1..(n - (k + 1) + 1) : v[i] = s[(k + 1) + i - 1]
    BY <2>1, <2>2, SubSeqProperties
  <2> HIDE DEF v
  <2>4. Len(v) = n - k /\ n - (k + 1) + 1 = n - k
    <3>1. k \in 1..n /\ n \in Nat
      BY <1>0, ZenonT(60) DEF n
    <3> QED BY <2>3, <3>1
  <2>5. \A i \in 1..(n - k) : (k + 1) + i - 1 = k + i
    BY <2>2
  <2> QED BY <2>3, <2>4, <2>5, ZenonT(60)
<1>5. /\ t \in Seq(Obj) /\ Len(t) = Len(s) - 1
      /\ \A i \in 1..(Len(s) - 1) : t[i] = IF i < k THEN s[i] ELSE s[i + 1]
  <2> HIDE DEF u, v
  <2>2. /\ t \in Seq(Obj) /\ Len(t) = Len(u) + Len(v)
        /\ \A i \in 1..(Len(u) + Len(v)) : t[i] = IF i <= Len(u) THEN u[i] ELSE v[i - Len(u)]
    BY <1>3, <1>4, ConcatProperties, ZenonT(60)
  <2> HIDE DEF t
  <2>1. k \in 1..n /\ n \in Nat
    BY <1>0, ZenonT(60)
  <2> HIDE DEF n
  <2>3. ASSUME NEW i \in 1..(n - 1) PROVE t[i] = IF i < k THEN s[i] ELSE s[i + 1]
    <3>1. Len(u) + Len(v) = n - 1
      BY <1>3, <1>4, <2>1
    <3>2. CASE i < k
      <4>1. i <= Len(u) /\ i \in 1..(k - 1)
        BY <3>2, <1>3, <2>1
      <4> QED BY <3>1, <3>2, <4>1, <2>2, <1>3, ZenonT(60)
    <3>3. CASE ~(i < k)
      <4>1. ~(i <= Len(u)) /\ i - Len(u) \in 1..(n - k) /\ k + (i - Len(u)) = i + 1
        BY <3>3, <1>3, <2>1
      <4>2. t[i] = v[i - Len(u)]
        BY <3>1, <4>1, <2>2, ZenonT(60)
      <4> QED BY <3>3, <4>1, <4>2, <1>4, ZenonT(60)
    <3> QED BY <3>2, <3>3, ZenonT(60)
  <2>4. Len(t) = n - 1
    BY <2>1, <2>2, <1>3, <1>4
  <2> QED BY <2>2, <2>3, <2>4, ZenonT(60) DEF n
<1> HIDE DEF t
<1>6. DOMAIN t = 1..(Len(s) - 1)
  <2>1. DOMAIN t = 1..Len(t)
    BY <1>5
  <2> QED BY <1>5, <2>1, ZenonT(60)
<1>7. \A i \in 1..Len(s) : s[i] = o => i = k
  BY <1>0, <1>1, ZenonT(60) DEF IsInjective
<1>8. IsInjective(t)
  <2> SUFFICES ASSUME NEW a \in 1..(Len(s) - 1), NEW b \in 1..(Len(s) - 1), t[a] = t[b] PROVE a = b
    BY <1>6, ZenonT(60) DEF IsInjective
  <2>1. \A i, j \in 1..Len(s) : s[i] = s[j] => i = j
    BY <1>0, ZenonT(60) DEF IsInjective
  <2>5. \A d \in 1..(Len(s) - 1) : d \in 1..Len(s) /\ d + 1 \in 1..Len(s)
    BY <1>0
  <2>2. PICK x \in 1..Len(s) : t[a] = s[x] /\ x = IF a < k THEN a ELSE a + 1
    BY <1>5, <2>5, ZenonT(60)
  <2>3. PICK y \in 1..Len(s) : t[b] = s[y] /\ y = IF b < k THEN b ELSE b + 1
    BY <1>5, <2>5, ZenonT(60)
  <2>4. x = y
    BY <2>1, <2>2, <2>3, ZenonT(60)
  <2> QED BY <2>2, <2>3, <2>4
<1>9. Range(t) = Range(s) \ {o}
  <2>1. \A x : x \in Range(t) <=> \E i \in 1..(Len(s) - 1) : x = t[i]
    BY <1>6, ZenonT(60) DEF Range
  <2>2. \A x : x \in Range(s) <=> \E i \in 1..Len(s) : x = s[i]
    BY <1>0, ZenonT(60) DEF Range
  <2>3. ASSUME NEW i \in 1..(Len(s) - 1) PROVE t[i] \in Range(s) /\ t[i] # o
    <3>0. PICK x \in 1..Len(s) : x = (IF i < k THEN i ELSE i + 1) /\ x # k
      BY <1>0
    <3>1. t[i] = s[x]
      BY <1>5, <3>0, ZenonT(60)
    <3> QED BY <3>0, <3>1, <2>2, <1>7, ZenonT(60)
  <2>4. ASSUME NEW i \in 1..Len(s), s[i] # o PROVE s[i] \in Range(t)
    <3>1. i # k
      BY <2>4, <1>1, ZenonT(60)
    <3>2. PICK x \in 1..(Len(s) - 1) : x = IF i < k THEN i ELSE i - 1
      BY <1>0, <3>1
    <3>3. t[x] = s[i]
      BY <1>0, <1>5, <3>1, <3>2
    <3> QED BY <2>1, <3>3, ZenonT(60)
  <2> QED BY <2>1, <2>2, <2>3, <2>4
<1> QED BY <1>2, <1>5, <1>8, <1>9, ZenonT(60)

\* The idle lists and what is counted of them.
Lists ==
  /\ order \in [Owner -> Seq(Obj)]
  /\ \A w \in Owner : IsInjective(order[w])
  /\ \A v, w \in Owner : v # w => Range(order[v]) \cap Range(order[w]) = {}

\* What is counted: each address's bytes and the relay's are sums, and what is not listed counts nothing.
Sums ==
  /\ size \in [Obj -> Nat] /\ owned \in [Owner -> Nat] /\ bytes \in Nat
  /\ \A w \in Owner : owned[w] = SumFunctionOnSet(size, Range(order[w]))
  /\ bytes = SumFunctionOnSet(owned, Owner)
  /\ \A o \in Obj : ~Idle(o) => size[o] = 0

\* What is listed is listed with its owner.
LEMMA Listed ==
  ASSUME Lists
  PROVE  /\ \A w \in Owner : Range(order[w]) \in SUBSET Obj /\ IsFiniteSet(Range(order[w]))
         /\ \A o : Idle(o) <=> \E w \in Owner : o \in Range(order[w])
         /\ \A o : Idle(o) => o \in Obj /\ OwnerOf(o) \in Owner /\ o \in Range(order[OwnerOf(o)])
<1>1. \A w \in Owner : order[w] \in Seq(Obj)
  BY ZenonT(60) DEF Lists
<1>2. \A w \in Owner : Range(order[w]) \in SUBSET Obj /\ IsFiniteSet(Range(order[w]))
  BY <1>1, Listing, ZenonT(60)
<1>4. \A o : Idle(o) <=> \E w \in Owner : o \in Range(order[w])
  BY ZenonT(60) DEF Idle
<1>5. \A o : Idle(o) => OwnerOf(o) \in Owner /\ o \in Range(order[OwnerOf(o)])
  BY <1>4, ZenonT(60) DEF OwnerOf
<1> QED BY <1>2, <1>4, <1>5, ZenonT(60)

\* Sizes are integers.
LEMMA NatInt == \A n \in Nat : n \in Int
OBVIOUS

\* A size of zero adds nothing to a sum.
LEMMA ZeroPlus == \A n \in Int : 0 + n = n
OBVIOUS

\* The oldest of a list is in it.
LEMMA HeadIn ==
  ASSUME NEW S, NEW s \in Seq(S), s # <<>>
  PROVE  Head(s) \in S
OBVIOUS

\* One address's sum changes, and the relay's with it.
LEMMA OwnedSum ==
  ASSUME Sums, NEW w \in Owner, NEW x \in Nat, owned' = [owned EXCEPT ![w] = x]
  PROVE  /\ SumFunctionOnSet(owned', Owner) = bytes + x - owned[w]
         /\ SumFunctionOnSet(owned', Owner) \in Nat /\ owned' \in [Owner -> Nat]
<1>1. owned \in [Owner -> Nat] /\ bytes = SumFunctionOnSet(owned, Owner) /\ IsFiniteSet(Owner)
  BY IdleAssumption, ZenonT(60) DEF Sums
<1>2. owned' \in [Owner -> Nat] /\ owned'[w] = x /\ \A v \in Owner \ {w} : owned'[v] = owned[v]
  BY <1>1, ZenonT(60)
<1>3. PICK g : g = owned'
  BY ZenonT(60)
<1>4. (\A v \in Owner : owned[v] \in Int) /\ g[w] \in Int /\ (\A v \in Owner \ {w} : g[v] = owned[v])
  BY <1>1, <1>2, <1>3, NatInt, ZenonT(60)
<1>5. SumFunctionOnSet(g, Owner) = SumFunctionOnSet(owned, Owner) + g[w] - owned[w]
  BY <1>1, <1>4, SumUpdate
<1>6. \A v \in Owner : g[v] \in Nat
  BY <1>2, <1>3, ZenonT(60)
<1>7. SumFunctionOnSet(g, Owner) \in Nat
  BY <1>1, <1>6, SumNat, ZenonT(60)
<1> QED BY <1>1, <1>2, <1>3, <1>5, <1>7, ZenonT(60)

\* One network's size changes, and with it the sum of the list it is in.
LEMMA SizeSum ==
  ASSUME Lists, Sums, NEW o \in Obj, NEW x \in Nat, size' = [size EXCEPT ![o] = x], NEW w \in Owner
  PROVE  /\ size' \in [Obj -> Nat]
         /\ SumFunctionOnSet(size', Range(order[w])) \in Nat
         /\ o \in Range(order[w]) =>
              SumFunctionOnSet(size', Range(order[w])) = owned[w] + x - size[o]
         /\ o \notin Range(order[w]) => SumFunctionOnSet(size', Range(order[w])) = owned[w]
<1> DEFINE A == Range(order[w])
<1>1. size \in [Obj -> Nat] /\ owned[w] = SumFunctionOnSet(size, A) /\ A \in SUBSET Obj /\ IsFiniteSet(A)
  BY Listed, ZenonT(60) DEF Sums
<1>2. PICK g : g = size'
  BY ZenonT(60)
<1>3. g \in [Obj -> Nat] /\ g[o] = x /\ \A p \in Obj \ {o} : g[p] = size[p]
  BY <1>1, <1>2, ZenonT(60)
<1> HIDE DEF A
<1>4. SumFunctionOnSet(g, A) \in Nat
  <2>1. \A p \in A : g[p] \in Nat
    BY <1>1, <1>3, ZenonT(60)
  <2> QED BY <1>1, <2>1, SumNat, ZenonT(60)
<1>5. ASSUME o \in A PROVE SumFunctionOnSet(g, A) = owned[w] + x - size[o]
  <2>1. (\A p \in A : size[p] \in Int) /\ g[o] \in Int /\ (\A p \in A \ {o} : g[p] = size[p])
    BY <1>1, <1>3
  <2>2. SumFunctionOnSet(g, A) = SumFunctionOnSet(size, A) + g[o] - size[o]
    BY <1>1, <1>5, <2>1, SumUpdate
  <2> QED BY <1>1, <1>3, <2>2, ZenonT(60)
<1>6. ASSUME o \notin A PROVE SumFunctionOnSet(g, A) = owned[w]
  <2>1. \A p \in A : g[p] = size[p]
    BY <1>1, <1>3, <1>6, ZenonT(60)
  <2>2. SumFunctionOnSet(g, A) = SumFunctionOnSet(size, A)
    BY <1>1, <2>1, SumSame, ZenonT(60)
  <2> QED BY <1>1, <2>2, ZenonT(60)
<1> QED BY <1>2, <1>3, <1>4, <1>5, <1>6, ZenonT(60) DEF A

\* resizeLocked
LEMMA Resized ==
  ASSUME Lists, Sums, NEW o \in Obj, Idle(o), NEW x \in Nat, Resize(o, x),
         order' \in [Owner -> Seq(Obj)], \A w \in Owner : IsInjective(order'[w]),
         \A w \in Owner : Range(order'[w]) = Range(order[w])
  PROVE  Lists' /\ Sums' /\ size'[o] = x /\ (\A p \in Obj : Idle(p)' <=> Idle(p))
         /\ (\A p \in Obj \ {o} : size'[p] = size[p])
<1>1. PICK w \in Owner : w = OwnerOf(o) /\ o \in Range(order[w])
  BY Listed, ZenonT(60)
<1>2. /\ size' = [size EXCEPT ![o] = x] /\ owned' = [owned EXCEPT ![w] = owned[w] + x - size[o]]
      /\ bytes' = bytes + x - size[o]
  BY <1>1, ZenonT(60) DEF Resize, Sums
<1>3. owned[w] \in Nat /\ size[o] \in Nat /\ bytes \in Nat
  BY ZenonT(60) DEF Sums
<1>4. /\ size' \in [Obj -> Nat] /\ owned[w] + x - size[o] \in Nat
      /\ SumFunctionOnSet(size', Range(order[w])) = owned[w] + x - size[o]
  BY <1>1, <1>2, SizeSum, ZenonT(60)
<1>5. Lists'
  BY ZenonT(60) DEF Lists
<1>6. \A p : Idle(p)' <=> Idle(p)
  <2>1. \A p : Idle(p)' <=> \E v \in Owner : p \in Range(order'[v])
    <3>1. \A v \in Owner : order'[v] \in Seq(Obj)
      BY <1>5, ZenonT(60) DEF Lists
    <3> QED BY <3>1, Listing, ZenonT(60) DEF Idle
  <2> QED BY <2>1, Listed, ZenonT(60)
<1>7. /\ owned' \in [Owner -> Nat] /\ SumFunctionOnSet(owned', Owner) = bytes + (owned[w] + x - size[o]) - owned[w]
      /\ SumFunctionOnSet(owned', Owner) \in Nat
  <2>1. PICK y \in Nat : y = owned[w] + x - size[o]
    BY <1>4, ZenonT(60)
  <2> QED BY <1>2, <2>1, OwnedSum, ZenonT(60)
<1>8. bytes' = SumFunctionOnSet(owned', Owner)
  <2>1. bytes + (owned[w] + x - size[o]) - owned[w] = bytes + x - size[o]
    BY <1>3
  <2> QED BY <1>2, <1>7, <2>1, ZenonT(60)
<1>9. ASSUME NEW v \in Owner PROVE owned'[v] = SumFunctionOnSet(size', Range(order'[v]))
  <2>1. Range(order'[v]) = Range(order[v])
    BY ZenonT(60)
  <2>2. CASE v = w
    BY <2>1, <2>2, <1>2, <1>4, ZenonT(60) DEF Sums
  <2>3. CASE v # w
    <3>1. o \notin Range(order[v])
      BY <2>3, <1>1, ZenonT(60) DEF Lists
    <3>2. owned'[v] = owned[v]
      BY <2>3, <1>2, ZenonT(60) DEF Sums
    <3>3. SumFunctionOnSet(size', Range(order[v])) = owned[v]
      BY <3>1, <1>2, SizeSum, ZenonT(60)
    <3> QED BY <2>1, <3>2, <3>3, ZenonT(60)
  <2> QED BY <2>2, <2>3, ZenonT(60)
<1>10. size'[o] = x /\ \A p \in Obj \ {o} : size'[p] = size[p]
  BY <1>2, ZenonT(60) DEF Sums
<1>11. \A p \in Obj : ~Idle(p)' => size'[p] = 0
  BY <1>6, <1>10, ZenonT(60) DEF Sums
<1>12. Sums'
  BY <1>4, <1>7, <1>8, <1>9, <1>11, ZenonT(60) DEF Sums
<1> QED BY <1>5, <1>6, <1>10, <1>12, ZenonT(60)

\* What is listed after one address's list has changed.
LEMMA Relisted ==
  ASSUME Lists, NEW w \in Owner, NEW t \in Seq(Obj), IsInjective(t), order' = [order EXCEPT ![w] = t],
         \A v \in Owner \ {w} : Range(order[v]) \cap Range(t) = {}
  PROVE  /\ Lists' /\ order'[w] = t /\ \A v \in Owner \ {w} : order'[v] = order[v]
         /\ \A p : Idle(p)' <=> p \in Range(t) \/ \E v \in Owner \ {w} : p \in Range(order[v])
<1>1. order' \in [Owner -> Seq(Obj)] /\ order'[w] = t /\ \A v \in Owner \ {w} : order'[v] = order[v]
  BY ZenonT(60) DEF Lists
<1>2. \A v \in Owner : IsInjective(order'[v])
  BY <1>1, ZenonT(60) DEF Lists
<1>3. ASSUME NEW u \in Owner, NEW v \in Owner, u # v PROVE Range(order'[u]) \cap Range(order'[v]) = {}
  <2>1. CASE u = w
    BY <2>1, <1>1, <1>3, ZenonT(60)
  <2>2. CASE v = w
    BY <2>2, <1>1, <1>3
  <2>3. CASE u # w /\ v # w
    BY <2>3, <1>1, <1>3, ZenonT(60) DEF Lists
  <2> QED BY <2>1, <2>2, <2>3, ZenonT(60)
<1>4. \A p : Idle(p)' <=> \E v \in Owner : p \in Range(order'[v])
  <2>1. \A v \in Owner : order'[v] \in Seq(Obj)
    BY <1>1, ZenonT(60)
  <2> QED BY <2>1, Listing, ZenonT(60) DEF Idle
<1>5. Lists'
  BY <1>1, <1>2, <1>3, ZenonT(60) DEF Lists
<1> QED BY <1>1, <1>4, <1>5, ZenonT(60)

\* The books after one list and one size in it have changed.
LEMMA Booked ==
  ASSUME Lists, Sums, Lists', NEW w \in Owner, NEW o \in Obj, NEW x \in Nat, NEW y \in Nat,
         size' = [size EXCEPT ![o] = x], owned' = [owned EXCEPT ![w] = y],
         bytes' = bytes + y - owned[w], y = SumFunctionOnSet(size', Range(order'[w])),
         \A v \in Owner \ {w} : order'[v] = order[v] /\ o \notin Range(order[v]),
         ~Idle(o)' => x = 0, \A p \in Obj \ {o} : Idle(p)' <=> Idle(p)
  PROVE  Sums' /\ size'[o] = x /\ \A p \in Obj \ {o} : size'[p] = size[p]
<1>1. size' \in [Obj -> Nat] /\ size'[o] = x /\ \A p \in Obj \ {o} : size'[p] = size[p]
  BY ZenonT(60) DEF Sums
<1>2. /\ owned' \in [Owner -> Nat] /\ bytes' = SumFunctionOnSet(owned', Owner)
      /\ bytes' \in Nat
  BY OwnedSum, ZenonT(60)
<1>3. owned'[w] = y /\ \A v \in Owner \ {w} : owned'[v] = owned[v]
  BY ZenonT(60) DEF Sums
<1>4. \A v \in Owner \ {w} : owned'[v] = SumFunctionOnSet(size', Range(order'[v]))
  BY <1>3, SizeSum, ZenonT(60)
<1>5. \A v \in Owner : owned'[v] = SumFunctionOnSet(size', Range(order'[v]))
  BY <1>3, <1>4, ZenonT(60)
<1>6. \A p \in Obj : ~Idle(p)' => size'[p] = 0
  BY <1>1, ZenonT(60) DEF Sums
<1> QED BY <1>1, <1>2, <1>5, <1>6, ZenonT(60) DEF Sums

\* removeLocked
LEMMA Removed ==
  ASSUME Lists, Sums, NEW o \in Obj, Idle(o), RemoveIdle(o)
  PROVE  Lists' /\ Sums' /\ size'[o] = 0 /\ ~Idle(o)'
         /\ (\A p \in Obj \ {o} : size'[p] = size[p] /\ (Idle(p)' <=> Idle(p)))
<1>1. PICK w \in Owner : w = OwnerOf(o) /\ o \in Range(order[w])
  BY Listed, ZenonT(60)
<1> DEFINE A == Range(order[w])
           t == Without(order[w], o)
           y == owned[w] + 0 - size[o]
<1>2. /\ size' = [size EXCEPT ![o] = 0] /\ owned' = [owned EXCEPT ![w] = y]
      /\ bytes' = bytes + 0 - size[o] /\ order' = [order EXCEPT ![w] = t]
  BY <1>1, ZenonT(60) DEF RemoveIdle, Resize, Sums, Lists
<1>3. order[w] \in Seq(Obj) /\ IsInjective(order[w]) /\ A \in SUBSET Obj /\ IsFiniteSet(A)
  BY Listed, ZenonT(60) DEF Lists
<1>4. t \in Seq(Obj) /\ IsInjective(t) /\ Range(t) = A \ {o}
  BY <1>1, <1>3, Removing, ZenonT(60)
<1>5. \A v \in Owner \ {w} : Range(order[v]) \cap A = {} /\ o \notin Range(order[v])
  BY <1>1, ZenonT(60) DEF Lists
<1> HIDE DEF t
<1>6. /\ Lists' /\ order'[w] = t /\ \A v \in Owner \ {w} : order'[v] = order[v]
      /\ \A p : Idle(p)' <=> p \in Range(t) \/ \E v \in Owner \ {w} : p \in Range(order[v])
  <2>1. \A v \in Owner \ {w} : Range(order[v]) \cap Range(t) = {}
    BY <1>4, <1>5, ZenonT(60)
  <2> QED BY <1>2, <1>4, <2>1, Relisted, ZenonT(60)
<1>7. ~Idle(o)' /\ \A p \in Obj \ {o} : Idle(p)' <=> Idle(p)
  <2>1. \A p : Idle(p) <=> p \in A \/ \E v \in Owner \ {w} : p \in Range(order[v])
    BY Listed, ZenonT(60)
  <2> QED BY <1>4, <1>5, <1>6, <2>1, ZenonT(60)
<1>8. /\ size' \in [Obj -> Nat] /\ SumFunctionOnSet(size', A) \in Nat
      /\ SumFunctionOnSet(size', A) = y
  BY <1>1, <1>2, SizeSum, ZenonT(60)
<1>9. SumFunctionOnSet(size', Range(t)) = y
  <2>1. PICK g : g = size'
    BY ZenonT(60)
  <2>2. (\A p \in A : g[p] \in Int) /\ g[o] = 0
    <3>1. \A p \in A : g[p] \in Int
      BY <1>3, <1>8, <2>1, NatInt, ZenonT(60)
    <3>2. g[o] = 0
      BY <1>2, <2>1, ZenonT(60) DEF Sums
    <3> QED BY <3>1, <3>2, ZenonT(60)
  <2>3. SumFunctionOnSet(g, A) = g[o] + SumFunctionOnSet(g, A \ {o})
    BY <1>1, <1>3, <2>2, SumRemove
  <2>4. SumFunctionOnSet(g, A \ {o}) \in Int
    <3>1. IsFiniteSet(A \ {o}) /\ \A p \in A \ {o} : g[p] \in Int
      BY <1>3, <2>2, FS_Subset, ZenonT(60)
    <3> QED BY <3>1, SumInt, ZenonT(60)
  <2> HIDE DEF A
  <2>5. SumFunctionOnSet(g, A) = SumFunctionOnSet(g, A \ {o})
    BY <2>2, <2>3, <2>4, ZeroPlus, ZenonT(60)
  <2> QED BY <1>4, <1>8, <2>1, <2>5, ZenonT(60)
<1>10. y \in Nat /\ owned[w] \in Nat /\ size[o] \in Nat /\ bytes \in Nat
  BY <1>8, ZenonT(60) DEF Sums
<1>11. bytes' = bytes + y - owned[w]
  BY <1>2, <1>10
<1> HIDE DEF y, A
<1>12. Sums' /\ size'[o] = 0 /\ \A p \in Obj \ {o} : size'[p] = size[p]
  <2>1. y = SumFunctionOnSet(size', Range(order'[w]))
    BY <1>6, <1>9, ZenonT(60)
  <2>2. \A v \in Owner \ {w} : order'[v] = order[v] /\ o \notin Range(order[v])
    BY <1>5, <1>6, ZenonT(60)
  <2>3. ~Idle(o)' => 0 = 0
    BY <1>7, ZenonT(60)
  <2>4. \A p \in Obj \ {o} : Idle(p)' <=> Idle(p)
    BY <1>7, ZenonT(60)
  <2>5. PICK z \in Nat : z = y
    BY <1>10, ZenonT(60)
  <2>6. /\ size' = [size EXCEPT ![o] = 0] /\ owned' = [owned EXCEPT ![w] = z]
        /\ bytes' = bytes + z - owned[w] /\ z = SumFunctionOnSet(size', Range(order'[w]))
    BY <1>2, <1>11, <2>1, <2>5, ZenonT(60)
  <2>7. 0 \in Nat /\ Lists'
    BY <1>6, ZenonT(60)
  <2> QED BY <2>2, <2>3, <2>4, <2>6, <2>7, Booked, ZenonT(60)
<1> QED BY <1>6, <1>7, <1>12, ZenonT(60)

\* pushLocked
LEMMA Pushed ==
  ASSUME Lists, Sums, NEW o \in Obj, ~Idle(o), NEW w \in Owner, NEW x \in Nat, PushIdle(o, w, x)
  PROVE  Lists' /\ Sums' /\ size'[o] = x /\ Idle(o)'
         /\ (\A p \in Obj \ {o} : size'[p] = size[p] /\ (Idle(p)' <=> Idle(p)))
<1> DEFINE A == Range(order[w])
           t == Append(order[w], o)
           y == owned[w] + x
<1>1. \A v \in Owner : o \notin Range(order[v])
  BY Listed, ZenonT(60)
<1>2. /\ size' = [size EXCEPT ![o] = x] /\ owned' = [owned EXCEPT ![w] = y]
      /\ bytes' = bytes + x /\ order' = [order EXCEPT ![w] = t]
  BY ZenonT(60) DEF PushIdle, Sums, Lists
<1>3. order[w] \in Seq(Obj) /\ IsInjective(order[w]) /\ A \in SUBSET Obj /\ IsFiniteSet(A)
  BY Listed, ZenonT(60) DEF Lists
<1>4. t \in Seq(Obj) /\ IsInjective(t) /\ Range(t) = A \cup {o}
  BY <1>1, <1>3, Appending, ZenonT(60)
<1>5. \A v \in Owner \ {w} : Range(order[v]) \cap A = {} /\ o \notin Range(order[v])
  BY <1>1, ZenonT(60) DEF Lists
<1> HIDE DEF t
<1>6. /\ Lists' /\ order'[w] = t /\ \A v \in Owner \ {w} : order'[v] = order[v]
      /\ \A p : Idle(p)' <=> p \in Range(t) \/ \E v \in Owner \ {w} : p \in Range(order[v])
  <2>1. \A v \in Owner \ {w} : Range(order[v]) \cap Range(t) = {}
    BY <1>4, <1>5, ZenonT(60)
  <2> QED BY <1>2, <1>4, <2>1, Relisted, ZenonT(60)
<1>7. Idle(o)' /\ \A p \in Obj \ {o} : Idle(p)' <=> Idle(p)
  <2>1. \A p : Idle(p) <=> p \in A \/ \E v \in Owner \ {w} : p \in Range(order[v])
    BY Listed, ZenonT(60)
  <2> QED BY <1>4, <1>6, <2>1, ZenonT(60)
<1>8. size' \in [Obj -> Nat] /\ SumFunctionOnSet(size', A) = owned[w]
  BY <1>1, <1>2, SizeSum, ZenonT(60)
<1>10. y \in Nat /\ owned[w] \in Nat /\ bytes \in Nat
  BY DEF Sums
<1>9. SumFunctionOnSet(size', Range(t)) = y
  <2>1. PICK g : g = size'
    BY ZenonT(60)
  <2>2. (\A p \in A \cup {o} : g[p] \in Int) /\ g[o] = x
    <3>1. \A p \in A \cup {o} : g[p] \in Int
      BY <1>3, <1>8, <2>1, NatInt, ZenonT(60)
    <3>2. g[o] = x
      BY <1>2, <2>1, ZenonT(60) DEF Sums
    <3> QED BY <3>1, <3>2, ZenonT(60)
  <2>3. PICK S : S = A \cup {o} /\ S \ {o} = A /\ IsFiniteSet(S)
    <3>1. IsFiniteSet(A \cup {o})
      BY <1>3, FS_AddElement, ZenonT(60)
    <3> QED BY <1>1, <3>1, ZenonT(60)
  <2>4. SumFunctionOnSet(g, S) = g[o] + SumFunctionOnSet(g, S \ {o})
    BY <2>2, <2>3, SumRemove, ZenonT(60)
  <2>5. SumFunctionOnSet(g, A) = owned[w]
    BY <1>8, <2>1, ZenonT(60)
  <2>6. SumFunctionOnSet(g, Range(t)) = x + owned[w]
    BY <1>4, <2>2, <2>3, <2>4, <2>5, ZenonT(60)
  <2> QED BY <1>10, <2>1, <2>6
<1>11. bytes' = bytes + y - owned[w]
  BY <1>2, <1>10
<1> HIDE DEF y, A
<1>12. Sums' /\ size'[o] = x /\ \A p \in Obj \ {o} : size'[p] = size[p]
  <2>1. y = SumFunctionOnSet(size', Range(order'[w]))
    BY <1>6, <1>9, ZenonT(60)
  <2>2. \A v \in Owner \ {w} : order'[v] = order[v] /\ o \notin Range(order[v])
    BY <1>5, <1>6, ZenonT(60)
  <2>3. ~Idle(o)' => x = 0
    BY <1>7, ZenonT(60)
  <2>4. \A p \in Obj \ {o} : Idle(p)' <=> Idle(p)
    BY <1>7, ZenonT(60)
  <2>5. PICK z \in Nat : z = y
    BY <1>10, ZenonT(60)
  <2>6. /\ size' = [size EXCEPT ![o] = x] /\ owned' = [owned EXCEPT ![w] = z]
        /\ bytes' = bytes + z - owned[w] /\ z = SumFunctionOnSet(size', Range(order'[w]))
    BY <1>2, <1>11, <2>1, <2>5, ZenonT(60)
  <2>7. x \in Nat /\ Lists'
    BY <1>6, ZenonT(60)
  <2> QED BY <2>2, <2>3, <2>4, <2>6, <2>7, Booked, ZenonT(60)
<1> QED BY <1>6, <1>7, <1>12, ZenonT(60)

\* syncIdleLocked: a network is listed, at its cost, exactly when no member is left.
LEMMA Synced ==
  ASSUME Lists, Sums, NEW o \in Obj, NEW w \in Owner, NEW ms, NEW x \in Nat, SyncIdleLocked(o, w, ms, x)
  PROVE  /\ Lists' /\ Sums' /\ (Idle(o)' <=> ms = {}) /\ size'[o] = (IF ms = {} THEN x ELSE 0)
         /\ \A p \in Obj \ {o} : size'[p] = size[p] /\ (Idle(p)' <=> Idle(p))
<1>1. CASE ms # {} /\ Idle(o)
  BY <1>1, Removed, ZenonT(60) DEF SyncIdleLocked
<1>2. CASE ms # {} /\ ~Idle(o)
  <2>1. UNCHANGED idleVars
    BY <1>2, ZenonT(60) DEF SyncIdleLocked
  <2>2. size[o] = 0
    BY <1>2, ZenonT(60) DEF Sums
  <2> QED BY <1>2, <2>1, <2>2, ZenonT(60) DEF idleVars, Lists, Sums, Idle
<1>3. CASE ms = {} /\ Idle(o)
  <2>1. Resize(o, x) /\ order' = order
    BY <1>3, ZenonT(60) DEF SyncIdleLocked
  <2>2. /\ Lists' /\ Sums' /\ size'[o] = x /\ (\A p \in Obj : Idle(p)' <=> Idle(p))
        /\ (\A p \in Obj \ {o} : size'[p] = size[p])
    BY <1>3, <2>1, Resized, ZenonT(60) DEF Lists
  <2> QED BY <1>3, <2>2, ZenonT(60)
<1>4. CASE ms = {} /\ ~Idle(o)
  <2>1. PushIdle(o, w, x)
    BY <1>4, ZenonT(60) DEF SyncIdleLocked
  <2> QED BY <1>4, <2>1, Pushed, ZenonT(60)
<1> QED BY <1>1, <1>2, <1>3, <1>4, ZenonT(60)

\* dropIdleLocked
LEMMA Dropped ==
  ASSUME Lists, Sums, NEW o \in Obj, DropIdleLocked(o)
  PROVE  /\ Lists' /\ Sums' /\ ~Idle(o)' /\ size'[o] = 0
         /\ \A p \in Obj \ {o} : size'[p] = size[p] /\ (Idle(p)' <=> Idle(p))
<1>1. CASE Idle(o)
  BY <1>1, Removed, ZenonT(60) DEF DropIdleLocked
<1>2. CASE ~Idle(o)
  <2>1. UNCHANGED idleVars
    BY <1>2, ZenonT(60) DEF DropIdleLocked
  <2>2. size[o] = 0
    BY <1>2, ZenonT(60) DEF Sums
  <2> QED BY <1>2, <2>1, <2>2, ZenonT(60) DEF idleVars, Lists, Sums, Idle
<1> QED BY <1>1, <1>2, ZenonT(60)

\* Numbers of nodes are natural numbers.
LEMMA SizesNat == \A k \in Sizes \cup {0} : k \in Nat
  BY IdleAssumption

\* What a roster costs is a natural number.
LEMMA CostNat ==
  ASSUME NEW k \in Nat, NEW f \in BOOLEAN
  PROVE  RosterCost(k, f) \in Nat
<1>1. RawBytes * k \in Nat
  BY IdleAssumption
<1> QED BY <1>1 DEF RosterCost

\* The types of the networks and the connections.
Types ==
  /\ table \in [NetId -> Obj \cup {None}] /\ netId \in [Obj -> NetId \cup {None}]
  /\ ver \in [Obj -> 0..MaxVersion] /\ count \in [Obj -> Sizes \cup {0}]
  /\ full \in [Obj -> BOOLEAN] /\ mem \in [Obj -> SUBSET Conn]
  /\ at \in [Conn -> Obj \cup {None}] /\ pc \in [Conn -> {"new", "in", "trim", "cut", "gone"}]
  /\ victim \in [Conn -> Obj \cup {None}]

\* Each listed network counts what its roster costs now.
Costs == \A o \in Obj : size[o] = IF Idle(o) THEN RosterCost(count[o], full[o]) ELSE 0

\* A network is held under its own id; one with a member connected is held; one not made
\* yet has no members and is not listed; a held one is listed exactly when it is empty.
Holds ==
  /\ \A n \in NetId : table[n] # None =>
        netId[table[n]] = n /\ (Idle(table[n]) <=> mem[table[n]] = {})
  /\ \A o \in Obj : mem[o] # {} => table[netId[o]] = o /\ ~Idle(o)
  /\ \A o \in Obj : netId[o] = None => mem[o] = {} /\ ~Idle(o)

\* A registered connection has its network, and a trim that has picked has its victim.
Points ==
  \A c \in Conn : /\ pc[c] = "in" => at[c] \in Obj /\ netId[at[c]] # None
                  /\ pc[c] = "cut" => victim[c] \in Obj

\* The inductive invariant.
IInv == Types /\ Lists /\ Sums /\ Costs /\ Holds /\ Points

\* What a step that ends in syncIdleLocked leaves behind.
LEMMA SyncKeeps ==
  ASSUME Types, Lists, Sums, Costs, Holds, NEW o \in Obj, netId[o] # None, NEW w \in Owner,
         NEW ms \in SUBSET Conn, NEW k \in Sizes \cup {0}, NEW f \in BOOLEAN,
         table' = table, netId' = netId, mem' = [mem EXCEPT ![o] = ms],
         count' = [count EXCEPT ![o] = k], full' = [full EXCEPT ![o] = f],
         ms # {} => table[netId[o]] = o, SyncIdleLocked(o, w, ms, RosterCost(k, f))
  PROVE  Lists' /\ Sums' /\ Costs' /\ Holds'
<1>1. RosterCost(k, f) \in Nat
  <2>1. k \in Nat
    BY SizesNat, ZenonT(60)
  <2> QED BY <2>1, CostNat, ZenonT(60)
<1>2. PICK x \in Nat : x = RosterCost(k, f)
  BY <1>1, ZenonT(60)
<1>3. SyncIdleLocked(o, w, ms, x)
  BY <1>2, ZenonT(60)
<1>4. /\ Lists' /\ Sums' /\ (Idle(o)' <=> ms = {}) /\ size'[o] = (IF ms = {} THEN x ELSE 0)
      /\ \A p \in Obj \ {o} : size'[p] = size[p] /\ (Idle(p)' <=> Idle(p))
  BY <1>3, Synced, ZenonT(60)
<1>5. /\ mem'[o] = ms /\ count'[o] = k /\ full'[o] = f
      /\ \A p \in Obj \ {o} : mem'[p] = mem[p] /\ count'[p] = count[p] /\ full'[p] = full[p]
  BY ZenonT(60) DEF Types
<1>6. Costs'
  <2>1. ASSUME NEW p \in Obj PROVE size'[p] = IF Idle(p)' THEN RosterCost(count'[p], full'[p]) ELSE 0
    <3>1. CASE p = o
      BY <3>1, <1>2, <1>4, <1>5, ZenonT(60)
    <3>2. CASE p # o
      <4>1. size'[p] = size[p] /\ (Idle(p)' <=> Idle(p)) /\ count'[p] = count[p] /\ full'[p] = full[p]
        BY <3>2, <1>4, <1>5, ZenonT(60)
      <4>2. size[p] = IF Idle(p) THEN RosterCost(count[p], full[p]) ELSE 0
        BY ZenonT(60) DEF Costs
      <4> QED BY <4>1, <4>2, ZenonT(60)
    <3> QED BY <3>1, <3>2, ZenonT(60)
  <2> QED BY <2>1, ZenonT(60) DEF Costs, RosterCost
<1>7. Holds'
  <2>1. ASSUME NEW n \in NetId, table'[n] # None
        PROVE  netId'[table'[n]] = n /\ (Idle(table[n])' <=> mem'[table'[n]] = {})
    <3>1. table'[n] = table[n] /\ table[n] \in Obj /\ netId[table[n]] = n
          /\ (Idle(table[n]) <=> mem[table[n]] = {})
      BY <2>1 DEF Types, Holds
    <3>2. PICK q \in Obj : q = table[n]
      BY <3>1, ZenonT(60)
    <3>3. Idle(q)' <=> mem'[q] = {}
      <4>1. CASE q = o
        BY <4>1, <1>4, <1>5, ZenonT(60)
      <4>2. CASE q # o
        BY <4>2, <3>1, <3>2, <1>4, <1>5, ZenonT(60)
      <4> QED BY <4>1, <4>2, ZenonT(60)
    <3> QED BY <3>1, <3>2, <3>3, ZenonT(60) DEF Idle
  <2>2. ASSUME NEW p \in Obj PROVE /\ mem'[p] # {} => table'[netId'[p]] = p /\ ~Idle(p)'
                                   /\ netId'[p] = None => mem'[p] = {} /\ ~Idle(p)'
    <3>1. CASE p = o
      BY <3>1, <1>4, <1>5, ZenonT(60)
    <3>2. CASE p # o
      BY <3>2, <1>4, <1>5, ZenonT(60) DEF Holds
    <3> QED BY <3>1, <3>2, ZenonT(60)
  <2> QED BY <2>1, <2>2, ZenonT(60) DEF Holds
<1> QED BY <1>4, <1>6, <1>7, ZenonT(60)

\* What a step that forgets an empty network leaves behind.
LEMMA ForgetKeeps ==
  ASSUME Types, Lists, Sums, Costs, Holds, NEW n \in NetId, table[n] # None, mem[table[n]] = {},
         table' = [table EXCEPT ![n] = None], UNCHANGED <<netId, mem, count, full>>,
         DropIdleLocked(table[n])
  PROVE  Lists' /\ Sums' /\ Costs' /\ Holds'
<1>1. PICK o \in Obj : o = table[n] /\ netId[o] = n /\ mem[o] = {}
  BY DEF Types, Holds
<1>2. /\ Lists' /\ Sums' /\ ~Idle(o)' /\ size'[o] = 0
      /\ \A p \in Obj \ {o} : size'[p] = size[p] /\ (Idle(p)' <=> Idle(p))
  BY <1>1, Dropped, ZenonT(60)
<1>3. Costs'
  <2>1. ASSUME NEW p \in Obj PROVE size'[p] = IF Idle(p)' THEN RosterCost(count'[p], full'[p]) ELSE 0
    BY <1>2, ZenonT(60) DEF Costs
  <2> QED BY <2>1, ZenonT(60) DEF Costs, RosterCost
<1>4. Holds'
  <2>1. table'[n] = None /\ \A m \in NetId \ {n} : table'[m] = table[m]
    BY ZenonT(60) DEF Types
  <2>2. ASSUME NEW m \in NetId, table'[m] # None
        PROVE  netId'[table'[m]] = m /\ (Idle(table[m])' <=> mem'[table'[m]] = {})
    <3>1. m # n /\ table'[m] = table[m] /\ table[m] # None
      BY <2>1, <2>2, ZenonT(60)
    <3>2. table[m] \in Obj /\ netId[table[m]] = m /\ (Idle(table[m]) <=> mem[table[m]] = {})
      BY <3>1, SMTT(20) DEF Types, Holds
    <3>3. PICK q \in Obj : q = table[m]
      BY <3>2, ZenonT(60)
    <3>4. q # o /\ (Idle(q)' <=> mem'[q] = {})
      BY <1>1, <1>2, <3>1, <3>2, <3>3, ZenonT(60)
    <3> QED BY <3>1, <3>2, <3>3, <3>4, ZenonT(60) DEF Idle
  <2>3. ASSUME NEW p \in Obj, mem'[p] # {} PROVE table'[netId'[p]] = p /\ ~Idle(p)'
    <3>1. mem[p] # {} /\ p # o
      BY <1>1, <2>3, ZenonT(60)
    <3>2. table[netId[p]] = p /\ ~Idle(p) /\ netId[p] \in NetId
      BY <3>1 DEF Holds, Types
    <3> QED BY <1>1, <1>2, <2>1, <3>1, <3>2, ZenonT(60)
  <2>4. ASSUME NEW p \in Obj, netId'[p] = None PROVE mem'[p] = {} /\ ~Idle(p)'
    <3>1. netId[p] = None /\ mem[p] = {} /\ ~Idle(p)
      BY <2>4, ZenonT(60) DEF Holds
    <3> QED BY <1>2, <3>1, ZenonT(60)
  <2> QED BY <2>2, <2>3, <2>4, ZenonT(60) DEF Holds
<1> QED BY <1>2, <1>3, <1>4, ZenonT(60)

\* adoptLocked's part leaves the types and names o's new count and form.
LEMMA Adopted ==
  ASSUME Types, NEW o \in Obj, NEW k \in Sizes, Adopt(o, k)
  PROVE  /\ ver' \in [Obj -> 0..MaxVersion] /\ count' = [count EXCEPT ![o] = k]
         /\ full' = [full EXCEPT ![o] = TRUE]
         /\ count' \in [Obj -> Sizes \cup {0}] /\ full' \in [Obj -> BOOLEAN]
<1>1. count' = [count EXCEPT ![o] = k] /\ full' = [full EXCEPT ![o] = TRUE]
  BY ZenonT(60) DEF Adopt
<1>2. ver[o] \in 0..MaxVersion /\ ver[o] < MaxVersion /\ ver' = [ver EXCEPT ![o] = ver[o] + 1]
  BY ZenonT(60) DEF Adopt, Types
<1>3. ver[o] + 1 \in 0..MaxVersion
  BY <1>2, IdleAssumption
<1>4. ver' \in [Obj -> 0..MaxVersion]
  BY <1>2, <1>3, ZenonT(60) DEF Types
<1>5. count' \in [Obj -> Sizes \cup {0}]
  BY <1>1, ZenonT(60) DEF Types
<1>6. full' \in [Obj -> BOOLEAN]
  BY <1>1, ZenonT(60) DEF Types
<1> QED BY <1>1, <1>4, <1>5, <1>6, ZenonT(60)

\* admit of an unknown network.
LEMMA CreateKeeps ==
  ASSUME IInv, NEW c \in Conn, NEW n \in NetId, Create(c, n)
  PROVE  IInv'
<1>0. Types /\ Lists /\ Sums /\ Costs /\ Holds /\ Points
  BY ZenonT(60) DEF IInv
<1>1. PICK o \in Obj, k \in Sizes :
        /\ netId[o] = None /\ table' = [table EXCEPT ![n] = o] /\ netId' = [netId EXCEPT ![o] = n]
        /\ ver' = [ver EXCEPT ![o] = 1] /\ count' = [count EXCEPT ![o] = k]
        /\ full' = [full EXCEPT ![o] = TRUE] /\ mem' = [mem EXCEPT ![o] = {c}]
        /\ at' = [at EXCEPT ![c] = o]
  BY ZenonT(60) DEF Create
<1>2. /\ table[n] = None /\ pc' = [pc EXCEPT ![c] = "in"] /\ victim' = victim
      /\ order' = order /\ size' = size /\ owned' = owned /\ bytes' = bytes
  BY ZenonT(60) DEF Create, idleVars
<1>3. Types'
  <2>1. 1 \in 0..MaxVersion
    BY IdleAssumption
  <2>2. /\ table' \in [NetId -> Obj \cup {None}] /\ netId' \in [Obj -> NetId \cup {None}]
        /\ ver' \in [Obj -> 0..MaxVersion] /\ count' \in [Obj -> Sizes \cup {0}]
    BY <1>0, <1>1, <2>1, ZenonT(60) DEF Types
  <2>3. full' \in [Obj -> BOOLEAN] /\ mem' \in [Obj -> SUBSET Conn] /\ at' \in [Conn -> Obj \cup {None}]
    BY <1>0, <1>1, ZenonT(60) DEF Types
  <2>4. pc' \in [Conn -> {"new", "in", "trim", "cut", "gone"}] /\ victim' \in [Conn -> Obj \cup {None}]
    BY <1>0, <1>2, ZenonT(60) DEF Types
  <2> QED BY <2>2, <2>3, <2>4, ZenonT(60) DEF Types
<1>4. \A p : Idle(p)' <=> Idle(p)
  BY <1>2, ZenonT(60) DEF Idle
<1>5. Lists'
  BY <1>0, <1>2, ZenonT(60) DEF Lists
<1>6. Sums'
  BY <1>0, <1>2, <1>4, ZenonT(60) DEF Sums
<1>7. ~Idle(o) /\ mem[o] = {}
  BY <1>0, <1>1, ZenonT(60) DEF Holds
<1>8. /\ count'[o] = k /\ full'[o] = TRUE /\ mem'[o] = {c} /\ netId'[o] = n /\ table'[n] = o
      /\ \A p \in Obj \ {o} : count'[p] = count[p] /\ full'[p] = full[p] /\ mem'[p] = mem[p] /\ netId'[p] = netId[p]
      /\ \A m \in NetId \ {n} : table'[m] = table[m]
  BY <1>0, <1>1, ZenonT(60) DEF Types
<1>9. Costs'
  <2>1. ASSUME NEW p \in Obj PROVE size'[p] = IF Idle(p)' THEN RosterCost(count'[p], full'[p]) ELSE 0
    <3>1. CASE p = o
      BY <3>1, <1>0, <1>2, <1>4, <1>7, ZenonT(60) DEF Costs
    <3>2. CASE p # o
      BY <3>2, <1>0, <1>2, <1>4, <1>8, ZenonT(60) DEF Costs
    <3> QED BY <3>1, <3>2, ZenonT(60)
  <2> QED BY <2>1, ZenonT(60) DEF Costs, RosterCost
<1>10. Holds'
  <2>1. ASSUME NEW m \in NetId, table'[m] # None
        PROVE  netId'[table'[m]] = m /\ (Idle(table[m])' <=> mem'[table'[m]] = {})
    <3>1. CASE m = n
      BY <3>1, <1>2, <1>7, <1>8, ZenonT(60) DEF Idle
    <3>2. CASE m # n
      <4>5. table'[m] = table[m] /\ table[m] # None
        BY <1>8, <2>1, <3>2, ZenonT(60)
      <4>0. table'[m] = table[m] /\ table[m] \in Obj
        BY <1>0, <4>5, ZenonT(60) DEF Types
      <4>4. netId[table[m]] = m /\ (Idle(table[m]) <=> mem[table[m]] = {})
        BY <1>0, <2>1, <4>0, ZenonT(60) DEF Holds
      <4>1. PICK q \in Obj : q = table[m] /\ q = table'[m] /\ netId[q] = m /\ (Idle(q) <=> mem[q] = {})
        BY <4>0, <4>4
      <4>2. q # o
        BY <1>1, <4>1, IdleAssumption, ZenonT(60)
      <4>3. netId'[q] = m /\ (Idle(q)' <=> mem'[q] = {})
        BY <1>4, <1>8, <4>1, <4>2, ZenonT(60)
      <4> QED BY <4>1, <4>3, ZenonT(60) DEF Idle
    <3> QED BY <3>1, <3>2, ZenonT(60)
  <2>2. ASSUME NEW p \in Obj, mem'[p] # {} PROVE table'[netId'[p]] = p /\ ~Idle(p)'
    <3>1. CASE p = o
      BY <3>1, <1>4, <1>7, <1>8, ZenonT(60)
    <3>2. CASE p # o
      <4>1. mem[p] # {} /\ netId'[p] = netId[p]
        BY <3>2, <2>2, <1>8, ZenonT(60)
      <4>2. table[netId[p]] = p /\ ~Idle(p) /\ netId[p] \in NetId
        BY <4>1, <1>0 DEF Holds, Types
      <4>3. netId[p] # n
        BY <4>2, <1>2, IdleAssumption, ZenonT(60)
      <4>4. table'[netId'[p]] = p
        BY <4>1, <4>2, <4>3, <1>8, ZenonT(60)
      <4>5. ~Idle(p)'
        BY <3>2, <4>2, <1>4, ZenonT(60)
      <4> QED BY <4>4, <4>5, ZenonT(60)
    <3> QED BY <3>1, <3>2, ZenonT(60)
  <2>3. ASSUME NEW p \in Obj, netId'[p] = None PROVE mem'[p] = {} /\ ~Idle(p)'
    <3>1. p # o
      BY <1>8, <2>3, IdleAssumption, ZenonT(60)
    <3> QED BY <3>1, <2>3, <1>0, <1>4, <1>8, ZenonT(60) DEF Holds
  <2> QED BY <2>1, <2>2, <2>3, ZenonT(60) DEF Holds
<1>11. Points'
  <2>1. /\ pc'[c] = "in" /\ at'[c] = o
        /\ \A d \in Conn \ {c} : pc'[d] = pc[d] /\ at'[d] = at[d] /\ victim'[d] = victim[d]
    BY <1>0, <1>1, <1>2, ZenonT(60) DEF Types
  <2>2. netId'[o] # None /\ \A p \in Obj : netId[p] # None => netId'[p] # None
    BY <1>8, IdleAssumption, ZenonT(60)
  <2>3. ASSUME NEW d \in Conn PROVE /\ pc'[d] = "in" => at'[d] \in Obj /\ netId'[at'[d]] # None
                                    /\ pc'[d] = "cut" => victim'[d] \in Obj
    <3>1. CASE d = c
      BY <3>1, <2>1, <2>2, ZenonT(60)
    <3>2. CASE d # c
      BY <3>2, <2>1, <2>2, <1>0, ZenonT(60) DEF Points
    <3> QED BY <3>1, <3>2, ZenonT(60)
  <2> QED BY <2>3, ZenonT(60) DEF Points
<1> QED BY <1>3, <1>5, <1>6, <1>9, <1>10, <1>11, ZenonT(60) DEF IInv

\* What a registration's and a push's own state is, once the network's is kept.
LEMMA ArriveKeeps ==
  ASSUME Types, Points, NEW c \in Conn, NEW o \in Obj, netId[o] # None, NEW member \in BOOLEAN,
         at' = [at EXCEPT ![c] = IF member THEN o ELSE None],
         pc' = [pc EXCEPT ![c] = IF member THEN "in" ELSE "gone"],
         UNCHANGED <<netId, victim>>
  PROVE  Points' /\ at' \in [Conn -> Obj \cup {None}] /\ pc' \in [Conn -> {"new", "in", "trim", "cut", "gone"}]
<1>1. at' \in [Conn -> Obj \cup {None}]
  BY ZenonT(60) DEF Types
<1>2. pc' \in [Conn -> {"new", "in", "trim", "cut", "gone"}]
  <2>1. (IF member THEN "in" ELSE "gone") \in {"new", "in", "trim", "cut", "gone"}
    BY ZenonT(60)
  <2> QED BY <2>1, ZenonT(60) DEF Types
<1>3. /\ pc'[c] = (IF member THEN "in" ELSE "gone") /\ at'[c] = (IF member THEN o ELSE None)
      /\ \A d \in Conn \ {c} : pc'[d] = pc[d] /\ at'[d] = at[d]
  BY ZenonT(60) DEF Types
<1>4. ASSUME NEW d \in Conn PROVE /\ pc'[d] = "in" => at'[d] \in Obj /\ netId'[at'[d]] # None
                                  /\ pc'[d] = "cut" => victim'[d] \in Obj
  <2>1. CASE d = c /\ member
    <3>1. pc'[d] = "in" /\ at'[d] = o
      BY <2>1, <1>3, ZenonT(60)
    <3>2. netId'[o] # None
      BY ZenonT(60)
    <3> QED BY <3>1, <3>2, ZenonT(60)
  <2>2. CASE d = c /\ ~member
    <3>1. pc'[d] = "gone"
      BY <2>2, <1>3, ZenonT(60)
    <3> QED BY <3>1, ZenonT(60)
  <2>3. CASE d # c
    BY <2>3, <1>3, ZenonT(60) DEF Points
  <2> QED BY <2>1, <2>2, <2>3, ZenonT(60)
<1>5. Points'
  BY <1>4, ZenonT(60) DEF Points
<1> QED BY <1>1, <1>2, <1>5, ZenonT(60)

\* admit with a roster that is not newer.
LEMMA JoinKeeps ==
  ASSUME IInv, NEW c \in Conn, NEW n \in NetId, Join(c, n)
  PROVE  IInv'
<1>0. Types /\ Lists /\ Sums /\ Costs /\ Holds /\ Points
  BY ZenonT(60) DEF IInv
<1>1. PICK o \in Obj : o = table[n] /\ netId[o] = n /\ netId[o] # None /\ table[netId[o]] = o
  BY <1>0, IdleAssumption DEF Join, Types, Holds
<1>2. UNCHANGED <<table, netId, ver, count, victim>>
  BY ZenonT(60) DEF Join
<1>3. PICK replaced \in {{}} \cup {{d} : d \in mem[o]}, restore \in BOOLEAN, member \in BOOLEAN :
        LET ms == IF member THEN (mem[o] \ replaced) \cup {c} ELSE mem[o]
        IN  /\ mem' = [mem EXCEPT ![o] = ms]
            /\ full' = [full EXCEPT ![o] = @ \/ restore]
            /\ at' = [at EXCEPT ![c] = IF member THEN o ELSE None]
            /\ pc' = [pc EXCEPT ![c] = IF member THEN "in" ELSE "gone"]
            /\ SyncIdleLocked(o, Ip[c], ms, RosterCost(count[o], full'[o]))
  BY <1>1, ZenonT(60) DEF Join
<1>4. PICK ms : ms = IF member THEN (mem[o] \ replaced) \cup {c} ELSE mem[o]
  BY ZenonT(60)
<1>5. /\ mem' = [mem EXCEPT ![o] = ms] /\ full' = [full EXCEPT ![o] = full[o] \/ restore]
      /\ at' = [at EXCEPT ![c] = IF member THEN o ELSE None]
      /\ pc' = [pc EXCEPT ![c] = IF member THEN "in" ELSE "gone"]
      /\ SyncIdleLocked(o, Ip[c], ms, RosterCost(count[o], full'[o]))
  BY <1>0, <1>3, <1>4, ZenonT(60) DEF Types
<1>6. PICK f \in BOOLEAN : f = (full[o] \/ restore)
  BY <1>0, ZenonT(60) DEF Types
<1>7. PICK k \in Sizes \cup {0} : k = count[o]
  BY <1>0, ZenonT(60) DEF Types
<1>8. PICK w \in Owner : w = Ip[c]
  BY IdleAssumption, ZenonT(60)
<1>9. ms \in SUBSET Conn
  <2>1. mem[o] \in SUBSET Conn
    BY <1>0, ZenonT(60) DEF Types
  <2> QED BY <1>4, <2>1, ZenonT(60)
<1>10. full' = [full EXCEPT ![o] = f] /\ full'[o] = f /\ count' = [count EXCEPT ![o] = k]
  BY <1>0, <1>2, <1>5, <1>6, <1>7, ZenonT(60) DEF Types
<1>11. Lists' /\ Sums' /\ Costs' /\ Holds'
  <2>1. SyncIdleLocked(o, w, ms, RosterCost(k, f))
    BY <1>5, <1>7, <1>8, <1>10, ZenonT(60)
  <2>2. table' = table /\ netId' = netId
    BY <1>2, ZenonT(60)
  <2> QED BY <1>0, <1>1, <1>5, <1>9, <1>10, <2>1, <2>2, SyncKeeps, ZenonT(60)
<1>12. /\ Points' /\ at' \in [Conn -> Obj \cup {None}]
       /\ pc' \in [Conn -> {"new", "in", "trim", "cut", "gone"}]
  BY <1>0, <1>1, <1>2, <1>5, ArriveKeeps, ZenonT(60)
<1>13. Types'
  <2>1. mem' \in [Obj -> SUBSET Conn] /\ full' \in [Obj -> BOOLEAN]
    BY <1>0, <1>5, <1>9, <1>10, ZenonT(60) DEF Types
  <2> QED BY <1>0, <1>2, <1>12, <2>1, ZenonT(60) DEF Types
<1> QED BY <1>11, <1>12, <1>13, ZenonT(60) DEF IInv

\* admit with a newer roster.
LEMMA JoinNewerKeeps ==
  ASSUME IInv, NEW c \in Conn, NEW n \in NetId, JoinNewer(c, n)
  PROVE  IInv'
<1>0. Types /\ Lists /\ Sums /\ Costs /\ Holds /\ Points
  BY ZenonT(60) DEF IInv
<1>1. PICK o \in Obj : o = table[n] /\ netId[o] = n /\ netId[o] # None /\ table[netId[o]] = o
  BY <1>0, IdleAssumption DEF JoinNewer, Types, Holds
<1>2. UNCHANGED <<table, netId, victim>>
  BY ZenonT(60) DEF JoinNewer
<1>3. PICK gone \in SUBSET mem[o], k \in Sizes, member \in BOOLEAN :
        LET ms == (mem[o] \ gone) \cup (IF member THEN {c} ELSE {})
        IN  /\ Adopt(o, k) /\ mem' = [mem EXCEPT ![o] = ms]
            /\ at' = [at EXCEPT ![c] = IF member THEN o ELSE None]
            /\ pc' = [pc EXCEPT ![c] = IF member THEN "in" ELSE "gone"]
            /\ SyncIdleLocked(o, Ip[c], ms, RosterCost(k, TRUE))
  BY <1>1, ZenonT(60) DEF JoinNewer
<1>4. PICK ms : ms = (mem[o] \ gone) \cup (IF member THEN {c} ELSE {})
  BY ZenonT(60)
<1>5. /\ Adopt(o, k) /\ mem' = [mem EXCEPT ![o] = ms]
      /\ at' = [at EXCEPT ![c] = IF member THEN o ELSE None]
      /\ pc' = [pc EXCEPT ![c] = IF member THEN "in" ELSE "gone"]
      /\ SyncIdleLocked(o, Ip[c], ms, RosterCost(k, TRUE))
  BY <1>3, <1>4, ZenonT(60)
<1>8. PICK w \in Owner : w = Ip[c]
  BY IdleAssumption, ZenonT(60)
<1>9. ms \in SUBSET Conn
  <2>1. mem[o] \in SUBSET Conn
    BY <1>0, ZenonT(60) DEF Types
  <2> QED BY <1>4, <2>1, ZenonT(60)
<1>10. /\ ver' \in [Obj -> 0..MaxVersion] /\ count' = [count EXCEPT ![o] = k]
       /\ full' = [full EXCEPT ![o] = TRUE]
       /\ count' \in [Obj -> Sizes \cup {0}] /\ full' \in [Obj -> BOOLEAN]
  BY <1>0, <1>5, Adopted, ZenonT(60)
<1>11. Lists' /\ Sums' /\ Costs' /\ Holds'
  <2>1. SyncIdleLocked(o, w, ms, RosterCost(k, TRUE))
    BY <1>5, <1>8, ZenonT(60)
  <2>2. table' = table /\ netId' = netId /\ k \in Sizes \cup {0} /\ TRUE \in BOOLEAN
    BY <1>2, ZenonT(60)
  <2> QED BY <1>0, <1>1, <1>5, <1>9, <1>10, <2>1, <2>2, SyncKeeps, ZenonT(60)
<1>12. /\ Points' /\ at' \in [Conn -> Obj \cup {None}]
       /\ pc' \in [Conn -> {"new", "in", "trim", "cut", "gone"}]
  BY <1>0, <1>1, <1>2, <1>5, ArriveKeeps, ZenonT(60)
<1>13. Types'
  <2>1. mem' \in [Obj -> SUBSET Conn]
    BY <1>0, <1>5, <1>9, ZenonT(60) DEF Types
  <2> QED BY <1>0, <1>2, <1>10, <1>12, <2>1, ZenonT(60) DEF Types
<1> QED BY <1>11, <1>12, <1>13, ZenonT(60) DEF IInv

\* A registered connection's network was made, and holds the table's place if anybody is in it.
LEMMA Registered ==
  ASSUME IInv, NEW c \in Conn, pc[c] = "in"
  PROVE  /\ at[c] \in Obj /\ netId[at[c]] # None /\ mem[at[c]] \in SUBSET Conn
         /\ mem[at[c]] # {} => table[netId[at[c]]] = at[c]
<1>1. at[c] \in Obj /\ netId[at[c]] # None
  BY ZenonT(60) DEF IInv, Points
<1>2. mem[at[c]] \in SUBSET Conn
  BY <1>1, ZenonT(60) DEF IInv, Types
<1>3. mem[at[c]] # {} => table[netId[at[c]]] = at[c]
  BY <1>1, ZenonT(60) DEF IInv, Holds
<1> QED BY <1>1, <1>2, <1>3, ZenonT(60)

\* pushRoster
LEMMA PushKeeps ==
  ASSUME IInv, NEW c \in Conn, Push(c)
  PROVE  IInv'
<1>0. Types /\ Lists /\ Sums /\ Costs /\ Holds /\ Points
  BY ZenonT(60) DEF IInv
<1>1. PICK o \in Obj : /\ o = at[c] /\ netId[o] # None /\ mem[o] \in SUBSET Conn
                       /\ mem[o] # {} => table[netId[o]] = o
  BY Registered, ZenonT(60) DEF Push
<1>2. UNCHANGED <<table, netId, at, pc, victim>>
  BY ZenonT(60) DEF Push
<1>3. PICK gone \in SUBSET mem[o], k \in Sizes :
        /\ Adopt(o, k) /\ mem' = [mem EXCEPT ![o] = @ \ gone]
        /\ SyncIdleLocked(o, Ip[c], mem[o] \ gone, RosterCost(k, TRUE))
  BY <1>1, ZenonT(60) DEF Push
<1>4. PICK ms \in SUBSET Conn : ms = mem[o] \ gone
  BY <1>1, ZenonT(60)
<1>5. PICK w \in Owner : w = Ip[c]
  BY IdleAssumption, ZenonT(60)
<1>6. mem' = [mem EXCEPT ![o] = ms] /\ (ms # {} => table[netId[o]] = o)
  BY <1>0, <1>1, <1>3, <1>4, ZenonT(60) DEF Types
<1>7. /\ ver' \in [Obj -> 0..MaxVersion] /\ count' = [count EXCEPT ![o] = k]
      /\ full' = [full EXCEPT ![o] = TRUE]
      /\ count' \in [Obj -> Sizes \cup {0}] /\ full' \in [Obj -> BOOLEAN]
  BY <1>0, <1>3, Adopted, ZenonT(60)
<1>8. Lists' /\ Sums' /\ Costs' /\ Holds'
  <2>1. SyncIdleLocked(o, w, ms, RosterCost(k, TRUE))
    BY <1>3, <1>4, <1>5, ZenonT(60)
  <2>2. table' = table /\ netId' = netId /\ k \in Sizes \cup {0} /\ TRUE \in BOOLEAN
    BY <1>2, ZenonT(60)
  <2> QED BY <1>0, <1>1, <1>6, <1>7, <2>1, <2>2, SyncKeeps, ZenonT(60)
<1>9. Points'
  BY <1>0, <1>2, ZenonT(60) DEF Points
<1>10. Types'
  <2>1. mem' \in [Obj -> SUBSET Conn]
    BY <1>0, <1>6, ZenonT(60) DEF Types
  <2> QED BY <1>0, <1>2, <1>7, <2>1, ZenonT(60) DEF Types
<1> QED BY <1>8, <1>9, <1>10, ZenonT(60) DEF IInv

\* unregister
LEMMA UnregisterKeeps ==
  ASSUME IInv, NEW c \in Conn, Unregister(c)
  PROVE  IInv'
<1>0. Types /\ Lists /\ Sums /\ Costs /\ Holds /\ Points
  BY ZenonT(60) DEF IInv
<1>1. PICK o \in Obj : /\ o = at[c] /\ netId[o] # None /\ mem[o] \in SUBSET Conn
                       /\ mem[o] # {} => table[netId[o]] = o
  BY Registered, ZenonT(60) DEF Unregister
<1>2. UNCHANGED <<table, netId, ver, count, full, at, victim>> /\ pc' = [pc EXCEPT ![c] = "trim"]
  BY ZenonT(60) DEF Unregister
<1>3. /\ mem' = [mem EXCEPT ![o] = @ \ {c}]
      /\ SyncIdleLocked(o, Ip[c], mem[o] \ {c}, RosterCost(count[o], full[o]))
  BY <1>1, ZenonT(60) DEF Unregister
<1>4. PICK ms \in SUBSET Conn : ms = mem[o] \ {c}
  BY <1>1, ZenonT(60)
<1>5. PICK w \in Owner : w = Ip[c]
  BY IdleAssumption, ZenonT(60)
<1>6. mem' = [mem EXCEPT ![o] = ms] /\ (ms # {} => table[netId[o]] = o)
  BY <1>0, <1>1, <1>3, <1>4, ZenonT(60) DEF Types
<1>7. PICK f \in BOOLEAN, k \in Sizes \cup {0} : f = full[o] /\ k = count[o]
  BY <1>0, ZenonT(60) DEF Types
<1>8. Lists' /\ Sums' /\ Costs' /\ Holds'
  <2>1. SyncIdleLocked(o, w, ms, RosterCost(k, f))
    BY <1>3, <1>4, <1>5, <1>7, ZenonT(60)
  <2>2. table' = table /\ netId' = netId
    BY <1>2, ZenonT(60)
  <2>3. full' = [full EXCEPT ![o] = f] /\ count' = [count EXCEPT ![o] = k]
    BY <1>0, <1>2, <1>7, ZenonT(60) DEF Types
  <2> QED BY <1>0, <1>1, <1>6, <2>1, <2>2, <2>3, SyncKeeps, ZenonT(60)
<1>9. Points'
  <2>1. pc'[c] = "trim" /\ \A d \in Conn \ {c} : pc'[d] = pc[d]
    BY <1>0, <1>2, ZenonT(60) DEF Types
  <2> QED BY <1>0, <1>2, <2>1, ZenonT(60) DEF Points
<1>10. Types'
  <2>1. mem' \in [Obj -> SUBSET Conn]
    BY <1>0, <1>6, ZenonT(60) DEF Types
  <2>2. pc' \in [Conn -> {"new", "in", "trim", "cut", "gone"}]
    BY <1>0, <1>2, ZenonT(60) DEF Types
  <2> QED BY <1>0, <1>2, <2>1, <2>2, ZenonT(60) DEF Types
<1> QED BY <1>8, <1>9, <1>10, ZenonT(60) DEF IInv

\* What a step that leaves the networks and the books alone keeps of them.
LEMMA BooksUnchanged ==
  ASSUME Lists, Sums, Costs, Holds, UNCHANGED <<netVars, idleVars>>
  PROVE  Lists' /\ Sums' /\ Costs' /\ Holds'
<1>1. \A p : Idle(p)' <=> Idle(p)
  BY ZenonT(60) DEF Idle, idleVars
<1>2. Lists'
  BY ZenonT(60) DEF Lists, idleVars
<1>3. Sums'
  BY <1>1, ZenonT(60) DEF Sums, idleVars
<1>4. Costs'
  BY <1>1, ZenonT(60) DEF Costs, idleVars, netVars, RosterCost
<1>5. Holds'
  BY ZenonT(60) DEF Holds, Idle, idleVars, netVars
<1> QED BY <1>2, <1>3, <1>4, <1>5, ZenonT(60)

\* trimIdle under idle.mu
LEMMA TrimPickKeeps ==
  ASSUME IInv, NEW c \in Conn, TrimPick(c)
  PROVE  IInv'
<1>0. Types /\ Lists /\ Sums /\ Costs /\ Holds /\ Points
  BY ZenonT(60) DEF IInv
<1>1. UNCHANGED <<netVars, at, idleVars>> /\ pc' = [pc EXCEPT ![c] = "cut"]
  BY ZenonT(60) DEF TrimPick
<1>2. PICK w \in Owner : order[w] # <<>> /\ victim' = [victim EXCEPT ![c] = Head(order[w])]
  BY ZenonT(60) DEF TrimPick
<1>3. PICK v \in Obj : v = Head(order[w])
  <2>1. order[w] \in Seq(Obj)
    BY <1>0, ZenonT(60) DEF Lists
  <2> QED BY <1>2, <2>1, HeadIn, ZenonT(60)
<1>4. Lists' /\ Sums' /\ Costs' /\ Holds'
  BY <1>0, <1>1, BooksUnchanged, ZenonT(60)
<1>5. Types'
  <2>1. victim' \in [Conn -> Obj \cup {None}]
    BY <1>0, <1>2, <1>3, ZenonT(60) DEF Types
  <2>2. pc' \in [Conn -> {"new", "in", "trim", "cut", "gone"}]
    BY <1>0, <1>1, ZenonT(60) DEF Types
  <2> QED BY <1>0, <1>1, <2>1, <2>2, ZenonT(60) DEF Types, netVars
<1>6. Points'
  <2>1. /\ pc'[c] = "cut" /\ victim'[c] = v
        /\ \A d \in Conn \ {c} : pc'[d] = pc[d] /\ victim'[d] = victim[d]
    BY <1>0, <1>1, <1>2, <1>3, ZenonT(60) DEF Types
  <2>2. at' = at /\ netId' = netId
    BY <1>1, ZenonT(60) DEF netVars
  <2> QED BY <1>0, <2>1, <2>2, ZenonT(60) DEF Points
<1> QED BY <1>4, <1>5, <1>6, ZenonT(60) DEF IInv

\* A trim finds the budget kept.
LEMMA TrimDoneKeeps ==
  ASSUME IInv, NEW c \in Conn, TrimDone(c)
  PROVE  IInv'
<1>0. Types /\ Lists /\ Sums /\ Costs /\ Holds /\ Points
  BY ZenonT(60) DEF IInv
<1>1. /\ UNCHANGED <<netVars, at, idleVars>> /\ pc' = [pc EXCEPT ![c] = "gone"]
      /\ victim' = [victim EXCEPT ![c] = None]
  BY ZenonT(60) DEF TrimDone
<1>4. Lists' /\ Sums' /\ Costs' /\ Holds'
  BY <1>0, <1>1, BooksUnchanged, ZenonT(60)
<1>5. Types'
  <2>1. victim' \in [Conn -> Obj \cup {None}]
    BY <1>0, <1>1, ZenonT(60) DEF Types
  <2>2. pc' \in [Conn -> {"new", "in", "trim", "cut", "gone"}]
    BY <1>0, <1>1, ZenonT(60) DEF Types
  <2> QED BY <1>0, <1>1, <2>1, <2>2, ZenonT(60) DEF Types, netVars
<1>6. Points'
  <2>1. pc'[c] = "gone" /\ \A d \in Conn \ {c} : pc'[d] = pc[d] /\ victim'[d] = victim[d]
    BY <1>0, <1>1, ZenonT(60) DEF Types
  <2>2. at' = at /\ netId' = netId
    BY <1>1, ZenonT(60) DEF netVars
  <2> QED BY <1>0, <2>1, <2>2, ZenonT(60) DEF Points
<1> QED BY <1>4, <1>5, <1>6, ZenonT(60) DEF IInv

\* Moving a listed network behind its address's others changes no list's contents.
LEMMA Moved ==
  ASSUME Lists, NEW o \in Obj, Idle(o),
         order' = [order EXCEPT ![OwnerOf(o)] = Append(Without(@, o), o)]
  PROVE  /\ order' \in [Owner -> Seq(Obj)] /\ \A w \in Owner : IsInjective(order'[w])
         /\ \A w \in Owner : Range(order'[w]) = Range(order[w])
<1>1. PICK w \in Owner : w = OwnerOf(o) /\ o \in Range(order[w])
  BY Listed, ZenonT(60)
<1>2. order[w] \in Seq(Obj) /\ IsInjective(order[w])
  BY ZenonT(60) DEF Lists
<1>3. PICK s \in Seq(Obj) : s = Without(order[w], o) /\ IsInjective(s) /\ Range(s) = Range(order[w]) \ {o}
  BY <1>1, <1>2, Removing, ZenonT(60)
<1>4. PICK t \in Seq(Obj) : t = Append(s, o) /\ IsInjective(t) /\ Range(t) = Range(s) \cup {o}
  <2>1. o \notin Range(s)
    BY <1>3, ZenonT(60)
  <2> QED BY <1>3, <2>1, Appending, ZenonT(60)
<1>5. order' = [order EXCEPT ![w] = t]
  BY <1>1, <1>3, <1>4, ZenonT(60) DEF Lists
<1>6. Range(t) = Range(order[w])
  BY <1>1, <1>3, <1>4, ZenonT(60)
<1>7. order'[w] = t /\ (\A v \in Owner \ {w} : order'[v] = order[v]) /\ order' \in [Owner -> Seq(Obj)]
  BY <1>5, ZenonT(60) DEF Lists
<1>8. \A v \in Owner : IsInjective(order'[v])
  BY <1>4, <1>7, ZenonT(60) DEF Lists
<1>9. \A v \in Owner : Range(order'[v]) = Range(order[v])
  BY <1>6, <1>7, ZenonT(60)
<1> QED BY <1>7, <1>8, <1>9, ZenonT(60)

\* trimIdle under the victim's locks
LEMMA TrimCutKeeps ==
  ASSUME IInv, NEW c \in Conn, TrimCut(c)
  PROVE  IInv'
<1>0. Types /\ Lists /\ Sums /\ Costs /\ Holds /\ Points
  BY ZenonT(60) DEF IInv
<1>1. UNCHANGED <<netId, ver, count, mem, at, victim>> /\ pc' = [pc EXCEPT ![c] = "trim"]
  BY ZenonT(60) DEF TrimCut
<1>2. PICK o \in Obj : o = victim[c]
  BY <1>0, ZenonT(60) DEF TrimCut, Points
<1>3. Points' /\ pc' \in [Conn -> {"new", "in", "trim", "cut", "gone"}]
  <2>1. pc'[c] = "trim" /\ \A d \in Conn \ {c} : pc'[d] = pc[d]
    BY <1>0, <1>1, ZenonT(60) DEF Types
  <2>2. pc' \in [Conn -> {"new", "in", "trim", "cut", "gone"}]
    BY <1>0, <1>1, ZenonT(60) DEF Types
  <2>3. Points'
    BY <1>0, <1>1, <2>1, ZenonT(60) DEF Points
  <2> QED BY <2>2, <2>3, ZenonT(60)
<1>4. /\ Lists' /\ Sums' /\ Costs' /\ Holds' /\ table' \in [NetId -> Obj \cup {None}]
      /\ full' \in [Obj -> BOOLEAN]
  <2>1. CASE Idle(o) /\ mem[o] = {} /\ table[netId[o]] = o /\ full[o]
    <3>1. /\ full' = [full EXCEPT ![o] = FALSE] /\ Resize(o, RosterCost(count[o], FALSE))
          /\ order' = [order EXCEPT ![OwnerOf(o)] = Append(Without(@, o), o)] /\ table' = table
      BY <1>2, <2>1, ZenonT(60) DEF TrimCut
    <3>2. PICK k \in Nat : k = count[o]
      <4>1. count[o] \in Sizes \cup {0}
        BY <1>0, ZenonT(60) DEF Types
      <4> QED BY <4>1, SizesNat, ZenonT(60)
    <3>3. PICK x \in Nat : x = RosterCost(k, FALSE)
      <4>1. FALSE \in BOOLEAN
        BY ZenonT(60)
      <4> QED BY <4>1, CostNat, ZenonT(60)
    <3>4. /\ order' \in [Owner -> Seq(Obj)] /\ \A w \in Owner : IsInjective(order'[w])
          /\ \A w \in Owner : Range(order'[w]) = Range(order[w])
      BY <1>0, <2>1, <3>1, Moved, ZenonT(60)
    <3>5. Resize(o, x)
      BY <3>1, <3>2, <3>3, ZenonT(60)
    <3>6. /\ Lists' /\ Sums' /\ size'[o] = x /\ (\A p \in Obj : Idle(p)' <=> Idle(p))
          /\ (\A p \in Obj \ {o} : size'[p] = size[p])
      BY <1>0, <2>1, <3>4, <3>5, Resized, ZenonT(60)
    <3>7. full' \in [Obj -> BOOLEAN] /\ full'[o] = FALSE /\ \A p \in Obj \ {o} : full'[p] = full[p]
      BY <1>0, <3>1, ZenonT(60) DEF Types
    <3>8. Costs'
      <4>1. ASSUME NEW p \in Obj PROVE size'[p] = IF Idle(p)' THEN RosterCost(count'[p], full'[p]) ELSE 0
        <5>1. CASE p = o
          BY <5>1, <1>1, <2>1, <3>2, <3>3, <3>6, <3>7, ZenonT(60)
        <5>2. CASE p # o
          BY <5>2, <1>0, <1>1, <3>6, <3>7, ZenonT(60) DEF Costs
        <5> QED BY <5>1, <5>2, ZenonT(60)
      <4> QED BY <4>1, ZenonT(60) DEF Costs, RosterCost
    <3>9. Holds'
      <4>1. ASSUME NEW n \in NetId, table'[n] # None
            PROVE  netId'[table'[n]] = n /\ (Idle(table[n])' <=> mem'[table'[n]] = {})
        <5>0. table'[n] = table[n] /\ table[n] \in Obj
          BY <1>0, <3>1, <4>1, ZenonT(60) DEF Types
        <5>4. netId[table[n]] = n /\ (Idle(table[n]) <=> mem[table[n]] = {})
          BY <1>0, <4>1, <5>0, ZenonT(60) DEF Holds
        <5>1. PICK q \in Obj : q = table[n] /\ q = table'[n] /\ netId[q] = n /\ (Idle(q) <=> mem[q] = {})
          BY <5>0, <5>4
        <5>2. Idle(q)' <=> mem'[q] = {}
          BY <1>1, <3>6, <5>1, ZenonT(60)
        <5> QED BY <1>1, <5>1, <5>2, ZenonT(60) DEF Idle
      <4>2. \A p \in Obj : mem'[p] # {} => table'[netId'[p]] = p /\ ~Idle(p)'
        BY <1>0, <1>1, <3>1, <3>6, ZenonT(60) DEF Holds
      <4>3. \A p \in Obj : netId'[p] = None => mem'[p] = {} /\ ~Idle(p)'
        BY <1>0, <1>1, <3>6, ZenonT(60) DEF Holds
      <4> QED BY <4>1, <4>2, <4>3, ZenonT(60) DEF Holds
    <3> QED BY <1>0, <3>1, <3>6, <3>7, <3>8, <3>9, ZenonT(60) DEF Types
  <2>2. CASE Idle(o) /\ mem[o] = {} /\ table[netId[o]] = o /\ ~full[o]
    <3>1. table' = [table EXCEPT ![netId[o]] = None] /\ DropIdleLocked(o) /\ full' = full
      BY <1>2, <2>2, ZenonT(60) DEF TrimCut
    <3>2. PICK n \in NetId : n = netId[o]
      BY <1>0, <2>2, SMTT(20) DEF Types, Holds
    <3>3. /\ table[n] # None /\ mem[table[n]] = {} /\ table' = [table EXCEPT ![n] = None]
          /\ DropIdleLocked(table[n])
      BY <2>2, <3>1, <3>2, IdleAssumption, ZenonT(60)
    <3>4. Lists' /\ Sums' /\ Costs' /\ Holds'
      BY <1>0, <1>1, <3>1, <3>3, ForgetKeeps, ZenonT(60)
    <3> QED BY <1>0, <3>1, <3>3, <3>4, ZenonT(60) DEF Types
  <2>3. CASE ~(Idle(o) /\ mem[o] = {} /\ table[netId[o]] = o)
    <3>1. UNCHANGED <<table, full, idleVars>>
      BY <1>2, <2>3, ZenonT(60) DEF TrimCut
    <3>2. UNCHANGED <<netVars, idleVars>>
      BY <1>1, <3>1, ZenonT(60) DEF netVars
    <3>3. Lists' /\ Sums' /\ Costs' /\ Holds'
      BY <1>0, <3>2, BooksUnchanged, ZenonT(60)
    <3> QED BY <1>0, <3>1, <3>3, ZenonT(60) DEF Types
  <2>4. full[o] \in BOOLEAN
    BY <1>0, ZenonT(60) DEF Types
  <2> QED BY <2>1, <2>2, <2>3, <2>4, ZenonT(60)
<1>5. Types'
  BY <1>0, <1>1, <1>3, <1>4, ZenonT(60) DEF Types
<1> QED BY <1>3, <1>4, <1>5, ZenonT(60) DEF IInv

\* janitorLoop
LEMMA JanitorKeeps ==
  ASSUME IInv, NEW n \in NetId, Janitor(n)
  PROVE  IInv'
<1>0. Types /\ Lists /\ Sums /\ Costs /\ Holds /\ Points
  BY ZenonT(60) DEF IInv
<1>1. /\ table[n] # None /\ mem[table[n]] = {} /\ table' = [table EXCEPT ![n] = None]
      /\ DropIdleLocked(table[n]) /\ UNCHANGED <<netId, ver, count, full, mem, at, pc, victim>>
  BY ZenonT(60) DEF Janitor
<1>2. Lists' /\ Sums' /\ Costs' /\ Holds'
  BY <1>0, <1>1, ForgetKeeps, ZenonT(60)
<1>3. Types'
  BY <1>0, <1>1, ZenonT(60) DEF Types
<1>4. Points'
  BY <1>0, <1>1, ZenonT(60) DEF Points
<1> QED BY <1>2, <1>3, <1>4, ZenonT(60) DEF IInv

\* The relay starts with nothing listed.
LEMMA Starts == Init => IInv
<1> SUFFICES ASSUME Init PROVE IInv
  BY ZenonT(60)
<1>1. Types
  BY IdleAssumption DEF Init, Types
<1>2. Lists
  <2>1. order = [w \in Owner |-> <<>>]
    BY ZenonT(60) DEF Init
  <2>2. \A w \in Owner : order[w] = <<>> /\ Range(order[w]) = {}
    BY <2>1 DEF Range
  <2>3. IsInjective(<<>>)
    BY DEF IsInjective
  <2>4. order \in [Owner -> Seq(Obj)]
    BY <2>1
  <2> QED BY <2>2, <2>3, <2>4, ZenonT(60) DEF Lists
<1>3. \A w \in Owner : Range(order[w]) = {}
  BY DEF Init, Range
<1>4. \A o : ~Idle(o)
  BY <1>2, <1>3, Listed, ZenonT(60)
<1>5. Sums
  <2>1. size \in [Obj -> Nat] /\ owned \in [Owner -> Nat] /\ bytes \in Nat
    BY ZenonT(60) DEF Init
  <2>2. \A w \in Owner : owned[w] = SumFunctionOnSet(size, Range(order[w]))
    <3>1. SumFunctionOnSet(size, {}) = 0
      BY SumEmpty, ZenonT(60)
    <3> QED BY <1>3, <3>1, ZenonT(60) DEF Init
  <2>3. bytes = SumFunctionOnSet(owned, Owner)
    <3>1. \A w \in Owner : owned[w] = 0
      BY ZenonT(60) DEF Init
    <3>2. SumFunctionOnSet(owned, Owner) = 0
      BY <3>1, IdleAssumption, SumZero, ZenonT(60)
    <3> QED BY <3>2, ZenonT(60) DEF Init
  <2>4. \A o \in Obj : size[o] = 0
    BY ZenonT(60) DEF Init
  <2> QED BY <2>1, <2>2, <2>3, <2>4, ZenonT(60) DEF Sums
<1>6. Costs
  BY <1>4, ZenonT(60) DEF Init, Costs
<1>7. Holds
  BY <1>4, ZenonT(60) DEF Init, Holds
<1>8. Points
  BY ZenonT(60) DEF Init, Points
<1> QED BY <1>1, <1>2, <1>5, <1>6, <1>7, <1>8, ZenonT(60) DEF IInv

\* Every step keeps the invariant.
LEMMA Stepped == IInv /\ [Next]_vars => IInv'
<1> SUFFICES ASSUME IInv, [Next]_vars PROVE IInv'
  BY ZenonT(60)
<1>1. ASSUME NEW c \in Conn, NEW n \in NetId, Create(c, n) \/ Join(c, n) \/ JoinNewer(c, n) PROVE IInv'
  BY <1>1, CreateKeeps, JoinKeeps, JoinNewerKeeps, ZenonT(60)
<1>2. ASSUME NEW c \in Conn, Push(c) \/ Unregister(c) \/ Trim(c) PROVE IInv'
  BY <1>2, PushKeeps, UnregisterKeeps, TrimPickKeeps, TrimDoneKeeps, TrimCutKeeps, ZenonT(60) DEF Trim
<1>3. ASSUME NEW n \in NetId, Janitor(n) PROVE IInv'
  BY <1>3, JanitorKeeps, ZenonT(60)
<1>4. CASE UNCHANGED vars
  <2>1. UNCHANGED <<netVars, idleVars>> /\ UNCHANGED <<table, netId, ver, count, full, mem, at, pc, victim>>
    BY <1>4, ZenonT(60) DEF vars, netVars
  <2>2. Lists' /\ Sums' /\ Costs' /\ Holds'
    BY <2>1, BooksUnchanged, ZenonT(60) DEF IInv
  <2>3. Types' /\ Points'
    BY <2>1, ZenonT(60) DEF IInv, Types, Points
  <2> QED BY <2>2, <2>3, ZenonT(60) DEF IInv
<1> QED BY <1>1, <1>2, <1>3, <1>4, ZenonT(60) DEF Next

\* The invariant gives both properties.
LEMMA Balanced == IInv => BooksBalance /\ IdleIffEmpty
<1> SUFFICES ASSUME IInv PROVE BooksBalance /\ IdleIffEmpty
  BY ZenonT(60)
<1>1. TypeOK
  BY ZenonT(60) DEF IInv, Types, Lists, Sums, TypeOK
<1>2. DOMAIN owned = Owner
  BY ZenonT(60) DEF IInv, Sums
<1>3. bytes = SumFunction(owned)
  BY <1>2, ZenonT(60) DEF IInv, Sums, SumFunction
<1>4. BooksBalance
  BY <1>1, <1>3, ZenonT(60) DEF IInv, Lists, Sums, Costs, BooksBalance
<1>5. IdleIffEmpty
  BY ZenonT(60) DEF IInv, Holds, IdleIffEmpty
<1> QED BY <1>4, <1>5, ZenonT(60)

\* syncIdleLocked, resizeLocked, removeLocked, trimIdle: the relay's totals for idle rosters, by
\* which it decides what to cut, are exactly the costs of the rosters listed, and a held network
\* is listed exactly while nobody is connected to it; for any networks, addresses, roster sizes
\* and limit, however arrivals, departures, pushes, trims and expiry interleave. (A network the
\* relay forgot may be listed as well, and its cost is then in the totals.)
THEOREM IdleHolds == Spec => []IdleKept
<1>1. IInv => IdleKept
  BY Balanced, ZenonT(60) DEF IdleKept
<1> QED BY <1>1, Starts, Stepped, PTL DEF Spec
=============================================================================
