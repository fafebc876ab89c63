------------------------- MODULE ArithmeticTheorems -------------------------
(***************************************************************************)
(* What the proofs of the relay's books need of arithmetic: sums over      *)
(* finite sets, and remainders.                                            *)
(*                                                                         *)
(* SumFunctionOnSet is a fold over a recursive function. Its equation is   *)
(* proved here, existence and uniqueness of that function included, and    *)
(* the rules of sums are proved from it. Each is an induction over the     *)
(* subsets of a finite set, done by contradiction: of the subsets that     *)
(* break the rule, one that contains no other (SmallestSet) breaks it too, *)
(* and cannot.                                                             *)
(***************************************************************************)
EXTENDS Integers, FiniteSets, Functions, FiniteSetTheorems, WellFoundedInduction, TLAPS

\* The element the fold takes next.
Pick(s) == CHOOSE x \in s : TRUE

\* g adds up f over every subset of S, as the fold does.
Adds(f, S, g) == g = [s \in SUBSET S |-> IF s = {} THEN 0 ELSE f[Pick(s)] + g[s \ {Pick(s)}]]

\* Of some subsets of a finite set, one contains no other.
LEMMA SmallestSet ==
  ASSUME NEW S, IsFiniteSet(S), NEW T \in SUBSET (SUBSET S), T # {}
  PROVE  \E m \in T : \A u \in T : u \subseteq m => u = m
<1>1. IsWellFoundedOn(StrictSubsetOrdering(S), SUBSET S)
  BY FS_StrictSubsetOrderingWellFounded, FS_FiniteSubsetsOfFinite, ZenonT(60)
<1>2. PICK m \in T : \A u \in T : ~(<<u, m>> \in StrictSubsetOrdering(S))
  BY <1>1, WFMin, ZenonT(60)
<1> QED BY <1>2, ZenonT(60) DEF StrictSubsetOrdering

\* Two functions that add up f agree where both are defined.
LEMMA AddsUnique ==
  ASSUME NEW f, NEW S, NEW U, IsFiniteSet(S), NEW g, NEW h, Adds(f, S, g), Adds(f, U, h),
         NEW t \in SUBSET (S \cap U)
  PROVE  g[t] = h[t]
<1> DEFINE Bad == {s \in SUBSET (S \cap U) : g[s] # h[s]}
<1>1. ASSUME Bad # {} PROVE FALSE
  <2>1. Bad \in SUBSET (SUBSET S)
    BY ZenonT(60)
  <2>2. PICK m \in Bad : \A u \in Bad : u \subseteq m => u = m
    <3> HIDE DEF Bad
    <3> QED BY <1>1, <2>1, SmallestSet
  <2>3. m # {}
    BY ZenonT(60) DEF Adds
  <2>4. Pick(m) \in m
    BY <2>3, ZenonT(60) DEF Pick
  <2>5. m \ {Pick(m)} \notin Bad
    BY <2>2, <2>4, ZenonT(60)
  <2>6. g[m \ {Pick(m)}] = h[m \ {Pick(m)}]
    BY <2>5, ZenonT(60)
  <2>7. g[m] = f[Pick(m)] + g[m \ {Pick(m)}]
    BY <2>3, ZenonT(60) DEF Adds
  <2>8. h[m] = f[Pick(m)] + h[m \ {Pick(m)}]
    BY <2>3, ZenonT(60) DEF Adds
  <2> QED BY <2>6, <2>7, <2>8, ZenonT(60)
<1> QED BY <1>1, ZenonT(60)

\* There is a function that adds up f over the subsets of a finite set.
LEMMA AddsExists ==
  ASSUME NEW f, NEW S, IsFiniteSet(S)
  PROVE  \E g : Adds(f, S, g)
<1> DEFINE Bad == {s \in SUBSET S : \A g : ~Adds(f, s, g)}
<1>1. ASSUME Bad # {} PROVE FALSE
  <2>1. PICK m \in Bad : \A u \in Bad : u \subseteq m => u = m
    <3>1. Bad \in SUBSET (SUBSET S)
      BY ZenonT(60)
    <3> HIDE DEF Bad
    <3> QED BY <1>1, <3>1, SmallestSet
  <2> DEFINE of(s) == CHOOSE g : Adds(f, s, g)
             last(t) == IF t = {} THEN 0 ELSE f[Pick(t)] + of(t \ {Pick(t)})[t \ {Pick(t)}]
             h == [t \in SUBSET m |-> last(t)]
  <2>2. ASSUME NEW u \in SUBSET m, u # m PROVE Adds(f, u, of(u)) /\ IsFiniteSet(u)
    <3>1. u \notin Bad /\ u \in SUBSET S
      BY <2>1, <2>2, ZenonT(60)
    <3> QED BY <3>1, FS_Subset, ZenonT(60)
  <2>3. ASSUME NEW t \in SUBSET m, t # {} PROVE /\ Pick(t) \in t
                                               /\ t \ {Pick(t)} \in SUBSET m /\ t \ {Pick(t)} # m
    <3>1. Pick(t) \in t
      BY <2>3, ZenonT(60) DEF Pick
    <3> QED BY <3>1, ZenonT(60)
  <2>4. ASSUME NEW u \in SUBSET m, u # m PROVE of(u)[u] = last(u)
    <3>1. CASE u = {}
      <4>1. Adds(f, u, of(u))
        BY <2>2, <2>4, ZenonT(60)
      <4> HIDE DEF of
      <4> QED BY <4>1, <3>1, ZenonT(60) DEF Adds
    <3>2. CASE u # {}
      <4> DEFINE v == u \ {Pick(u)}
      <4>1. v \in SUBSET u /\ v \in SUBSET m /\ v # m
        BY <2>3, <3>2, ZenonT(60)
      <4>2. Adds(f, u, of(u)) /\ Adds(f, v, of(v)) /\ IsFiniteSet(u)
        BY <2>2, <2>4, <4>1, ZenonT(60)
      <4>3. of(u)[v] = of(v)[v]
        <5> HIDE DEF v, of
        <5> QED BY <4>1, <4>2, AddsUnique
      <4>4. of(u)[u] = f[Pick(u)] + of(u)[v]
        BY <4>2, <3>2, ZenonT(60) DEF Adds
      <4> QED BY <4>3, <4>4, <3>2
    <3> QED BY <3>1, <3>2, ZenonT(60)
  <2>5. ASSUME NEW t \in SUBSET m
        PROVE  h[t] = IF t = {} THEN 0 ELSE f[Pick(t)] + h[t \ {Pick(t)}]
    <3>1. CASE t = {}
      BY <3>1, ZenonT(60)
    <3>2. CASE t # {}
      <4>1. h[t \ {Pick(t)}] = of(t \ {Pick(t)})[t \ {Pick(t)}]
        BY <3>2, <2>3, <2>4, ZenonT(60)
      <4> QED BY <3>2, <4>1
    <3> QED BY <3>1, <3>2, ZenonT(60)
  <2>6. Adds(f, m, h)
    <3> HIDE DEF last
    <3> QED BY <2>5, ZenonT(60) DEF Adds
  <2> QED BY <2>1, <2>6, ZenonT(60)
<1> QED BY <1>1, ZenonT(60)

\* The sum is the value of any such function.
LEMMA SumIsAdds ==
  ASSUME NEW f, NEW S, IsFiniteSet(S), NEW g, Adds(f, S, g)
  PROVE  SumFunctionOnSet(f, S) = g[S]
<1> DEFINE iter == CHOOSE h : Adds(f, S, h)
<1>1. Adds(f, S, iter)
  BY ZenonT(60)
<1>2. SumFunctionOnSet(f, S) = iter[S]
  BY ZenonT(60) DEF SumFunctionOnSet, FoldFunctionOnSet, MapThenFoldSet, Adds, Pick
<1>3. iter[S] = g[S]
  <2> HIDE DEF iter
  <2> QED BY <1>1, AddsUnique
<1> QED BY <1>2, <1>3, ZenonT(60)

\* The sum over no element is 0.
THEOREM SumEmpty ==
  ASSUME NEW f
  PROVE  SumFunctionOnSet(f, {}) = 0
<1>1. IsFiniteSet({})
  BY FS_EmptySet, ZenonT(60)
<1>2. PICK g : Adds(f, {}, g)
  BY <1>1, AddsExists, ZenonT(60)
<1>3. g[{}] = 0
  BY <1>2, ZenonT(60) DEF Adds
<1> QED BY <1>1, <1>2, <1>3, SumIsAdds, ZenonT(60)

\* The equation of the fold.
LEMMA SumPick ==
  ASSUME NEW f, NEW S, IsFiniteSet(S), S # {}
  PROVE  /\ Pick(S) \in S /\ IsFiniteSet(S \ {Pick(S)})
         /\ SumFunctionOnSet(f, S) = f[Pick(S)] + SumFunctionOnSet(f, S \ {Pick(S)})
<1> DEFINE x == Pick(S)
           T == S \ {x}
<1>1. x \in S
  BY ZenonT(60) DEF Pick
<1>2. T \in SUBSET S /\ IsFiniteSet(T)
  BY FS_Subset, ZenonT(60)
<1>3. PICK g : Adds(f, S, g)
  BY AddsExists, ZenonT(60)
<1>4. PICK h : Adds(f, T, h)
  BY <1>2, AddsExists, ZenonT(60)
<1>5. SumFunctionOnSet(f, S) = g[S] /\ SumFunctionOnSet(f, T) = h[T]
  <2> HIDE DEF T
  <2> QED BY <1>2, <1>3, <1>4, SumIsAdds, ZenonT(60)
<1>6. g[T] = h[T]
  <2>1. T \in SUBSET (S \cap T)
    BY ZenonT(60)
  <2> HIDE DEF T
  <2> QED BY <2>1, <1>2, <1>3, <1>4, AddsUnique
<1>7. g[S] = f[x] + g[T]
  <2> S \in SUBSET S
    BY ZenonT(60)
  <2> QED BY <1>3, ZenonT(60) DEF Adds
<1> QED BY <1>1, <1>2, <1>5, <1>6, <1>7, ZenonT(60)

\* A sum of integers is one.
THEOREM SumInt ==
  ASSUME NEW S, IsFiniteSet(S), NEW f, \A x \in S : f[x] \in Int
  PROVE  SumFunctionOnSet(f, S) \in Int
<1> DEFINE Bad == {s \in SUBSET S : SumFunctionOnSet(f, s) \notin Int}
<1>1. ASSUME Bad # {} PROVE FALSE
  <2>1. Bad \in SUBSET (SUBSET S)
    BY ZenonT(60)
  <2>2. PICK m \in Bad : \A u \in Bad : u \subseteq m => u = m
    <3> HIDE DEF Bad
    <3> QED BY <1>1, <2>1, SmallestSet
  <2>3. m # {} /\ IsFiniteSet(m)
    <3>1. ASSUME m = {} PROVE FALSE
      <4>1. SumFunctionOnSet(f, m) = 0
        BY <3>1, SumEmpty, ZenonT(60)
      <4> QED BY <4>1
    <3> QED BY <3>1, FS_Subset, ZenonT(60)
  <2>4. /\ Pick(m) \in m /\ IsFiniteSet(m \ {Pick(m)})
        /\ SumFunctionOnSet(f, m) = f[Pick(m)] + SumFunctionOnSet(f, m \ {Pick(m)})
    BY <2>3, SumPick, ZenonT(60)
  <2>5. m \ {Pick(m)} \notin Bad
    BY <2>2, <2>4, ZenonT(60)
  <2> QED BY <2>4, <2>5
<1> QED BY <1>1, ZenonT(60)

\* A sum of naturals is one.
THEOREM SumNat ==
  ASSUME NEW S, IsFiniteSet(S), NEW f, \A x \in S : f[x] \in Nat
  PROVE  SumFunctionOnSet(f, S) \in Nat
<1> DEFINE Bad == {s \in SUBSET S : SumFunctionOnSet(f, s) \notin Nat}
<1>1. ASSUME Bad # {} PROVE FALSE
  <2>1. Bad \in SUBSET (SUBSET S)
    BY ZenonT(60)
  <2>2. PICK m \in Bad : \A u \in Bad : u \subseteq m => u = m
    <3> HIDE DEF Bad
    <3> QED BY <1>1, <2>1, SmallestSet
  <2>3. m # {} /\ IsFiniteSet(m)
    <3>1. ASSUME m = {} PROVE FALSE
      <4>1. SumFunctionOnSet(f, m) = 0
        BY <3>1, SumEmpty, ZenonT(60)
      <4> QED BY <4>1
    <3> QED BY <3>1, FS_Subset, ZenonT(60)
  <2>4. /\ Pick(m) \in m /\ IsFiniteSet(m \ {Pick(m)})
        /\ SumFunctionOnSet(f, m) = f[Pick(m)] + SumFunctionOnSet(f, m \ {Pick(m)})
    BY <2>3, SumPick, ZenonT(60)
  <2>5. m \ {Pick(m)} \notin Bad
    BY <2>2, <2>4, ZenonT(60)
  <2> QED BY <2>4, <2>5
<1> QED BY <1>1, ZenonT(60)

\* Any element can be taken out of a sum, not only the one the fold picks.
THEOREM SumRemove ==
  ASSUME NEW S, IsFiniteSet(S), NEW f, \A x \in S : f[x] \in Int, NEW y \in S
  PROVE  SumFunctionOnSet(f, S) = f[y] + SumFunctionOnSet(f, S \ {y})
<1> DEFINE Off(s, z) == z \in s /\ SumFunctionOnSet(f, s) # f[z] + SumFunctionOnSet(f, s \ {z})
           Bad == {s \in SUBSET S : \E z \in s : Off(s, z)}
<1>1. ASSUME Bad # {} PROVE FALSE
  <2>1. Bad \in SUBSET (SUBSET S)
    BY ZenonT(60)
  <2>2. PICK m \in Bad : \A u \in Bad : u \subseteq m => u = m
    <3> HIDE DEF Bad
    <3> QED BY <1>1, <2>1, SmallestSet
  <2>3. PICK z \in m : Off(m, z)
    BY ZenonT(60)
  <2> DEFINE p == Pick(m)
             r == (m \ {p}) \ {z}
  <2>4. m # {} /\ IsFiniteSet(m) /\ m \in SUBSET S
    BY FS_Subset, ZenonT(60)
  <2>5. /\ p \in m /\ IsFiniteSet(m \ {p})
        /\ SumFunctionOnSet(f, m) = f[p] + SumFunctionOnSet(f, m \ {p})
    BY <2>4, SumPick, ZenonT(60)
  <2>6. p # z
    BY <2>3, <2>5, ZenonT(60)
  <2>7. m \ {p} \notin Bad /\ m \ {z} \notin Bad
    BY <2>2, <2>5, ZenonT(60)
  <2>8. SumFunctionOnSet(f, m \ {p}) = f[z] + SumFunctionOnSet(f, r)
    BY <2>4, <2>6, <2>7, ZenonT(60)
  <2>9. SumFunctionOnSet(f, m \ {z}) = f[p] + SumFunctionOnSet(f, r)
    <3>1. (m \ {z}) \ {p} = r
      BY ZenonT(60)
    <3> QED BY <2>4, <2>5, <2>6, <2>7, <3>1, ZenonT(60)
  <2>10. SumFunctionOnSet(f, r) \in Int /\ f[p] \in Int /\ f[z] \in Int
    <3>1. IsFiniteSet(r) /\ \A x \in r : f[x] \in Int
      BY <2>4, FS_Subset, ZenonT(60)
    <3> HIDE DEF r
    <3> QED BY <3>1, <2>4, <2>5, SumInt, ZenonT(60)
  <2>11. SumFunctionOnSet(f, m) # f[z] + SumFunctionOnSet(f, m \ {z})
    BY <2>3, ZenonT(60)
  <2> HIDE DEF r, p
  <2> QED BY <2>5, <2>8, <2>9, <2>10, <2>11
<1>2. S \notin Bad
  BY <1>1, ZenonT(60)
<1> QED BY <1>2, ZenonT(60)

\* Functions that agree on a set have the same sum over it.
THEOREM SumSame ==
  ASSUME NEW S, IsFiniteSet(S), NEW f, NEW g, \A x \in S : f[x] = g[x]
  PROVE  SumFunctionOnSet(f, S) = SumFunctionOnSet(g, S)
<1> DEFINE Bad == {s \in SUBSET S : SumFunctionOnSet(f, s) # SumFunctionOnSet(g, s)}
<1>1. ASSUME Bad # {} PROVE FALSE
  <2>1. Bad \in SUBSET (SUBSET S)
    BY ZenonT(60)
  <2>2. PICK m \in Bad : \A u \in Bad : u \subseteq m => u = m
    <3> HIDE DEF Bad
    <3> QED BY <1>1, <2>1, SmallestSet
  <2>3. m # {} /\ IsFiniteSet(m)
    BY SumEmpty, FS_Subset, ZenonT(60)
  <2>4. /\ Pick(m) \in m /\ IsFiniteSet(m \ {Pick(m)})
        /\ SumFunctionOnSet(f, m) = f[Pick(m)] + SumFunctionOnSet(f, m \ {Pick(m)})
        /\ SumFunctionOnSet(g, m) = g[Pick(m)] + SumFunctionOnSet(g, m \ {Pick(m)})
    BY <2>3, SumPick, ZenonT(60)
  <2>5. m \ {Pick(m)} \notin Bad
    BY <2>2, <2>4, ZenonT(60)
  <2> QED BY <2>4, <2>5, ZenonT(60)
<1> QED BY <1>1, ZenonT(60)

\* Changing one value changes the sum by the difference.
THEOREM SumUpdate ==
  ASSUME NEW S, IsFiniteSet(S), NEW f, NEW g, NEW y \in S,
         \A x \in S : f[x] \in Int, g[y] \in Int, \A x \in S \ {y} : g[x] = f[x]
  PROVE  SumFunctionOnSet(g, S) = SumFunctionOnSet(f, S) + g[y] - f[y]
<1> DEFINE T == S \ {y}
<1>1. IsFiniteSet(T) /\ \A x \in T : g[x] = f[x] /\ f[x] \in Int
  BY FS_Subset, ZenonT(60)
<1>2. \A x \in S : g[x] \in Int
  BY ZenonT(60)
<1>3. SumFunctionOnSet(f, S) = f[y] + SumFunctionOnSet(f, T)
  BY SumRemove, ZenonT(60)
<1>4. SumFunctionOnSet(g, S) = g[y] + SumFunctionOnSet(g, T)
  BY <1>2, SumRemove, ZenonT(60)
<1> HIDE DEF T
<1>5. SumFunctionOnSet(f, T) = SumFunctionOnSet(g, T)
  BY <1>1, SumSame, ZenonT(60)
<1>6. SumFunctionOnSet(f, T) \in Int
  BY <1>1, SumInt, ZenonT(60)
<1> QED BY <1>3, <1>4, <1>5, <1>6

\* A sum is that over a part of the set and that over the rest.
THEOREM SumSplit ==
  ASSUME NEW S, IsFiniteSet(S), NEW f, \A x \in S : f[x] \in Int, NEW A \in SUBSET S
  PROVE  SumFunctionOnSet(f, S) = SumFunctionOnSet(f, A) + SumFunctionOnSet(f, S \ A)
<1> DEFINE Bad == {s \in SUBSET S :
                     SumFunctionOnSet(f, s) # SumFunctionOnSet(f, s \cap A) + SumFunctionOnSet(f, s \ A)}
<1>1. ASSUME Bad # {} PROVE FALSE
  <2>1. Bad \in SUBSET (SUBSET S)
    BY ZenonT(60)
  <2>2. PICK m \in Bad : \A u \in Bad : u \subseteq m => u = m
    <3> HIDE DEF Bad
    <3> QED BY <1>1, <2>1, SmallestSet
  <2>3. IsFiniteSet(m) /\ m \in SUBSET S
    BY FS_Subset, ZenonT(60)
  <2>11. SumFunctionOnSet(f, m) # SumFunctionOnSet(f, m \cap A) + SumFunctionOnSet(f, m \ A)
    BY ZenonT(60)
  <2>4. m # {}
    <3>1. ASSUME m = {} PROVE FALSE
      <4>1. m \cap A = m /\ m \ A = m
        BY <3>1, ZenonT(60)
      <4>2. SumFunctionOnSet(f, m) = 0
        BY <3>1, SumEmpty, ZenonT(60)
      <4>3. SumFunctionOnSet(f, m \cap A) = 0 /\ SumFunctionOnSet(f, m \ A) = 0
        BY <4>1, <4>2, ZenonT(60)
      <4> QED BY <4>2, <4>3, <2>11
    <3> QED BY <3>1, ZenonT(60)
  <2>5. PICK p : p = Pick(m)
    BY ZenonT(60)
  <2>6. /\ p \in m /\ SumFunctionOnSet(f, m) = f[p] + SumFunctionOnSet(f, m \ {p})
    BY <2>3, <2>4, <2>5, SumPick, ZenonT(60)
  <2>7. SumFunctionOnSet(f, m \ {p}) = SumFunctionOnSet(f, (m \ {p}) \cap A) + SumFunctionOnSet(f, (m \ {p}) \ A)
    BY <2>2, <2>6
  <2>8. \A s \in SUBSET m : IsFiniteSet(s) /\ SumFunctionOnSet(f, s) \in Int
    BY <2>3, FS_Subset, SumInt, ZenonT(60)
  <2>9. CASE p \in A
    <3>1. (m \ {p}) \cap A = (m \cap A) \ {p} /\ (m \ {p}) \ A = m \ A /\ p \in m \cap A
      BY <2>6, <2>9, ZenonT(60)
    <3>2. IsFiniteSet(m \cap A) /\ \A x \in m \cap A : f[x] \in Int
      BY <2>3, <2>8, ZenonT(60)
    <3>3. SumFunctionOnSet(f, m \cap A) = f[p] + SumFunctionOnSet(f, (m \cap A) \ {p})
      BY <3>1, <3>2, SumRemove, ZenonT(60)
    <3>4. SumFunctionOnSet(f, (m \cap A) \ {p}) \in Int /\ SumFunctionOnSet(f, m \ A) \in Int /\ f[p] \in Int
      BY <2>3, <2>6, <2>8, ZenonT(60)
    <3>5. SumFunctionOnSet(f, m \ {p}) = SumFunctionOnSet(f, (m \cap A) \ {p}) + SumFunctionOnSet(f, m \ A)
      BY <2>7, <3>1, ZenonT(60)
    <3> HIDE DEF Bad
    <3> QED BY <3>3, <3>4, <3>5, <2>6, <2>11
  <2>10. CASE p \notin A
    <3>1. (m \ {p}) \cap A = m \cap A /\ (m \ {p}) \ A = (m \ A) \ {p} /\ p \in m \ A
      BY <2>6, <2>10, ZenonT(60)
    <3>2. IsFiniteSet(m \ A) /\ \A x \in m \ A : f[x] \in Int
      BY <2>3, <2>8, ZenonT(60)
    <3>3. SumFunctionOnSet(f, m \ A) = f[p] + SumFunctionOnSet(f, (m \ A) \ {p})
      BY <3>1, <3>2, SumRemove, ZenonT(60)
    <3>4. SumFunctionOnSet(f, (m \ A) \ {p}) \in Int /\ SumFunctionOnSet(f, m \cap A) \in Int /\ f[p] \in Int
      BY <2>3, <2>6, <2>8, ZenonT(60)
    <3>5. SumFunctionOnSet(f, m \ {p}) = SumFunctionOnSet(f, m \cap A) + SumFunctionOnSet(f, (m \ A) \ {p})
      BY <2>7, <3>1, ZenonT(60)
    <3> HIDE DEF Bad
    <3> QED BY <3>3, <3>4, <3>5, <2>6, <2>11
  <2> QED BY <2>9, <2>10, ZenonT(60)
<1>2. S \notin Bad /\ S \cap A = A
  BY <1>1, ZenonT(60)
<1> QED BY <1>2, ZenonT(60)

\* A sum of zeros is 0.
THEOREM SumZero ==
  ASSUME NEW S, IsFiniteSet(S), NEW f, \A x \in S : f[x] = 0
  PROVE  SumFunctionOnSet(f, S) = 0
<1> DEFINE Bad == {s \in SUBSET S : SumFunctionOnSet(f, s) # 0}
<1>1. ASSUME Bad # {} PROVE FALSE
  <2>1. Bad \in SUBSET (SUBSET S)
    BY ZenonT(60)
  <2>2. PICK m \in Bad : \A u \in Bad : u \subseteq m => u = m
    <3> HIDE DEF Bad
    <3> QED BY <1>1, <2>1, SmallestSet
  <2>3. m # {} /\ IsFiniteSet(m)
    BY SumEmpty, FS_Subset, ZenonT(60)
  <2>4. /\ Pick(m) \in m
        /\ SumFunctionOnSet(f, m) = f[Pick(m)] + SumFunctionOnSet(f, m \ {Pick(m)})
    BY <2>3, SumPick, ZenonT(60)
  <2>5. m \ {Pick(m)} \notin Bad
    BY <2>2, <2>4, ZenonT(60)
  <2> QED BY <2>4, <2>5
<1> QED BY <1>1, ZenonT(60)

\* If the elements that count in one sum have partners of their own in the other, each at
\* least as large, then so is the other sum.
THEOREM SumInject ==
  ASSUME NEW A, IsFiniteSet(A), NEW B, IsFiniteSet(B), NEW f, NEW g, NEW h,
         \A a \in A : f[a] \in Nat, \A b \in B : g[b] \in Nat,
         \A a \in A : f[a] # 0 => h[a] \in B /\ f[a] <= g[h[a]],
         \A a, c \in A : f[a] # 0 /\ f[c] # 0 /\ h[a] = h[c] => a = c
  PROVE  SumFunctionOnSet(f, A) <= SumFunctionOnSet(g, B)
<1> DEFINE Into(s, u) == \A a \in s : f[a] # 0 => h[a] \in u
           Bad == {s \in SUBSET A : \E u \in SUBSET B :
                     Into(s, u) /\ ~(SumFunctionOnSet(f, s) <= SumFunctionOnSet(g, u))}
<1>1. ASSUME Bad # {} PROVE FALSE
  <2>1. Bad \in SUBSET (SUBSET A)
    BY ZenonT(60)
  <2>2. PICK m \in Bad : \A u \in Bad : u \subseteq m => u = m
    <3> HIDE DEF Bad
    <3> QED BY <1>1, <2>1, SmallestSet
  <2>3. PICK u \in SUBSET B : Into(m, u) /\ ~(SumFunctionOnSet(f, m) <= SumFunctionOnSet(g, u))
    BY ZenonT(60)
  <2>4. m \in SUBSET A /\ IsFiniteSet(m) /\ IsFiniteSet(u)
    BY FS_Subset, ZenonT(60)
  <2>5. \A v \in SUBSET B : IsFiniteSet(v) /\ SumFunctionOnSet(g, v) \in Nat
    BY FS_Subset, SumNat, ZenonT(60)
  <2>6. m # {}
    <3>1. ASSUME m = {} PROVE FALSE
      <4>1. SumFunctionOnSet(f, m) = 0
        BY <3>1, SumEmpty, ZenonT(60)
      <4> QED BY <4>1, <2>3, <2>5
    <3> QED BY <3>1, ZenonT(60)
  <2>7. PICK p : p = Pick(m)
    BY ZenonT(60)
  <2>8. p \in m /\ SumFunctionOnSet(f, m) = f[p] + SumFunctionOnSet(f, m \ {p})
    BY <2>4, <2>6, <2>7, SumPick, ZenonT(60)
  <2>9. SumFunctionOnSet(f, m \ {p}) \in Nat /\ f[p] \in Nat
    <3>1. IsFiniteSet(m \ {p}) /\ \A x \in m \ {p} : f[x] \in Nat
      BY <2>4, FS_Subset, ZenonT(60)
    <3> QED BY <3>1, <2>4, <2>8, SumNat, ZenonT(60)
  <2>10. \A v \in SUBSET B : Into(m \ {p}, v) => SumFunctionOnSet(f, m \ {p}) <= SumFunctionOnSet(g, v)
    <3>1. m \ {p} \notin Bad
      BY <2>2, <2>8, ZenonT(60)
    <3>2. m \ {p} \in SUBSET A
      BY <2>4, ZenonT(60)
    <3> QED BY <3>1, <3>2, ZenonT(60)
  <2>11. CASE f[p] = 0
    <3>1. SumFunctionOnSet(f, m \ {p}) <= SumFunctionOnSet(g, u)
      BY <2>3, <2>10, ZenonT(60)
    <3> QED BY <3>1, <2>3, <2>5, <2>8, <2>9, <2>11
  <2>12. CASE f[p] # 0
    <3>1. h[p] \in u /\ f[p] <= g[h[p]] /\ g[h[p]] \in Nat
      BY <2>3, <2>4, <2>8, <2>12, ZenonT(60)
    <3>2. Into(m \ {p}, u \ {h[p]})
      BY <2>3, <2>4, <2>8, <2>12, ZenonT(60)
    <3>3. SumFunctionOnSet(f, m \ {p}) <= SumFunctionOnSet(g, u \ {h[p]})
      BY <2>10, <3>2, ZenonT(60)
    <3>4. SumFunctionOnSet(g, u) = g[h[p]] + SumFunctionOnSet(g, u \ {h[p]})
      <4>1. \A x \in u : g[x] \in Int
        OBVIOUS
      <4> QED BY <4>1, <2>4, <3>1, SumRemove, ZenonT(60)
    <3>5. SumFunctionOnSet(g, u \ {h[p]}) \in Nat /\ SumFunctionOnSet(g, u) \in Nat
      BY <2>5, ZenonT(60)
    <3> HIDE DEF Bad, Into
    <3> QED BY <2>3, <2>8, <2>9, <3>1, <3>3, <3>4, <3>5
  <2> QED BY <2>11, <2>12, ZenonT(60)
<1>2. A \notin Bad /\ Into(A, B)
  BY <1>1, ZenonT(60)
<1> QED BY <1>2, ZenonT(60)


-----------------------------------------------------------------------------
(* Remainders. *)

\* A remainder is below the divisor.
LEMMA ModRange ==
  ASSUME NEW H \in Nat \ {0}, NEW x \in Int
  PROVE  \E q \in Int, i \in 0..(H - 1) : i = x % H /\ x = H * q + i
<1>1. x % H \in 0..(H - 1)
  OBVIOUS
<1>2. x \div H \in Int
  OBVIOUS
<1>3. x = H * (x \div H) + (x % H)
  OBVIOUS
<1> QED BY <1>1, <1>2, <1>3, ZenonT(60)

\* The remainder of a multiple and a rest is the rest.
LEMMA ModIs ==
  ASSUME NEW H \in Nat \ {0}, NEW q \in Int, NEW i \in 0..(H - 1)
  PROVE  (H * q + i) % H = i
  OBVIOUS

\* Two numbers less than a period apart with the same remainder are the same.
LEMMA ModUnique ==
  ASSUME NEW H \in Nat \ {0}, NEW x \in Int, NEW y \in Int, x % H = y % H, x < y + H, y < x + H
  PROVE  x = y
<1>1. PICK q \in Int, i \in 0..(H - 1) : i = x % H /\ x = H * q + i
  BY ModRange, ZenonT(60)
<1>2. PICK r \in Int, j \in 0..(H - 1) : j = y % H /\ y = H * r + j
  BY ModRange, ZenonT(60)
<1>3. i = j
  BY <1>1, <1>2, ZenonT(60)
<1>4. H * q + i < H * r + j + H /\ H * r + j < H * q + i + H
  BY <1>1, <1>2, ZenonT(60)
<1>5. H * q < H * (r + 1) /\ H * r < H * (q + 1)
  BY <1>3, <1>4
<1>6. q < r + 1 /\ r < q + 1
  BY <1>5
<1> QED BY <1>1, <1>2, <1>3, <1>6

\* A period earlier, the remainder is the same.
LEMMA ModBack ==
  ASSUME NEW H \in Nat \ {0}, NEW x \in Int
  PROVE  (x - H) % H = x % H
<1>1. PICK q \in Int, i \in 0..(H - 1) : i = x % H /\ x = H * q + i
  BY ModRange, ZenonT(60)
<1>2. PICK r \in Int : r = q - 1
  OBVIOUS
<1>3. H * r + i = x - H
  BY <1>1, <1>2
<1>4. (H * r + i) % H = i
  BY ModIs, ZenonT(60)
<1> QED BY <1>1, <1>3, <1>4, ZenonT(60)

\* A whole period has every remainder.
LEMMA ModCovers ==
  ASSUME NEW H \in Nat \ {0}, NEW a \in Int, NEW i \in 0..(H - 1)
  PROVE  \E x \in (a + 1)..(a + H) : x % H = i
<1>0. PICK y \in Int : y = i - (a + 1)
  OBVIOUS
<1>1. PICK q \in Int, k \in 0..(H - 1) : k = y % H /\ y = H * q + k
  BY ModRange, ZenonT(60)
<1>2. PICK r \in Int : r = -q
  OBVIOUS
<1>3. H * r + i = a + 1 + k
  <2>1. H * r = -(H * q)
    BY <1>2
  <2>2. H * q \in Int
    OBVIOUS
  <2>3. PICK n \in Int : n = H * q
    BY <2>2, ZenonT(60)
  <2>4. H * r = -n /\ y = n + k /\ y = i - (a + 1)
    BY <1>0, <1>1, <2>1, <2>3, ZenonT(60)
  <2> QED BY <2>4
<1>4. (H * r + i) % H = i
  BY ModIs, ZenonT(60)
<1>5. (a + 1 + k) % H = i
  BY <1>3, <1>4, ZenonT(60)
<1>6. a + 1 + k \in (a + 1)..(a + H)
  OBVIOUS
<1> QED BY <1>5, <1>6, ZenonT(60)
=============================================================================
