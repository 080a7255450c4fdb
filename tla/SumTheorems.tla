------------------------------ MODULE SumTheorems ------------------------------
(***************************************************************************)
(* Laws of SumFunctionOnSet, the fold that audits a table: a sum over a    *)
(* finite set of rows is a number, changes by what one row changes, and    *)
(* does not depend on the order of the rows.                               *)
(*                                                                         *)
(* The fold is a recursive function on the subsets of a set.  Induction is *)
(* done by a smallest counterexample: a nonempty set of subsets of a       *)
(* finite set has a smallest member.                                       *)
(***************************************************************************)
EXTENDS Integers, FiniteSetTheorems, Functions, TLAPS

\* Among sets of rows, one has no other below it.
LEMMA SmallestSubset ==
  ASSUME NEW S, IsFiniteSet(S), NEW B, B \subseteq SUBSET S, B # {}
  PROVE  \E m \in B : \A t \in B : t \subseteq m => t = m
<1>1. FiniteSubsetsOf(S) = SUBSET S
  BY FS_FiniteSubsetsOfFinite
<1>2. IsWellFoundedOn(StrictSubsetOrdering(S), SUBSET S)
  BY <1>1, FS_StrictSubsetOrderingWellFounded
<1>3. \E m \in B : \A t \in B : ~ (<<t, m>> \in StrictSubsetOrdering(S))
  BY <1>2, WFMin
<1> QED
  BY <1>3 DEF StrictSubsetOrdering

-----------------------------------------------------------------------------
(* The recursion has a solution, and one only *)

\* The element the fold takes out of a set next.
Chosen(s) == CHOOSE x \in s : TRUE
Others(s) == s \ {Chosen(s)}

\* g gives the sum of f over each subset of S.
Sums(f, S, g) == g = [s \in SUBSET S |-> IF s = {} THEN 0 ELSE f[Chosen(s)] + g[Others(s)]]

LEMMA OthersAreFewer ==
  ASSUME NEW s, s # {}
  PROVE  Chosen(s) \in s /\ Others(s) \subseteq s /\ Others(s) # s
  BY DEF Chosen, Others

LEMMA SumsStep ==
  ASSUME NEW f, NEW S, NEW g, Sums(f, S, g), NEW s \in SUBSET S
  PROVE  g[s] = IF s = {} THEN 0 ELSE f[Chosen(s)] + g[Others(s)]
  BY DEF Sums

\* Two solutions agree wherever both are defined.
LEMMA SumsAgree ==
  ASSUME NEW f, NEW S, NEW T, IsFiniteSet(S), NEW g, NEW h, Sums(f, S, g), Sums(f, T, h),
         NEW s \in (SUBSET S) \cap (SUBSET T)
  PROVE  g[s] = h[s]
<1> DEFINE B == {t \in (SUBSET S) \cap (SUBSET T) : g[t] # h[t]}
<1>1. B \subseteq SUBSET S
  OBVIOUS
<1>2. ASSUME B # {} PROVE FALSE
  <2>1. PICK m \in B : \A t \in B : t \subseteq m => t = m
    <3> HIDE DEF B
    <3> QED
      BY <1>1, <1>2, SmallestSubset
  <2>2. g[m] # h[m] /\ m \in SUBSET S /\ m \in SUBSET T
    OBVIOUS
  <2>3. m # {}
    BY <2>2, SumsStep
  <2>4. g[Others(m)] = h[Others(m)]
    BY <2>1, <2>2, <2>3, OthersAreFewer
  <2> QED
    BY <2>2, <2>3, <2>4, SumsStep
<1> QED
  BY <1>2

\* The solution over a set extends those over its smaller subsets.
LEMMA SumsExist ==
  ASSUME NEW f, NEW S, IsFiniteSet(S)
  PROVE  \E g : Sums(f, S, g)
<1> DEFINE B == {s \in SUBSET S : ~ \E g : Sums(f, s, g)}
<1>1. B \subseteq SUBSET S
  OBVIOUS
<1>2. ASSUME B # {} PROVE FALSE
  <2>1. PICK m \in B : \A t \in B : t \subseteq m => t = m
    <3> HIDE DEF B
    <3> QED
      BY <1>1, <1>2, SmallestSubset
  <2> DEFINE G(t) == CHOOSE g : Sums(f, t, g)
             h == [s \in SUBSET m |-> IF s = {} THEN 0 ELSE f[Chosen(s)] + G(Others(s))[Others(s)]]
  <2>2. \A t \in SUBSET m : t # m => Sums(f, t, G(t))
    BY <2>1
  <2>3. \A t \in SUBSET m : IsFiniteSet(t)
    BY FS_Subset
  <2> HIDE DEF G, B
  <2>4. ASSUME NEW t \in SUBSET m, t # m PROVE h[t] = G(t)[t]
    <3>1. Sums(f, t, G(t))
      BY <2>2, <2>4
    <3>2. CASE t = {}
      BY <3>1, <3>2, SumsStep
    <3>3. CASE t # {}
      <4>1. Others(t) \subseteq t /\ Others(t) # t /\ Others(t) \in SUBSET m
        BY <3>3, OthersAreFewer
      <4>2. Sums(f, Others(t), G(Others(t)))
        BY <4>1, <2>2, <2>4
      <4>3. IsFiniteSet(t) /\ Others(t) \in (SUBSET t) \cap (SUBSET Others(t))
        BY <2>3, <4>1
      <4>4. G(t)[Others(t)] = G(Others(t))[Others(t)]
        <5> HIDE DEF h
        <5> QED
          BY <3>1, <4>2, <4>3, SumsAgree
      <4>5. G(t)[t] = f[Chosen(t)] + G(t)[Others(t)]
        BY <3>1, <3>3, SumsStep
      <4> QED
        BY <3>3, <4>4, <4>5
    <3> QED
      BY <3>2, <3>3
  <2>5. ASSUME NEW s \in SUBSET m, s # {} PROVE h[Others(s)] = G(Others(s))[Others(s)]
    <3>1. Others(s) \in SUBSET m /\ Others(s) # m
      BY <2>5, OthersAreFewer
    <3> HIDE DEF h
    <3> QED
      BY <2>4, <3>1
  <2>6. Sums(f, m, h)
    BY <2>5 DEF Sums
  <2> QED
    BY <2>1, <2>6 DEF B
<1> QED
  BY <1>2

\* What the fold computes is the solution.
LEMMA SumIsSolution ==
  ASSUME NEW f, NEW S, IsFiniteSet(S)
  PROVE  \E g : Sums(f, S, g) /\ SumFunctionOnSet(f, S) = g[S]
<1> DEFINE g == CHOOSE g : Sums(f, S, g)
<1>1. Sums(f, S, g)
  BY SumsExist
<1>2. SumFunctionOnSet(f, S) = g[S]
  BY DEF SumFunctionOnSet, FoldFunctionOnSet, MapThenFoldSet, Sums, Chosen, Others
<1> QED
  BY <1>1, <1>2

-----------------------------------------------------------------------------
(* The laws *)

\* The recursion equation of the fold.
LEMMA SumStep ==
  ASSUME NEW f, NEW S, IsFiniteSet(S)
  PROVE  SumFunctionOnSet(f, S) =
           IF S = {} THEN 0 ELSE f[Chosen(S)] + SumFunctionOnSet(f, Others(S))
<1>1. PICK g : Sums(f, S, g) /\ SumFunctionOnSet(f, S) = g[S]
  BY SumIsSolution
<1>2. CASE S = {}
  BY <1>1, <1>2, SumsStep
<1>3. CASE S # {}
  <2>1. IsFiniteSet(Others(S)) /\ Others(S) \in SUBSET S
    BY <1>3, OthersAreFewer, FS_Subset
  <2>2. PICK h : Sums(f, Others(S), h) /\ SumFunctionOnSet(f, Others(S)) = h[Others(S)]
    BY <2>1, SumIsSolution
  <2>3. Others(S) \in (SUBSET S) \cap (SUBSET Others(S))
    BY <2>1
  <2>4. g[Others(S)] = h[Others(S)]
    BY <1>1, <2>2, <2>3, SumsAgree
  <2> QED
    BY <1>1, <1>3, <2>2, <2>4, SumsStep
<1> QED
  BY <1>2, <1>3

\* Nothing adds up to 0.
THEOREM SumEmpty == \A f : SumFunctionOnSet(f, {}) = 0
  BY SumStep, FS_EmptySet

\* A sum of integers is one; a sum of naturals is one.
THEOREM SumType ==
  ASSUME NEW S, IsFiniteSet(S), NEW f, NEW R \in {Nat, Int}, \A x \in S : f[x] \in R
  PROVE  SumFunctionOnSet(f, S) \in R
<1> DEFINE B == {s \in SUBSET S : SumFunctionOnSet(f, s) \notin R}
<1>1. B \subseteq SUBSET S
  OBVIOUS
<1>2. ASSUME B # {} PROVE FALSE
  <2>1. PICK m \in B : \A t \in B : t \subseteq m => t = m
    <3> HIDE DEF B
    <3> QED
      BY <1>1, <1>2, SmallestSubset
  <2>2. m \in SUBSET S /\ IsFiniteSet(m) /\ SumFunctionOnSet(f, m) \notin R
    BY FS_Subset
  <2>3. m # {}
    BY <2>2, SumEmpty
  <2>4. SumFunctionOnSet(f, Others(m)) \in R /\ Chosen(m) \in S
    BY <2>1, <2>2, <2>3, OthersAreFewer
  <2>5. SumFunctionOnSet(f, m) = f[Chosen(m)] + SumFunctionOnSet(f, Others(m))
    BY <2>2, <2>3, SumStep
  <2> QED
    BY <2>2, <2>4, <2>5
<1> QED
  BY <1>2

\* Any element can be taken out first.
THEOREM SumRemove ==
  ASSUME NEW S, IsFiniteSet(S), NEW f, \A x \in S : f[x] \in Int, NEW x \in S
  PROVE  SumFunctionOnSet(f, S) = f[x] + SumFunctionOnSet(f, S \ {x})
<1> DEFINE Sum(s) == SumFunctionOnSet(f, s)
           B == {s \in SUBSET S : \E y \in s : Sum(s) # f[y] + Sum(s \ {y})}
<1>1. B \subseteq SUBSET S
  OBVIOUS
<1>2. ASSUME B # {} PROVE FALSE
  <2>1. PICK m \in B : \A t \in B : t \subseteq m => t = m
    <3> HIDE DEF B
    <3> QED
      BY <1>1, <1>2, SmallestSubset
  <2>2. m \in SUBSET S /\ IsFiniteSet(m)
    BY FS_Subset
  <2>3. PICK y \in m : Sum(m) # f[y] + Sum(m \ {y})
    OBVIOUS
  <2>4. Sum(m) = f[Chosen(m)] + Sum(Others(m)) /\ Chosen(m) \in m
    BY <2>2, <2>3, SumStep, OthersAreFewer
  <2>5. y # Chosen(m)
    BY <2>3, <2>4 DEF Others
  <2> DEFINE u == m \ {y}
             v == Others(m) \ {y}
  <2>6. /\ Others(m) \in SUBSET S /\ Others(m) # m /\ y \in Others(m) /\ Others(m) \subseteq m
        /\ u \in SUBSET S /\ u # m /\ Chosen(m) \in u /\ u \subseteq m
        /\ v = u \ {Chosen(m)} /\ v \in SUBSET S
    BY <2>2, <2>3, <2>4, <2>5 DEF Others
  <2>7. Sum(Others(m)) = f[y] + Sum(v)
    BY <2>1, <2>6
  <2>8. Sum(u) = f[Chosen(m)] + Sum(v)
    BY <2>1, <2>6
  <2>9. Sum(v) \in Int
    <3>1. IsFiniteSet(v) /\ \A z \in v : f[z] \in Int
      BY <2>6, FS_Subset
    <3> QED
      BY <3>1, SumType
  <2>10. f[y] \in Int /\ f[Chosen(m)] \in Int
    BY <2>2, <2>3, <2>4
  <2> HIDE DEF Sum, v
  <2> QED
    BY <2>3, <2>4, <2>7, <2>8, <2>9, <2>10
<1> QED
  BY <1>2

\* One more row adds its value.
THEOREM SumAdd ==
  ASSUME NEW S, IsFiniteSet(S), NEW f, NEW x, x \notin S, \A y \in S \cup {x} : f[y] \in Int
  PROVE  SumFunctionOnSet(f, S \cup {x}) = SumFunctionOnSet(f, S) + f[x]
<1>1. IsFiniteSet(S \cup {x})
  BY FS_AddElement
<1>2. SumFunctionOnSet(f, S) \in Int /\ f[x] \in Int
  BY SumType
<1>3. SumFunctionOnSet(f, S \cup {x}) = f[x] + SumFunctionOnSet(f, (S \cup {x}) \ {x})
  BY <1>1, SumRemove
<1>4. (S \cup {x}) \ {x} = S
  OBVIOUS
<1>5. SumFunctionOnSet(f, S \cup {x}) = f[x] + SumFunctionOnSet(f, S)
  BY <1>3, <1>4, Zenon
<1> QED
  BY <1>2, <1>5

\* Only the values on the set count.
THEOREM SumSame ==
  ASSUME NEW S, IsFiniteSet(S), NEW f, NEW g, \A x \in S : f[x] = g[x]
  PROVE  SumFunctionOnSet(f, S) = SumFunctionOnSet(g, S)
<1> DEFINE B == {s \in SUBSET S : SumFunctionOnSet(f, s) # SumFunctionOnSet(g, s)}
<1>1. B \subseteq SUBSET S
  OBVIOUS
<1>2. ASSUME B # {} PROVE FALSE
  <2>1. PICK m \in B : \A t \in B : t \subseteq m => t = m
    <3> HIDE DEF B
    <3> QED
      BY <1>1, <1>2, SmallestSubset
  <2>2. m \in SUBSET S /\ IsFiniteSet(m) /\ SumFunctionOnSet(f, m) # SumFunctionOnSet(g, m)
    BY FS_Subset
  <2>3. m # {}
    BY <2>2, SumEmpty
  <2>4. SumFunctionOnSet(f, Others(m)) = SumFunctionOnSet(g, Others(m)) /\ Chosen(m) \in S
    BY <2>1, <2>2, <2>3, OthersAreFewer
  <2> QED
    BY <2>2, <2>3, <2>4, SumStep
<1> QED
  BY <1>2

\* One value changes, and the sum by as much.
THEOREM SumUpdate ==
  ASSUME NEW S, IsFiniteSet(S), NEW f, NEW g, NEW x \in S,
         \A y \in S : f[y] \in Int /\ g[y] \in Int, \A y \in S \ {x} : f[y] = g[y]
  PROVE  SumFunctionOnSet(g, S) = SumFunctionOnSet(f, S) + g[x] - f[x]
<1>1. IsFiniteSet(S \ {x})
  BY FS_RemoveElement
<1>2. SumFunctionOnSet(g, S \ {x}) = SumFunctionOnSet(f, S \ {x})
  BY <1>1, SumSame
<1>3. SumFunctionOnSet(f, S \ {x}) \in Int
  BY <1>1, SumType
<1>4. SumFunctionOnSet(f, S) = f[x] + SumFunctionOnSet(f, S \ {x})
  BY SumRemove
<1>5. SumFunctionOnSet(g, S) = g[x] + SumFunctionOnSet(g, S \ {x})
  BY SumRemove
<1> QED
  BY <1>2, <1>3, <1>4, <1>5

\* Zeros add up to 0.
THEOREM SumZero ==
  ASSUME NEW S, IsFiniteSet(S), NEW f, \A x \in S : f[x] = 0
  PROVE  SumFunctionOnSet(f, S) = 0
<1> DEFINE B == {s \in SUBSET S : SumFunctionOnSet(f, s) # 0}
<1>1. B \subseteq SUBSET S
  OBVIOUS
<1>2. ASSUME B # {} PROVE FALSE
  <2>1. PICK m \in B : \A t \in B : t \subseteq m => t = m
    <3> HIDE DEF B
    <3> QED
      BY <1>1, <1>2, SmallestSubset
  <2>2. m \in SUBSET S /\ IsFiniteSet(m) /\ SumFunctionOnSet(f, m) # 0
    BY FS_Subset
  <2>3. m # {}
    BY <2>2, SumEmpty
  <2>4. SumFunctionOnSet(f, Others(m)) = 0 /\ Chosen(m) \in S
    BY <2>1, <2>2, <2>3, OthersAreFewer
  <2>5. SumFunctionOnSet(f, m) = f[Chosen(m)] + SumFunctionOnSet(f, Others(m))
    BY <2>2, <2>3, SumStep
  <2> QED
    BY <2>2, <2>4, <2>5
<1> QED
  BY <1>2

\* A table of numbered rows gets one more.
THEOREM SumLonger ==
  ASSUME NEW n \in Nat, NEW f \in [1..n -> Int], NEW g \in [1..n + 1 -> Int],
         \A i \in 1..n : g[i] = f[i]
  PROVE  SumFunction(g) = SumFunction(f) + g[n + 1]
<1>1. IsFiniteSet(1..n)
  BY FS_Interval
<1>2. /\ 1..n + 1 = (1..n) \cup {n + 1} /\ n + 1 \notin 1..n
      /\ \A i \in (1..n) \cup {n + 1} : g[i] \in Int
  OBVIOUS
<1>3. SumFunctionOnSet(g, (1..n) \cup {n + 1}) = SumFunctionOnSet(g, 1..n) + g[n + 1]
  BY <1>1, <1>2, SumAdd
<1>4. SumFunctionOnSet(g, 1..n) = SumFunctionOnSet(f, 1..n)
  BY <1>1, SumSame
<1>5. DOMAIN g = (1..n) \cup {n + 1} /\ DOMAIN f = 1..n
  BY <1>2
<1> QED
  BY <1>3, <1>4, <1>5, Zenon DEF SumFunction

\* One numbered row changes.
THEOREM SumEntry ==
  ASSUME NEW n \in Nat, NEW f \in [1..n -> Int], NEW i \in 1..n, NEW x \in Int
  PROVE  SumFunction([f EXCEPT ![i] = x]) = SumFunction(f) + x - f[i]
<1> DEFINE g == [f EXCEPT ![i] = x]
<1>1. IsFiniteSet(1..n)
  BY FS_Interval
<1>2. /\ \A y \in 1..n : f[y] \in Int /\ g[y] \in Int
      /\ \A y \in (1..n) \ {i} : f[y] = g[y]
      /\ g[i] = x
      /\ DOMAIN g = 1..n /\ DOMAIN f = 1..n
  OBVIOUS
<1> HIDE DEF g
<1>3. SumFunctionOnSet(g, 1..n) = SumFunctionOnSet(f, 1..n) + g[i] - f[i]
  BY <1>1, <1>2, SumUpdate
<1>4. SumFunction(g) = SumFunction(f) + x - f[i]
  BY <1>2, <1>3, Zenon DEF SumFunction
<1> QED
  BY <1>4 DEF g

\* The sum over two sets with no element in common is the sum of theirs.
THEOREM SumUnion ==
  ASSUME NEW S, IsFiniteSet(S), NEW T, IsFiniteSet(T), S \cap T = {},
         NEW f, \A x \in S \cup T : f[x] \in Int
  PROVE  SumFunctionOnSet(f, S \cup T) = SumFunctionOnSet(f, S) + SumFunctionOnSet(f, T)
<1> DEFINE Sum(s) == SumFunctionOnSet(f, s)
           B == {t \in SUBSET T : Sum(S \cup t) # Sum(S) + Sum(t)}
<1>1. B \subseteq SUBSET T
  OBVIOUS
<1>2. ASSUME B # {} PROVE FALSE
  <2>1. PICK m \in B : \A t \in B : t \subseteq m => t = m
    <3> HIDE DEF B
    <3> QED
      BY <1>1, <1>2, SmallestSubset
  <2>2. m \in SUBSET T /\ Sum(S \cup m) # Sum(S) + Sum(m)
    OBVIOUS
  <2>3. Sum(S) \in Int
    BY SumType
  <2>4. m # {}
    <3>1. ASSUME m = {} PROVE Sum(S \cup m) = Sum(S) + Sum(m)
      <4>1. Sum(m) = 0
        BY <3>1, SumEmpty, Zenon
      <4>2. S \cup m = S
        BY <3>1
      <4>3. Sum(S \cup m) = Sum(S)
        BY <4>2, Zenon
      <4> HIDE DEF Sum
      <4> QED
        BY <2>3, <4>1, <4>3
    <3> QED
      BY <2>2, <3>1
  <2>5. PICK y \in m : TRUE
    BY <2>4
  <2> DEFINE t == m \ {y}
  <2>6. /\ t \subseteq T /\ t # m /\ t \subseteq m
        /\ (S \cup t) \cup {y} = S \cup m /\ t \cup {y} = m
    BY <2>2, <2>5
  <2>7. /\ IsFiniteSet(t) /\ y \notin t
        /\ \A x \in t \cup {y} : f[x] \in Int
    BY <2>2, <2>6, FS_Subset
  <2>8. /\ IsFiniteSet(S \cup t) /\ y \notin S \cup t
        /\ \A x \in (S \cup t) \cup {y} : f[x] \in Int
    BY <2>2, <2>6, <2>7, FS_Union
  <2> HIDE DEF t
  <2>9. Sum(S \cup t) = Sum(S) + Sum(t)
    BY <2>1, <2>6
  <2>10. Sum((S \cup t) \cup {y}) = Sum(S \cup t) + f[y]
    BY <2>8, SumAdd
  <2>11. Sum(t \cup {y}) = Sum(t) + f[y] /\ Sum(t) \in Int /\ f[y] \in Int
    BY <2>7, SumAdd, SumType
  <2>12. Sum(S \cup m) = Sum((S \cup t) \cup {y}) /\ Sum(m) = Sum(t \cup {y})
    BY <2>6, Zenon
  <2> HIDE DEF Sum
  <2> QED
    BY <2>2, <2>3, <2>9, <2>10, <2>11, <2>12
<1> QED
  BY <1>2
=============================================================================
