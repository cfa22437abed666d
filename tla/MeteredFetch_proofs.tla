------------------------- MODULE MeteredFetch_proofs ------------------------
(***************************************************************************)
(* fetch, for any number of processes, tasks and questions: the paid lock  *)
(* of a process admits one call and no exit leaks a guard; what is stored  *)
(* was answered, paid for and not yet known; and check-then-spend is what  *)
(* it implements, so that the overshoot of the ceiling is bounded.         *)
(***************************************************************************)
EXTENDS MeteredFetch, TLAPS, FiniteSetTheorems, WellFoundedInduction

-----------------------------------------------------------------------------
(* Sums over finite sets *)

\* Induction, as a fact about sets of numbers.
LEMMA NatSetInduction ==
  ASSUME NEW T, 0 \in T, \A n \in Nat : n \in T => n + 1 \in T
  PROVE  \A n \in Nat : n \in T
<1> DEFINE Bad == {n \in Nat : n \notin T}
<1>1. SUFFICES ASSUME Bad # {} PROVE FALSE
  OBVIOUS
<1>2. \E x \in Bad : \A y \in Bad : ~(<<y, x>> \in OpToRel(<, Nat))
  BY <1>1, NatLessThanWellFounded, WFMin
<1>3. PICK x \in Bad : \A y \in Bad : ~(y < x)
  BY <1>2 DEF OpToRel
<1>4. x # 0 /\ x \in Nat
  OBVIOUS
<1>5. x - 1 \in Nat /\ x - 1 < x /\ (x - 1) + 1 = x
  BY <1>4
<1>6. x - 1 \in T
  BY <1>3, <1>5
<1> QED
  BY <1>3, <1>5, <1>6

\* The recursive function inside the folds of the community modules.
Iter(w, S) ==
  CHOOSE iter : iter = [s \in SUBSET S |->
                          IF s = {} THEN 0
                          ELSE w[CHOOSE x \in s : TRUE] + iter[s \ {CHOOSE x \in s : TRUE}]]

LEMMA SumUnfolds == ASSUME NEW w, NEW S PROVE SumFunctionOnSet(w, S) = Iter(w, S)[S]
BY DEF SumFunctionOnSet, FoldFunctionOnSet, MapThenFoldSet, Iter

\* f is that sum of w on every set of D, each taken apart as CHOOSE takes it.
Sums(f, w, D) ==
  \A s \in D : f[s] = IF s = {} THEN 0
                       ELSE w[CHOOSE x \in s : TRUE] + f[s \ {CHOOSE x \in s : TRUE}]

LEMMA IterSums ==
  ASSUME NEW w, NEW S, IsFiniteSet(S)
  PROVE  Sums(Iter(w, S), w, SUBSET S)
<1> DEFINE Some(s) == CHOOSE x \in s : TRUE
           Small(n) == {s \in SUBSET S : Cardinality(s) <= n}
           T == {m \in Nat : \E f : DOMAIN f = Small(m) /\ Sums(f, w, Small(m))}
<1>0. \A s \in SUBSET S : /\ IsFiniteSet(s) /\ Cardinality(s) \in Nat
                          /\ Cardinality(s) <= Cardinality(S)
                          /\ Cardinality(s) = 0 => s = {}
                          /\ s # {} => /\ Some(s) \in s
                                       /\ s \ {Some(s)} \in SUBSET S 
                                       /\ Cardinality(s \ {Some(s)}) = Cardinality(s) - 1
  <2> TAKE s \in SUBSET S
  <2>1. /\ IsFiniteSet(s) /\ Cardinality(s) \in Nat
        /\ Cardinality(s) <= Cardinality(S)
    BY FS_Subset, FS_CardinalityType
  <2>2. Cardinality(s) = 0 => s = {}
    BY <2>1, FS_EmptySet
  <2>3. s # {} => Some(s) \in s
    OBVIOUS
  <2>4. s # {} => Cardinality(s \ {Some(s)}) = Cardinality(s) - 1
    BY <2>1, <2>3, FS_RemoveElement
  <2> QED BY <2>1, <2>2, <2>3, <2>4
<1> HIDE DEF Some
<1>1. 0 \in T
  <2> DEFINE f == [s \in Small(0) |-> 0]
  <2>1. \A s \in Small(0) : s = {}
    <3> TAKE s \in Small(0)
    <3>1. Cardinality(s) \in Nat /\ Cardinality(s) <= 0 /\ (Cardinality(s) = 0 => s = {})
      BY <1>0
    <3> QED BY <3>1
  <2>2. Sums(f, w, Small(0))
    BY <2>1 DEF Sums
  <2>3. DOMAIN f = Small(0)
    OBVIOUS
  <2> QED BY <2>2, <2>3
<1>2. \A n \in Nat : n \in T => n + 1 \in T
  <2> SUFFICES ASSUME NEW n \in Nat, n \in T PROVE n + 1 \in T
    OBVIOUS
  <2>1. PICK f : DOMAIN f = Small(n) /\ Sums(f, w, Small(n))
    OBVIOUS
  <2> DEFINE g == [s \in Small(n + 1) |-> IF s \in Small(n) THEN f[s]
                                         ELSE w[Some(s)] + f[s \ {Some(s)}]]
  <2>2. DOMAIN g = Small(n + 1)
    OBVIOUS
  <2>3. Sums(g, w, Small(n + 1))
    <3> SUFFICES ASSUME NEW s \in Small(n + 1)
                 PROVE  g[s] = IF s = {} THEN 0 ELSE w[Some(s)] + g[s \ {Some(s)}]
      BY DEF Sums, Some
    <3>1. CASE s = {}
      <4>1. s \in Small(n)
        BY <3>1, FS_EmptySet
      <4> QED BY <2>1, <4>1, <3>1 DEF Sums
    <3>2. CASE s # {}
      <4>1. s \ {Some(s)} \in Small(n) /\ s \ {Some(s)} \in Small(n + 1)
        BY <1>0, <3>2
      <4>2. g[s \ {Some(s)}] = f[s \ {Some(s)}]
        BY <4>1
      <4>3. g[s] = w[Some(s)] + f[s \ {Some(s)}]
        <5>1. CASE s \in Small(n)
          BY <2>1, <3>2, <5>1 DEF Sums, Some
        <5>2. CASE s \notin Small(n)
          BY <5>2
        <5> QED BY <5>1, <5>2
      <4> QED BY <3>2, <4>2, <4>3
    <3> QED BY <3>1, <3>2
  <2> HIDE DEF g
  <2>4. \E h : DOMAIN h = Small(n + 1) /\ Sums(h, w, Small(n + 1))
    BY <2>2, <2>3
  <2>5. n + 1 \in Nat
    OBVIOUS
  <2> HIDE DEF Small
  <2> QED BY Zenon, <2>4, <2>5
<1>3. Cardinality(S) \in T
  <2>1. Cardinality(S) \in Nat
    BY FS_CardinalityType
  <2> HIDE DEF T
  <2> QED BY <1>1, <1>2, <2>1, NatSetInduction
<1>4. PICK f : DOMAIN f = Small(Cardinality(S)) /\ Sums(f, w, Small(Cardinality(S)))
  BY <1>3
<1>5. Small(Cardinality(S)) = SUBSET S
  BY <1>0
<1> DEFINE Body(h) == [s \in SUBSET S |->
                          IF s = {} THEN 0
                          ELSE w[CHOOSE x \in s : TRUE] + h[s \ {CHOOSE x \in s : TRUE}]]
<1> DEFINE f2 == [s \in SUBSET S |-> f[s]]
<1>6. f2 = Body(f2)
  BY <1>4, <1>5, <1>0 DEF Sums, Some
<1>7. Iter(w, S) = Body(Iter(w, S))
  BY <1>6 DEF Iter
<1> QED
  BY <1>7 DEF Sums

\* Subsets of S sum to the same within S as by themselves.
LEMMA IterWithin ==
  ASSUME NEW w, NEW S, IsFiniteSet(S)
  PROVE  \A s \in SUBSET S : SumFunctionOnSet(w, s) = Iter(w, S)[s]
<1> DEFINE Some(s) == CHOOSE x \in s : TRUE
           T == {m \in Nat : \A s \in SUBSET S : \A u \in SUBSET s :
                   Cardinality(u) = m => Iter(w, s)[u] = Iter(w, S)[u]}
<1>1. ASSUME NEW s \in SUBSET S, NEW u \in SUBSET s
      PROVE  /\ IsFiniteSet(s) /\ IsFiniteSet(u) /\ Cardinality(u) \in Nat
             /\ Cardinality(u) = 0 => u = {}
             /\ Iter(w, s)[u] = IF u = {} THEN 0 ELSE w[Some(u)] + Iter(w, s)[u \ {Some(u)}]
             /\ Iter(w, S)[u] = IF u = {} THEN 0 ELSE w[Some(u)] + Iter(w, S)[u \ {Some(u)}]
             /\ u # {} => /\ u \ {Some(u)} \in SUBSET s
                          /\ Cardinality(u \ {Some(u)}) = Cardinality(u) - 1
  <2>1. IsFiniteSet(s) /\ IsFiniteSet(u) /\ Cardinality(u) \in Nat
    BY FS_Subset, FS_CardinalityType
  <2>2. Cardinality(u) = 0 => u = {}
    BY <2>1, FS_EmptySet
  <2>3. Sums(Iter(w, s), w, SUBSET s) /\ Sums(Iter(w, S), w, SUBSET S)
    BY <2>1, IterSums
  <2>4. u # {} => Some(u) \in u
    OBVIOUS
  <2>5. u # {} => Cardinality(u \ {Some(u)}) = Cardinality(u) - 1
    BY <2>1, <2>4, FS_RemoveElement
  <2> QED BY <2>1, <2>2, <2>3, <2>5 DEF Sums
<1> HIDE DEF Some
<1>2. 0 \in T
  <2> SUFFICES ASSUME NEW s \in SUBSET S, NEW u \in SUBSET s, Cardinality(u) = 0
               PROVE  Iter(w, s)[u] = Iter(w, S)[u]
    OBVIOUS
  <2> QED BY <1>1
<1>3. \A n \in Nat : n \in T => n + 1 \in T
  <2> SUFFICES ASSUME NEW n \in Nat, n \in T PROVE n + 1 \in T
    OBVIOUS
  <2> SUFFICES ASSUME NEW s \in SUBSET S, NEW u \in SUBSET s, Cardinality(u) = n + 1
               PROVE  Iter(w, s)[u] = Iter(w, S)[u]
    OBVIOUS
  <2>1. CASE u = {}
    BY <1>1, <2>1
  <2>2. CASE u # {}
    <3>1. u \ {Some(u)} \in SUBSET s /\ Cardinality(u \ {Some(u)}) = n
      BY <1>1, <2>2
    <3>2. Iter(w, s)[u \ {Some(u)}] = Iter(w, S)[u \ {Some(u)}]
      BY <3>1
    <3> QED BY <1>1, <2>2, <3>2
  <2> QED BY <2>1, <2>2
<1>4. SUFFICES ASSUME NEW s \in SUBSET S
               PROVE  SumFunctionOnSet(w, s) = Iter(w, S)[s]
  OBVIOUS
<1>5. Cardinality(s) \in Nat
  BY <1>1
<1>6. Cardinality(s) \in T
  <2> HIDE DEF T
  <2> QED BY <1>2, <1>3, <1>5, NatSetInduction
<1>7. SumFunctionOnSet(w, s) = Iter(w, s)[s]
  BY SumUnfolds
<1> QED BY <1>6, <1>7

\* Sums of numbers are numbers.
LEMMA SumIsNat ==
  ASSUME NEW S, IsFiniteSet(S), NEW w, \A x \in S : w[x] \in Nat
  PROVE  SumFunctionOnSet(w, S) \in Nat
<1> DEFINE Some(s) == CHOOSE x \in s : TRUE
           T == {m \in Nat : \A s \in SUBSET S : Cardinality(s) = m => Iter(w, S)[s] \in Nat}
<1>1. ASSUME NEW u \in SUBSET S
      PROVE  /\ IsFiniteSet(u) /\ Cardinality(u) \in Nat
             /\ u = {} => Iter(w, S)[u] = 0
             /\ u # {} => Iter(w, S)[u] = w[Some(u)] + Iter(w, S)[u \ {Some(u)}]
             /\ Cardinality(u) = 0 => u = {}
             /\ u # {} => /\ w[Some(u)] \in Nat /\ u \ {Some(u)} \in SUBSET S
                          /\ Cardinality(u \ {Some(u)}) = Cardinality(u) - 1
  <2>1. IsFiniteSet(u) /\ Cardinality(u) \in Nat
    BY FS_Subset, FS_CardinalityType
  <2>2. Cardinality(u) = 0 => u = {}
    BY <2>1, FS_EmptySet
  <2>3. Sums(Iter(w, S), w, SUBSET S)
    BY <2>1, IterSums
  <2>4. u # {} => Some(u) \in u
    OBVIOUS
  <2>5. u # {} => Cardinality(u \ {Some(u)}) = Cardinality(u) - 1
    BY <2>1, <2>4, FS_RemoveElement
  <2> QED BY <2>1, <2>2, <2>3, <2>4, <2>5 DEF Sums
<1> HIDE DEF Some
<1>2. 0 \in T
  BY <1>1
<1>3. \A n \in Nat : n \in T => n + 1 \in T
  <2> SUFFICES ASSUME NEW n \in Nat, n \in T, NEW u \in SUBSET S, Cardinality(u) = n + 1
               PROVE  Iter(w, S)[u] \in Nat
    OBVIOUS
  <2>1. CASE u = {}
    <3>1. Iter(w, S)[u] = 0
      BY <1>1, <2>1
    <3> QED BY <3>1
  <2>2. CASE u # {}
    <3>1. Iter(w, S)[u \ {Some(u)}] \in Nat
      BY <1>1, <2>2
    <3> QED BY <1>1, <2>2, <3>1
  <2> QED BY <2>1, <2>2
<1>4. Cardinality(S) \in Nat
  BY FS_CardinalityType
<1>5. Cardinality(S) \in T
  <2> HIDE DEF T
  <2> QED BY <1>2, <1>3, <1>4, NatSetInduction
<1> QED BY <1>5, SumUnfolds

\* One more summand, wherever the fold takes it up.
LEMMA SumAdds ==
  ASSUME NEW S, IsFiniteSet(S), NEW e, e \notin S, NEW w, \A x \in S \cup {e} : w[x] \in Nat
  PROVE  SumFunctionOnSet(w, S \cup {e}) = SumFunctionOnSet(w, S) + w[e]
<1> DEFINE U == S \cup {e}
           Some(s) == CHOOSE x \in s : TRUE
           Sum(s) == SumFunctionOnSet(w, s)
           T == {m \in Nat : \A s \in SUBSET U : \A x \in U \ s :
                   Cardinality(s) = m => Sum(s \cup {x}) = Sum(s) + w[x]}
<1>1. IsFiniteSet(U)
  BY FS_AddElement
<1>2. ASSUME NEW u \in SUBSET U
      PROVE  /\ IsFiniteSet(u) /\ Cardinality(u) \in Nat /\ Sum(u) \in Nat
             /\ u = {} => Sum(u) = 0
             /\ u # {} => /\ Some(u) \in u
                          /\ Sum(u) = w[Some(u)] + Sum(u \ {Some(u)})
                          /\ Cardinality(u \ {Some(u)}) = Cardinality(u) - 1
  <2>1. IsFiniteSet(u) /\ Cardinality(u) \in Nat
    BY <1>1, FS_Subset, FS_CardinalityType
  <2>2. Sum(u) \in Nat
    BY <2>1, SumIsNat
  <2>3. Sums(Iter(w, U), w, SUBSET U)
    BY <1>1, IterSums
  <2>4. Sum(u) = Iter(w, U)[u] /\ Sum(u \ {Some(u)}) = Iter(w, U)[u \ {Some(u)}]
    BY <1>1, IterWithin
  <2>5. u # {} => Some(u) \in u
    OBVIOUS
  <2>6. u # {} => Cardinality(u \ {Some(u)}) = Cardinality(u) - 1
    BY <2>1, <2>5, FS_RemoveElement
  <2> HIDE DEF Sum
  <2> QED BY <2>1, <2>2, <2>3, <2>4, <2>5, <2>6 DEF Sums
<1> HIDE DEF Sum, Some
<1>3. \A x \in U : w[x] \in Nat
  OBVIOUS
<1>4. 0 \in T
  <2> SUFFICES ASSUME NEW s \in SUBSET U, NEW x \in U \ s, Cardinality(s) = 0
               PROVE  Sum(s \cup {x}) = Sum(s) + w[x]
    OBVIOUS
  <2>1. s = {}
    BY <1>2, FS_EmptySet
  <2>2. {x} \in SUBSET U /\ {x} # {}
    OBVIOUS
  <2>3. Some({x}) \in {x} /\ Sum({x}) = w[Some({x})] + Sum({x} \ {Some({x})})
    BY <1>2, <2>2
  <2>4. Some({x}) = x /\ {x} \ {x} = {}
    BY <2>3
  <2>5. Sum({x}) = w[x] + Sum({}) /\ Sum({}) = 0
    BY <1>2, <2>3, <2>4
  <2>6. s \cup {x} = {x}
    BY <2>1
  <2> QED BY <1>3, <2>1, <2>5, <2>6
<1>5. \A n \in Nat : n \in T => n + 1 \in T
  <2> SUFFICES ASSUME NEW n \in Nat, n \in T PROVE n + 1 \in T
    OBVIOUS
  <2> SUFFICES ASSUME NEW s \in SUBSET U, NEW x \in U \ s, Cardinality(s) = n + 1
               PROVE  Sum(s \cup {x}) = Sum(s) + w[x]
    OBVIOUS
  <2>1. PICK v \in SUBSET U : v = s \cup {x}
    OBVIOUS
  <2>2. PICK c \in v : c = Some(v) /\ Sum(v) = w[c] + Sum(v \ {c})
    BY <1>2, <2>1
  <2>3. Sum(s) \in Nat /\ w[x] \in Nat /\ w[c] \in Nat
    BY <1>2, <1>3, <2>1, <2>2
  <2>4. CASE c = x
    <3>1. v \ {c} = s
      BY <2>1, <2>4
    <3> QED BY <2>1, <2>2, <2>3, <2>4, <3>1
  <2>5. CASE c # x
    <3>1. PICK r \in SUBSET U : r = s \ {c}
      OBVIOUS
    <3>2. c \in s /\ v \ {c} = r \cup {x} /\ s = r \cup {c} /\ c \in U \ r /\ x \in U \ r
      BY <2>1, <2>2, <2>5, <3>1
    <3>3. Cardinality(r) = Cardinality(s) - 1
      BY <1>2, <3>1, <3>2, FS_RemoveElement
    <3>4. Cardinality(r) = n
      BY <3>3
    <3>5. Sum(r \cup {x}) = Sum(r) + w[x] /\ Sum(r \cup {c}) = Sum(r) + w[c]
      BY <3>2, <3>4
    <3>6. Sum(r) \in Nat
      BY <1>2
    <3>7. Sum(s) = Sum(r) + w[c] /\ Sum(v) = w[c] + Sum(r \cup {x})
      BY <2>2, <3>2, <3>5
    <3> QED BY <2>1, <2>3, <3>5, <3>6, <3>7
  <2> QED BY <2>4, <2>5
<1>6. Cardinality(S) \in Nat
  BY FS_CardinalityType
<1>7. Cardinality(S) \in T
  <2> HIDE DEF T
  <2> QED BY <1>4, <1>5, <1>6, NatSetInduction
<1>8. Sum(S \cup {e}) = Sum(S) + w[e]
  BY <1>7
<1> QED BY <1>8 DEF Sum

LEMMA SumOfNothing == ASSUME NEW w PROVE SumFunctionOnSet(w, {}) = 0
BY SumUnfolds, IterSums, FS_EmptySet DEF Sums

\* A sum is of what the function is there, and no more.
LEMMA SumAgrees ==
  ASSUME NEW S, IsFiniteSet(S), NEW v, NEW w, \A x \in S : v[x] = w[x]
  PROVE  SumFunctionOnSet(v, S) = SumFunctionOnSet(w, S)
<1> DEFINE Some(s) == CHOOSE x \in s : TRUE
           T == {m \in Nat : \A s \in SUBSET S :
                   Cardinality(s) = m => Iter(v, S)[s] = Iter(w, S)[s]}
<1>1. ASSUME NEW u \in SUBSET S
      PROVE  /\ IsFiniteSet(u) /\ Cardinality(u) \in Nat
             /\ Cardinality(u) = 0 => u = {}
             /\ u = {} => Iter(w, S)[u] = 0 /\ Iter(v, S)[u] = 0
             /\ u # {} => /\ Iter(w, S)[u] = w[Some(u)] + Iter(w, S)[u \ {Some(u)}]
                          /\ Iter(v, S)[u] = v[Some(u)] + Iter(v, S)[u \ {Some(u)}]
             /\ u # {} => /\ v[Some(u)] = w[Some(u)] /\ u \ {Some(u)} \in SUBSET S
                          /\ Cardinality(u \ {Some(u)}) = Cardinality(u) - 1
  <2>1. IsFiniteSet(u) /\ Cardinality(u) \in Nat
    BY FS_Subset, FS_CardinalityType
  <2>2. Cardinality(u) = 0 => u = {}
    BY <2>1, FS_EmptySet
  <2>3. Sums(Iter(w, S), w, SUBSET S) /\ Sums(Iter(v, S), v, SUBSET S)
    BY <2>1, IterSums
  <2>4. u # {} => Some(u) \in u
    OBVIOUS
  <2>5. u # {} => Cardinality(u \ {Some(u)}) = Cardinality(u) - 1
    BY <2>1, <2>4, FS_RemoveElement
  <2> QED BY <2>1, <2>2, <2>3, <2>4, <2>5 DEF Sums
<1> HIDE DEF Some
<1>2. 0 \in T
  BY <1>1
<1>3. \A n \in Nat : n \in T => n + 1 \in T
  <2> SUFFICES ASSUME NEW n \in Nat, n \in T, NEW u \in SUBSET S, Cardinality(u) = n + 1
               PROVE  Iter(v, S)[u] = Iter(w, S)[u]
    OBVIOUS
  <2>1. CASE u = {}
    BY <1>1, <2>1
  <2>2. CASE u # {}
    <3>1. u \ {Some(u)} \in SUBSET S /\ Cardinality(u \ {Some(u)}) = n
      BY <1>1, <2>2
    <3>2. Iter(v, S)[u \ {Some(u)}] = Iter(w, S)[u \ {Some(u)}]
      BY <3>1
    <3> QED BY <1>1, <2>2, <3>2
  <2> QED BY <2>1, <2>2
<1>4. Cardinality(S) \in Nat
  BY FS_CardinalityType
<1>5. Cardinality(S) \in T
  <2> HIDE DEF T
  <2> QED BY <1>2, <1>3, <1>4, NatSetInduction
<1> QED BY <1>5, SumUnfolds

LEMMA SumOfZeros ==
  ASSUME NEW S, IsFiniteSet(S), NEW w, \A x \in S : w[x] = 0
  PROVE  SumFunctionOnSet(w, S) = 0
<1> DEFINE Some(s) == CHOOSE x \in s : TRUE
           T == {m \in Nat : \A s \in SUBSET S : Cardinality(s) = m => Iter(w, S)[s] = 0}
<1>1. ASSUME NEW u \in SUBSET S
      PROVE  /\ Cardinality(u) \in Nat
             /\ Cardinality(u) = 0 => u = {}
             /\ u = {} => Iter(w, S)[u] = 0
             /\ u # {} => /\ Iter(w, S)[u] = 0 + Iter(w, S)[u \ {Some(u)}]
                          /\ u \ {Some(u)} \in SUBSET S
                          /\ Cardinality(u \ {Some(u)}) = Cardinality(u) - 1
  <2>1. IsFiniteSet(u) /\ Cardinality(u) \in Nat
    BY FS_Subset, FS_CardinalityType
  <2>2. Cardinality(u) = 0 => u = {}
    BY <2>1, FS_EmptySet
  <2>3. Sums(Iter(w, S), w, SUBSET S)
    BY <2>1, IterSums
  <2>4. u # {} => Some(u) \in u
    OBVIOUS
  <2>5. u # {} => Cardinality(u \ {Some(u)}) = Cardinality(u) - 1
    BY <2>1, <2>4, FS_RemoveElement
  <2> QED BY <2>1, <2>2, <2>3, <2>4, <2>5 DEF Sums
<1> HIDE DEF Some
<1>2. 0 \in T
  BY <1>1
<1>3. \A n \in Nat : n \in T => n + 1 \in T
  <2> SUFFICES ASSUME NEW n \in Nat, n \in T, NEW u \in SUBSET S, Cardinality(u) = n + 1
               PROVE  Iter(w, S)[u] = 0
    OBVIOUS
  <2>1. u # {} => u \ {Some(u)} \in SUBSET S /\ Cardinality(u \ {Some(u)}) = n
    BY <1>1
  <2>2. u # {} => Iter(w, S)[u \ {Some(u)}] = 0
    BY <2>1
  <2>3. CASE u = {}
    BY <1>1, <2>3
  <2>4. CASE u # {}
    <3>1. Iter(w, S)[u] = 0 + Iter(w, S)[u \ {Some(u)}]
      BY <1>1, <2>4
    <3> QED BY <2>2, <2>4, <3>1
  <2> QED BY <2>3, <2>4
<1>4. Cardinality(S) \in Nat
  BY FS_CardinalityType
<1>5. Cardinality(S) \in T
  <2> HIDE DEF T
  <2> QED BY <1>2, <1>3, <1>4, NatSetInduction
<1> QED BY <1>5, SumUnfolds

\* One summand more by d, the others as they were.
LEMMA SumBumps ==
  ASSUME NEW S, IsFiniteSet(S), NEW e \in S, NEW v, NEW w, NEW d \in Nat,
         \A x \in S : w[x] \in Nat, v[e] = w[e] + d, \A x \in S \ {e} : v[x] = w[x]
  PROVE  SumFunctionOnSet(v, S) = SumFunctionOnSet(w, S) + d
<1> DEFINE R == S \ {e}
<1>1. IsFiniteSet(R) /\ e \notin R /\ S = R \cup {e}
  BY FS_Subset
<1>2. SumFunctionOnSet(w, R) \in Nat
  BY <1>1, SumIsNat
<1>3. SumFunctionOnSet(v, R) = SumFunctionOnSet(w, R)
  BY <1>1, SumAgrees
<1>4. \A x \in S : v[x] \in Nat
  OBVIOUS
<1>5. SumFunctionOnSet(v, R \cup {e}) = SumFunctionOnSet(v, R) + v[e]
  BY <1>1, <1>4, SumAdds
<1>6. SumFunctionOnSet(w, R \cup {e}) = SumFunctionOnSet(w, R) + w[e]
  BY <1>1, SumAdds
<1> HIDE DEF R
<1> QED BY <1>1, <1>2, <1>3, <1>5, <1>6

-----------------------------------------------------------------------------
(* Guards *)

IInv == TypeOK /\ GuardsBalanced

\* The calls inside each guard, as c enters its guard, as it leaves, and as nobody moves.
Enters(c, q) ==
  \A h \in Hosts :
    /\ FreeInside(h)' = IF h = HostOf[c] /\ IsFree(q) THEN FreeInside(h) \cup {c}
                                                      ELSE FreeInside(h)
    /\ PaidInside(h)' = IF h = HostOf[c] /\ ~IsFree(q) THEN PaidInside(h) \cup {c}
                                                       ELSE PaidInside(h)

Leaves(c) ==
  \A h \in Hosts : FreeInside(h)' = FreeInside(h) \ {c} /\ PaidInside(h)' = PaidInside(h) \ {c}

Stays == \A h \in Hosts : FreeInside(h)' = FreeInside(h) /\ PaidInside(h)' = PaidInside(h)

LEMMA InsideFinite ==
  \A h \in Hosts : IsFiniteSet(FreeInside(h)) /\ Cardinality(FreeInside(h)) \in Nat
<1> SUFFICES ASSUME NEW h \in Hosts
             PROVE  IsFiniteSet(FreeInside(h)) /\ Cardinality(FreeInside(h)) \in Nat
  OBVIOUS
<1>1. FreeInside(h) \subseteq Callers
  BY DEF FreeInside, InsideCalls
<1> QED
  BY <1>1, MeteredFetchAssumption, FS_Subset, FS_CardinalityType

\* Nobody crosses a guard and nobody touches one.
LEMMA StayKeepsGuards ==
  ASSUME GuardsBalanced, Stays, UNCHANGED <<paidLock, freeSlots>>
  PROVE  GuardsBalanced'
BY DEF GuardsBalanced, Stays

\* Taking a free guard and being inside it are the same step.
LEMMA TakeKeepsGuards ==
  ASSUME IInv, NEW c \in Callers, NEW q \in Questions,
         GuardIsFree(HostOf[c], q), TakeGuard(c, q), Enters(c, q),
         call[c].pc \notin Inside
  PROVE  GuardsBalanced'
<1> DEFINE g == HostOf[c]
<1>1. g \in Hosts
  BY MeteredFetchAssumption
<1> SUFFICES ASSUME NEW h \in Hosts
             PROVE  /\ \A d \in Callers : paidLock'[h] = d <=> d \in PaidInside(h)'
                    /\ freeSlots'[h] >= 0
                    /\ freeSlots'[h] + Cardinality(FreeInside(h)') = FreeConcurrency
  BY DEF GuardsBalanced
<1>2. /\ \A d \in Callers : paidLock[h] = d <=> d \in PaidInside(h)
      /\ freeSlots[h] >= 0
      /\ freeSlots[h] + Cardinality(FreeInside(h)) = FreeConcurrency
  BY DEF IInv, GuardsBalanced
<1>3. freeSlots \in [Hosts -> Int] /\ paidLock \in [Hosts -> Callers \cup {None}]
  BY DEF IInv, TypeOK
<1>4. CASE IsFree(q)
  <2>1. /\ freeSlots' = [freeSlots EXCEPT ![g] = @ - 1] /\ paidLock' = paidLock
        /\ freeSlots[g] > 0
    BY <1>4 DEF TakeGuard, GuardIsFree
  <2>2. PaidInside(h)' = PaidInside(h)
    BY <1>4 DEF Enters
  <2>3. CASE h = g
    <3>1. FreeInside(h)' = FreeInside(h) \cup {c}
      BY <1>4, <2>3 DEF Enters
    <3>2. Cardinality(FreeInside(h) \cup {c}) = Cardinality(FreeInside(h)) + 1
      <4>1. c \notin FreeInside(h)
        BY DEF FreeInside, InsideCalls
      <4> QED
        BY <4>1, InsideFinite, FS_AddElement
    <3>3. freeSlots'[h] = freeSlots[h] - 1 /\ freeSlots[h] > 0
      BY <1>3, <2>1, <2>3
    <3>4. Cardinality(FreeInside(h)') = Cardinality(FreeInside(h)) + 1
      BY <3>1, <3>2
    <3>5. freeSlots[h] \in Int /\ Cardinality(FreeInside(h)) \in Nat
      BY <1>3, InsideFinite
    <3>6. freeSlots'[h] >= 0
          /\ freeSlots'[h] + Cardinality(FreeInside(h)') = FreeConcurrency
      BY <1>2, <3>3, <3>4, <3>5
    <3>7. \A d \in Callers : paidLock'[h] = d <=> d \in PaidInside(h)'
      BY <1>2, <2>1, <2>2
    <3> QED
      BY <3>6, <3>7
  <2>4. CASE h # g
    <3>1. FreeInside(h)' = FreeInside(h)
      BY <2>4 DEF Enters
    <3>2. freeSlots'[h] = freeSlots[h]
      BY <1>3, <2>1, <2>4
    <3> QED
      BY <1>2, <2>1, <2>2, <3>1, <3>2
  <2> QED
    BY <2>3, <2>4
<1>5. CASE ~IsFree(q)
  <2>1. /\ paidLock' = [paidLock EXCEPT ![g] = c] /\ freeSlots' = freeSlots
        /\ paidLock[g] = None
    BY <1>5 DEF TakeGuard, GuardIsFree
  <2>2. FreeInside(h)' = FreeInside(h)
    BY <1>5 DEF Enters
  <2>3. CASE h = g
    <3>1. PaidInside(h) = {}
      BY <1>2, <2>1, <2>3, MeteredFetchAssumption DEF FreeInside, PaidInside, InsideCalls
    <3>2. PaidInside(h)' = {c}
      BY <1>5, <2>3, <3>1 DEF Enters
    <3>3. paidLock'[h] = c
      BY <1>3, <2>1, <2>3
    <3> QED
      BY <1>2, <2>1, <2>2, <3>2, <3>3
  <2>4. CASE h # g
    <3>1. PaidInside(h)' = PaidInside(h)
      BY <2>4 DEF Enters
    <3> QED
      BY <1>2, <1>3, <2>1, <2>2, <2>4, <3>1
  <2> QED
    BY <2>3, <2>4
<1> QED
  BY <1>4, <1>5

\* Giving the guard back and being outside it are the same step.
LEMMA ReleaseKeepsGuards ==
  ASSUME IInv, NEW c \in Callers, call[c].pc \in Inside, ReleaseGuard(c), Leaves(c)
  PROVE  GuardsBalanced'
<1> DEFINE g == HostOf[c]
           q == call[c].question
<1>1. g \in Hosts /\ c \in InsideCalls(g)
  BY MeteredFetchAssumption DEF FreeInside, PaidInside, InsideCalls
<1> SUFFICES ASSUME NEW h \in Hosts
             PROVE  /\ \A d \in Callers : paidLock'[h] = d <=> d \in PaidInside(h)'
                    /\ freeSlots'[h] >= 0
                    /\ freeSlots'[h] + Cardinality(FreeInside(h)') = FreeConcurrency
  BY DEF GuardsBalanced
<1>2. /\ \A d \in Callers : paidLock[h] = d <=> d \in PaidInside(h)
      /\ freeSlots[h] >= 0
      /\ freeSlots[h] + Cardinality(FreeInside(h)) = FreeConcurrency
  BY DEF IInv, GuardsBalanced
<1>3. freeSlots \in [Hosts -> Int] /\ paidLock \in [Hosts -> Callers \cup {None}]
  BY DEF IInv, TypeOK
<1>4. FreeInside(h)' = FreeInside(h) \ {c} /\ PaidInside(h)' = PaidInside(h) \ {c}
  BY DEF Leaves
<1>5. h # g => c \notin PaidInside(h) /\ c \notin FreeInside(h)
  BY DEF FreeInside, PaidInside, InsideCalls
<1>6. CASE IsFree(q)
  <2>1. freeSlots' = [freeSlots EXCEPT ![g] = @ + 1] /\ paidLock' = paidLock
    BY <1>6 DEF ReleaseGuard
  <2>2. c \notin PaidInside(h)
    BY <1>6 DEF FreeInside, PaidInside, InsideCalls
  <2>3. PaidInside(h)' = PaidInside(h)
    BY <1>4, <2>2
  <2>4. CASE h = g
    <3>1. Cardinality(FreeInside(h) \ {c}) = Cardinality(FreeInside(h)) - 1
      <4>1. c \in FreeInside(h)
        BY <1>1, <1>6, <2>4 DEF FreeInside
      <4> QED
        BY <4>1, InsideFinite, FS_RemoveElement
    <3>2. freeSlots'[h] = freeSlots[h] + 1
      BY <1>3, <2>1, <2>4
    <3>3. Cardinality(FreeInside(h)') = Cardinality(FreeInside(h)) - 1
      BY <1>4, <3>1
    <3>4. freeSlots[h] \in Int /\ Cardinality(FreeInside(h)) \in Nat
      BY <1>3, InsideFinite
    <3>5. freeSlots'[h] >= 0
          /\ freeSlots'[h] + Cardinality(FreeInside(h)') = FreeConcurrency
      BY <1>2, <3>2, <3>3, <3>4
    <3>6. \A d \in Callers : paidLock'[h] = d <=> d \in PaidInside(h)'
      BY <1>2, <2>1, <2>3
    <3> QED
      BY <3>5, <3>6
  <2>5. CASE h # g
    <3>1. FreeInside(h)' = FreeInside(h)
      BY <1>4, <1>5, <2>5
    <3> QED
      BY <1>2, <1>3, <2>1, <2>3, <2>5, <3>1
  <2> QED
    BY <2>4, <2>5
<1>7. CASE ~IsFree(q)
  <2>1. paidLock' = [paidLock EXCEPT ![g] = None] /\ freeSlots' = freeSlots
    BY <1>7 DEF ReleaseGuard
  <2>2. c \notin FreeInside(h)
    BY <1>7 DEF FreeInside, PaidInside, InsideCalls
  <2>3. FreeInside(h)' = FreeInside(h)
    BY <1>4, <2>2
  <2>4. CASE h = g
    <3>1. PaidInside(h) = {c}
      BY <1>1, <1>2, <1>7, <2>4 DEF FreeInside, PaidInside, InsideCalls
    <3>2. PaidInside(h)' = {}
      BY <1>4, <3>1
    <3>3. paidLock'[h] = None
      BY <1>3, <2>1, <2>4
    <3> QED
      BY <1>2, <2>1, <2>3, <3>2, <3>3, MeteredFetchAssumption
  <2>5. CASE h # g
    <3>1. PaidInside(h)' = PaidInside(h)
      BY <1>4, <1>5, <2>5
    <3> QED
      BY <1>2, <1>3, <2>1, <2>3, <2>5, <3>1
  <2> QED
    BY <2>4, <2>5
<1> QED
  BY <1>6, <1>7

-----------------------------------------------------------------------------

\* The type invariant, by what a step can touch.
CallsOK ==
  /\ call \in [Callers -> Call]
  /\ \A c \in Callers : call[c].pc \notin {"idle", "returned"} => call[c].question \in Questions

LocksOK == paidLock \in [Hosts -> Callers \cup {None}] /\ freeSlots \in [Hosts -> Int]

StoreOK == /\ now \in Nat /\ mishaps \in Nat
           /\ raw \in Seq(Row)
           /\ billed \in [Questions -> Nat]

LEMMA TypeParts == (TypeOK <=> CallsOK /\ LocksOK /\ StoreOK)
                   /\ (TypeOK' <=> CallsOK' /\ LocksOK' /\ StoreOK')
BY DEF TypeOK, CallsOK, LocksOK, StoreOK

\* A step that gives one call a typed value keeps all of them typed.
LEMMA CallStep ==
  ASSUME CallsOK, NEW c \in Callers, NEW r \in Call,
         r.pc \notin {"idle", "returned"} => r.question \in Questions,
         call' = [call EXCEPT ![c] = r]
  PROVE  CallsOK'
BY DEF CallsOK

LEMMA ReturnsStep ==
  ASSUME CallsOK, NEW c \in Callers, NEW row \in Nat,
         NEW outcome \in {"cached", "over_ceiling", "planned", "no_credential", "bought",
                          "vendor_error", "db_error", "escaped", "cancelled"},
         Returns(c, outcome, row)
  PROVE  CallsOK'
<1> DEFINE r == [IdleCall EXCEPT !.pc = "returned", !.outcome = outcome, !.row = row]
<1>1. r \in Call /\ r.pc = "returned"
  BY DEF IdleCall, Call
<1>2. call' = [call EXCEPT ![c] = r]
  BY DEF Returns
<1> HIDE DEF r
<1> QED
  BY <1>1, <1>2, CallStep

LEMMA ReleaseLocks ==
  ASSUME LocksOK, NEW c \in Callers, ReleaseGuard(c) PROVE LocksOK'
BY DEF LocksOK, ReleaseGuard

LEMMA TakeLocks ==
  ASSUME LocksOK, NEW c \in Callers, NEW q, TakeGuard(c, q) PROVE LocksOK'
BY DEF LocksOK, TakeGuard

\* Every step keeps the types.
LEMMA TypeStep == TypeOK /\ [Next]_fetchVars => TypeOK'
<1> SUFFICES ASSUME CallsOK, LocksOK, StoreOK, [Next]_fetchVars
             PROVE  CallsOK' /\ LocksOK' /\ StoreOK'
  BY TypeParts
<1> USE DEF StoreOK
<1>1. ASSUME NEW c \in Callers, NEW q \in Questions, NEW force \in BOOLEAN,
             NEW dry \in BOOLEAN, Begin(c, q, force, dry)
      PROVE  CallsOK' /\ LocksOK' /\ StoreOK'
  <2> DEFINE r == [IdleCall EXCEPT !.pc = "lookup", !.question = q, !.force = force, !.dry = dry]
  <2>1. r \in Call /\ r.question = q
    BY DEF IdleCall, Call
  <2>2. call' = [call EXCEPT ![c] = r]
    BY <1>1 DEF Begin
  <2> HIDE DEF r
  <2> QED
    BY <1>1, <2>1, <2>2, CallStep DEF Begin, LocksOK
<1>2. ASSUME NEW c \in Callers, Hit(c) PROVE CallsOK' /\ LocksOK' /\ StoreOK'
  <2>1. PICK i \in Newest(call[c].question) : Returns(c, "cached", i)
    BY <1>2 DEF Hit
  <2>2. i \in Nat
    BY <2>1 DEF Newest, Rows
  <2> QED
    BY <1>2, <2>1, <2>2, ReturnsStep DEF Hit, LocksOK
<1>3. ASSUME NEW c \in Callers, Miss(c) PROVE CallsOK' /\ LocksOK' /\ StoreOK'
  <2> DEFINE r == [call[c] EXCEPT !.pc = "check", !.seen = Len(raw)]
  <2>1. Len(raw) \in Nat /\ call[c] \in Call /\ call[c].question \in Questions
    BY <1>3 DEF Miss, CallsOK
  <2>2. r \in Call /\ r.question \in Questions
    <3> HIDE DEF StoreOK
    <3> QED
      BY <2>1 DEF Call
  <2>3. call' = [call EXCEPT ![c] = r]
    BY <1>3 DEF Miss, CallsOK, Call
  <2> HIDE DEF r
  <2> QED
    BY <1>3, <2>2, <2>3, CallStep DEF Miss, LocksOK
<1>4. ASSUME NEW c \in Callers, Decline(c) PROVE CallsOK' /\ LocksOK' /\ StoreOK'
  <2>1. CallsOK'
    BY <1>4, ReturnsStep DEF Decline
  <2> QED
    BY <1>4, <2>1 DEF Decline, LocksOK
<1>5. ASSUME NEW c \in Callers, NEW pc \in {"waiting", "awaiting"},
             call[c].pc \in {"check", "waiting"}, call' = [call EXCEPT ![c].pc = pc]
      PROVE  CallsOK'
  <2> DEFINE r == [call[c] EXCEPT !.pc = pc]
  <2>1. r \in Call /\ r.question \in Questions
    BY <1>5 DEF CallsOK, Call
  <2>2. call' = [call EXCEPT ![c] = r]
    BY <1>5
  <2> HIDE DEF r
  <2> QED
    BY <2>1, <2>2, CallStep
<1>6. ASSUME NEW c \in Callers, Approve(c) PROVE CallsOK' /\ LocksOK' /\ StoreOK'
  <2>1. CallsOK'
    BY <1>5, <1>6 DEF Approve
  <2>2. LocksOK'
    BY <1>6, TakeLocks DEF Approve, LocksOK
  <2> QED
    BY <1>6, <2>1, <2>2 DEF Approve
<1>7. ASSUME NEW c \in Callers, Enter(c) PROVE CallsOK' /\ LocksOK' /\ StoreOK'
  <2>1. CallsOK'
    BY <1>5, <1>7 DEF Enter
  <2> QED
    BY <1>7, <2>1, TakeLocks DEF Enter
<1>8. ASSUME NEW c \in Callers, VendorAnswers(c) PROVE CallsOK' /\ LocksOK' /\ StoreOK'
  <2>1. PICK reply \in Reply : call' = [call EXCEPT ![c].reply = reply]
    BY <1>8, MeteredFetchAssumption DEF VendorAnswers, Reply, CallsOK
  <2> DEFINE r == [call[c] EXCEPT !.reply = reply]
  <2>2. call[c] \in Call /\ call[c].question \in Questions
    BY <1>8 DEF VendorAnswers, CallsOK
  <2>3. r \in Call /\ r.question \in Questions
    <3> HIDE DEF StoreOK
    <3> QED
      BY <2>1, <2>2 DEF Call
  <2>4. call' = [call EXCEPT ![c] = r]
    BY <2>1
  <2> HIDE DEF r
  <2>5. CallsOK'
    BY <2>3, <2>4, CallStep
  <2>6. billed' \in [Questions -> Nat]
    BY <1>8 DEF VendorAnswers
  <2> QED
    BY <1>8, <2>5, <2>6 DEF VendorAnswers, LocksOK
<1>9. ASSUME NEW c \in Callers, Reject(c) PROVE CallsOK' /\ LocksOK' /\ StoreOK'
  BY <1>9, ReturnsStep, ReleaseLocks DEF Reject
<1>10. ASSUME NEW c \in Callers, Persist(c) PROVE CallsOK' /\ LocksOK' /\ StoreOK'
  <2> DEFINE q == call[c].question
             row == [question |-> q, cost |-> Cost(q, call[c].reply), at |-> now,
                     error |-> call[c].reply.kind = "error200",
                     seen |-> call[c].seen, force |-> call[c].force]
             r == [call[c] EXCEPT !.pc = "stored", !.row = Len(raw) + 1]
  <2>1. q \in Questions /\ call[c] \in Call /\ call[c].reply \in Reply
    BY <1>10 DEF Persist, Accepted, CallsOK, Call
  <2>2. Cost(q, call[c].reply) \in Nat
    BY <2>1, MeteredFetchAssumption DEF Cost, Reply
  <2>3. row \in Row
    BY <2>1, <2>2 DEF Row, Call, Reply
  <2>4. raw' = Append(raw, row) /\ call' = [call EXCEPT ![c] = r]
    BY <1>10 DEF Persist
  <2>5. Len(raw) + 1 \in Nat
    OBVIOUS
  <2>6. r \in Call /\ r.question \in Questions
    <3> HIDE DEF StoreOK
    <3> QED
      BY <2>1, <2>5 DEF Call
  <2> HIDE DEF r, row
  <2>7. CallsOK'
    BY <2>4, <2>6, CallStep
  <2>8. raw' \in Seq(Row)
    BY <2>3, <2>4
  <2> QED
    BY <1>10, <2>7, <2>8 DEF Persist, LocksOK
<1>11. ASSUME NEW c \in Callers, Project(c) PROVE CallsOK' /\ LocksOK' /\ StoreOK'
  <2>1. call[c].row \in Nat
    BY DEF CallsOK, Call
  <2> QED
    BY <1>11, <2>1, ReturnsStep, ReleaseLocks DEF Project
<1>12. ASSUME NEW c \in Callers, Return(c) PROVE CallsOK' /\ LocksOK' /\ StoreOK'
  <2>1. IdleCall \in Call /\ IdleCall.pc = "idle"
    BY DEF IdleCall, Call
  <2> QED
    BY <1>12, <2>1, CallStep DEF Return, LocksOK
<1>13. ASSUME NEW c \in Callers, LoseAnswer(c) PROVE CallsOK' /\ LocksOK' /\ StoreOK'
  BY <1>13, ReturnsStep, ReleaseLocks DEF LoseAnswer, Mishap
<1>14. ASSUME NEW c \in Callers, PersistBusy(c) PROVE CallsOK' /\ LocksOK' /\ StoreOK'
  BY <1>14, ReturnsStep, ReleaseLocks DEF PersistBusy, Accepted, Mishap
<1>15. ASSUME NEW c \in Callers, Escape(c) PROVE CallsOK' /\ LocksOK' /\ StoreOK'
  BY <1>15, ReturnsStep, ReleaseLocks DEF Escape, Mishap
<1>16. ASSUME NEW c \in Callers, Cancel(c) PROVE CallsOK' /\ LocksOK' /\ StoreOK'
  <2>1. LocksOK'
    BY <1>16, ReleaseLocks DEF Cancel, LocksOK
  <2> QED
    BY <1>16, <2>1, ReturnsStep DEF Cancel, Mishap
<1>17. ASSUME NEW h \in Hosts, Crash(h) PROVE CallsOK' /\ LocksOK' /\ StoreOK'
  <2>1. IdleCall \in Call /\ IdleCall.pc = "idle"
    BY DEF IdleCall, Call
  <2>2. CallsOK'
    BY <1>17, <2>1 DEF Crash, CallsOK
  <2>3. LocksOK'
    BY <1>17, MeteredFetchAssumption DEF Crash, LocksOK
  <2> QED
    BY <1>17, <2>2, <2>3 DEF Crash, Mishap
<1>18. CASE Tick
  BY <1>18 DEF Tick, CallsOK, LocksOK
<1>19. CASE UNCHANGED fetchVars
  BY <1>19 DEF fetchVars, CallsOK, LocksOK
<1> QED
  BY <1>1, <1>2, <1>3, <1>4, <1>6, <1>7, <1>8, <1>9, <1>10, <1>11, <1>12, <1>13,
     <1>14, <1>15, <1>16, <1>17, <1>18, <1>19 DEF Next, Proceed, Fault

-----------------------------------------------------------------------------

\* Only the call of c changes.
OnlyMoves(c) == \A d \in Callers \ {c} : call'[d] = call[d]

LEMMA OutsideStays ==
  ASSUME NEW c \in Callers, OnlyMoves(c), call[c].pc \notin Inside, call'[c].pc \notin Inside
  PROVE  Stays
BY DEF OnlyMoves, Stays, FreeInside, PaidInside, InsideCalls

LEMMA InsideStays ==
  ASSUME NEW c \in Callers, OnlyMoves(c), call[c].pc \in Inside, call'[c].pc \in Inside,
         call'[c].question = call[c].question
  PROVE  Stays
BY DEF OnlyMoves, Stays, FreeInside, PaidInside, InsideCalls

LEMMA MovesIn ==
  ASSUME NEW c \in Callers, OnlyMoves(c), call[c].pc \notin Inside, call'[c].pc \in Inside
  PROVE  Enters(c, call'[c].question)
BY DEF OnlyMoves, Enters, FreeInside, PaidInside, InsideCalls, IsFree

LEMMA MovesOut ==
  ASSUME NEW c \in Callers, OnlyMoves(c), call'[c].pc \notin Inside
  PROVE  Leaves(c)
BY DEF OnlyMoves, Leaves, FreeInside, PaidInside, InsideCalls

\* A call returns from inside its guard, having released it.
LEMMA ReleaseAndReturn ==
  ASSUME IInv, NEW c \in Callers, NEW outcome, NEW row, call[c].pc \in Inside,
         ReleaseGuard(c), Returns(c, outcome, row)
  PROVE  GuardsBalanced'
<1>1. OnlyMoves(c) /\ call'[c].pc = "returned"
  BY DEF IInv, TypeOK, Returns, OnlyMoves, IdleCall
<1> QED
  BY <1>1, MovesOut, ReleaseKeepsGuards DEF Inside

\* A call outside every guard returns or moves on, touching none.
LEMMA MoveOutside ==
  ASSUME IInv, NEW c \in Callers, OnlyMoves(c), call[c].pc \notin Inside,
         call'[c].pc \notin Inside, UNCHANGED <<paidLock, freeSlots>>
  PROVE  GuardsBalanced'
BY OutsideStays, StayKeepsGuards DEF IInv

\* A crash empties the guards of its process, and no other.
LEMMA CrashKeepsGuards ==
  ASSUME IInv, NEW g \in Hosts, Crash(g)
  PROVE  GuardsBalanced'
<1> SUFFICES ASSUME NEW h \in Hosts
             PROVE  /\ \A d \in Callers : paidLock'[h] = d <=> d \in PaidInside(h)'
                    /\ freeSlots'[h] >= 0
                    /\ freeSlots'[h] + Cardinality(FreeInside(h)') = FreeConcurrency
  BY DEF GuardsBalanced
<1>1. freeSlots \in [Hosts -> Int] /\ paidLock \in [Hosts -> Callers \cup {None}]
  BY DEF IInv, TypeOK
<1>2. \A c \in Callers : call'[c] = IF HostOf[c] = g THEN IdleCall ELSE call[c]
  BY DEF Crash
<1>3. IdleCall.pc \notin Inside
  BY DEF IdleCall, Inside
<1>4. CASE h = g
  <2>1. FreeInside(h)' = {} /\ PaidInside(h)' = {}
    BY <1>2, <1>3, <1>4 DEF FreeInside, PaidInside, InsideCalls
  <2>2. paidLock'[h] = None /\ freeSlots'[h] = FreeConcurrency
    BY <1>1, <1>4 DEF Crash
  <2>3. Cardinality(FreeInside(h)') = 0
    BY <2>1, FS_EmptySet
  <2>4. freeSlots'[h] >= 0 /\ freeSlots'[h] + Cardinality(FreeInside(h)') = FreeConcurrency
    BY <2>2, <2>3, MeteredFetchAssumption
  <2> QED
    BY <2>1, <2>2, <2>4, MeteredFetchAssumption
<1>5. CASE h # g
  <2>1. FreeInside(h)' = FreeInside(h) /\ PaidInside(h)' = PaidInside(h)
    BY <1>2, <1>5 DEF FreeInside, PaidInside, InsideCalls
  <2>2. paidLock'[h] = paidLock[h] /\ freeSlots'[h] = freeSlots[h]
    BY <1>1, <1>5 DEF Crash
  <2> QED
    BY <2>1, <2>2 DEF IInv, GuardsBalanced
<1> QED
  BY <1>4, <1>5

\* Every step keeps the guards balanced.
LEMMA GuardsStep == IInv /\ [Next]_fetchVars => GuardsBalanced'
<1> SUFFICES ASSUME IInv, [Next]_fetchVars PROVE GuardsBalanced'
  OBVIOUS
<1> USE DEF Inside
<1>1. call \in [Callers -> Call]
  BY DEF IInv, TypeOK
<1>2. ASSUME NEW c \in Callers, NEW outcome, NEW row, Returns(c, outcome, row)
      PROVE  OnlyMoves(c) /\ call'[c].pc = "returned"
  BY <1>1, <1>2 DEF Returns, OnlyMoves, IdleCall
<1>3. ASSUME NEW c \in Callers, NEW q \in Questions, NEW force \in BOOLEAN,
             NEW dry \in BOOLEAN, Begin(c, q, force, dry)
      PROVE  GuardsBalanced'
  <2>1. OnlyMoves(c) /\ call'[c].pc = "lookup"
    BY <1>1, <1>3 DEF Begin, OnlyMoves, IdleCall
  <2> QED
    BY <1>3, <2>1, MoveOutside DEF Begin
<1>4. ASSUME NEW c \in Callers, Hit(c) PROVE GuardsBalanced'
  BY <1>2, <1>4, MoveOutside DEF Hit
<1>5. ASSUME NEW c \in Callers, Miss(c) PROVE GuardsBalanced'
  <2>1. OnlyMoves(c) /\ call'[c].pc = "check"
    BY <1>1, <1>5 DEF Miss, OnlyMoves, Call
  <2> QED
    BY <1>5, <2>1, MoveOutside DEF Miss
<1>6. ASSUME NEW c \in Callers, Decline(c) PROVE GuardsBalanced'
  BY <1>2, <1>6, MoveOutside DEF Decline
<1>7. ASSUME NEW c \in Callers, call[c].pc \in {"check", "waiting"},
             call[c].question \in Questions,
             GuardIsFree(HostOf[c], call[c].question), TakeGuard(c, call[c].question),
             call' = [call EXCEPT ![c].pc = "awaiting"]
      PROVE  GuardsBalanced'
  <2>1. /\ OnlyMoves(c) /\ call'[c].pc = "awaiting"
        /\ call'[c].question = call[c].question
    BY <1>1, <1>7 DEF OnlyMoves, Call
  <2>2. Enters(c, call[c].question)
    BY <1>7, <2>1, MovesIn
  <2> QED
    BY <1>7, <2>2, TakeKeepsGuards
<1>8. ASSUME NEW c \in Callers, Approve(c) PROVE GuardsBalanced'
  <2>1. call[c].pc = "check" /\ call[c].question \in Questions
    BY <1>8 DEF Approve, IInv, TypeOK
  <2>2. CASE call' = [call EXCEPT ![c].pc = "waiting"] /\ UNCHANGED <<paidLock, freeSlots>>
    <3>1. OnlyMoves(c) /\ call'[c].pc = "waiting"
      BY <1>1, <2>2 DEF OnlyMoves, Call
    <3> QED
      BY <2>1, <2>2, <3>1, MoveOutside
  <2> QED
    BY <1>7, <1>8, <2>1, <2>2 DEF Approve
<1>9. ASSUME NEW c \in Callers, Enter(c) PROVE GuardsBalanced'
  <2>1. call[c].pc = "waiting" /\ call[c].question \in Questions
    BY <1>9 DEF Enter, IInv, TypeOK
  <2> QED
    BY <1>7, <1>9, <2>1 DEF Enter
<1>10. ASSUME NEW c \in Callers, VendorAnswers(c) PROVE GuardsBalanced'
  <2>1. /\ OnlyMoves(c) /\ call'[c].pc = "awaiting"
        /\ call'[c].question = call[c].question
    BY <1>1, <1>10 DEF VendorAnswers, OnlyMoves, Call
  <2> QED
    BY <1>10, <2>1, InsideStays, StayKeepsGuards DEF VendorAnswers, IInv
<1>11. ASSUME NEW c \in Callers, Reject(c) PROVE GuardsBalanced'
  BY <1>11, ReleaseAndReturn DEF Reject
<1>12. ASSUME NEW c \in Callers, Persist(c) PROVE GuardsBalanced'
  <2>1. /\ OnlyMoves(c) /\ call'[c].pc = "stored"
        /\ call'[c].question = call[c].question
    BY <1>1, <1>12 DEF Persist, Accepted, OnlyMoves, Call
  <2> QED
    BY <1>12, <2>1, InsideStays, StayKeepsGuards DEF Persist, Accepted, IInv
<1>13. ASSUME NEW c \in Callers, Project(c) PROVE GuardsBalanced'
  BY <1>13, ReleaseAndReturn DEF Project
<1>14. ASSUME NEW c \in Callers, Return(c) PROVE GuardsBalanced'
  <2>1. OnlyMoves(c) /\ call'[c].pc = "idle"
    BY <1>1, <1>14 DEF Return, OnlyMoves, IdleCall
  <2> QED
    BY <1>14, <2>1, MoveOutside DEF Return
<1>15. ASSUME NEW c \in Callers, LoseAnswer(c) PROVE GuardsBalanced'
  BY <1>15, ReleaseAndReturn DEF LoseAnswer
<1>16. ASSUME NEW c \in Callers, PersistBusy(c) PROVE GuardsBalanced'
  BY <1>16, ReleaseAndReturn DEF PersistBusy, Accepted
<1>17. ASSUME NEW c \in Callers, Escape(c) PROVE GuardsBalanced'
  BY <1>17, ReleaseAndReturn DEF Escape
<1>18. ASSUME NEW c \in Callers, Cancel(c) PROVE GuardsBalanced'
  <2>1. CASE call[c].pc = "awaiting"
    BY <1>18, <2>1, ReleaseAndReturn DEF Cancel
  <2>2. CASE call[c].pc = "waiting"
    BY <1>2, <1>18, <2>2, MoveOutside DEF Cancel
  <2> QED
    BY <1>18, <2>1, <2>2 DEF Cancel
<1>19. ASSUME NEW h \in Hosts, Crash(h) PROVE GuardsBalanced'
  BY <1>19, CrashKeepsGuards
<1>20. CASE Tick
  BY <1>20, StayKeepsGuards DEF Tick, Stays, FreeInside, PaidInside, InsideCalls, IInv
<1>21. CASE UNCHANGED fetchVars
  BY <1>21, StayKeepsGuards DEF fetchVars, Stays, FreeInside, PaidInside, InsideCalls, IInv
<1> QED
  BY <1>3, <1>4, <1>5, <1>6, <1>8, <1>9, <1>10, <1>11, <1>12, <1>13, <1>14, <1>15,
     <1>16, <1>17, <1>18, <1>19, <1>20, <1>21 DEF Next, Proceed, Fault

LEMMA InitType == Init => TypeOK
<1>1. IdleCall \in Call /\ IdleCall.pc = "idle"
  BY DEF IdleCall, Call
<1> QED BY <1>1, MeteredFetchAssumption DEF Init, TypeOK

\* IInv is an invariant of fetch.
THEOREM Invariance == Spec => []IInv
<1>1. Init => IInv
  <2> SUFFICES ASSUME Init PROVE IInv
    OBVIOUS
  <2>1. IdleCall.pc = "idle"
    BY DEF IdleCall
  <2>2. TypeOK
    BY InitType
  <2>3. \A h \in Hosts : FreeInside(h) = {} /\ PaidInside(h) = {}
    BY <2>1 DEF Init, FreeInside, PaidInside, InsideCalls, Inside
  <2>4. Cardinality({}) = 0
    BY FS_EmptySet
  <2>5. \A h \in Hosts : paidLock[h] = None /\ freeSlots[h] = FreeConcurrency
    BY DEF Init
  <2>6. \A h \in Hosts : freeSlots[h] >= 0 /\ freeSlots[h] + 0 = FreeConcurrency
    BY <2>5, MeteredFetchAssumption
  <2>7. GuardsBalanced
    BY <2>3, <2>4, <2>5, <2>6, MeteredFetchAssumption DEF GuardsBalanced
  <2> QED
    BY <2>2, <2>7 DEF IInv
<1>2. IInv /\ [Next]_fetchVars => IInv'
  BY TypeStep, GuardsStep DEF IInv
<1> QED
  BY <1>1, <1>2, PTL DEF Spec

\* Every state of fetch is well typed.
THEOREM TypeCorrect == Spec => []TypeOK
<1>1. IInv => TypeOK
  BY DEF IInv
<1> QED
  BY <1>1, Invariance, PTL

\* No exit from fetch, normal or exceptional, leaks or steals a guard.
THEOREM GuardsNeverLeak == Spec => []GuardsBalanced
<1>1. IInv => GuardsBalanced
  BY DEF IInv
<1> QED
  BY <1>1, Invariance, PTL

\* One paid call at a time in each process, for any number of tasks in it.
THEOREM PaidCallsSerial == Spec => []PaidSerial
<1>1. IInv => PaidSerial
  BY DEF IInv, GuardsBalanced, PaidSerial, PaidInside, InsideCalls
<1> QED
  BY <1>1, Invariance, PTL

-----------------------------------------------------------------------------
(* The archive *)

\* A call that has looked and may still buy.
Looked == {"check", "waiting", "awaiting"}

\* Rows are stored in the order of the clock.
RowsInOrder ==
  \A i \in DOMAIN raw : raw[i].at <= now /\ \A j \in DOMAIN raw : i <= j => raw[i].at <= raw[j].at

\* What an unforced call saw when it looked was stale, and stays so.
SawOnlyStale ==
  \A c \in Callers : call[c].pc \in Looked /\ ~call[c].force =>
    \A i \in Rows(call[c].question) : i <= call[c].seen => ~Fresh(i)

SeenIsPast == \A c \in Callers : call[c].seen <= Len(raw)

ArchiveInv ==
  /\ RowsInOrder /\ SeenIsPast /\ SawOnlyStale
  /\ NoVendorErrorStored /\ RepurchaseOnlyByOverlap

LEMMA Fields ==
  ASSUME TypeOK
  PROVE  /\ now \in Nat /\ Len(raw) \in Nat /\ DOMAIN raw = 1 .. Len(raw)
         /\ \A i \in DOMAIN raw :
              /\ raw[i] \in Row /\ raw[i].question \in Questions
              /\ raw[i].at \in Nat /\ raw[i].cost \in Nat /\ TTL[raw[i].question] \in Nat
         /\ \A c \in Callers : call[c].seen \in Nat
<1>1. /\ now \in Nat /\ Len(raw) \in Nat /\ DOMAIN raw = 1 .. Len(raw)
      /\ \A i \in DOMAIN raw : raw[i] \in Row
  BY DEF TypeOK
<1>2. \A r \in Row : /\ r.question \in Questions /\ r.at \in Nat /\ r.cost \in Nat
                      /\ TTL[r.question] \in Nat
  BY MeteredFetchAssumption DEF Row
<1>3. \A c \in Callers : call[c].seen \in Nat
  BY DEF TypeOK, Call
<1> QED BY <1>1, <1>2, <1>3

\* A step that neither looks nor stores: a call keeps what it saw, or is over.
Quiet ==
  /\ UNCHANGED <<now, raw>>
  /\ \A c \in Callers :
       /\ call'[c].seen \in {0, call[c].seen}
       /\ call'[c].pc \in Looked =>
            /\ call[c].pc \in Looked /\ call'[c].seen = call[c].seen
            /\ call'[c].question = call[c].question /\ call'[c].force = call[c].force

LEMMA QuietMove ==
  ASSUME NEW c \in Callers, OnlyMoves(c), UNCHANGED <<now, raw>>,
         call'[c].seen \in {0, call[c].seen},
         call'[c].pc \in Looked =>
            /\ call[c].pc \in Looked /\ call'[c].seen = call[c].seen
            /\ call'[c].question = call[c].question /\ call'[c].force = call[c].force
  PROVE  Quiet
BY DEF Quiet, OnlyMoves

LEMMA QuietReturn ==
  ASSUME TypeOK, NEW c \in Callers, NEW outcome, NEW row, Returns(c, outcome, row),
         UNCHANGED <<now, raw>>
  PROVE  Quiet
<1>1. OnlyMoves(c) /\ call'[c].pc = "returned" /\ call'[c].seen = 0
  BY DEF TypeOK, Returns, OnlyMoves, IdleCall
<1> QED
  BY <1>1, QuietMove DEF Looked

\* Only the lookup, the insert and the clock touch the archive or what is known of it.
LEMMA StoreSteps ==
  ASSUME TypeOK, Next
  PROVE  Quiet \/ (\E c \in Callers : Miss(c) \/ Persist(c)) \/ Tick
<1> USE DEF Looked
<1>1. call \in [Callers -> Call]
  BY DEF TypeOK
<1>2. ASSUME NEW c \in Callers, NEW q \in Questions, NEW force \in BOOLEAN,
             NEW dry \in BOOLEAN, Begin(c, q, force, dry)
      PROVE  Quiet
  <2>1. OnlyMoves(c) /\ call'[c].pc = "lookup" /\ call'[c].seen = 0
    BY <1>1, <1>2 DEF Begin, OnlyMoves, IdleCall
  <2> QED BY <1>2, <2>1, QuietMove DEF Begin
<1>3. ASSUME NEW c \in Callers, Hit(c) PROVE Quiet
  BY <1>3, QuietReturn DEF Hit
<1>4. ASSUME NEW c \in Callers, Decline(c) PROVE Quiet
  BY <1>4, QuietReturn DEF Decline
<1>5. ASSUME NEW c \in Callers, NEW pc \in Looked, call[c].pc \in Looked,
             call' = [call EXCEPT ![c].pc = pc], UNCHANGED <<now, raw>>
      PROVE  Quiet
  <2>1. /\ OnlyMoves(c) /\ call'[c].seen = call[c].seen
        /\ call'[c].question = call[c].question /\ call'[c].force = call[c].force
    BY <1>1, <1>5 DEF OnlyMoves, Call
  <2> QED BY <1>5, <2>1, QuietMove
<1>6. ASSUME NEW c \in Callers, Approve(c) PROVE Quiet
  BY <1>5, <1>6 DEF Approve
<1>7. ASSUME NEW c \in Callers, Enter(c) PROVE Quiet
  BY <1>5, <1>7 DEF Enter
<1>8. ASSUME NEW c \in Callers, VendorAnswers(c) PROVE Quiet
  <2>1. /\ OnlyMoves(c) /\ call'[c].seen = call[c].seen /\ call'[c].pc = call[c].pc
        /\ call'[c].question = call[c].question /\ call'[c].force = call[c].force
    BY <1>1, <1>8 DEF VendorAnswers, OnlyMoves, Call
  <2> QED BY <1>8, <2>1, QuietMove DEF VendorAnswers
<1>9. ASSUME NEW c \in Callers, Reject(c) PROVE Quiet
  BY <1>9, QuietReturn DEF Reject
<1>10. ASSUME NEW c \in Callers, Project(c) PROVE Quiet
  BY <1>10, QuietReturn DEF Project
<1>11. ASSUME NEW c \in Callers, Return(c) PROVE Quiet
  <2>1. OnlyMoves(c) /\ call'[c].pc = "idle" /\ call'[c].seen = 0
    BY <1>1, <1>11 DEF Return, OnlyMoves, IdleCall
  <2> QED BY <1>11, <2>1, QuietMove DEF Return
<1>12. ASSUME NEW c \in Callers, Fault(c) PROVE Quiet
  BY <1>12, QuietReturn DEF Fault, LoseAnswer, PersistBusy, Escape, Cancel
<1>13. ASSUME NEW h \in Hosts, Crash(h) PROVE Quiet
  <2>1. \A c \in Callers : call'[c] \in {call[c], IdleCall}
    BY <1>13 DEF Crash
  <2>2. IdleCall.pc = "idle" /\ IdleCall.seen = 0
    BY DEF IdleCall
  <2>3. UNCHANGED <<now, raw>>
    BY <1>13 DEF Crash
  <2> QED BY <2>1, <2>2, <2>3 DEF Quiet
<1> QED
  BY <1>2, <1>3, <1>4, <1>6, <1>7, <1>8, <1>9, <1>10, <1>11, <1>12, <1>13 DEF Next, Proceed

LEMMA QuietKeepsArchive ==
  ASSUME TypeOK, ArchiveInv, Quiet PROVE ArchiveInv'
<1>1. now' = now /\ raw' = raw /\ \A i : Fresh(i)' <=> Fresh(i)
  BY DEF Quiet, Fresh
<1>2. RowsInOrder' /\ NoVendorErrorStored' /\ RepurchaseOnlyByOverlap'
  BY <1>1 DEF ArchiveInv, RowsInOrder, NoVendorErrorStored, RepurchaseOnlyByOverlap
<1>3. SeenIsPast'
  BY <1>1, Fields DEF ArchiveInv, SeenIsPast, Quiet
<1>4. SawOnlyStale'
  BY <1>1 DEF ArchiveInv, SawOnlyStale, Quiet, Rows
<1> QED BY <1>2, <1>3, <1>4 DEF ArchiveInv

\* The lookup's ORDER BY ... LIMIT 1 always finds a row when there is one.
LEMMA NewestIsThere ==
  ASSUME TypeOK, RowsInOrder, NEW q, NEW i \in Rows(q)
  PROVE  \E k \in Newest(q) : i <= k /\ raw[i].at <= raw[k].at
<1> DEFINE Ends == {n \in Nat : \E k \in Rows(q) : k + n = Len(raw)}
<1>1. /\ Len(raw) \in Nat
      /\ \A j \in Rows(q) : j \in DOMAIN raw /\ j \in Nat /\ j <= Len(raw)
  BY Fields DEF Rows
<1>2. \A j \in Rows(q) : Len(raw) - j \in Ends
  <2> TAKE j \in Rows(q)
  <2>1. Len(raw) - j \in Nat /\ j + (Len(raw) - j) = Len(raw)
    BY <1>1
  <2> QED BY <2>1
<1>3. \E n \in Ends : \A m \in Ends : ~(<<m, n>> \in OpToRel(<, Nat))
  BY <1>2, NatLessThanWellFounded, WFMin
<1>4. PICK n \in Ends : \A m \in Ends : ~(m < n)
  BY <1>3 DEF OpToRel
<1>5. PICK k \in Rows(q) : k + n = Len(raw)
  BY <1>4
<1>6. ASSUME NEW j \in Rows(q) PROVE j <= k /\ raw[j].at <= raw[k].at
  <2>1. ~(Len(raw) - j < n) /\ n \in Nat
    BY <1>2, <1>4
  <2>2. j <= k
    BY <1>1, <1>5, <2>1
  <2> QED BY <1>1, <1>6, <2>2 DEF RowsInOrder
<1> QED BY <1>6 DEF Newest

LEMMA MissKeepsArchive ==
  ASSUME TypeOK, ArchiveInv, NEW c \in Callers, Miss(c) PROVE ArchiveInv'
<1>1. /\ now' = now /\ raw' = raw /\ raw \in Seq(Row) /\ Len(raw) \in Nat /\ now \in Nat
      /\ call \in [Callers -> Call] /\ \A i : Fresh(i)' <=> Fresh(i)
  BY DEF TypeOK, Miss, Fresh
<1>2. RowsInOrder' /\ NoVendorErrorStored' /\ RepurchaseOnlyByOverlap'
  BY <1>1 DEF ArchiveInv, RowsInOrder, NoVendorErrorStored, RepurchaseOnlyByOverlap
<1>3. /\ OnlyMoves(c) /\ call'[c].seen = Len(raw)
      /\ call'[c].question = call[c].question /\ call'[c].force = call[c].force
  BY <1>1 DEF Miss, OnlyMoves, Call
<1>4. SeenIsPast'
  BY <1>1, <1>3 DEF ArchiveInv, SeenIsPast, OnlyMoves
<1>5. ~call[c].force => \A i \in Rows(call[c].question) : ~Fresh(i)
  <2> SUFFICES ASSUME ~call[c].force, NEW i \in Rows(call[c].question) PROVE ~Fresh(i)
    OBVIOUS
  <2>1. PICK k \in Newest(call[c].question) : raw[i].at <= raw[k].at
    BY NewestIsThere DEF ArchiveInv
  <2>2. ~Fresh(k)
    BY <2>1 DEF Miss
  <2>3. /\ raw[i].question = call[c].question /\ raw[k].question = call[c].question
        /\ raw[i].at \in Nat /\ raw[k].at \in Nat /\ raw[i].question \in Questions
    BY Fields, <2>1 DEF Newest, Rows
  <2>4. TTL[raw[i].question] \in Nat
    BY <2>3, MeteredFetchAssumption
  <2> QED BY <1>1, <2>1, <2>2, <2>3, <2>4 DEF Fresh
<1>6. SawOnlyStale'
  BY <1>1, <1>3, <1>5 DEF ArchiveInv, SawOnlyStale, OnlyMoves, Rows
<1> QED BY <1>2, <1>4, <1>6 DEF ArchiveInv

\* The row a call stores.
NewRow(c) == [question |-> call[c].question, cost |-> Cost(call[c].question, call[c].reply),
              at |-> now, error |-> call[c].reply.kind = "error200",
              seen |-> call[c].seen, force |-> call[c].force]

LEMMA Stores ==
  ASSUME TypeOK, NEW c \in Callers, Persist(c)
  PROVE  /\ raw \in Seq(Row) /\ Len(raw) \in Nat /\ NewRow(c) \in Row
         /\ raw' = Append(raw, NewRow(c)) /\ raw' \in Seq(Row) /\ Len(raw') = Len(raw) + 1
         /\ \A i \in DOMAIN raw : i \in DOMAIN raw' /\ raw'[i] = raw[i]
         /\ DOMAIN raw' = DOMAIN raw \cup {Len(raw) + 1} /\ raw'[Len(raw) + 1] = NewRow(c)
         /\ OnlyMoves(c) /\ call'[c].pc = "stored" /\ call'[c].seen = call[c].seen
         /\ call'[c].question = call[c].question
<1>1. raw \in Seq(Row) /\ call \in [Callers -> Call] /\ now \in Nat
  BY DEF TypeOK
<1>2. /\ call[c].pc = "awaiting" /\ call[c].reply # None
      /\ call[c].question \in Questions /\ call[c].reply \in Reply
      /\ call[c].seen \in Nat /\ call[c].force \in BOOLEAN
  BY <1>1 DEF Persist, Accepted, TypeOK, Call
<1>3. Cost(call[c].question, call[c].reply) \in Nat
  BY <1>2, MeteredFetchAssumption DEF Cost, Reply
<1>4. NewRow(c) \in Row
  BY <1>1, <1>2, <1>3 DEF NewRow, Row
<1>5. raw' = Append(raw, NewRow(c)) 
  BY DEF Persist, NewRow
<1>6. /\ OnlyMoves(c) /\ call'[c].pc = "stored" /\ call'[c].seen = call[c].seen
      /\ call'[c].question = call[c].question
  BY <1>1 DEF Persist, OnlyMoves, Call
<1> HIDE DEF NewRow
<1> QED BY <1>1, <1>4, <1>5, <1>6

LEMMA PersistKeepsArchive ==
  ASSUME TypeOK, ArchiveInv, NEW c \in Callers, Persist(c) PROVE ArchiveInv'
<1> DEFINE n == Len(raw) + 1
<1>1. /\ n \in Nat /\ now' = now /\ now \in Nat /\ call[c].pc = "awaiting"
      /\ DOMAIN raw = 1 .. Len(raw) /\ DOMAIN raw' = 1 .. n
      /\ \A i \in DOMAIN raw : raw[i] \in Row /\ raw'[i] = raw[i]
      /\ raw'[n] = NewRow(c) /\ NewRow(c) \in Row
      /\ OnlyMoves(c) /\ call'[c].pc = "stored" /\ call'[c].seen = call[c].seen
      /\ Len(raw') = n /\ Len(raw) \in Nat
  <2>1. now' = now /\ call[c].pc = "awaiting"
    BY DEF Persist, Accepted
  <2> QED BY <2>1, Stores, Fields
<1>2. RowsInOrder'
  <2>1. ASSUME NEW i \in DOMAIN raw', NEW j \in DOMAIN raw'
        PROVE  raw'[i].at <= now /\ (i <= j => raw'[i].at <= raw'[j].at)
    <3>1. raw'[n].at = now
      BY <1>1 DEF NewRow
    <3>2. i # n => raw'[i].at <= now /\ (j # n /\ i <= j => raw'[i].at <= raw'[j].at)
      BY <1>1 DEF ArchiveInv, RowsInOrder
    <3> QED BY <1>1, <3>1, <3>2 
  <2> QED BY <1>1, <2>1 DEF RowsInOrder
<1>3. SeenIsPast'
  <2> SUFFICES ASSUME NEW d \in Callers PROVE call'[d].seen <= Len(raw')
    BY DEF SeenIsPast
  <2>1. call'[d].seen = call[d].seen
    BY <1>1 DEF OnlyMoves
  <2> QED BY <1>1, <2>1, Fields DEF ArchiveInv, SeenIsPast
<1>4. SawOnlyStale'
  <2> SUFFICES ASSUME NEW d \in Callers, call'[d].pc \in Looked, ~call'[d].force,
                      NEW i \in DOMAIN raw', raw'[i].question = call'[d].question,
                      i <= call'[d].seen
               PROVE  ~Fresh(i)'
    BY DEF SawOnlyStale, Rows
  <2>1. d # c
    BY <1>1 DEF Looked
  <2>2. call'[d] = call[d]
    BY <1>1, <2>1 DEF OnlyMoves
  <2>3. i \in DOMAIN raw /\ i <= call[d].seen
    BY <1>1, <2>2, Fields DEF ArchiveInv, SeenIsPast
  <2>4. raw'[i] = raw[i] /\ i \in Rows(call[d].question)
    <3>1. raw'[i] = raw[i]
      BY <1>1, <2>3
    <3>2. raw'[i].question = call[d].question
      BY <2>2
    <3> QED BY <2>3, <3>1, <3>2 DEF Rows
  <2>5. ~Fresh(i)
    BY <2>2, <2>3, <2>4 DEF ArchiveInv, SawOnlyStale
  <2> QED BY <1>1, <2>4, <2>5 DEF Fresh
<1>5. NoVendorErrorStored'
  <2>1. NewRow(c).error => NewRow(c).question \notin Validated
    BY DEF NewRow, Persist, Accepted
  <2> QED BY <1>1, <2>1 DEF ArchiveInv, NoVendorErrorStored
<1>6. RepurchaseOnlyByOverlap'
  <2> SUFFICES ASSUME NEW i \in DOMAIN raw', NEW j \in DOMAIN raw', i < j,
                      raw'[i].question = raw'[j].question, ~raw'[j].force,
                      raw'[j].at - raw'[i].at < TTL[raw'[j].question]
               PROVE  raw'[j].seen < i
    BY DEF RepurchaseOnlyByOverlap
  <2>1. i \in DOMAIN raw
    BY <1>1
  <2>2. CASE j # n
    BY <1>1, <2>1, <2>2 DEF ArchiveInv, RepurchaseOnlyByOverlap
  <2>3. CASE j = n
    <3>1. /\ ~call[c].force /\ raw[i].question = call[c].question
          /\ now - raw[i].at < TTL[raw[i].question] /\ raw'[j].seen = call[c].seen
      BY <1>1, <2>1, <2>3 DEF NewRow
    <3>2. Fresh(i) /\ i \in Rows(call[c].question)
      BY <2>1, <3>1 DEF Fresh, Rows
    <3>3. ~(i <= call[c].seen)
      BY <1>1, <3>1, <3>2 DEF ArchiveInv, SawOnlyStale, Looked
    <3> QED BY <1>1, <3>1, <3>3 DEF TypeOK, Call
  <2> QED BY <2>2, <2>3
<1> QED BY <1>2, <1>3, <1>4, <1>5, <1>6 DEF ArchiveInv

LEMMA TickKeepsArchive ==
  ASSUME TypeOK, ArchiveInv, Tick PROVE ArchiveInv'
<1>1. /\ now' = now + 1 /\ raw' = raw /\ call' = call /\ now \in Nat
      /\ raw \in Seq(Row) /\ \A i \in DOMAIN raw : raw[i] \in Row
  BY DEF TypeOK, Tick
<1>2. \A i \in DOMAIN raw : raw[i].at \in Nat /\ TTL[raw[i].question] \in Nat
  BY <1>1, MeteredFetchAssumption DEF Row
<1>3. \A i \in DOMAIN raw : ~Fresh(i) => ~Fresh(i)'
  BY <1>1, <1>2 DEF Fresh
<1>4. SawOnlyStale'
  BY <1>1, <1>3 DEF ArchiveInv, SawOnlyStale, Rows
<1>5. RowsInOrder'
  BY <1>1, <1>2 DEF ArchiveInv, RowsInOrder
<1> QED BY <1>1, <1>4, <1>5 DEF ArchiveInv, SeenIsPast, NoVendorErrorStored, RepurchaseOnlyByOverlap

\* What is stored and what is known of it stay consistent, whoever stores what when.
THEOREM ArchiveInvariance == Spec => []ArchiveInv
<1>1. Init => ArchiveInv
  BY DEF Init, ArchiveInv, RowsInOrder, SeenIsPast, SawOnlyStale, NoVendorErrorStored,
         RepurchaseOnlyByOverlap, IdleCall, Looked
<1>2. TypeOK /\ ArchiveInv /\ [Next]_fetchVars => ArchiveInv'
  <2> SUFFICES ASSUME TypeOK, ArchiveInv, [Next]_fetchVars PROVE ArchiveInv'
    OBVIOUS
  <2>1. CASE Next
    BY <2>1, StoreSteps, QuietKeepsArchive, MissKeepsArchive, PersistKeepsArchive, TickKeepsArchive
  <2>2. CASE UNCHANGED fetchVars
    <3>1. Quiet
      BY <2>2 DEF fetchVars, Quiet
    <3> QED BY <3>1, QuietKeepsArchive
  <2> QED BY <2>1, <2>2
<1> QED BY <1>1, <1>2, TypeCorrect, PTL DEF Spec

\* A capability with a validate hook never has a vendor error in raw_response.
THEOREM ErrorsNeverStored == Spec => []NoVendorErrorStored
<1>1. ArchiveInv => NoVendorErrorStored
  BY DEF ArchiveInv
<1> QED BY <1>1, ArchiveInvariance, PTL

\* Only a call that looked before the other answer was stored buys it again unforced.
THEOREM OnlyOverlapRepurchases == Spec => []RepurchaseOnlyByOverlap
<1>1. ArchiveInv => RepurchaseOnlyByOverlap
  BY DEF ArchiveInv
<1> QED BY <1>1, ArchiveInvariance, PTL

-----------------------------------------------------------------------------
(* What was charged for *)

\* A call has an answer only while it waits for one or stores it.
AnswersInHand == \A c \in Callers : call[c].pc \notin Inside => call[c].reply = None

HoldsPaidAnswer(c) ==
  /\ call[c].pc = "awaiting" /\ ~IsFree(call[c].question)
  /\ call[c].reply # None /\ call[c].reply.kind = "rows"

BillsInv == AnswersInHand /\ PaidAnswersKept

LEMMA HeldIs == /\ PaidAnswersHeld = {c \in Callers : HoldsPaidAnswer(c)}
                /\ PaidAnswersHeld' = {c \in Callers : HoldsPaidAnswer(c)'}
BY MeteredFetchAssumption
   DEF PaidAnswersHeld, PaidInside, InsideCalls, Inside, HoldsPaidAnswer

Kept == Cardinality(PaidRows) + Cardinality(PaidAnswersHeld)

LEMMA Sizes ==
  ASSUME TypeOK
  PROVE  /\ IsFiniteSet(PaidRows) /\ Cardinality(PaidRows) \in Nat
         /\ IsFiniteSet(PaidAnswersHeld) /\ Cardinality(PaidAnswersHeld) \in Nat
         /\ IsFiniteSet({q \in Questions : ~IsFree(q)}) /\ PaidBills \in Nat
         /\ mishaps \in Nat
<1>1. PaidRows \subseteq 1 .. Len(raw) /\ PaidAnswersHeld \subseteq Callers
  BY HeldIs, Fields DEF PaidRows
<1>2. IsFiniteSet(1 .. Len(raw))
  BY Fields, FS_Interval
<1>3. IsFiniteSet({q \in Questions : ~IsFree(q)})
  BY MeteredFetchAssumption, FS_Subset
<1>4. PaidBills \in Nat
  BY <1>3, SumIsNat DEF PaidBills, TypeOK
<1> QED
  BY <1>1, <1>2, <1>3, <1>4, MeteredFetchAssumption, FS_Subset, FS_CardinalityType DEF TypeOK

\* Nothing is bought, stored or lost.
LEMMA BillsStay ==
  ASSUME TypeOK, PaidAnswersKept, UNCHANGED <<raw, billed>>, mishaps' \in Nat,
         mishaps <= mishaps', PaidAnswersHeld' = PaidAnswersHeld
  PROVE  PaidAnswersKept'
<1>1. PaidRows' = PaidRows /\ PaidBills' = PaidBills
  BY DEF PaidRows, PaidBills, IsFree
<1> QED BY <1>1, Sizes DEF PaidAnswersKept

\* A fault loses one answer at most.
LEMMA FaultLosesOne ==
  ASSUME TypeOK, PaidAnswersKept, UNCHANGED <<raw, billed>>, Mishap,
         NEW c, PaidAnswersHeld' = PaidAnswersHeld \ {c}
  PROVE  PaidAnswersKept'
<1>1. PaidRows' = PaidRows /\ PaidBills' = PaidBills /\ mishaps' = mishaps + 1
  BY DEF PaidRows, PaidBills, IsFree, Mishap
<1>2. Cardinality(PaidAnswersHeld \ {c}) = IF c \in PaidAnswersHeld
                                          THEN Cardinality(PaidAnswersHeld) - 1
                                          ELSE Cardinality(PaidAnswersHeld)
  BY Sizes, FS_RemoveElement
<1> QED BY <1>1, <1>2, Sizes DEF PaidAnswersKept

LEMMA AnswerIsCounted ==
  ASSUME TypeOK, BillsInv, NEW c \in Callers, VendorAnswers(c) PROVE BillsInv'
<1> DEFINE q == call[c].question
           paid == {p \in Questions : ~IsFree(p)}
<1>1. /\ call \in [Callers -> Call] /\ q \in Questions /\ billed \in [Questions -> Nat]
      /\ call[c].pc = "awaiting" /\ call[c].reply = None /\ UNCHANGED <<raw, mishaps>>
  BY DEF VendorAnswers, TypeOK
<1>2. /\ OnlyMoves(c) /\ call'[c].pc = "awaiting" /\ call'[c].question = q
  BY <1>1 DEF VendorAnswers, OnlyMoves, Call
<1>3. AnswersInHand'
  BY <1>2 DEF BillsInv, AnswersInHand, OnlyMoves, Inside
<1>4. /\ \A d \in Callers \ {c} : HoldsPaidAnswer(d)' <=> HoldsPaidAnswer(d)
      /\ ~HoldsPaidAnswer(c)
  BY <1>1, <1>2 DEF HoldsPaidAnswer, OnlyMoves, IsFree
<1>5. CASE billed' = billed /\ call'[c].reply.kind # "rows"
  <2>1. PaidAnswersHeld' = PaidAnswersHeld
    BY <1>4, <1>5, HeldIs DEF HoldsPaidAnswer
  <2> QED BY <1>1, <1>3, <1>5, <2>1, BillsStay, Sizes DEF BillsInv
<1>6. CASE /\ billed' = [billed EXCEPT ![q] = @ + 1]
           /\ call'[c].reply # None /\ call'[c].reply.kind = "rows"
  <2>1. CASE IsFree(q)
    <3>1. PaidAnswersHeld' = PaidAnswersHeld
      BY <1>2, <1>4, <2>1, HeldIs DEF HoldsPaidAnswer, IsFree
    <3>2. \A p \in paid : billed'[p] = billed[p]
      BY <1>1, <1>6, <2>1
    <3>3. PaidBills' = PaidBills /\ PaidRows' = PaidRows
      BY <1>1, <3>2, Sizes, SumAgrees DEF PaidBills, PaidRows, IsFree
    <3> QED BY <1>1, <1>3, <3>1, <3>3 DEF BillsInv, PaidAnswersKept
  <2>2. CASE ~IsFree(q)
    <3>1. PaidAnswersHeld' = PaidAnswersHeld \cup {c} /\ c \notin PaidAnswersHeld
      BY <1>2, <1>4, <1>6, <2>2, HeldIs DEF HoldsPaidAnswer, IsFree
    <3>2. Cardinality(PaidAnswersHeld') = Cardinality(PaidAnswersHeld) + 1
      BY <3>1, Sizes, FS_AddElement
    <3>3. /\ q \in paid /\ billed'[q] = billed[q] + 1 /\ \A p \in paid : billed[p] \in Nat
          /\ \A p \in paid \ {q} : billed'[p] = billed[p]
      BY <1>1, <1>6, <2>2
    <3>4. SumFunctionOnSet(billed', paid) = SumFunctionOnSet(billed, paid) + 1
      BY <3>3, Sizes, SumBumps
    <3>5. PaidBills' = PaidBills + 1 /\ PaidRows' = PaidRows
      BY <1>1, <3>4 DEF PaidBills, PaidRows, IsFree
    <3> QED BY <1>1, <1>3, <3>2, <3>5, Sizes DEF BillsInv, PaidAnswersKept
  <2> QED BY <2>1, <2>2
<1>7. /\ billed' = billed /\ call'[c].reply.kind # "rows"
      \/ /\ billed' = [billed EXCEPT ![q] = @ + 1]
         /\ call'[c].reply # None /\ call'[c].reply.kind = "rows"
  <2>1. CASE \E charge \in Charges[q] :
               /\ call' = [call EXCEPT ![c].reply = [kind |-> "rows", charge |-> charge]]
               /\ billed' = [billed EXCEPT ![q] = @ + 1]
    <3>1. PICK charge \in Charges[q] :
            call' = [call EXCEPT ![c].reply = [kind |-> "rows", charge |-> charge]]
      BY <2>1
    <3>2. call'[c].reply = [kind |-> "rows", charge |-> charge]
      BY <1>1, <3>1 DEF Call
    <3>4. [kind |-> "rows", charge |-> charge] \in Reply
      <4>1. charge \in Nat \cup {None}
        BY <1>1, <2>1, <3>1, MeteredFetchAssumption
      <4> QED BY <4>1 DEF Reply
    <3>5. call'[c].reply # None /\ call'[c].reply.kind = "rows"
      BY <3>2, <3>4, MeteredFetchAssumption
    <3> QED BY <2>1, <3>5
  <2>2. CASE \E kind \in {"error200", "http_error"} :
               /\ call' = [call EXCEPT ![c].reply = [kind |-> kind, charge |-> None]]
               /\ UNCHANGED billed
    BY <1>1, <2>2 DEF Call
  <2>3. \/ \E charge \in Charges[q] :
             /\ call' = [call EXCEPT ![c].reply = [kind |-> "rows", charge |-> charge]]
             /\ billed' = [billed EXCEPT ![q] = @ + 1]
        \/ \E kind \in {"error200", "http_error"} :
             /\ call' = [call EXCEPT ![c].reply = [kind |-> kind, charge |-> None]]
             /\ UNCHANGED billed
    BY Zenon DEF VendorAnswers
  <2> QED BY Zenon, <2>1, <2>2, <2>3
<1> QED BY <1>5, <1>6, <1>7

LEMMA StoringKeepsAnswer ==
  ASSUME TypeOK, BillsInv, NEW c \in Callers, Persist(c) PROVE BillsInv'
<1> DEFINE q == call[c].question
           n == Len(raw) + 1
<1>1. /\ UNCHANGED <<billed, mishaps>> /\ q \in Questions
      /\ call[c].pc = "awaiting" /\ call[c].reply # None
      /\ OnlyMoves(c) /\ call'[c].pc = "stored"
      /\ Len(raw) \in Nat /\ DOMAIN raw = 1 .. Len(raw) /\ DOMAIN raw' = DOMAIN raw \cup {n}
      /\ \A i \in DOMAIN raw : raw'[i] = raw[i]
      /\ raw'[n].question = q
  <2>1. /\ UNCHANGED <<billed, mishaps>> /\ q \in Questions
        /\ call[c].pc = "awaiting" /\ call[c].reply # None
    BY DEF Persist, Accepted, TypeOK
  <2>2. NewRow(c).question = q
    BY DEF NewRow
  <2> HIDE DEF q, n
  <2> QED BY <2>1, <2>2, Stores, Fields DEF n
<1>2. AnswersInHand'
  BY <1>1 DEF BillsInv, AnswersInHand, OnlyMoves, Inside
<1>3. PaidAnswersHeld' = PaidAnswersHeld \ {c}
  BY <1>1, HeldIs DEF HoldsPaidAnswer, OnlyMoves, IsFree
<1>4. PaidRows' = IF IsFree(q) THEN PaidRows ELSE PaidRows \cup {n}
  BY <1>1 DEF PaidRows, IsFree
<1>5. PaidBills' = PaidBills
  BY <1>1 DEF PaidBills, IsFree
<1>6. CASE IsFree(q)
  <2>1. c \notin PaidAnswersHeld
    BY <1>6, HeldIs DEF HoldsPaidAnswer
  <2> QED BY <1>1, <1>2, <1>3, <1>4, <1>5, <1>6, <2>1 DEF BillsInv, PaidAnswersKept
<1>7. CASE ~IsFree(q)
  <2>1. q \in Validated
    BY <1>1, <1>7, MeteredFetchAssumption DEF IsFree
  <2>2. c \in PaidAnswersHeld
    BY <1>1, <1>7, <2>1, HeldIs DEF HoldsPaidAnswer, Persist, Accepted
  <2>3. n \notin PaidRows
    BY <1>1 DEF PaidRows
  <2>4. /\ Cardinality(PaidAnswersHeld \ {c}) = Cardinality(PaidAnswersHeld) - 1
        /\ Cardinality(PaidRows \cup {n}) = Cardinality(PaidRows) + 1
    BY <2>2, <2>3, Sizes, FS_AddElement, FS_RemoveElement
  <2> QED BY <1>1, <1>2, <1>3, <1>4, <1>5, <1>7, <2>4, Sizes DEF BillsInv, PaidAnswersKept
<1> QED BY <1>6, <1>7

\* A process that dies loses one paid answer at most: its calls take turns.
LEMMA CrashLosesOne ==
  ASSUME IInv, BillsInv, NEW h \in Hosts, Crash(h) PROVE BillsInv'
<1>1. \A c \in Callers : call'[c] = IF HostOf[c] = h THEN IdleCall ELSE call[c]
  BY DEF Crash
<1>2. IdleCall.pc = "idle" /\ IdleCall.reply = None
  BY DEF IdleCall
<1>3. AnswersInHand'
  BY <1>1, <1>2 DEF BillsInv, AnswersInHand
<1>4. PaidAnswersHeld' = {c \in PaidAnswersHeld : HostOf[c] # h}
  BY <1>1, <1>2, HeldIs DEF HoldsPaidAnswer, IsFree
<1>5. \A c, d \in PaidAnswersHeld : HostOf[c] = h /\ HostOf[d] = h => c = d
  <2>1. \A c \in PaidAnswersHeld : HostOf[c] = h => c \in PaidInside(h)
    BY HeldIs DEF HoldsPaidAnswer, PaidInside, InsideCalls, Inside
  <2> QED BY <2>1 DEF IInv, GuardsBalanced, PaidInside, InsideCalls
<1>6. \E c : PaidAnswersHeld' = PaidAnswersHeld \ {c}
  <2>1. CASE \E c \in PaidAnswersHeld : HostOf[c] = h
    BY <1>4, <1>5, <2>1
  <2>2. CASE ~\E c \in PaidAnswersHeld : HostOf[c] = h
    <3>1. PaidAnswersHeld \subseteq Callers
      BY HeldIs
    <3>2. PaidAnswersHeld' = PaidAnswersHeld \ {None}
      BY <1>4, <2>2, <3>1, MeteredFetchAssumption
    <3> QED BY <3>2
  <2> QED BY <2>1, <2>2
<1>7. UNCHANGED <<raw, billed>> /\ Mishap
  BY DEF Crash
<1> QED BY <1>3, <1>6, <1>7, FaultLosesOne DEF IInv, BillsInv

\* A call with no paid answer in hand moves, and takes none in hand.
LEMMA MovesEmptyHanded ==
  ASSUME TypeOK, BillsInv, NEW c \in Callers, OnlyMoves(c), UNCHANGED <<raw, billed, mishaps>>,
         ~HoldsPaidAnswer(c), call'[c].reply = None
  PROVE  BillsInv'
<1>1. AnswersInHand'
  BY DEF BillsInv, AnswersInHand, OnlyMoves
<1>2. PaidAnswersHeld' = PaidAnswersHeld
  BY HeldIs DEF HoldsPaidAnswer, OnlyMoves, IsFree
<1> QED BY <1>1, <1>2, BillsStay, Sizes DEF BillsInv

LEMMA FailsOnce ==
  ASSUME TypeOK, BillsInv, NEW c \in Callers, NEW outcome, Returns(c, outcome, 0),
         UNCHANGED <<raw, billed>>, Mishap
  PROVE  BillsInv'
<1>1. OnlyMoves(c) /\ call'[c].pc = "returned" /\ call'[c].reply = None
  BY DEF TypeOK, Returns, OnlyMoves, IdleCall
<1>2. AnswersInHand'
  BY <1>1 DEF BillsInv, AnswersInHand, OnlyMoves
<1>3. PaidAnswersHeld' = PaidAnswersHeld \ {c}
  BY <1>1, HeldIs DEF HoldsPaidAnswer, OnlyMoves, IsFree
<1> QED BY <1>2, <1>3, FaultLosesOne DEF BillsInv

LEMMA BillsStep == IInv /\ BillsInv /\ [Next]_fetchVars => BillsInv'
<1> SUFFICES ASSUME IInv, TypeOK, BillsInv, [Next]_fetchVars PROVE BillsInv'
  BY DEF IInv
<1>1. call \in [Callers -> Call]
  BY DEF TypeOK
<1>2. ASSUME NEW c \in Callers, NEW q \in Questions, NEW force \in BOOLEAN,
             NEW dry \in BOOLEAN, Begin(c, q, force, dry)
      PROVE  BillsInv'
  <2>1. OnlyMoves(c) /\ call'[c].reply = None /\ call[c].pc = "idle"
    BY <1>1, <1>2 DEF Begin, OnlyMoves, IdleCall
  <2> QED BY <1>2, <2>1, MovesEmptyHanded DEF Begin, HoldsPaidAnswer
<1>3. ASSUME NEW c \in Callers, NEW outcome, NEW row, Returns(c, outcome, row),
             UNCHANGED <<raw, billed, mishaps>>, ~HoldsPaidAnswer(c)
      PROVE  BillsInv'
  <2>1. OnlyMoves(c) /\ call'[c].reply = None
    BY <1>1, <1>3 DEF Returns, OnlyMoves, IdleCall
  <2> QED BY <1>3, <2>1, MovesEmptyHanded
<1>4. ASSUME NEW c \in Callers, Hit(c) PROVE BillsInv'
  BY <1>3, <1>4 DEF Hit, HoldsPaidAnswer
<1>5. ASSUME NEW c \in Callers, Decline(c) PROVE BillsInv'
  BY <1>3, <1>5 DEF Decline, HoldsPaidAnswer
<1>6. ASSUME NEW c \in Callers, NEW pc, call[c].pc \in {"lookup", "check", "waiting"},
             call' = [call EXCEPT ![c].pc = pc] \/ Miss(c), UNCHANGED <<raw, billed, mishaps>>
      PROVE  BillsInv'
  <2>1. OnlyMoves(c) /\ call'[c].reply = call[c].reply /\ ~HoldsPaidAnswer(c)
    BY <1>1, <1>6 DEF OnlyMoves, Call, Miss, HoldsPaidAnswer
  <2>2. call[c].reply = None
    BY <1>6 DEF BillsInv, AnswersInHand, Inside
  <2> QED BY <1>6, <2>1, <2>2, MovesEmptyHanded
<1>7. ASSUME NEW c \in Callers, Miss(c) \/ Approve(c) \/ Enter(c) PROVE BillsInv'
  BY <1>6, <1>7 DEF Miss, Approve, Enter
<1>8. ASSUME NEW c \in Callers, Reject(c) PROVE BillsInv'
  BY <1>3, <1>8 DEF Reject, HoldsPaidAnswer
<1>9. ASSUME NEW c \in Callers, Project(c) PROVE BillsInv'
  BY <1>3, <1>9 DEF Project, HoldsPaidAnswer
<1>10. ASSUME NEW c \in Callers, Return(c) PROVE BillsInv'
  <2>1. OnlyMoves(c) /\ call'[c].reply = None /\ call[c].pc = "returned"
    BY <1>1, <1>10 DEF Return, OnlyMoves, IdleCall
  <2> QED BY <1>10, <2>1, MovesEmptyHanded DEF Return, HoldsPaidAnswer
<1>11. ASSUME NEW c \in Callers, Fault(c) PROVE BillsInv'
  BY <1>11, FailsOnce DEF Fault, LoseAnswer, PersistBusy, Escape, Cancel
<1>12. CASE Tick \/ UNCHANGED fetchVars
  <2>1. UNCHANGED <<raw, call, billed, mishaps>>
    BY <1>12 DEF Tick, fetchVars
  <2>2. AnswersInHand' /\ PaidAnswersHeld' = PaidAnswersHeld
    BY <2>1, HeldIs DEF BillsInv, AnswersInHand, HoldsPaidAnswer
  <2> QED BY <2>1, <2>2, BillsStay, Sizes DEF BillsInv
<1> QED
  BY <1>2, <1>4, <1>5, <1>7, <1>8, <1>9, <1>10, <1>11, <1>12, AnswerIsCounted,
     StoringKeepsAnswer, CrashLosesOne DEF Next, Proceed

\* Each paid answer is a row or in the hands of a call, but for one per fault, and no
\* row is stored that was not paid for.
THEOREM NoPaidAnswerLost == Spec => []PaidAnswersKept
<1>1. Init => BillsInv
  <2> SUFFICES ASSUME Init PROVE BillsInv
    OBVIOUS
  <2>1. AnswersInHand /\ PaidRows = {} /\ PaidAnswersHeld = {}
    BY HeldIs DEF Init, AnswersInHand, IdleCall, PaidRows, HoldsPaidAnswer
  <2>2. PaidBills = 0
    <3>1. IsFiniteSet({q \in Questions : ~IsFree(q)})
      BY MeteredFetchAssumption, FS_Subset
    <3>2. \A q \in {p \in Questions : ~IsFree(p)} : billed[q] = 0
      BY DEF Init
    <3> QED BY <3>1, <3>2, SumOfZeros DEF PaidBills
  <2>3. mishaps = 0
    BY DEF Init
  <2> QED BY <2>1, <2>2, <2>3, FS_EmptySet DEF BillsInv, PaidAnswersKept
<1>2. BillsInv => PaidAnswersKept
  BY DEF BillsInv
<1> QED BY <1>1, <1>2, BillsStep, Invariance, PTL DEF Spec

-----------------------------------------------------------------------------
(* The ledger of the month *)

\* A finite set of integers is bounded, and a bounded one has a maximum.
LEMMA FiniteIsBounded ==
  ASSUME NEW S, IsFiniteSet(S), S \subseteq Int
  PROVE  \E b \in Nat : \A x \in S : x <= b
<1> DEFINE T == {m \in Nat : \A s \in SUBSET S : Cardinality(s) = m =>
                              \E b \in Nat : \A x \in s : x <= b}
<1>1. \A s \in SUBSET S : /\ IsFiniteSet(s) /\ Cardinality(s) \in Nat
                          /\ Cardinality(s) = 0 => s = {}
                          /\ \A x \in s : Cardinality(s \ {x}) = Cardinality(s) - 1
  <2> TAKE s \in SUBSET S
  <2>1. IsFiniteSet(s) /\ Cardinality(s) \in Nat
    BY FS_Subset, FS_CardinalityType
  <2> QED BY <2>1, FS_EmptySet, FS_RemoveElement
<1>2. 0 \in T
  BY <1>1
<1>3. \A n \in Nat : n \in T => n + 1 \in T
  <2> SUFFICES ASSUME NEW n \in Nat, n \in T PROVE n + 1 \in T
    OBVIOUS
  <2> SUFFICES ASSUME NEW s \in SUBSET S, Cardinality(s) = n + 1
               PROVE  \E b \in Nat : \A x \in s : x <= b
    OBVIOUS
  <2>1. CASE s = {}
    BY <2>1
  <2>2. CASE s # {}
    <3>1. PICK y \in s : TRUE
      BY <2>2
    <3>2. s \ {y} \in SUBSET S /\ Cardinality(s \ {y}) = n
      BY <1>1, <3>1
    <3>3. PICK b \in Nat : \A x \in s \ {y} : x <= b
      BY <3>2
    <3>4. PICK b2 \in Nat : b <= b2 /\ y <= b2
      <4>1. CASE y <= b
        BY <4>1
      <4>2. CASE b < y
        <5>1. y \in Nat /\ b <= y /\ y <= y
          BY <4>2, <3>1
        <5> QED BY <5>1
      <4> QED BY <4>1, <4>2, <3>1
    <3>5. \A x \in s : x <= b2
      BY <3>3, <3>4
    <3> QED BY <3>5
  <2> QED BY <2>1, <2>2
<1>4. Cardinality(S) \in T
  <2>1. Cardinality(S) \in Nat
    BY <1>1
  <2> HIDE DEF T
  <2> QED BY <1>2, <1>3, <2>1, NatSetInduction
<1> QED BY <1>4

LEMMA MaxIsMax ==
  ASSUME NEW S, S \subseteq Int, S # {}, NEW b \in Int, \A x \in S : x <= b
  PROVE  Max(S) \in S /\ \A x \in S : x <= Max(S)
<1> DEFINE Gaps == {n \in Nat : \E x \in S : x + n = b}
<1>1. \A x \in S : b - x \in Gaps
  <2> TAKE x \in S
  <2>1. b - x \in Nat /\ x + (b - x) = b
    OBVIOUS
  <2> QED BY <2>1
<1>0. Gaps \subseteq Nat /\ Gaps # {}
  BY <1>1
<1>2. \E n \in Gaps : \A m \in Gaps : ~(<<m, n>> \in OpToRel(<, Nat))
  <2> HIDE DEF Gaps
  <2> QED BY <1>0, NatLessThanWellFounded, WFMin
<1>3. PICK n \in Gaps : \A m \in Gaps : ~(m < n)
  BY <1>2 DEF OpToRel
<1>4. PICK y \in S : y + n = b
  BY <1>3
<1>5. \A x \in S : y >= x
  <2> TAKE x \in S
  <2>1. ~(b - x < n)
    BY <1>1, <1>3
  <2> QED BY <1>3, <1>4, <2>1
<1>6. \E z \in S : \A x \in S : z >= x
  BY <1>5
<1>7. Max(S) \in S /\ \A x \in S : Max(S) >= x
  BY <1>6 DEF Max
<1> QED BY <1>7

\* The ledger's constants: the dearest charge, and the furthest above its estimate.
Dearest == Max(UNION {Costs(q) : q \in Questions})
Furthest == Max(UNION {{k - Estimate[q] : k \in Costs(q)} : q \in Questions})

LEMMA ChargeBounds ==
  /\ Dearest \in Nat /\ Furthest \in Nat
  /\ \A q \in Questions : \A k \in Costs(q) :
       /\ k \in Nat /\ Estimate[q] \in Nat /\ Estimate[q] \in Costs(q)
       /\ k <= Dearest /\ k <= Estimate[q] + Furthest
  /\ \E q \in Questions : \E k \in Costs(q) : Furthest = k - Estimate[q]
<1> DEFINE Bound(q) == CHOOSE b \in Nat : \A k \in Costs(q) : k <= b
           f == [q \in Questions |-> Bound(q)]
           R == {f[q] : q \in Questions}
<1>1. ASSUME NEW q \in Questions
      PROVE  /\ Costs(q) \subseteq Nat /\ Estimate[q] \in Costs(q)
             /\ Bound(q) \in Nat /\ \A k \in Costs(q) : k <= Bound(q)
  <2>1. /\ Charges[q] \subseteq Nat \cup {None} /\ IsFiniteSet(Charges[q])
        /\ Estimate[q] \in Nat
    BY MeteredFetchAssumption
  <2>2. Costs(q) \subseteq Nat /\ Estimate[q] \in Costs(q)
    BY <2>1 DEF Costs
  <2>3. IsFiniteSet(Costs(q))
    <3>1. IsFiniteSet(Charges[q] \ {None})
      BY <2>1, FS_RemoveElement
    <3>2. Costs(q) = (Charges[q] \ {None}) \cup {Estimate[q]}
      BY DEF Costs
    <3> QED BY <3>1, <3>2, FS_AddElement
  <2>4. \E b \in Nat : \A k \in Costs(q) : k <= b
    BY <2>2, <2>3, FiniteIsBounded
  <2> QED BY <2>2, <2>4
<1> HIDE DEF Bound
<1>2. IsFiniteSet(R) /\ R \subseteq Int
  <2>1. f \in Surjection(Questions, R)
    BY DEF Surjection
  <2> QED BY <1>1, <2>1, MeteredFetchAssumption, FS_Surjection
<1>3. PICK b \in Nat : \A q \in Questions : \A k \in Costs(q) : k <= b
  <2>1. PICK b \in Nat : \A x \in R : x <= b
    BY <1>2, FiniteIsBounded
  <2>2. \A q \in Questions : Bound(q) <= b
    BY <2>1
  <2>3. ASSUME NEW q \in Questions, NEW k \in Costs(q) PROVE k <= b
    BY <1>1, <2>2
  <2> QED BY <2>3
<1>4. PICK p \in Questions : TRUE
  BY MeteredFetchAssumption
<1>5. LET S == UNION {Costs(q) : q \in Questions}
      IN  S \subseteq Nat /\ S # {} /\ \A x \in S : x <= b
  BY <1>1, <1>3, <1>4
<1>6. Dearest \in Nat /\ \A q \in Questions : \A k \in Costs(q) : k <= Dearest
  BY <1>5, MaxIsMax DEF Dearest
<1>7. LET S == UNION {{k - Estimate[q] : k \in Costs(q)} : q \in Questions}
      IN  S \subseteq Int /\ 0 \in S /\ \A x \in S : x <= b
  <2> DEFINE S == UNION {{k - Estimate[q] : k \in Costs(q)} : q \in Questions}
  <2>1. Estimate[p] - Estimate[p] = 0 /\ Estimate[p] \in Costs(p)
    BY <1>1, MeteredFetchAssumption
  <2>2. 0 \in S
    BY <2>1
  <2>3. ASSUME NEW x \in S PROVE x \in Int /\ x <= b
    <3>1. PICK q \in Questions : \E k \in Costs(q) : x = k - Estimate[q]
      OBVIOUS
    <3>2. PICK k \in Costs(q) : x = k - Estimate[q]
      BY <3>1
    <3>3. k \in Nat /\ Estimate[q] \in Nat /\ k <= b
      BY <1>1, <1>3, MeteredFetchAssumption
    <3> QED BY <3>2, <3>3
  <2> QED BY <2>2, <2>3
<1>8. /\ Furthest \in Nat /\ \A q \in Questions : \A k \in Costs(q) : k - Estimate[q] <= Furthest
      /\ \E q \in Questions : \E k \in Costs(q) : Furthest = k - Estimate[q]
  <2> DEFINE S == UNION {{k - Estimate[q] : k \in Costs(q)} : q \in Questions}
  <2>1. S \subseteq Int /\ 0 \in S /\ \A x \in S : x <= b
    BY <1>7
  <2>2. \A q \in Questions : \A k \in Costs(q) : k - Estimate[q] \in S
    OBVIOUS
  <2>3. Furthest = Max(S)
    BY DEF Furthest
  <2> HIDE DEF S
  <2>4. Furthest \in S /\ \A x \in S : x <= Furthest
    <3>1. S # {} /\ b \in Int
      BY <2>1
    <3> QED BY <2>1, <2>3, <3>1, MaxIsMax
  <2>5. Furthest >= 0 /\ Furthest \in Int
    BY <2>1, <2>4
  <2>6. Furthest \in Nat
    BY <2>5
  <2>7. ASSUME NEW q \in Questions, NEW k \in Costs(q) PROVE k - Estimate[q] <= Furthest
    BY <2>2, <2>4
  <2>8. \E q \in Questions : \E k \in Costs(q) : Furthest = k - Estimate[q]
    <3> PICK x \in S : Furthest = x
      BY <2>4
    <3> USE DEF S
    <3> PICK q \in Questions : \E k \in Costs(q) : x = k - Estimate[q]
      OBVIOUS
    <3> QED OBVIOUS
  <2> QED BY <2>6, <2>7, <2>8
<1>9. ASSUME NEW q \in Questions, NEW k \in Costs(q)
      PROVE  /\ k \in Nat /\ Estimate[q] \in Nat /\ Estimate[q] \in Costs(q)
             /\ k <= Dearest /\ k <= Estimate[q] + Furthest
  BY <1>1, <1>6, <1>8, MeteredFetchAssumption
<1> QED BY <1>6, <1>8, <1>9

\* No vendor charges more for a question than was predicted.
QuotesKept == \A q \in Questions : \A k \in Costs(q) : k <= Estimate[q]

LEMMA QuotesKeptNoOverrun == QuotesKept => Furthest = 0
<1> SUFFICES ASSUME QuotesKept PROVE Furthest <= 0
  BY ChargeBounds
<1> PICK q \in Questions : \E k \in Costs(q) : Furthest = k - Estimate[q]
  BY ChargeBounds
<1> PICK k \in Costs(q) : Furthest = k - Estimate[q]
  OBVIOUS
<1> QED BY ChargeBounds DEF QuotesKept

LEMMA LedgerConstants ==
  /\ IsFiniteSet(Callers) /\ Callers # {}
  /\ Ceiling \in Nat /\ Dearest \in Nat /\ Furthest \in Nat
BY ChargeBounds, MeteredFetchAssumption
-----------------------------------------------------------------------------

LEMMA RemainderIs ==
  ASSUME NEW m \in Nat, m > 0, NEW a \in Int, NEW r \in 0 .. (m - 1), NEW n \in Int,
         n = m * a + r
  PROVE  n % m = r
<1> DEFINE b == n \div m
           s == n % m
<1>1. b \in Int /\ s \in 0 .. (m - 1) /\ n = m * b + s
  OBVIOUS
<1> HIDE DEF b, s
<1>2. \A x, y \in Int : x < y => m * x + m <= m * y
  <2> SUFFICES ASSUME NEW x \in Int, NEW y \in Int, x < y PROVE m * x + m <= m * y
    OBVIOUS
  <2>1. PICK k \in Nat : y = x + 1 + k
    <3>1. y - (x + 1) \in Nat /\ y = x + 1 + (y - (x + 1))
      OBVIOUS
    <3> QED BY <3>1
  <2>2. m * y = m * x + m + m * k /\ m * k \in Nat /\ m * x \in Int
    BY <2>1
  <2> QED BY <2>2
<1>3. m * a \in Int /\ m * b \in Int
  BY <1>1
<1>4. a = b
  BY <1>1, <1>2, <1>3
<1>5. s = r
  BY <1>1, <1>3, <1>4
<1> QED BY <1>5 DEF s

\* The start of the month stays where it is until the clock reaches the next one.
LEMMA MonthTurns ==
  ASSUME TypeOK, now' = now + 1
  PROVE  /\ MonthStart \in Int /\ MonthStart <= now
         /\ MonthStart' = MonthStart \/ MonthStart' = now + 1
<1> DEFINE M == MonthLength
           r == now % M
           d == now \div M
<1>1. now \in Nat /\ M \in Nat /\ M > 0
  BY MeteredFetchAssumption DEF TypeOK
<1>2. r \in 0 .. (M - 1) /\ d \in Int /\ now = M * d + r
  BY <1>1
<1>3. CASE r + 1 < M
  <2>1. now + 1 = M * d + (r + 1)
    BY <1>1, <1>2
  <2>2. (now + 1) % M = r + 1
    BY <1>1, <1>2, <1>3, <2>1, RemainderIs
  <2> QED BY <1>1, <1>2, <2>2 DEF MonthStart
<1>4. CASE r + 1 = M
  <2>1. now + 1 = M * (d + 1) + 0
    BY <1>1, <1>2, <1>4
  <2>2. (now + 1) % M = 0
    <3>1. 0 \in 0 .. (M - 1) /\ d + 1 \in Int /\ now + 1 \in Int
      BY <1>1, <1>2
    <3> HIDE DEF M, d
    <3> QED BY <1>1, <2>1, <3>1, RemainderIs
  <2> QED BY <1>1, <1>2, <2>2 DEF MonthStart
<1> QED BY <1>1, <1>2, <1>3, <1>4

-----------------------------------------------------------------------------

CostOf == [i \in DOMAIN raw |-> raw[i].cost]
ThisMonth == {i \in DOMAIN raw : raw[i].at >= MonthStart}

LEMMA SpentIs == /\ SpentThisMonth = SumFunctionOnSet(CostOf, ThisMonth)
                 /\ SpentThisMonth' = SumFunctionOnSet(CostOf', ThisMonth')
BY DEF SpentThisMonth, CostOf, ThisMonth

LEMMA SpentIsNat ==
  ASSUME TypeOK
  PROVE  /\ IsFiniteSet(ThisMonth) /\ ThisMonth \subseteq DOMAIN raw
         /\ \A i \in ThisMonth : CostOf[i] \in Nat
         /\ SpentThisMonth \in Nat
<1>1. IsFiniteSet(1 .. Len(raw))
  BY Fields, FS_Interval
<1>2. ThisMonth \subseteq 1 .. Len(raw)
  BY Fields DEF ThisMonth
<1>3. \A i \in ThisMonth : CostOf[i] \in Nat
  BY Fields DEF ThisMonth, CostOf
<1>4. IsFiniteSet(ThisMonth)
  BY <1>1, <1>2, FS_Subset
<1> QED BY <1>2, <1>3, <1>4, SpentIs, SumIsNat, Fields

\* A row stored now counts against this month.
LEMMA SpentGrows ==
  ASSUME TypeOK, NEW c \in Callers, Persist(c)
  PROVE  SpentThisMonth' = SpentThisMonth + NewRow(c).cost
<1> DEFINE n == Len(raw) + 1
<1>1. /\ now' = now /\ now \in Nat /\ MonthStart' = MonthStart
      /\ DOMAIN raw' = DOMAIN raw \cup {n} /\ n \notin DOMAIN raw
      /\ \A i \in DOMAIN raw : raw'[i] = raw[i]
      /\ raw'[n] = NewRow(c) /\ NewRow(c) \in Row
  <2>1. now' = now
    BY DEF Persist
  <2>2. MonthStart' = MonthStart
    BY <2>1 DEF MonthStart
  <2>3. n \notin DOMAIN raw
    BY Fields
  <2> QED BY <2>1, <2>2, <2>3, Stores, Fields
<1>2. NewRow(c).at = now /\ NewRow(c).cost \in Nat
  <2>1. \A r \in Row : r.cost \in Nat
    BY DEF Row
  <2> QED BY <1>1, <2>1 DEF NewRow
<1>3. MonthStart \in Int /\ MonthStart <= now
  <2>1. now % MonthLength \in Nat
    BY <1>1, MeteredFetchAssumption
  <2> QED BY <1>1, <2>1 DEF MonthStart
<1>4. ThisMonth' = ThisMonth \cup {n}
  BY <1>1, <1>2, <1>3 DEF ThisMonth
<1>5. /\ \A i \in ThisMonth : CostOf'[i] = CostOf[i]
      /\ CostOf'[n] = NewRow(c).cost /\ n \notin ThisMonth
  BY <1>1 DEF ThisMonth, CostOf
<1>6. SumFunctionOnSet(CostOf', ThisMonth \cup {n})
        = SumFunctionOnSet(CostOf', ThisMonth) + CostOf'[n]
  <2>1. \A i \in ThisMonth \cup {n} : CostOf'[i] \in Nat
    BY <1>2, <1>5, SpentIsNat
  <2> HIDE DEF n
  <2> QED BY <1>5, <2>1, SpentIsNat, SumAdds
<1>7. SumFunctionOnSet(CostOf', ThisMonth) = SumFunctionOnSet(CostOf, ThisMonth)
  BY <1>5, SpentIsNat, SumAgrees
<1> QED BY <1>4, <1>5, <1>6, <1>7, SpentIs

\* Time passes within the month, or the new one starts with nothing spent.
LEMMA SpentOverTime ==
  ASSUME TypeOK, RowsInOrder, Tick
  PROVE  SpentThisMonth' = SpentThisMonth \/ SpentThisMonth' = 0
<1>1. now' = now + 1 /\ raw' = raw /\ now \in Nat /\ CostOf' = CostOf
  BY Fields DEF Tick, CostOf
<1>2. CASE MonthStart' = MonthStart
  BY <1>1, <1>2, SpentIs DEF ThisMonth
<1>3. CASE MonthStart' = now + 1
  <2>1. \A i \in DOMAIN raw : raw[i].at <= now /\ raw[i].at \in Nat
    BY Fields DEF RowsInOrder
  <2>2. ThisMonth' = {}
    BY <1>1, <1>3, <2>1 DEF ThisMonth
  <2> QED BY <2>2, SpentIs, SumOfNothing
<1> QED BY <1>1, <1>2, <1>3, MonthTurns

-----------------------------------------------------------------------------

\* The charge a call holds is one the vendor makes for its question.
RepliesPriced ==
  \A c \in Callers : call[c].reply # None =>
    call[c].reply.charge \in Charges[call[c].question] \cup {None}

LEMMA RepliesStep == TypeOK /\ RepliesPriced /\ [Next]_fetchVars => RepliesPriced'
<1> SUFFICES ASSUME TypeOK, RepliesPriced, [Next]_fetchVars PROVE RepliesPriced'
  OBVIOUS
<1>1. call \in [Callers -> Call]
  BY DEF TypeOK
<1>2. ASSUME NEW c \in Callers, OnlyMoves(c),
             \/ call'[c].reply = None
             \/ /\ call'[c].question = call[c].question
                /\ \/ call'[c].reply = call[c].reply
                   \/ call'[c].reply.charge \in Charges[call[c].question] \cup {None}
      PROVE  RepliesPriced'
  BY <1>2 DEF RepliesPriced, OnlyMoves
<1>3. ASSUME NEW c \in Callers, NEW outcome, NEW row, Returns(c, outcome, row)
      PROVE  RepliesPriced'
  <2>1. OnlyMoves(c) /\ call'[c].reply = None
    BY <1>1, <1>3 DEF Returns, OnlyMoves, IdleCall
  <2> QED BY <1>2, <2>1
<1>4. ASSUME NEW c \in Callers, NEW q \in Questions, NEW force \in BOOLEAN,
             NEW dry \in BOOLEAN, Begin(c, q, force, dry)
      PROVE  RepliesPriced'
  <2>1. OnlyMoves(c) /\ call'[c].reply = None
    BY <1>1, <1>4 DEF Begin, OnlyMoves, IdleCall
  <2> QED BY <1>2, <2>1
<1>5. ASSUME NEW c \in Callers, Hit(c) \/ Decline(c) \/ Reject(c) \/ Project(c) \/ Fault(c)
      PROVE  RepliesPriced'
  BY <1>3, <1>5 DEF Hit, Decline, Reject, Project, Fault, LoseAnswer, PersistBusy, Escape, Cancel
<1>6. ASSUME NEW c \in Callers, Miss(c) \/ Persist(c) PROVE RepliesPriced'
  <2>1. OnlyMoves(c) /\ call'[c].reply = call[c].reply /\ call'[c].question = call[c].question
    BY <1>1, <1>6 DEF Miss, Persist, OnlyMoves, Call
  <2> QED BY <1>2, <2>1
<1>7. ASSUME NEW c \in Callers, NEW pc, call' = [call EXCEPT ![c].pc = pc]
      PROVE  RepliesPriced'
  <2>1. OnlyMoves(c) /\ call'[c].reply = call[c].reply /\ call'[c].question = call[c].question
    BY <1>1, <1>7 DEF OnlyMoves, Call
  <2> QED BY <1>2, <2>1
<1>8. ASSUME NEW c \in Callers, Approve(c) \/ Enter(c) PROVE RepliesPriced'
  BY <1>7, <1>8 DEF Approve, Enter
<1>9. ASSUME NEW c \in Callers, VendorAnswers(c) PROVE RepliesPriced'
  <2>1. PICK kind, charge :
             /\ charge \in Charges[call[c].question] \cup {None}
             /\ call' = [call EXCEPT ![c].reply = [kind |-> kind, charge |-> charge]]
    <3>1. CASE \E charge \in Charges[call[c].question] :
                 call' = [call EXCEPT ![c].reply = [kind |-> "rows", charge |-> charge]]
      BY <3>1
    <3>2. CASE \E kind \in {"error200", "http_error"} :
                 call' = [call EXCEPT ![c].reply = [kind |-> kind, charge |-> None]]
      BY <3>2
    <3> QED BY <1>9, <3>1, <3>2 DEF VendorAnswers
  <2>2. /\ OnlyMoves(c) /\ call'[c].question = call[c].question
        /\ call'[c].reply = [kind |-> kind, charge |-> charge]
    BY <1>1, <2>1 DEF OnlyMoves, Call
  <2> QED BY <1>2, <2>1, <2>2
<1>10. ASSUME NEW c \in Callers, Return(c) PROVE RepliesPriced'
  <2>1. OnlyMoves(c) /\ call'[c].reply = None
    BY <1>1, <1>10 DEF Return, OnlyMoves, IdleCall
  <2> QED BY <1>2, <2>1
<1>11. ASSUME NEW h \in Hosts, Crash(h) PROVE RepliesPriced'
  <2>1. \A c \in Callers : call'[c] \in {call[c], IdleCall}
    BY <1>11 DEF Crash
  <2>2. IdleCall.reply = None
    BY DEF IdleCall
  <2> QED BY <2>1, <2>2 DEF RepliesPriced
<1>12. CASE Tick \/ UNCHANGED fetchVars
  BY <1>12 DEF Tick, fetchVars, RepliesPriced
<1> QED
  BY <1>4, <1>5, <1>6, <1>8, <1>9, <1>10, <1>11, <1>12 DEF Next, Proceed

-----------------------------------------------------------------------------

\* The estimate each caller was let through with.
Approved == [c \in Callers |->
               IF call[c].pc \in {"waiting", "awaiting"} THEN Estimate[call[c].question] ELSE 0]

\* A caller that is not let through moves, to where it is not let through either.
LEMMA ApprovedStays ==
  ASSUME NEW c \in Callers, OnlyMoves(c),
         \/ /\ call[c].pc \notin {"waiting", "awaiting"}
            /\ call'[c].pc \notin {"waiting", "awaiting"}
         \/ /\ call[c].pc \in {"waiting", "awaiting"} /\ call'[c].pc \in {"waiting", "awaiting"}
            /\ call'[c].question = call[c].question
  PROVE  Approved' = Approved
<1>1. \A d \in Callers : Approved'[d] = Approved[d]
  BY DEF Approved, OnlyMoves
<1> QED BY <1>1 DEF Approved

LEMMA LedgerStays ==
  ASSUME UNCHANGED <<now, raw>>, Approved' = Approved
  PROVE  UNCHANGED Ledger!ledgerVars
BY DEF Ledger!ledgerVars, SpentThisMonth, MonthStart, Approved

LEMMA ReturnDrops ==
  ASSUME TypeOK, NEW c \in Callers, NEW outcome, NEW row, Returns(c, outcome, row),
         UNCHANGED <<now, raw>>
  PROVE  Ledger!Drop({c})
<1>1. OnlyMoves(c) /\ call'[c].pc = "returned"
  BY DEF TypeOK, Returns, OnlyMoves, IdleCall
<1>2. \A d \in Callers : Approved'[d] = IF d \in {c} THEN 0 ELSE Approved[d]
  BY <1>1 DEF Approved, OnlyMoves
<1>3. Approved' = [d \in Callers |-> IF d \in {c} THEN 0 ELSE Approved[d]]
  BY <1>2 DEF Approved
<1>4. SpentThisMonth' = SpentThisMonth
  BY DEF SpentThisMonth, MonthStart
<1> QED BY <1>3, <1>4 DEF Ledger!Drop, Approved

LEMMA CrashDrops ==
  ASSUME NEW h \in Hosts, Crash(h)
  PROVE  \E group \in SUBSET Callers : Ledger!Drop(group)
<1> DEFINE group == {c \in Callers : HostOf[c] = h}
<1>1. /\ \A c \in Callers : call'[c] = IF HostOf[c] = h THEN IdleCall ELSE call[c]
      /\ IdleCall.pc = "idle" /\ UNCHANGED <<now, raw>>
  BY DEF Crash, IdleCall
<1>2. \A d \in Callers : Approved'[d] = IF d \in group THEN 0 ELSE Approved[d]
  BY <1>1 DEF Approved
<1>3. Approved' = [d \in Callers |-> IF d \in group THEN 0 ELSE Approved[d]]
  BY <1>2 DEF Approved
<1>4. SpentThisMonth' = SpentThisMonth
  BY <1>1 DEF SpentThisMonth, MonthStart
<1>5. Ledger!Drop(group)
  BY <1>3, <1>4 DEF Ledger!Drop, Approved
<1> QED BY <1>5

\* A call through the ceiling check is the ledger's approval, when it costs anything.
LEMMA ApproveMaps ==
  ASSUME TypeOK, NEW c \in Callers, Approve(c)
  PROVE  \/ \E e \in 1 .. Dearest : Ledger!Approve(c, e)
         \/ UNCHANGED Ledger!ledgerVars
<1> DEFINE q == call[c].question
<1>1. /\ call[c].pc = "check" /\ q \in Questions /\ ~Breaches(q) /\ UNCHANGED <<now, raw>>
      /\ call \in [Callers -> Call]
  BY DEF Approve, TypeOK
<1>2. /\ OnlyMoves(c) /\ call'[c].pc \in {"waiting", "awaiting"} /\ call'[c].question = q
  BY <1>1 DEF Approve, OnlyMoves, Call
<1>3. /\ \A d \in Callers : Approved'[d] = IF d = c THEN Estimate[q] ELSE Approved[d]
      /\ Approved[c] = 0
  BY <1>1, <1>2 DEF Approved, OnlyMoves
<1>4. Estimate[q] \in Nat /\ Estimate[q] <= Dearest /\ SpentThisMonth' = SpentThisMonth
  <2>1. SpentThisMonth' = SpentThisMonth
    BY <1>1 DEF SpentThisMonth, MonthStart
  <2>2. Estimate[q] \in Costs(q)
    BY DEF Costs
  <2> HIDE DEF q
  <2> QED BY <1>1, <2>1, <2>2, ChargeBounds
<1>5. CASE IsFree(q)
  <2>1. \A d \in Callers : Approved'[d] = Approved[d]
    BY <1>3, <1>5 DEF IsFree
  <2>2. Approved' = Approved
    BY <2>1 DEF Approved
  <2> QED BY <1>1, <2>2, LedgerStays
<1>6. CASE ~IsFree(q)
  <2> PICK e : e = Estimate[q]
    OBVIOUS
  <2>1. SpentThisMonth + e <= Ceiling
    BY <1>1, <1>4, <1>6, SpentIsNat, MeteredFetchAssumption DEF Breaches
  <2>2. Approved' = [Approved EXCEPT ![c] = e]
    BY <1>3 DEF Approved
  <2>3. e \in 1 .. Dearest
    BY <1>4, <1>6, ChargeBounds DEF IsFree
  <2>4. Ledger!Approve(c, e)
    BY <1>3, <1>4, <2>1, <2>2 DEF Ledger!Approve, Approved
  <2> QED BY <2>3, <2>4
<1> QED BY <1>5, <1>6

\* A row that cost something is the ledger's record of an approval.
LEMMA PersistMaps ==
  ASSUME TypeOK, RepliesPriced, NEW c \in Callers, Persist(c)
  PROVE  \/ \E k \in 0 .. Dearest : Ledger!Record(c, k)
         \/ UNCHANGED Ledger!ledgerVars
<1> DEFINE q == call[c].question
<1> PICK k : k = NewRow(c).cost
  OBVIOUS
<1>1. /\ call[c].pc = "awaiting" /\ q \in Questions /\ call[c].reply # None
      /\ OnlyMoves(c) /\ call'[c].pc = "stored"
  BY Stores DEF Persist, Accepted, TypeOK
<1>2. /\ \A d \in Callers : Approved'[d] = IF d = c THEN 0 ELSE Approved[d]
      /\ Approved[c] = Estimate[q]
  BY <1>1 DEF Approved, OnlyMoves
<1>3. k \in Costs(q)
  BY <1>1 DEF RepliesPriced, NewRow, Cost, Costs
<1>4. k \in 0 .. Dearest /\ k <= Estimate[q] + Furthest /\ Estimate[q] \in Nat
  BY <1>1, <1>3, ChargeBounds
<1>5. SpentThisMonth' = SpentThisMonth + k
  BY SpentGrows
<1>6. CASE IsFree(q)
  <2>1. k = 0
    BY <1>1, <1>3, <1>6, MeteredFetchAssumption DEF Costs, IsFree
  <2>2. SpentThisMonth' = SpentThisMonth
    BY <1>5, <2>1, SpentIsNat
  <2>3. \A d \in Callers : Approved'[d] = Approved[d]
    BY <1>2, <1>6 DEF IsFree
  <2>4. Approved' = Approved
    BY <2>3 DEF Approved
  <2> QED BY <2>2, <2>4 DEF Ledger!ledgerVars, Approved
<1>7. CASE ~IsFree(q)
  <2>1. Approved' = [Approved EXCEPT ![c] = 0]
    BY <1>2 DEF Approved
  <2>2. c \in Ledger!Pending
    BY <1>2, <1>7 DEF Ledger!Pending, Approved, IsFree
  <2>3. Ledger!Record(c, k)
    BY <1>2, <1>4, <1>5, <2>1, <2>2 DEF Ledger!Record, Approved, Furthest
  <2> QED BY <1>4, <2>3
<1> QED BY <1>6, <1>7

\* Every step of fetch is a step of the ledger, or none of its business.
LEMMA LedgerStep ==
  ASSUME TypeOK, RowsInOrder, RepliesPriced, [Next]_fetchVars
  PROVE  [Ledger!LedgerNext]_Ledger!ledgerVars
<1>1. call \in [Callers -> Call]
  BY DEF TypeOK
<1>2. ASSUME NEW c \in Callers, Hit(c) \/ Decline(c) \/ Reject(c) \/ Project(c) \/ Fault(c)
      PROVE  \E group \in SUBSET Callers : Ledger!Drop(group)
  <2>1. Ledger!Drop({c})
    BY <1>2, ReturnDrops
       DEF Hit, Decline, Reject, Project, Fault, LoseAnswer, PersistBusy, Escape, Cancel
  <2> QED BY <2>1
<1>3. ASSUME NEW c \in Callers, NEW q \in Questions, NEW force \in BOOLEAN,
             NEW dry \in BOOLEAN, Begin(c, q, force, dry)
      PROVE  UNCHANGED Ledger!ledgerVars
  <2>1. OnlyMoves(c) /\ call[c].pc = "idle" /\ call'[c].pc = "lookup"
    BY <1>1, <1>3 DEF Begin, OnlyMoves, IdleCall
  <2> QED BY <1>3, <2>1, ApprovedStays, LedgerStays DEF Begin
<1>4. ASSUME NEW c \in Callers, Miss(c) PROVE UNCHANGED Ledger!ledgerVars
  <2>1. OnlyMoves(c) /\ call[c].pc = "lookup" /\ call'[c].pc = "check"
    BY <1>1, <1>4 DEF Miss, OnlyMoves, Call
  <2> QED BY <1>4, <2>1, ApprovedStays, LedgerStays DEF Miss
<1>5. ASSUME NEW c \in Callers, Enter(c) PROVE UNCHANGED Ledger!ledgerVars
  <2>1. OnlyMoves(c) /\ call'[c].pc = "awaiting" /\ call'[c].question = call[c].question
    BY <1>1, <1>5 DEF Enter, OnlyMoves, Call
  <2> QED BY <1>5, <2>1, ApprovedStays, LedgerStays DEF Enter
<1>6. ASSUME NEW c \in Callers, VendorAnswers(c) PROVE UNCHANGED Ledger!ledgerVars
  <2>1. OnlyMoves(c) /\ call'[c].pc = call[c].pc /\ call'[c].question = call[c].question
    BY <1>1, <1>6 DEF VendorAnswers, OnlyMoves, Call
  <2> QED BY <1>6, <2>1, ApprovedStays, LedgerStays DEF VendorAnswers
<1>7. ASSUME NEW c \in Callers, Return(c) PROVE UNCHANGED Ledger!ledgerVars
  <2>1. OnlyMoves(c) /\ call[c].pc = "returned" /\ call'[c].pc = "idle"
    BY <1>1, <1>7 DEF Return, OnlyMoves, IdleCall
  <2> QED BY <1>7, <2>1, ApprovedStays, LedgerStays DEF Return
<1>8. CASE Tick
  <2>1. Approved' = Approved
    BY <1>8 DEF Tick, Approved
  <2>2. CASE SpentThisMonth' = SpentThisMonth
    BY <2>1, <2>2 DEF Ledger!ledgerVars, Approved
  <2>3. CASE SpentThisMonth' = 0
    <3>1. Ledger!NewMonth
      BY <2>1, <2>3 DEF Ledger!NewMonth, Approved
    <3> QED BY <3>1 DEF Ledger!LedgerNext
  <2> QED BY <1>8, <2>2, <2>3, SpentOverTime
<1>9. CASE UNCHANGED fetchVars
  <2>1. Approved' = Approved /\ UNCHANGED <<now, raw>>
    BY <1>9 DEF fetchVars, Approved
  <2> QED BY <2>1, LedgerStays
<1>10. \/ \E c \in Callers, e \in 1 .. Dearest : Ledger!Approve(c, e)
       \/ \E c \in Callers, k \in 0 .. Dearest : Ledger!Record(c, k)
       \/ \E group \in SUBSET Callers : Ledger!Drop(group)
       => Ledger!LedgerNext
  BY DEF Ledger!LedgerNext, Dearest
<1> QED
  BY <1>2, <1>3, <1>4, <1>5, <1>6, <1>7, <1>8, <1>9, <1>10, ApproveMaps, PersistMaps, CrashDrops
     DEF Next, Proceed

\* fetch implements check-then-spend, for every number of processes and tasks.
THEOREM FetchImplementsLedger == Spec => ImplementsLedger
<1>1. Init => Ledger!LedgerInit
  <2> SUFFICES ASSUME Init PROVE Ledger!LedgerInit
    OBVIOUS
  <2>1. ThisMonth = {}
    BY DEF Init, ThisMonth
  <2>2. SpentThisMonth = 0
    BY <2>1, SpentIs, SumOfNothing
  <2>3. \A c \in Callers : Approved[c] = 0
    BY DEF Init, Approved, IdleCall
  <2>4. Approved = [c \in Callers |-> 0]
    BY <2>3 DEF Approved
  <2> QED BY <2>2, <2>4 DEF Ledger!LedgerInit, Approved
<1>2. Init => RepliesPriced
  BY DEF Init, RepliesPriced, IdleCall
<1>3. ArchiveInv => RowsInOrder
  BY DEF ArchiveInv
<1>4. TypeOK /\ RowsInOrder /\ RepliesPriced /\ [Next]_fetchVars
        => [Ledger!LedgerNext]_Ledger!ledgerVars
  BY LedgerStep
<1>5. Spec => []RepliesPriced
  BY <1>2, RepliesStep, TypeCorrect, PTL DEF Spec
<1> QED
  BY <1>1, <1>3, <1>4, <1>5, TypeCorrect, ArchiveInvariance, PTL
     DEF Spec, ImplementsLedger, Ledger!LedgerSpec

\* What is proved of the ledger, of the ledger of fetch.
LedgerFacts == INSTANCE SpendLedger_proofs WITH
  Spenders  <- Callers,
  MaxCharge <- Max(UNION {Costs(q) : q \in Questions}),
  Overrun   <- Max(UNION {{k - Estimate[q] : k \in Costs(q)} : q \in Questions}),
  spent     <- SpentThisMonth,
  approved  <- [c \in Callers |->
                 IF call[c].pc \in {"waiting", "awaiting"} THEN Estimate[call[c].question] ELSE 0]

\* The month's spend passes the ceiling by no more than one charge per caller but the
\* last, and what the last is charged above its estimate.
LEMMA LedgerAssumption == LedgerFacts!SpendLedgerAssumption
BY LedgerConstants
   DEF LedgerFacts!SpendLedgerAssumption, LedgerFacts!IsFiniteSet, IsFiniteSet, Dearest, Furthest

LEMMA LedgersAgree == Ledger!LedgerSpec <=> LedgerFacts!LedgerSpec
<1>1. Ledger!LedgerInit <=> LedgerFacts!LedgerInit
  BY DEF Ledger!LedgerInit, LedgerFacts!LedgerInit
<1>2. [Ledger!LedgerNext]_Ledger!ledgerVars <=> [LedgerFacts!LedgerNext]_LedgerFacts!ledgerVars
  BY DEF Ledger!LedgerNext, LedgerFacts!LedgerNext, Ledger!ledgerVars, LedgerFacts!ledgerVars,
         Ledger!Approve, Ledger!Record, Ledger!Drop, Ledger!NewMonth, Ledger!Pending,
         LedgerFacts!Approve, LedgerFacts!Record, LedgerFacts!Drop, LedgerFacts!NewMonth,
         LedgerFacts!Pending
<1> QED BY <1>1, <1>2, PTL DEF Ledger!LedgerSpec, LedgerFacts!LedgerSpec

\* The month's spend passes the ceiling by no more than one charge per caller but the
\* last, and what the last is charged above its estimate (budget.py assert_within
\* against the checks fetch makes outside _paid_lock).
THEOREM SpendBounded == Spec => []Ledger!Overshoot
<1>1. LedgerFacts!LedgerSpec => []LedgerFacts!Overshoot
  BY LedgerAssumption, LedgerFacts!OvershootBounded, PTL
<1>2. LedgerFacts!Overshoot => Ledger!Overshoot
  BY DEF LedgerFacts!Overshoot, Ledger!Overshoot, LedgerFacts!Slack, Ledger!Slack,
         LedgerFacts!Cardinality, Ledger!Cardinality
<1> QED
  BY <1>1, <1>2, FetchImplementsLedger, LedgersAgree, PTL DEF ImplementsLedger

\* The ceiling is exact for a lone caller of a vendor that charges what it quoted:
\* "serialising paid calls makes check-then-spend safe" (fetch.py:44) as far as it goes.
THEOREM LoneCallerCeiling ==
  ASSUME Cardinality(Callers) = 1, QuotesKept
  PROVE  Spec => []CeilingHolds
<1>1. LedgerFacts!Cardinality(Callers) = 1
  BY DEF LedgerFacts!Cardinality, Cardinality
<1>2. LedgerFacts!LedgerSpec => []LedgerFacts!CeilingHolds
  BY <1>1, QuotesKeptNoOverrun, LedgerAssumption, LedgerFacts!LoneSpenderCeiling, PTL DEF Furthest
<1>3. LedgerFacts!CeilingHolds => CeilingHolds
  BY DEF LedgerFacts!CeilingHolds, CeilingHolds
<1> QED
  BY <1>2, <1>3, FetchImplementsLedger, LedgersAgree, PTL DEF ImplementsLedger

-----------------------------------------------------------------------------
(* One call at a time *)

\* At most one call is under way, in any process.
Alone == \A c, d \in Callers : call[c].pc # "idle" /\ call[d].pc # "idle" => c = d

Unforced == \A c \in Callers : ~call[c].force

\* With one call at a time the ceiling is exact, for any number of callers: it is the
\* overlap of two calls, of any two processes, that lets the spend pass it.
THEOREM AloneCeiling ==
  ASSUME QuotesKept
  PROVE  Spec /\ []Alone => []CeilingHolds
<1>1. Alone => LedgerFacts!OneInFlight
  BY DEF Alone, LedgerFacts!OneInFlight, LedgerFacts!Pending
<1>2. LedgerFacts!LedgerSpec /\ []LedgerFacts!OneInFlight => []LedgerFacts!CeilingHolds
  BY QuotesKeptNoOverrun, LedgerAssumption, LedgerFacts!OneAtATimeCeiling, PTL DEF Furthest
<1>3. LedgerFacts!CeilingHolds => CeilingHolds
  BY DEF LedgerFacts!CeilingHolds, CeilingHolds
<1> QED
  BY <1>1, <1>2, <1>3, FetchImplementsLedger, LedgersAgree, PTL DEF ImplementsLedger

\* c holds an answer to q that the vendor charged for.
HoldsAnswer(c, q) ==
  /\ call[c].pc = "awaiting" /\ call[c].question = q
  /\ call[c].reply # None /\ call[c].reply.kind = "rows"

\* What a question was billed within its TTL: once, and once for each answer a fault
\* took.  A charge that is neither stored nor in hand was taken by one; and a stored
\* answer keeps every call from getting past its lookup.
BilledOnce(q) ==
  /\ billed[q] <= 1 + mishaps
  /\ Rows(q) = {} /\ (\A c \in Callers : ~HoldsAnswer(c, q)) => billed[q] <= mishaps
  /\ Rows(q) # {} => \A c \in Callers : call[c].pc \in Looked => call[c].question # q

BillsWithinTTL == \A q \in Questions : TTL[q] > now => BilledOnce(q)

\* Nothing is bought or stored, and an answer in hand is kept or lost to a fault.
LEMMA NothingBought ==
  ASSUME TypeOK, BillsWithinTTL, now' = now \/ now' = now + 1, UNCHANGED <<raw, billed>>,
         \A c \in Callers : call'[c].pc \in Looked =>
           call[c].pc \in Looked /\ call'[c].question = call[c].question,
         \/ mishaps' = mishaps + 1
         \/ /\ mishaps' = mishaps
            /\ \A c \in Callers, q \in Questions : HoldsAnswer(c, q) => HoldsAnswer(c, q)'
  PROVE  BillsWithinTTL'
<1> SUFFICES ASSUME NEW q \in Questions, TTL[q] > now' PROVE BilledOnce(q)'
  BY DEF BillsWithinTTL
<1>1. TTL[q] \in Nat /\ billed[q] \in Nat /\ mishaps \in Nat /\ now \in Nat
  BY MeteredFetchAssumption DEF TypeOK
<1>2. BilledOnce(q) /\ Rows(q)' = Rows(q) /\ billed'[q] = billed[q]
  BY <1>1 DEF BillsWithinTTL, Rows
<1>3. Rows(q)' # {} => \A c \in Callers : call'[c].pc \in Looked => call'[c].question # q
  BY <1>2 DEF BilledOnce
<1>4. CASE mishaps' = mishaps + 1
  BY <1>1, <1>2, <1>3, <1>4 DEF BilledOnce
<1>5. CASE mishaps' = mishaps /\ \A c \in Callers : HoldsAnswer(c, q) => HoldsAnswer(c, q)'
  BY <1>1, <1>2, <1>3, <1>5 DEF BilledOnce
<1> QED BY <1>4, <1>5

LEMMA MissFindsNothing ==
  ASSUME TypeOK, RowsInOrder, Unforced, BillsWithinTTL, NEW c \in Callers, Miss(c)
  PROVE  BillsWithinTTL'
<1> SUFFICES ASSUME NEW q \in Questions, TTL[q] > now' PROVE BilledOnce(q)'
  BY DEF BillsWithinTTL
<1>1. /\ UNCHANGED <<now, raw, billed, mishaps>> /\ call \in [Callers -> Call]
      /\ OnlyMoves(c) /\ call[c].pc = "lookup" /\ call'[c].pc = "check"
      /\ call'[c].question = call[c].question /\ ~call[c].force
  BY DEF Miss, TypeOK, OnlyMoves, Call, Unforced
<1>2. BilledOnce(q) /\ Rows(q)' = Rows(q) /\ billed'[q] = billed[q]
  BY <1>1 DEF BillsWithinTTL, Rows
<1>3. \A d \in Callers : HoldsAnswer(d, q) => HoldsAnswer(d, q)'
  BY <1>1 DEF HoldsAnswer, OnlyMoves
<1>4. ASSUME NEW i \in Rows(q) PROVE call[c].question # q
  <2> SUFFICES ASSUME call[c].question = q PROVE FALSE
    OBVIOUS
  <2>1. PICK k \in Newest(q) : TRUE
    BY <1>4, NewestIsThere
  <2>2. ~Fresh(k) /\ k \in DOMAIN raw /\ raw[k].question = q
    BY <1>1, <2>1 DEF Miss, Newest, Rows
  <2>3. raw[k].at \in Nat /\ now \in Nat /\ TTL[q] \in Nat
    BY <2>2, Fields
  <2> QED BY <1>1, <2>2, <2>3 DEF Fresh
<1>5. Rows(q)' # {} => \A d \in Callers : call'[d].pc \in Looked => call'[d].question # q
  <2> SUFFICES ASSUME Rows(q) # {}, NEW d \in Callers, call'[d].pc \in Looked
               PROVE  call'[d].question # q
    BY <1>2
  <2>1. CASE d = c
    BY <1>1, <1>4, <2>1
  <2>2. CASE d # c
    BY <1>1, <1>2, <2>2 DEF OnlyMoves, BilledOnce
  <2> QED BY <2>1, <2>2
<1> QED BY <1>1, <1>2, <1>3, <1>5 DEF BilledOnce

LEMMA AnswerIsFirst ==
  ASSUME TypeOK, Alone, BillsWithinTTL, NEW c \in Callers, VendorAnswers(c)
  PROVE  BillsWithinTTL'
<1> SUFFICES ASSUME NEW q \in Questions, TTL[q] > now' PROVE BilledOnce(q)'
  BY DEF BillsWithinTTL
<1>1. /\ UNCHANGED <<now, raw, mishaps>> /\ call \in [Callers -> Call] /\ OnlyMoves(c)
      /\ call[c].pc = "awaiting" /\ call'[c].pc = "awaiting" /\ call[c].reply = None
      /\ call'[c].question = call[c].question /\ call[c].question \in Questions
  <2>1. call \in [Callers -> Call] /\ call[c].question \in Questions
    BY DEF VendorAnswers, TypeOK
  <2> QED BY <2>1 DEF VendorAnswers, OnlyMoves, Call
<1>2. /\ BilledOnce(q) /\ Rows(q)' = Rows(q) /\ mishaps \in Nat /\ billed[q] \in Nat
      /\ billed \in [Questions -> Nat]
  BY <1>1 DEF BillsWithinTTL, Rows, TypeOK
<1>3. \A d \in Callers : ~HoldsAnswer(d, q)
  BY <1>1 DEF Alone, HoldsAnswer
<1>4. Rows(q)' # {} => \A d \in Callers : call'[d].pc \in Looked => call'[d].question # q
  BY <1>1, <1>2 DEF BilledOnce, OnlyMoves, Looked
<1>5. CASE billed' = billed
  <2>1. Rows(q) = {} => billed[q] <= mishaps
    BY <1>2, <1>3 DEF BilledOnce
  <2> QED BY <1>1, <1>2, <1>4, <1>5, <2>1 DEF BilledOnce
<1>6. CASE \E charge \in Charges[call[c].question] :
             /\ call' = [call EXCEPT ![c].reply = [kind |-> "rows", charge |-> charge]]
             /\ billed' = [billed EXCEPT ![call[c].question] = @ + 1]
  <2>1. CASE call[c].question = q
    <3>1. billed'[q] = billed[q] + 1
      BY <1>1, <1>2, <1>6, <2>1
    <3>2. Rows(q) = {}
      BY <1>1, <1>2, <2>1 DEF BilledOnce, Looked
    <3>3. billed[q] <= mishaps
      BY <1>2, <1>3, <3>2 DEF BilledOnce
    <3>4. HoldsAnswer(c, q)'
      <4> PICK charge \in Charges[call[c].question] :
             call' = [call EXCEPT ![c].reply = [kind |-> "rows", charge |-> charge]]
        BY <1>6
      <4>1. call'[c].reply = [kind |-> "rows", charge |-> charge]
        BY <1>1 DEF Call
      <4>2. charge \in Nat \cup {None}
        BY <1>1, MeteredFetchAssumption
      <4>3. call'[c].reply \in Reply
        BY <4>1, <4>2 DEF Reply
      <4>4. call'[c].reply # None
        BY <4>3, MeteredFetchAssumption
      <4> QED BY <1>1, <2>1, <4>1, <4>4 DEF HoldsAnswer
    <3> QED BY <1>1, <1>2, <1>4, <3>1, <3>2, <3>3, <3>4 DEF BilledOnce
  <2>2. CASE call[c].question # q
    <3>1. billed'[q] = billed[q]
      BY <1>2, <1>6, <2>2
    <3>2. Rows(q) = {} => billed[q] <= mishaps
      BY <1>2, <1>3 DEF BilledOnce
    <3> QED BY <1>1, <1>2, <1>4, <3>1, <3>2 DEF BilledOnce
  <2> QED BY <2>1, <2>2
<1> QED BY <1>5, <1>6 DEF VendorAnswers

LEMMA StoringEndsIt ==
  ASSUME TypeOK, Alone, BillsWithinTTL, NEW c \in Callers, Persist(c)
  PROVE  BillsWithinTTL'
<1> SUFFICES ASSUME NEW q \in Questions, TTL[q] > now' PROVE BilledOnce(q)'
  BY DEF BillsWithinTTL
<1>1. /\ UNCHANGED <<now, billed, mishaps>> /\ call[c].pc = "awaiting"
      /\ OnlyMoves(c) /\ call'[c].pc = "stored"
      /\ DOMAIN raw' = DOMAIN raw \cup {Len(raw) + 1}
      /\ raw'[Len(raw) + 1].question = call[c].question
      /\ \A i \in DOMAIN raw : raw'[i] = raw[i]
  <2>1. NewRow(c).question = call[c].question
    BY DEF NewRow
  <2>2. UNCHANGED <<now, billed, mishaps>> /\ call[c].pc = "awaiting"
    BY DEF Persist, Accepted
  <2> QED BY <2>1, <2>2, Stores
<1>2. BilledOnce(q) /\ mishaps \in Nat /\ billed[q] \in Nat
  BY <1>1 DEF BillsWithinTTL, TypeOK
<1>3. \A d \in Callers : call'[d].pc \notin Looked
  BY <1>1 DEF Alone, OnlyMoves, Looked
<1>4. CASE call[c].question = q
  <2>1. Len(raw) + 1 \in Rows(q)'
    BY <1>1, <1>4 DEF Rows
  <2> QED BY <1>1, <1>2, <1>3, <2>1 DEF BilledOnce
<1>5. CASE call[c].question # q
  <2>1. Rows(q)' = Rows(q)
    BY <1>1, <1>5 DEF Rows
  <2>2. \A d \in Callers : ~HoldsAnswer(d, q)
    BY <1>1, <1>5 DEF Alone, HoldsAnswer
  <2> QED BY <1>1, <1>2, <1>3, <2>1, <2>2 DEF BilledOnce
<1> QED BY <1>4, <1>5

LEMMA BillsWithinTTLStep ==
  TypeOK /\ ArchiveInv /\ Alone /\ Unforced /\ BillsWithinTTL /\ [Next]_fetchVars
    => BillsWithinTTL'
<1> SUFFICES ASSUME TypeOK, RowsInOrder, Alone, Unforced, BillsWithinTTL, [Next]_fetchVars
             PROVE  BillsWithinTTL'
  BY DEF ArchiveInv
<1>1. call \in [Callers -> Call] /\ now \in Nat
  BY DEF TypeOK
<1>2. ASSUME Quiet, billed' = billed,
             \/ mishaps' = mishaps + 1
             \/ /\ mishaps' = mishaps
                /\ \A d \in Callers, q \in Questions : HoldsAnswer(d, q) => HoldsAnswer(d, q)'
      PROVE  BillsWithinTTL'
  BY <1>2, NothingBought DEF Quiet
<1>3. ASSUME NEW c \in Callers, Quiet, UNCHANGED <<billed, mishaps>>, OnlyMoves(c),
             call[c].pc # "awaiting" \/ call[c].reply.kind # "rows"
      PROVE  BillsWithinTTL'
  <2>1. \A d \in Callers, q \in Questions : HoldsAnswer(d, q) => HoldsAnswer(d, q)'
    BY <1>3 DEF HoldsAnswer, OnlyMoves
  <2> QED BY <1>2, <1>3, <2>1
<1>4. ASSUME NEW c \in Callers, NEW q \in Questions, NEW force \in BOOLEAN,
             NEW dry \in BOOLEAN, Begin(c, q, force, dry), Quiet
      PROVE  BillsWithinTTL'
  BY <1>1, <1>3, <1>4 DEF Begin, OnlyMoves
<1>5. ASSUME NEW c \in Callers, Quiet,
             Hit(c) \/ Decline(c) \/ Approve(c) \/ Enter(c) \/ Project(c) \/ Return(c)
      PROVE  BillsWithinTTL'
  <2>1. call[c].pc # "awaiting" /\ UNCHANGED <<billed, mishaps>>
    BY <1>5 DEF Hit, Decline, Approve, Enter, Project, Return
  <2>2. OnlyMoves(c)
    BY <1>1, <1>5 DEF Hit, Decline, Approve, Enter, Project, Return, Returns, OnlyMoves
  <2> QED BY <1>3, <1>5, <2>1, <2>2
<1>6. ASSUME NEW c \in Callers, Quiet, Reject(c) PROVE BillsWithinTTL'
  <2>1. call[c].reply.kind # "rows" /\ OnlyMoves(c)
    BY <1>1, <1>6 DEF Reject, Returns, OnlyMoves
  <2> QED BY <1>3, <1>6, <2>1 DEF Reject
<1>7. ASSUME NEW c \in Callers, Quiet, Fault(c) PROVE BillsWithinTTL'
  BY <1>2, <1>7 DEF Fault, LoseAnswer, PersistBusy, Escape, Cancel, Mishap
<1>8. ASSUME NEW h \in Hosts, Quiet, Crash(h) PROVE BillsWithinTTL'
  BY <1>2, <1>8 DEF Crash, Mishap
<1>9. CASE Tick \/ UNCHANGED fetchVars
  <2>1. /\ UNCHANGED <<raw, call, billed, mishaps>> /\ (now' = now \/ now' = now + 1)
        /\ \A d \in Callers, q \in Questions : HoldsAnswer(d, q) => HoldsAnswer(d, q)'
    BY <1>9 DEF Tick, fetchVars, HoldsAnswer
  <2> QED BY <2>1, NothingBought
<1>10. ASSUME NEW c \in Callers, Miss(c) PROVE BillsWithinTTL'
  BY <1>10, MissFindsNothing
<1>11. ASSUME NEW c \in Callers, Persist(c) PROVE BillsWithinTTL'
  BY <1>11, StoringEndsIt
<1>12. ASSUME NEW c \in Callers, VendorAnswers(c) PROVE BillsWithinTTL'
  BY <1>12, AnswerIsFirst
<1>13. CASE Next /\ Quiet
  BY <1>4, <1>5, <1>6, <1>7, <1>8, <1>9, <1>10, <1>11, <1>12, <1>13 DEF Next, Proceed
<1> QED BY <1>9, <1>10, <1>11, <1>13, StoreSteps

\* With one call at a time and no force, a question is bought once within its TTL, and
\* once more for each fault at most.
THEOREM AloneBuysOnce ==
  Spec /\ []Alone /\ []Unforced
    => [](\A q \in Questions : TTL[q] > now => billed[q] <= 1 + mishaps)
<1>1. Init => BillsWithinTTL
  BY DEF Init, BillsWithinTTL, BilledOnce, IdleCall, Looked, Rows
<1>2. BillsWithinTTL => \A q \in Questions : TTL[q] > now => billed[q] <= 1 + mishaps
  BY DEF BillsWithinTTL, BilledOnce
<1> QED
  BY <1>1, <1>2, BillsWithinTTLStep, TypeCorrect, ArchiveInvariance, PTL DEF Spec

\* Nothing deletes or rewrites a stored row.
LEMMA RowsKept ==
  ASSUME TypeOK, [Next]_fetchVars
  PROVE  \A i \in DOMAIN raw : i \in DOMAIN raw' /\ raw'[i] = raw[i]
<1>1. ASSUME NEW c \in Callers, Persist(c)
      PROVE  \A i \in DOMAIN raw : i \in DOMAIN raw' /\ raw'[i] = raw[i]
  BY <1>1, Stores
<1>2. CASE Quiet \/ (\E c \in Callers : Miss(c)) \/ Tick \/ UNCHANGED fetchVars
  BY <1>2 DEF Quiet, Miss, Tick, fetchVars
<1> QED BY <1>1, <1>2, StoreSteps

\* A call that moves keeps its question and its force to the end, and ends with the id
\* of a row only when that row answers the question.
LEMMA MovesTowardsAnswer ==
  ASSUME TypeOK, NEW c \in Callers, Proceed(c) \/ VendorAnswers(c) \/ Fault(c),
         call[c].pc # "returned",
         call[c].pc = "stored" =>
           call[c].row \in DOMAIN raw /\ raw[call[c].row].question = call[c].question
  PROVE  /\ OnlyMoves(c) /\ call[c].pc # "idle" /\ call'[c].pc # "idle"
         /\ \A i \in DOMAIN raw : i \in DOMAIN raw' /\ raw'[i] = raw[i]
         /\ call'[c].pc # "returned" => call'[c].question = call[c].question
         /\ call'[c].force => call[c].force
         /\ \/ call'[c].pc = "stored"
            \/ call'[c].pc = "returned" /\ call'[c].outcome \in {"cached", "bought"}
            =>
              /\ call'[c].row \in DOMAIN raw'
              /\ raw'[call'[c].row].question = call[c].question
<1>1. call \in [Callers -> Call] /\ call[c].pc # "idle"
  BY DEF TypeOK, Proceed, Hit, Miss, Decline, Approve, Enter, VendorAnswers, Reject, Persist,
         Accepted, Project, Return, Fault, LoseAnswer, PersistBusy, Escape, Cancel
<1>2. ASSUME NEW row, Returns(c, "cached", row) \/ Returns(c, "bought", row), raw' = raw,
             row \in DOMAIN raw /\ raw[row].question = call[c].question
      PROVE  /\ OnlyMoves(c) /\ call'[c].pc = "returned" /\ ~call'[c].force
             /\ call'[c].row \in DOMAIN raw' /\ raw'[call'[c].row].question = call[c].question
  <2>1. OnlyMoves(c) /\ call'[c].pc = "returned" /\ ~call'[c].force /\ call'[c].row = row
    BY <1>1, <1>2 DEF Returns, OnlyMoves, IdleCall
  <2> QED BY <1>2, <2>1
<1>3. CASE Hit(c)
  <2>1. PICK row \in Newest(call[c].question) : Returns(c, "cached", row)
    BY <1>3 DEF Hit
  <2>2. row \in DOMAIN raw /\ raw[row].question = call[c].question /\ raw' = raw
    BY <1>3, <2>1 DEF Hit, Newest, Rows
  <2> QED BY <1>1, <1>2, <2>1, <2>2
<1>4. CASE Project(c)
  <2>1. Returns(c, "bought", call[c].row) /\ raw' = raw /\ call[c].pc = "stored"
    BY <1>4 DEF Project
  <2> QED BY <1>1, <1>2, <2>1
<1>5. ASSUME raw' = raw, \E outcome \in {"over_ceiling", "planned", "no_credential",
                                       "vendor_error", "db_error", "escaped", "cancelled"} :
                         Returns(c, outcome, 0)
      PROVE  /\ OnlyMoves(c) /\ call'[c].pc = "returned" /\ ~call'[c].force
             /\ call'[c].outcome \notin {"cached", "bought"}
  BY <1>1, <1>5 DEF Returns, OnlyMoves, IdleCall
<1>6. CASE Decline(c) \/ Reject(c) \/ Fault(c)
  <2>1. /\ raw' = raw
        /\ \E outcome \in {"over_ceiling", "planned", "no_credential", "vendor_error",
                           "db_error", "escaped", "cancelled"} : Returns(c, outcome, 0)
    BY <1>6 DEF Decline, Reject, Fault, LoseAnswer, PersistBusy, Escape, Cancel
  <2> QED BY <1>1, <1>5, <2>1
<1>7. CASE Miss(c) \/ Approve(c) \/ Enter(c) \/ VendorAnswers(c)
  <2>1. /\ OnlyMoves(c) /\ call'[c].pc \in {"check", "waiting", "awaiting"} /\ raw' = raw
        /\ call'[c].question = call[c].question /\ call'[c].force = call[c].force
    BY <1>1, <1>7 DEF Miss, Approve, Enter, VendorAnswers, OnlyMoves, Call
  <2> QED BY <1>1, <2>1
<1>8. CASE Persist(c)
  <2>1. /\ call'[c].row = Len(raw) + 1 /\ call'[c].force = call[c].force
        /\ NewRow(c).question = call[c].question
    BY <1>1, <1>8 DEF Persist, Call, NewRow
  <2> QED BY <1>1, <1>8, <2>1, Stores
<1> QED BY <1>3, <1>4, <1>6, <1>7, <1>8 DEF Proceed, Return
=============================================================================
