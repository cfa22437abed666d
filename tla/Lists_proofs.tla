---------------------------- MODULE Lists_proofs -----------------------------
(***************************************************************************)
(* Facts about lists and folds that the other proofs cite: what an ORDER   *)
(* BY returns, what a comprehension keeps, and that a fold over numbers is *)
(* what its steps make of it.  Induction is done over sets of numbers.     *)
(***************************************************************************)
EXTENDS Lists, TLAPS, FiniteSetTheorems, WellFoundedInduction

\* Induction, as a fact about sets of numbers.
LEMMA NatSetInduction ==
  ASSUME NEW T, 0 \in T, \A n \in Nat : n \in T => n + 1 \in T
  PROVE  \A n \in Nat : n \in T
<1> DEFINE Bad == {n \in Nat : n \notin T}
<1>1. SUFFICES ASSUME Bad # {} PROVE FALSE
  OBVIOUS
<1>2. \E x \in Bad : \A y \in Bad : ~(<<y, x>> \in OpToRel(<, Nat))
  BY <1>1, NatLessThanWellFounded, WFMin
<1>3. PICK x \in Bad : \A y \in Bad : ~(y < x)
  BY <1>2 DEF OpToRel
<1>4. x # 0 /\ x \in Nat
  OBVIOUS
<1>5. x - 1 \in Nat /\ x - 1 < x /\ (x - 1) + 1 = x
  BY <1>4
<1>6. x - 1 \in T
  BY <1>3, <1>5
<1> QED
  BY <1>3, <1>5, <1>6

-----------------------------------------------------------------------------
(* ORDER BY *)

\* before orders S: of two members one comes first, and not the other.
Orders(before, S) ==
  /\ \A x \in S : <<x, x>> \notin before
  /\ \A x, y \in S : x # y => <<x, y>> \in before \/ <<y, x>> \in before
  /\ \A x, y, z \in S : <<x, y>> \in before /\ <<y, z>> \in before => <<x, z>> \in before

\* A finite set has a last member.
LEMMA LastExists ==
  ASSUME NEW S, IsFiniteSet(S), S # {}, NEW before, Orders(before, S)
  PROVE  \E x \in S : \A y \in S \ {x} : <<y, x>> \in before
<1> DEFINE T == {n \in Nat : \A R \in SUBSET S : R # {} /\ Cardinality(R) = n =>
                   \E x \in R : \A y \in R \ {x} : <<y, x>> \in before}
<1>0. \A R \in SUBSET S : IsFiniteSet(R) /\ Cardinality(R) \in Nat
  BY FS_Subset, FS_CardinalityType
<1>1. 0 \in T
  BY <1>0, FS_EmptySet
<1>2. ASSUME NEW n \in Nat, n \in T PROVE n + 1 \in T
  <2> SUFFICES ASSUME NEW R \in SUBSET S, R # {}, Cardinality(R) = n + 1
               PROVE  \E x \in R : \A y \in R \ {x} : <<y, x>> \in before
    OBVIOUS
  <2>1. PICK r \in R : TRUE
    OBVIOUS
  <2>2. R \ {r} \in SUBSET S /\ Cardinality(R \ {r}) = n
    BY <1>0, <2>1, FS_RemoveElement
  <2>3. CASE R \ {r} = {}
    BY <2>1, <2>3
  <2>4. CASE R \ {r} # {}
    <3>1. PICK x \in R \ {r} : \A y \in (R \ {r}) \ {x} : <<y, x>> \in before
      BY <1>2, <2>2, <2>4
    <3>2. CASE <<r, x>> \in before
      BY <3>1, <3>2
    <3>3. CASE <<x, r>> \in before
      <4>1. \A y \in R \ {r} : <<y, r>> \in before
        BY <3>1, <3>3 DEF Orders
      <4> QED BY <2>1, <4>1
    <3> QED BY <2>1, <3>1, <3>2, <3>3 DEF Orders
  <2> QED BY <2>3, <2>4
<1>3. Cardinality(S) \in T
  <2> HIDE DEF T
  <2> QED BY <1>0, <1>1, <1>2, NatSetInduction
<1> QED BY <1>3

\* s holds the members of S, each once, in the order of before.
IsArranged(s, S, before) ==
  /\ s \in SetToSeqs(S)
  /\ \A m, n \in DOMAIN s : m < n => <<s[m], s[n]>> \in before

LEMMA ArrangedExists ==
  ASSUME NEW S, IsFiniteSet(S), NEW before, Orders(before, S)
  PROVE  \E s : IsArranged(s, S, before)
<1> DEFINE T == {n \in Nat : \A R \in SUBSET S : Cardinality(R) = n =>
                   \E s : IsArranged(s, R, before)}
<1>0. \A R \in SUBSET S : IsFiniteSet(R) /\ Cardinality(R) \in Nat
  BY FS_Subset, FS_CardinalityType
<1>1. 0 \in T
  <2> SUFFICES ASSUME NEW R \in SUBSET S, Cardinality(R) = 0
               PROVE  \E s : IsArranged(s, R, before)
    OBVIOUS
  <2>1. R = {} /\ 1 .. Cardinality(R) = {}
    BY <1>0, FS_EmptySet
  <2> DEFINE s == [i \in 1 .. Cardinality(R) |-> i]
  <2>2. IsArranged(s, R, before)
    BY <2>1 DEF IsArranged, SetToSeqs
  <2> QED BY <2>2
<1>2. ASSUME NEW n \in Nat, n \in T PROVE n + 1 \in T
  <2> SUFFICES ASSUME NEW R \in SUBSET S, Cardinality(R) = n + 1
               PROVE  \E s : IsArranged(s, R, before)
    OBVIOUS
  <2>1. Orders(before, R) /\ R # {}
    BY FS_EmptySet DEF Orders
  <2>2. PICK r \in R : \A y \in R \ {r} : <<y, r>> \in before
    BY <1>0, <2>1, LastExists
  <2>3. R \ {r} \in SUBSET S /\ Cardinality(R \ {r}) = n
    <3>1. IsFiniteSet(R) /\ r \in R
      BY <1>0, <2>2
    <3>2. Cardinality(R \ {r}) = Cardinality(R) - 1
      BY <3>1, FS_RemoveElement
    <3> QED BY <3>2
  <2>4. PICK s : IsArranged(s, R \ {r}, before)
    BY <1>2, <2>3
  <2>5. /\ s \in [1 .. n -> R \ {r}] /\ DOMAIN s = 1 .. n
        /\ \A i, j \in 1 .. n : i # j => s[i] # s[j]
        /\ \A i, j \in 1 .. n : i < j => <<s[i], s[j]>> \in before
    BY <2>3, <2>4 DEF IsArranged, SetToSeqs
  <2> DEFINE t == [i \in 1 .. n + 1 |-> IF i = n + 1 THEN r ELSE s[i]]
  <2>6. t \in [1 .. n + 1 -> R] /\ DOMAIN t = 1 .. n + 1
    BY <2>2, <2>5
  <2>7. \A i \in 1 .. n + 1 : i = n + 1 \/ i \in 1 .. n
    OBVIOUS
  <2>8. t[n + 1] = r /\ \A i \in 1 .. n : t[i] = s[i] /\ s[i] \in R \ {r}
    BY <2>5
  <2> HIDE DEF t
  <2>9. \A i, j \in 1 .. n + 1 : i # j => t[i] # t[j]
    BY <2>5, <2>7, <2>8
  <2>10. \A i, j \in 1 .. n + 1 : i < j => <<t[i], t[j]>> \in before
    <3> SUFFICES ASSUME NEW i \in 1 .. n + 1, NEW j \in 1 .. n + 1, i < j
                 PROVE  <<t[i], t[j]>> \in before
      OBVIOUS
    <3>1. i \in 1 .. n
      OBVIOUS
    <3>2. CASE j = n + 1
      BY <2>2, <2>8, <3>1, <3>2
    <3>3. CASE j \in 1 .. n
      BY <2>5, <2>8, <3>1, <3>3
    <3> QED BY <2>7, <3>2, <3>3
  <2>11. IsArranged(t, R, before)
    BY <2>6, <2>9, <2>10 DEF IsArranged, SetToSeqs
  <2> QED BY <2>11
<1>3. Cardinality(S) \in T
  <2> HIDE DEF T
  <2> QED BY <1>0, <1>1, <1>2, NatSetInduction
<1> QED BY <1>3

\* What ORDER BY returns: every row once, in order.
LEMMA ArrangedIs ==
  ASSUME NEW S, IsFiniteSet(S), NEW before, Orders(before, S)
  PROVE  /\ Arranged(S, before) \in [1 .. Cardinality(S) -> S] /\ Cardinality(S) \in Nat
         /\ \A m, n \in 1 .. Cardinality(S) :
              m < n => <<Arranged(S, before)[m], Arranged(S, before)[n]>> \in before
         /\ \A x \in S : \E n \in 1 .. Cardinality(S) : Arranged(S, before)[n] = x
<1> DEFINE s == Arranged(S, before)  N == Cardinality(S)
<1>1. N \in Nat
  BY FS_CardinalityType
<1>2. IsArranged(s, S, before)
  BY ArrangedExists DEF Arranged, IsArranged
<1>3. /\ s \in [1 .. N -> S] /\ \A i, j \in 1 .. N : i # j => s[i] # s[j]
      /\ \A m, n \in 1 .. N : m < n => <<s[m], s[n]>> \in before
  BY <1>2 DEF IsArranged, SetToSeqs
<1>4. ASSUME NEW x \in S, \A n \in 1 .. N : s[n] # x PROVE FALSE
  <2>1. s \in [1 .. N -> S \ {x}]
    BY <1>3, <1>4
  <2>2. IsFiniteSet(S \ {x}) /\ Cardinality(S \ {x}) = N - 1
    BY FS_RemoveElement
  <2>3. IsFiniteSet(1 .. N) /\ Cardinality(1 .. N) = N
    BY <1>1, FS_Interval
  <2>4. \E i, j \in 1 .. N : i # j /\ s[i] = s[j]
    BY <1>1, <2>1, <2>2, <2>3, FS_PigeonHole
  <2> QED BY <1>3, <2>4
<1> QED BY <1>1, <1>3, <1>4

\* An increasing list has its n first members up to the n-th.
LEMMA RankIs ==
  ASSUME NEW S \in SUBSET Nat, NEW N \in Nat, NEW s \in [1 .. N -> S],
         \A m, n \in 1 .. N : m < n => s[m] < s[n],
         \A x \in S : \E n \in 1 .. N : s[n] = x,
         NEW n \in 1 .. N
  PROVE  Cardinality({y \in S : y <= s[n]}) = n
<1> DEFINE upTo == {y \in S : y <= s[n]}
           f == [i \in 1 .. n |-> s[i]]
<1>1. \A i \in 1 .. n : i \in 1 .. N /\ s[i] \in S /\ s[i] <= s[n]
  <2> SUFFICES ASSUME NEW i \in 1 .. n PROVE i \in 1 .. N /\ s[i] \in S /\ s[i] <= s[n]
    OBVIOUS
  <2>1. i \in 1 .. N
    OBVIOUS
  <2>2. s[i] \in S /\ s[i] \in Nat /\ s[n] \in Nat
    BY <2>1
  <2>3. i = n \/ i < n
    OBVIOUS
  <2> QED BY <2>1, <2>2, <2>3
<1>2. \A y \in upTo : \E i \in 1 .. n : s[i] = y
  <2> SUFFICES ASSUME NEW y \in S, y <= s[n] PROVE \E i \in 1 .. n : s[i] = y
    OBVIOUS
  <2>1. PICK i \in 1 .. N : s[i] = y
    OBVIOUS
  <2>2. ~(n < i)
    <3> SUFFICES ASSUME n < i PROVE FALSE
      OBVIOUS
    <3>1. s[n] < s[i] /\ s[n] \in Nat /\ s[i] \in Nat
      OBVIOUS
    <3> QED BY <2>1, <3>1
  <2> QED BY <2>1, <2>2
<1>3. \A i, j \in 1 .. n : s[i] = s[j] => i = j
  <2> SUFFICES ASSUME NEW i \in 1 .. n, NEW j \in 1 .. n, s[i] = s[j], i # j PROVE FALSE
    OBVIOUS
  <2>1. i \in 1 .. N /\ j \in 1 .. N /\ s[i] \in Nat /\ s[j] \in Nat
    BY <1>1
  <2>2. i < j \/ j < i
    OBVIOUS
  <2>3. s[i] < s[j] \/ s[j] < s[i]
    BY <2>1, <2>2
  <2> QED BY <2>1, <2>3
<1>4. f \in Bijection(1 .. n, upTo)
  <2>1. f \in [1 .. n -> upTo]
    BY <1>1
  <2> HIDE DEF upTo
  <2>2. f \in Injection(1 .. n, upTo)
    BY <1>3, <2>1 DEF Injection, IsInjective
  <2>3. f \in Surjection(1 .. n, upTo)
    BY <1>2, <2>1 DEF Surjection
  <2> QED BY <2>2, <2>3 DEF Bijection
<1>5. IsFiniteSet(1 .. n) /\ Cardinality(1 .. n) = n
  <2>1. n \in Nat
    OBVIOUS
  <2> QED BY <2>1, FS_Interval
<1>6. ExistsBijection(1 .. n, upTo)
  BY <1>4 DEF ExistsBijection
<1> HIDE DEF upTo
<1>7. Cardinality(upTo) = Cardinality(1 .. n)
  BY <1>5, <1>6, FS_Bijection
<1> QED BY <1>5, <1>7 DEF upTo

\* ORDER BY id is the arrangement by ids.
LEMMA InOrderArranges ==
  ASSUME NEW S \in SUBSET Nat, IsFiniteSet(S)
  PROVE  /\ InOrder(S) = Arranged(S, {pair \in S \X S : pair[1] < pair[2]})
         /\ InOrder(S) \in [1 .. Cardinality(S) -> S] /\ Cardinality(S) \in Nat
         /\ \A m, n \in 1 .. Cardinality(S) : m < n => InOrder(S)[m] < InOrder(S)[n]
         /\ \A x \in S : \E n \in 1 .. Cardinality(S) : InOrder(S)[n] = x
<1> DEFINE before == {pair \in S \X S : pair[1] < pair[2]}
           s == Arranged(S, before)
           N == Cardinality(S)
<1>1. \A x, y \in S : <<x, y>> \in before <=> x < y
  OBVIOUS
<1>2. Orders(before, S)
  <2> HIDE DEF before
  <2> QED BY <1>1 DEF Orders
<1> HIDE DEF before
<1>3. /\ s \in [1 .. N -> S] /\ N \in Nat
      /\ \A m, n \in 1 .. N : m < n => <<s[m], s[n]>> \in before
      /\ \A x \in S : \E n \in 1 .. N : s[n] = x
  BY <1>2, ArrangedIs
<1> HIDE DEF s
<1>4. \A m, n \in 1 .. N : m < n => s[m] < s[n]
  BY <1>1, <1>3
<1>5. \A n \in 1 .. N : Cardinality({y \in S : y <= s[n]}) = n
  BY <1>3, <1>4, RankIs
<1>6. ASSUME NEW n \in 1 .. N
      PROVE  (CHOOSE x \in S : Cardinality({y \in S : y <= x}) = n) = s[n]
  <2>1. \A x \in S : Cardinality({y \in S : y <= x}) = n => x = s[n]
    BY <1>3, <1>5
  <2>2. s[n] \in S /\ Cardinality({y \in S : y <= s[n]}) = n
    BY <1>3, <1>5
  <2> QED BY <2>1, <2>2
<1>7. InOrder(S) = [n \in 1 .. N |-> CHOOSE x \in S : Cardinality({y \in S : y <= x}) = n]
  BY DEF InOrder
<1>8. InOrder(S) = s
  BY <1>3, <1>6, <1>7
<1> QED BY <1>3, <1>4, <1>8 DEF s, before

\* ORDER BY id: the rows are numbered upwards.
LEMMA InOrderIs ==
  ASSUME NEW S \in SUBSET Nat, IsFiniteSet(S)
  PROVE  /\ InOrder(S) \in [1 .. Cardinality(S) -> S] /\ Cardinality(S) \in Nat
         /\ \A m, n \in 1 .. Cardinality(S) : m < n => InOrder(S)[m] < InOrder(S)[n]
         /\ \A x \in S : \E n \in 1 .. Cardinality(S) : InOrder(S)[n] = x
BY InOrderArranges

LEMMA InOrderSeq ==
  ASSUME NEW S \in SUBSET Nat, IsFiniteSet(S)
  PROVE  InOrder(S) \in Seq(S)
<1>1. InOrder(S) \in [1 .. Cardinality(S) -> S] /\ Cardinality(S) \in Nat
  BY InOrderIs
<1> QED BY <1>1

\* What is picked from a list, and that all of it is.
LEMMA PickedIs ==
  ASSUME NEW X, NEW list \in Seq(X), NEW places \in SUBSET DOMAIN list
  PROVE  /\ Picked(list, places) \in Seq({list[n] : n \in places})
         /\ \A n \in places : \E m \in DOMAIN Picked(list, places) : Picked(list, places)[m] = list[n]
<1> DEFINE at == InOrder(places)
           there == {list[n] : n \in places}
<1>1. DOMAIN list = 1 .. Len(list) /\ Len(list) \in Nat
  OBVIOUS
<1>2. places \in SUBSET Nat /\ IsFiniteSet(places)
  <2>1. IsFiniteSet(1 .. Len(list)) /\ places \in SUBSET (1 .. Len(list))
    BY <1>1, FS_Interval
  <2> QED BY <1>1, <2>1, FS_Subset
<1>3. Picked(list, places) = [n \in DOMAIN at |-> list[at[n]]]
  BY DEF Picked
<1>4. /\ at \in [1 .. Cardinality(places) -> places] /\ Cardinality(places) \in Nat
      /\ \A x \in places : \E n \in 1 .. Cardinality(places) : at[n] = x
  BY <1>2, InOrderIs
<1> HIDE DEF at
<1>5. \A n \in 1 .. Cardinality(places) : list[at[n]] \in there
  BY <1>4
<1> HIDE DEF there
<1>6. Picked(list, places) \in [1 .. Cardinality(places) -> there]
  BY <1>3, <1>4, <1>5
<1>7. Picked(list, places) \in Seq(there)
  BY <1>4, <1>6
<1>8. \A n \in places : \E m \in DOMAIN Picked(list, places) : Picked(list, places)[m] = list[n]
  BY <1>3, <1>4
<1> QED BY <1>7, <1>8 DEF there

\* A comprehension keeps what is wanted of the list, and no more.
LEMMA KeptIs ==
  ASSUME NEW X, NEW list \in Seq(X), NEW wanted
  PROVE  /\ Kept(list, wanted) \in Seq(X \cap wanted)
         /\ \A n \in DOMAIN list :
              list[n] \in wanted => \E m \in DOMAIN Kept(list, wanted) : Kept(list, wanted)[m] = list[n]
<1> DEFINE S == {n \in DOMAIN list : list[n] \in wanted}
<1>1. Kept(list, wanted) = Picked(list, S)
  BY DEF Kept
<1>2. {list[n] : n \in S} \subseteq X \cap wanted
  OBVIOUS
<1>3. /\ Picked(list, S) \in Seq({list[n] : n \in S})
      /\ \A n \in S : \E m \in DOMAIN Picked(list, S) : Picked(list, S)[m] = list[n]
  BY PickedIs
<1>4. Picked(list, S) \in Seq(X \cap wanted)
  <2> DEFINE there == {list[n] : n \in S}
  <2> HIDE DEF there, S
  <2> QED BY <1>2, <1>3 DEF there
<1> QED BY <1>1, <1>3, <1>4
=============================================================================
