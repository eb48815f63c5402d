------------------------------- MODULE SetSums -------------------------------
(***************************************************************************)
(* What several proofs need.  Recursion along 0 .. n, and sequences a      *)
(* member is taken out of.                                                 *)
(*                                                                         *)
(* Sums over finite sets: what MapThenSumSet, which the components use to  *)
(* add up a table, gives for the empty set, for a set a member is taken    *)
(* out of, and for a table of which one entry changes.  MapThenSumSet is a *)
(* recursive function on the subsets; that there is one, and that its      *)
(* values do not depend on the order, is shown by a least counterexample   *)
(* each.                                                                   *)
(***************************************************************************)
EXTENDS Integers, FiniteSets, FiniteSetsExt, SequencesExt, FiniteSetTheorems, SequenceTheorems,
        WellFoundedInduction, TLAPS

SumOver(w, S) == MapThenSumSet(LAMBDA x : w[x], S)

First(s) == CHOOSE x \in s : TRUE
Unfold(w, f, s) == IF s = {} THEN 0 ELSE w[First(s)] + f[s \ {First(s)}]

LEMMA SumDef ==
    ASSUME NEW w, NEW S
    PROVE  SumOver(w, S) = (CHOOSE f : f = [s \in SUBSET S |-> Unfold(w, f, s)])[S]
  BY DEF SumOver, MapThenSumSet, MapThenFoldSet, Unfold, First

LEMMA FirstIn == ASSUME NEW s, s # {} PROVE First(s) \in s
  BY DEF First

\* Every set of natural numbers has a least member.
LEMMA LeastNat ==
    ASSUME NEW N \in SUBSET Nat, N # {}
    PROVE  \E n \in N : \A m \in N : n <= m
  <1> DEFINE R == {r \in Nat \X Nat : r[1] < r[2]}
  <1>1. \A x \in Nat, y \in Nat : <<x, y>> \in R <=> x < y OBVIOUS
  <1>2. IsWellFoundedOn(R, Nat) BY NatLessThanWellFounded DEF OpToRel
  <1> HIDE DEF R
  <1>3. PICK n \in N : \A m \in N : ~ (<<m, n>> \in R) BY <1>2, WFMin
  <1>4. \A m \in N : n <= m
    <2> SUFFICES ASSUME NEW m \in N PROVE n <= m OBVIOUS
    <2>1. m \in Nat /\ n \in Nat OBVIOUS
    <2>2. ~ (m < n) BY <1>1, <1>3, <2>1
    <2> QED BY <2>1, <2>2
  <1> QED BY <1>4

LEMMA Smaller ==
    ASSUME NEW S, IsFiniteSet(S), NEW x \in S
    PROVE  /\ IsFiniteSet(S \ {x})
           /\ Cardinality(S) \in Nat /\ Cardinality(S) # 0
           /\ Cardinality(S \ {x}) = Cardinality(S) - 1
           /\ Cardinality(S \ {x}) \in Nat
  BY FS_CardinalityType, FS_RemoveElement, FS_EmptySet

\* The sums of all sets of up to n members.
SmallSets(U, n) == {s \in SUBSET U : Cardinality(s) <= n}
Sums(U, w, f, n) == f \in [SmallSets(U, n) -> Nat] /\ \A s \in SmallSets(U, n) : f[s] = Unfold(w, f, s)

LEMMA SubFinite ==
    ASSUME NEW U, IsFiniteSet(U), NEW s \in SUBSET U
    PROVE  IsFiniteSet(s) /\ Cardinality(s) \in Nat /\ Cardinality(s) <= Cardinality(U)
  <1>1. IsFiniteSet(s) /\ Cardinality(s) <= Cardinality(U) BY FS_Subset
  <1> QED BY <1>1, FS_CardinalityType

LEMMA SumsExist ==
    ASSUME NEW U, IsFiniteSet(U), NEW w \in [U -> Nat], NEW n \in Nat
    PROVE  \E f : Sums(U, w, f, n)
  <1> DEFINE Bad == {k \in Nat : ~ \E f : Sums(U, w, f, k)}
  <1> SUFFICES ASSUME Bad # {} PROVE FALSE OBVIOUS
  <1>1. PICK k \in Bad : \A m \in Bad : k <= m
    <2>1. Bad \in SUBSET Nat OBVIOUS
    <2> HIDE DEF Bad
    <2> QED BY <2>1, LeastNat
  <1>2. k \in Nat /\ ~ \E f : Sums(U, w, f, k) OBVIOUS
  <1>3. CASE k = 0
    <2> DEFINE f == [s \in SmallSets(U, 0) |-> 0]
    <2>1. \A s \in SmallSets(U, 0) : s = {}
      <3> SUFFICES ASSUME NEW s \in SmallSets(U, 0) PROVE s = {} OBVIOUS
      <3>1. s \in SUBSET U /\ Cardinality(s) <= 0 BY DEF SmallSets
      <3>2. Cardinality(s) \in Nat /\ IsFiniteSet(s) BY <3>1, SubFinite
      <3>3. Cardinality(s) = 0 BY <3>1, <3>2
      <3> QED BY <3>2, <3>3, FS_EmptySet
    <2>2. \A s \in SmallSets(U, 0) : f[s] = Unfold(w, f, s) BY <2>1 DEF Unfold
    <2>3. Sums(U, w, f, 0) BY <2>2 DEF Sums
    <2> QED BY <1>2, <1>3, <2>3
  <1>4. CASE k # 0
    <2>1. k - 1 \in Nat /\ k - 1 < k BY <1>2, <1>4
    <2>2. k - 1 \notin Bad
      <3> HIDE DEF Bad
      <3> QED BY <1>1, <1>2, <2>1
    <2>3. PICK f : Sums(U, w, f, k - 1) BY <2>1, <2>2
    <2> DEFINE g == [s \in SmallSets(U, k) |-> Unfold(w, f, s)]
    <2> HIDE DEF Bad
    <2>4. ASSUME NEW s \in SmallSets(U, k), s # {}
          PROVE  /\ First(s) \in U /\ s \ {First(s)} \in SmallSets(U, k - 1)
                 /\ s \ {First(s)} \in SmallSets(U, k)
      <3>1. s \in SUBSET U /\ Cardinality(s) <= k BY DEF SmallSets
      <3>2. First(s) \in s BY <2>4, FirstIn
      <3>3. Cardinality(s) \in Nat /\ IsFiniteSet(s) BY <3>1, SubFinite
      <3>4. Cardinality(s \ {First(s)}) = Cardinality(s) - 1 /\ Cardinality(s \ {First(s)}) \in Nat
        BY <3>2, <3>3, Smaller
      <3>5. Cardinality(s \ {First(s)}) <= k - 1 /\ Cardinality(s \ {First(s)}) <= k
        BY <1>2, <3>1, <3>3, <3>4
      <3> QED BY <3>1, <3>2, <3>5 DEF SmallSets
    <2>5. \A s \in SmallSets(U, k) : Unfold(w, f, s) \in Nat
      <3> SUFFICES ASSUME NEW s \in SmallSets(U, k), s # {} PROVE Unfold(w, f, s) \in Nat
        BY DEF Unfold
      <3>1. w[First(s)] \in Nat BY <2>4
      <3>2. f[s \ {First(s)}] \in Nat BY <2>3, <2>4 DEF Sums
      <3> QED BY <3>1, <3>2 DEF Unfold
    <2>6. \A t \in SmallSets(U, k) : t \in SmallSets(U, k - 1) => g[t] = f[t] BY <2>3 DEF Sums
    <2>7. \A s \in SmallSets(U, k) : g[s] = Unfold(w, g, s)
      <3> SUFFICES ASSUME NEW s \in SmallSets(U, k), s # {} PROVE g[s] = Unfold(w, g, s)
        BY DEF Unfold
      <3>1. g[s \ {First(s)}] = f[s \ {First(s)}] BY <2>4, <2>6
      <3> QED BY <3>1 DEF Unfold
    <2>8. Sums(U, w, g, k) BY <2>5, <2>7 DEF Sums
    <2> QED BY <1>2, <2>8
  <1> QED BY <1>3, <1>4

\* What the recursion says of SumOver(w, .).
LEMMA SumUnfold ==
    ASSUME NEW U, IsFiniteSet(U), NEW w \in [U -> Nat], NEW S \in SUBSET U
    PROVE  /\ SumOver(w, S) \in Nat
           /\ S = {} => SumOver(w, S) = 0
           /\ S # {} => /\ First(S) \in S
                        /\ SumOver(w, S) = w[First(S)] + SumOver(w, S \ {First(S)})
  <1> DEFINE n == Cardinality(U)
  <1>1. n \in Nat BY FS_CardinalityType
  <1>2. SmallSets(U, n) = SUBSET U BY SubFinite DEF SmallSets
  <1>3. PICK f : Sums(U, w, f, n)
    <2> HIDE DEF n
    <2> QED BY <1>1, SumsExist
  <1> HIDE DEF n
  <1>4. \A s \in SUBSET U : f[s] \in Nat /\ f[s] = Unfold(w, f, s)
    BY <1>2, <1>3 DEF Sums
  <1>5. ASSUME NEW T \in SUBSET U PROVE SumOver(w, T) = f[T]
    <2> DEFINE Is(g) == g = [s \in SUBSET T |-> Unfold(w, g, s)]
    <2> DEFINE r == [s \in SUBSET T |-> f[s]]
    <2>1. Is(r)
      <3> SUFFICES ASSUME NEW s \in SUBSET T PROVE r[s] = Unfold(w, r, s) OBVIOUS
      <3>1. f[s] = Unfold(w, f, s) BY <1>4
      <3>2. CASE s = {} BY <3>1, <3>2 DEF Unfold
      <3>3. CASE s # {}
        <4>1. s \ {First(s)} \in SUBSET T BY <3>3
        <4> QED BY <3>1, <3>3, <4>1 DEF Unfold
      <3> QED BY <3>2, <3>3
    <2> DEFINE g == CHOOSE h : Is(h)
    <2>2. Is(g) BY <2>1
    <2>3. SumOver(w, T) = g[T] BY SumDef
    <2>4. g = [s \in SUBSET T |-> Unfold(w, g, s)] BY <2>2
    <2> HIDE DEF g, Is, r
    <2> DEFINE Bad == {k \in Nat : \E s \in SUBSET T : Cardinality(s) = k /\ g[s] # f[s]}
    <2>5. Bad = {}
      <3> SUFFICES ASSUME Bad # {} PROVE FALSE OBVIOUS
      <3>1. PICK k \in Bad : \A m \in Bad : k <= m
        <4>1. Bad \in SUBSET Nat OBVIOUS
        <4> HIDE DEF Bad
        <4> QED BY <4>1, LeastNat
      <3>2. PICK s \in SUBSET T : Cardinality(s) = k /\ g[s] # f[s] OBVIOUS
      <3>3. g[s] = Unfold(w, g, s) /\ f[s] = Unfold(w, f, s)
        BY <1>4, <2>4
      <3>4. s # {} BY <3>2, <3>3 DEF Unfold
      <3>5. First(s) \in s BY <3>4, FirstIn
      <3>6. IsFiniteSet(s) BY SubFinite
      <3>7. Cardinality(s \ {First(s)}) = k - 1 /\ Cardinality(s \ {First(s)}) \in Nat /\ k \in Nat
        BY <3>2, <3>5, <3>6, Smaller
      <3>8. k - 1 \notin Bad
        <4> HIDE DEF Bad
        <4> QED BY <3>1, <3>7
      <3>9. g[s \ {First(s)}] = f[s \ {First(s)}]
        <4>1. s \ {First(s)} \in SUBSET T OBVIOUS
        <4> QED BY <3>7, <3>8, <4>1
      <3> QED BY <3>2, <3>3, <3>4, <3>9 DEF Unfold
    <2>6. T \in SUBSET T /\ Cardinality(T) \in Nat BY SubFinite
    <2>7. g[T] = f[T] BY <2>5, <2>6
    <2> QED BY <2>3, <2>7
  <1>6. CASE S = {} BY <1>4, <1>5, <1>6 DEF Unfold
  <1>7. CASE S # {}
    <2>1. First(S) \in S /\ S \ {First(S)} \in SUBSET U BY <1>7, FirstIn
    <2>2. SumOver(w, S \ {First(S)}) = f[S \ {First(S)}] BY <1>5, <2>1
    <2> QED BY <1>4, <1>5, <1>7, <2>1, <2>2 DEF Unfold
  <1> QED BY <1>6, <1>7

\* Any member may be taken out of a sum.
LEMMA SumTake ==
    ASSUME NEW U, IsFiniteSet(U), NEW w \in [U -> Nat], NEW S \in SUBSET U, NEW q \in S
    PROVE  SumOver(w, S) = w[q] + SumOver(w, S \ {q})
  <1> DEFINE Wrong(T) == \E x \in T : SumOver(w, T) # w[x] + SumOver(w, T \ {x})
  <1> DEFINE Bad == {k \in Nat : \E T \in SUBSET U : Cardinality(T) = k /\ Wrong(T)}
  <1>1. Bad = {}
    <2> SUFFICES ASSUME Bad # {} PROVE FALSE OBVIOUS
    <2>1. PICK k \in Bad : \A m \in Bad : k <= m
      <3>1. Bad \in SUBSET Nat OBVIOUS
      <3> HIDE DEF Bad
      <3> QED BY <3>1, LeastNat
    <2>2. PICK T \in SUBSET U : Cardinality(T) = k /\ Wrong(T) OBVIOUS
    <2>3. PICK x \in T : SumOver(w, T) # w[x] + SumOver(w, T \ {x}) BY <2>2
    <2>4. PICK p \in T : SumOver(w, T) = w[p] + SumOver(w, T \ {p})
      <3>1. T # {} BY <2>3
      <3>2. First(T) \in T /\ SumOver(w, T) = w[First(T)] + SumOver(w, T \ {First(T)})
        BY <3>1, SumUnfold
      <3> QED BY <3>2
    <2>5. p # x BY <2>3, <2>4
    <2>6. IsFiniteSet(T) /\ T \ {p} \in SUBSET U /\ T \ {x} \in SUBSET U
      BY SubFinite
    <2>7. /\ Cardinality(T \ {p}) = k - 1 /\ Cardinality(T \ {x}) = k - 1
          /\ k \in Nat /\ k - 1 \in Nat
      <3>1. Cardinality(T \ {p}) = k - 1 /\ Cardinality(T \ {p}) \in Nat /\ k \in Nat
        BY <2>2, <2>4, <2>6, Smaller
      <3>2. Cardinality(T \ {x}) = k - 1 BY <2>2, <2>6, Smaller
      <3> QED BY <3>1, <3>2
    <2>8. k - 1 \notin Bad
      <3> HIDE DEF Bad
      <3> QED BY <2>1, <2>7
    <2>9. ~ Wrong(T \ {p}) /\ ~ Wrong(T \ {x}) BY <2>6, <2>7, <2>8
    <2>10. /\ SumOver(w, T \ {p}) = w[x] + SumOver(w, (T \ {p}) \ {x})
           /\ SumOver(w, T \ {x}) = w[p] + SumOver(w, (T \ {x}) \ {p})
      BY <2>4, <2>5, <2>9
    <2>11. (T \ {p}) \ {x} = (T \ {x}) \ {p} OBVIOUS
    <2>12. w[p] \in Nat /\ w[x] \in Nat BY <2>4
    <2>13. SumOver(w, (T \ {p}) \ {x}) \in Nat
      <3>1. (T \ {p}) \ {x} \in SUBSET U OBVIOUS
      <3> QED BY <3>1, SumUnfold
    <2>14. PICK r \in Nat : r = SumOver(w, (T \ {p}) \ {x}) BY <2>13
    <2>15. SumOver(w, T \ {p}) = w[x] + r /\ SumOver(w, T \ {x}) = w[p] + r
      BY <2>10, <2>11, <2>14
    <2>16. w[p] + (w[x] + r) = w[x] + (w[p] + r) BY <2>12
    <2> QED BY <2>3, <2>4, <2>15, <2>16
  <1>2. Cardinality(S) \in Nat BY SubFinite
  <1>3. ~ Wrong(S) BY <1>1, <1>2
  <1> QED BY <1>3

\* Two tables that agree on a set have the same sum over it.
LEMMA SumSame ==
    ASSUME NEW U, IsFiniteSet(U), NEW w \in [U -> Nat], NEW v \in [U -> Nat],
           NEW S \in SUBSET U, \A x \in S : w[x] = v[x]
    PROVE  SumOver(w, S) = SumOver(v, S)
  <1> DEFINE Bad == {k \in Nat : \E T \in SUBSET S : /\ Cardinality(T) = k
                                                     /\ SumOver(w, T) # SumOver(v, T)}
  <1>1. Bad = {}
    <2> SUFFICES ASSUME Bad # {} PROVE FALSE OBVIOUS
    <2>1. PICK k \in Bad : \A m \in Bad : k <= m
      <3>1. Bad \in SUBSET Nat OBVIOUS
      <3> HIDE DEF Bad
      <3> QED BY <3>1, LeastNat
    <2>2. PICK T \in SUBSET S : Cardinality(T) = k /\ SumOver(w, T) # SumOver(v, T) OBVIOUS
    <2>3. T \in SUBSET U /\ IsFiniteSet(T) BY SubFinite
    <2>4. T # {} BY <2>2, <2>3, SumUnfold
    <2>5. PICK x \in T : TRUE BY <2>4
    <2>6. /\ SumOver(w, T) = w[x] + SumOver(w, T \ {x})
          /\ SumOver(v, T) = v[x] + SumOver(v, T \ {x})
      BY <2>3, <2>5, SumTake
    <2>7. Cardinality(T \ {x}) = k - 1 /\ Cardinality(T \ {x}) \in Nat /\ k \in Nat
      BY <2>2, <2>3, <2>5, Smaller
    <2>8. k - 1 \notin Bad
      <3> HIDE DEF Bad
      <3> QED BY <2>1, <2>7
    <2>9. T \ {x} \in SUBSET S OBVIOUS
    <2>10. SumOver(w, T \ {x}) = SumOver(v, T \ {x}) BY <2>7, <2>8, <2>9
    <2>11. w[x] = v[x] BY <2>5
    <2> QED BY <2>2, <2>6, <2>10, <2>11
  <1>2. S \in SUBSET S /\ Cardinality(S) \in Nat BY SubFinite
  <1> QED BY <1>1, <1>2

\* The sum of a table of which one entry changes.
LEMMA SumChange ==
    ASSUME NEW U, IsFiniteSet(U), NEW w \in [U -> Nat], NEW x \in U, NEW n \in Nat,
           NEW v \in [U -> Nat], v[x] = n, \A y \in U \ {x} : v[y] = w[y]
    PROVE  /\ SumOver(v, U) \in Nat /\ SumOver(w, U) \in Nat
           /\ SumOver(v, U) + w[x] = SumOver(w, U) + n
  <1> DEFINE R == U \ {x}
  <1>1. v \in [U -> Nat] /\ v[x] = n /\ \A y \in R : w[y] = v[y] OBVIOUS
  <1>2. R \in SUBSET U /\ U \in SUBSET U OBVIOUS
  <1>3. SumOver(w, U) = w[x] + SumOver(w, R) /\ SumOver(v, U) = v[x] + SumOver(v, R)
    BY <1>1, <1>2, SumTake
  <1>4. SumOver(w, R) = SumOver(v, R)
    <2> HIDE DEF R
    <2> QED BY <1>1, <1>2, SumSame
  <1>5. SumOver(w, R) \in Nat BY <1>2, SumUnfold
  <1> HIDE DEF R
  <1>6. PICK r \in Nat : r = SumOver(w, R) BY <1>5
  <1>7. SumOver(w, U) = w[x] + r /\ SumOver(v, U) = n + r BY <1>1, <1>3, <1>4, <1>6
  <1>8. w[x] \in Nat OBVIOUS
  <1> QED BY <1>1, <1>6, <1>7, <1>8

\* An entry is at most the sum.
LEMMA SumEntry ==
    ASSUME NEW U, IsFiniteSet(U), NEW w \in [U -> Nat], NEW x \in U
    PROVE  w[x] <= SumOver(w, U)
  <1>1. U \in SUBSET U /\ U \ {x} \in SUBSET U OBVIOUS
  <1>2. SumOver(w, U) = w[x] + SumOver(w, U \ {x}) BY <1>1, SumTake
  <1>3. SumOver(w, U \ {x}) \in Nat BY <1>1, SumUnfold
  <1> QED BY <1>2, <1>3

\* A table of zeros.
LEMMA SumZero ==
    ASSUME NEW U, IsFiniteSet(U), NEW w \in [U -> Nat], \A x \in U : w[x] = 0
    PROVE  SumOver(w, U) = 0
  <1> DEFINE Bad == {k \in Nat : \E T \in SUBSET U : Cardinality(T) = k /\ SumOver(w, T) # 0}
  <1>1. Bad = {}
    <2> SUFFICES ASSUME Bad # {} PROVE FALSE OBVIOUS
    <2>1. PICK k \in Bad : \A m \in Bad : k <= m
      <3>1. Bad \in SUBSET Nat OBVIOUS
      <3> HIDE DEF Bad
      <3> QED BY <3>1, LeastNat
    <2>2. PICK T \in SUBSET U : Cardinality(T) = k /\ SumOver(w, T) # 0 OBVIOUS
    <2>3. T # {} BY <2>2, SumUnfold
    <2>4. PICK x \in T : TRUE BY <2>3
    <2>5. SumOver(w, T) = w[x] + SumOver(w, T \ {x}) /\ w[x] = 0 BY <2>4, SumTake
    <2>6. IsFiniteSet(T) BY SubFinite
    <2>7. Cardinality(T \ {x}) = k - 1 /\ Cardinality(T \ {x}) \in Nat /\ k \in Nat
      BY <2>2, <2>4, <2>6, Smaller
    <2>8. k - 1 \notin Bad
      <3> HIDE DEF Bad
      <3> QED BY <2>1, <2>7
    <2>9. T \ {x} \in SUBSET U OBVIOUS
    <2>10. SumOver(w, T \ {x}) = 0 BY <2>7, <2>8, <2>9
    <2> QED BY <2>2, <2>5, <2>10
  <1>2. U \in SUBSET U /\ Cardinality(U) \in Nat BY SubFinite
  <1> QED BY <1>1, <1>2

-----------------------------------------------------------------------------
\* Along 0 .. n.
LEMMA UpTo ==
    ASSUME NEW n \in Nat, NEW I, 0 \in I, \A i \in 1 .. n : i - 1 \in I => i \in I
    PROVE  \A i \in 0 .. n : i \in I
  <1> DEFINE N == (0 .. n) \ I
  <1> SUFFICES ASSUME N # {} PROVE FALSE OBVIOUS
  <1>1. N \in SUBSET Nat OBVIOUS
  <1>2. PICK m \in N : \A k \in N : m <= k BY <1>1, LeastNat
  <1>3. m \in 1 .. n OBVIOUS
  <1>4. m - 1 \notin N BY <1>2, <1>3
  <1>5. m - 1 \in I BY <1>3, <1>4
  <1> QED BY <1>3, <1>5

\* A recursive function of which each value is in D when the one before it is:
\* there is one, and all its values are.
Reaches(n, D, b, s) ==
    \E f \in [0 .. n -> D] : \A i \in 0 .. n : f[i] = IF i = 0 THEN b ELSE s[<<f[i - 1], i>>]

LEMMA RecursionExists ==
    ASSUME NEW n \in Nat, NEW D, NEW b \in D, NEW s \in [D \X Nat -> D]
    PROVE  Reaches(n, D, b, s)
  <1> DEFINE Has(m) == \E f \in [0 .. m -> D] : \A i \in 0 .. m : f[i] = IF i = 0 THEN b ELSE s[<<f[i - 1], i>>]
             I == {m \in 0 .. n : Has(m)}
  <1>1. 0 \in I
    <2> DEFINE f == [i \in 0 .. 0 |-> b]
    <2>1. f \in [0 .. 0 -> D] /\ \A i \in 0 .. 0 : f[i] = IF i = 0 THEN b ELSE s[<<f[i - 1], i>>] OBVIOUS
    <2> HIDE DEF f
    <2>2. Has(0) BY <2>1
    <2> QED BY <2>2
  <1>2. ASSUME NEW m \in 1 .. n, m - 1 \in I PROVE m \in I
    <2>1. PICK f \in [0 .. m - 1 -> D] : \A i \in 0 .. m - 1 : f[i] = IF i = 0 THEN b ELSE s[<<f[i - 1], i>>]
      BY <1>2
    <2> DEFINE v == s[<<f[m - 1], m>>]
               g == [i \in 0 .. m |-> IF i = m THEN v ELSE f[i]]
    <2>2. v \in D OBVIOUS
    <2> HIDE DEF v
    <2>3. g \in [0 .. m -> D] BY <2>2
    <2>4. \A i \in 0 .. m - 1 : g[i] = f[i] OBVIOUS
    <2>5. g[m] = v OBVIOUS
    <2> HIDE DEF g
    <2>6. \A i \in 0 .. m : g[i] = IF i = 0 THEN b ELSE s[<<g[i - 1], i>>]
      <3> TAKE i \in 0 .. m
      <3>1. CASE i = m
        <4>1. m # 0 /\ m - 1 \in 0 .. m - 1 OBVIOUS
        <4> QED BY <2>4, <2>5, <3>1, <4>1 DEF v
      <3>2. CASE i # m
        <4>1. i \in 0 .. m - 1 /\ (i # 0 => i - 1 \in 0 .. m - 1) BY <3>2
        <4> QED BY <2>1, <2>4, <4>1
      <3> QED BY <3>1, <3>2
    <2>7. Has(m) BY <2>3, <2>6
    <2> QED BY <2>7
  <1> HIDE DEF Has
  <1>3. \A i \in 0 .. n : i \in I
    <2> HIDE DEF I
    <2> QED BY <1>1, <1>2, UpTo
  <1>4. Has(n) BY <1>3
  <1> QED BY <1>4 DEF Has, Reaches

LEMMA RecursionIn ==
    ASSUME NEW n \in Nat, NEW D, NEW f, f[0] \in D,
           \A i \in 1 .. n : f[i - 1] \in D => f[i] \in D
    PROVE  \A i \in 0 .. n : f[i] \in D
  <1> DEFINE I == {i \in 0 .. n : f[i] \in D}
  <1>1. 0 \in I /\ \A i \in 1 .. n : i - 1 \in I => i \in I OBVIOUS
  <1> HIDE DEF I
  <1>2. \A i \in 0 .. n : i \in I BY <1>1, UpTo
  <1> QED BY <1>2 DEF I

\* A sequence without its k-th member.
LEMMA RemovedAt ==
    ASSUME NEW S, NEW s \in Seq(S), NEW k \in 1 .. Len(s)
    PROVE  /\ RemoveAt(s, k) \in Seq(S)
           /\ Len(RemoveAt(s, k)) = Len(s) - 1
           /\ \A n \in 1 .. Len(RemoveAt(s, k)) : RemoveAt(s, k)[n] = IF n < k THEN s[n] ELSE s[n + 1]
  <1> DEFINE a == SubSeq(s, 1, k - 1)
             b == SubSeq(s, k + 1, Len(s))
  <1>1. k \in Nat /\ Len(s) \in Nat /\ 1 <= k /\ k <= Len(s) BY LenProperties
  <1>2. a \in Seq(S) /\ Len(a) = k - 1 /\ \A n \in 1 .. k - 1 : a[n] = s[n]
    BY <1>1, SubSeqProperties
  <1>3. b \in Seq(S) /\ Len(b) = Len(s) - k /\ \A n \in 1 .. Len(s) - k : b[n] = s[k + n]
    BY <1>1, SubSeqProperties
  <1>4. RemoveAt(s, k) = a \o b BY DEF RemoveAt
  <1> HIDE DEF a, b
  <1>5. /\ a \o b \in Seq(S) /\ Len(a \o b) = Len(a) + Len(b)
        /\ \A n \in 1 .. Len(a) + Len(b) : (a \o b)[n] = IF n <= Len(a) THEN a[n] ELSE b[n - Len(a)]
    BY <1>2, <1>3, ConcatProperties
  <1>6. Len(a) + Len(b) = Len(s) - 1 BY <1>1, <1>2, <1>3
  <1>7. \A n \in 1 .. Len(s) - 1 : (a \o b)[n] = IF n < k THEN s[n] ELSE s[n + 1]
    <2> TAKE n \in 1 .. Len(s) - 1
    <2>1. (a \o b)[n] = IF n <= Len(a) THEN a[n] ELSE b[n - Len(a)] BY <1>5, <1>6
    <2>2. CASE n < k BY <1>1, <1>2, <2>1, <2>2
    <2>3. CASE ~ (n < k)
      <3>1. n - (k - 1) \in 1 .. Len(s) - k /\ k + (n - (k - 1)) = n + 1 /\ ~ (n <= k - 1) BY <1>1, <2>3
      <3>2. (a \o b)[n] = b[n - (k - 1)] BY <1>2, <2>1, <3>1
      <3> QED BY <1>3, <2>3, <3>1, <3>2
    <2> QED BY <2>2, <2>3
  <1> QED BY <1>4, <1>5, <1>6, <1>7
=============================================================================
