------------------------ MODULE ProcessArithmetic ------------------------
(***************************************************************************)
(* The arithmetic of the status that Process reports: sums over the cells  *)
(* and the domains, quotients, and the rounding of float64.                *)
(*                                                                         *)
(* Total and Pow2 are recursive.  Every induction below is that a          *)
(* counterexample of least size does not exist.                            *)
(***************************************************************************)
EXTENDS Process, FiniteSetTheorems, WellFoundedInduction, TLAPS

-----------------------------------------------------------------------------
(* Induction, by the least element of a set of natural numbers.            *)

\* The library states this as the well-foundedness of <.
LEMMA Least ==
  ASSUME NEW T \in SUBSET Nat, T # {}
  PROVE  \E n \in T : \A m \in T : n <= m
<1>1. PICK n \in T : \A m \in T : ~(<<m, n>> \in OpToRel(<, Nat))
  BY WFMin, NatLessThanWellFounded
<1>2. \A m \in T : ~(m < n)
  BY <1>1 DEF OpToRel
<1> QED
  BY <1>2

\* A set that has 0 and the successors of its elements has every natural number.
LEMMA NatInductionSet ==
  ASSUME NEW Q, 0 \in Q, \A n \in Nat : n \in Q => n + 1 \in Q
  PROVE  Nat \subseteq Q
<1> SUFFICES ASSUME NEW k \in Nat, k \notin Q PROVE FALSE
  OBVIOUS
<1>1. PICK n \in Nat \ Q : \A m \in Nat \ Q : n <= m
  <2>1. Nat \ Q \in SUBSET Nat /\ Nat \ Q # {}
    OBVIOUS
  <2> QED
    BY <2>1, Least
<1>2. n # 0 /\ n - 1 \in Nat
  BY <1>1
<1>3. n - 1 \in Q
  BY <1>1, <1>2
<1>4. (n - 1) + 1 \in Q
  BY <1>2, <1>3
<1> QED
  BY <1>1, <1>4

\* A set of subsets of S that has the empty set, and every set it has without one
\* of its elements, has S.
LEMMA SetInduction ==
  ASSUME NEW S, IsFiniteSet(S), NEW Q, {} \in Q,
         \A T \in SUBSET S : T # {} /\ (\A x \in T : T \ {x} \in Q) => T \in Q
  PROVE  S \in Q
<1> SUFFICES ASSUME S \notin Q PROVE FALSE
  OBVIOUS
<1> DEFINE Bad == {n \in Nat : \E T \in SUBSET S : T \notin Q /\ Cardinality(T) = n}
<1>1. \A T \in SUBSET S : IsFiniteSet(T) /\ Cardinality(T) \in Nat
  BY FS_Subset, FS_CardinalityType
<1>2. Bad # {}
  BY <1>1
<1>3. PICK n \in Bad : \A m \in Bad : n <= m
  <2> HIDE DEF Bad
  <2>1. Bad \in SUBSET Nat
    BY DEF Bad
  <2> QED
    BY <1>2, <2>1, Least
<1>4. PICK T \in SUBSET S : T \notin Q /\ Cardinality(T) = n
  BY <1>3
<1>5. PICK x \in T : T \ {x} \notin Q
  BY <1>4
<1>6. Cardinality(T \ {x}) = n - 1 /\ T \ {x} \in SUBSET S
  BY <1>1, <1>4, FS_RemoveElement
<1>7. n - 1 \in Bad
  BY <1>1, <1>5, <1>6
<1> QED
  BY <1>3, <1>7

-----------------------------------------------------------------------------
(* Sums.                                                                   *)

Pick(s) == CHOOSE x \in s : TRUE

\* The recursion that defines a sum.
Sums(f, S, it) ==
  it = [s \in SUBSET S |-> IF s = {} THEN 0 ELSE f[Pick(s)] + it[s \ {Pick(s)}]]

SumOn(f, S) == (CHOOSE it : Sums(f, S, it))[S]

\* Total is a sum over its domain.
LEMMA TotalIsSum == \A f : Total(f) = SumOn(f, DOMAIN f)
  BY DEF Total, FoldFunction, FoldFunctionOnSet, MapThenFoldSet, SumOn, Sums, Pick

LEMMA PickType == \A s : s # {} => Pick(s) \in s
  BY DEF Pick

\* Two solutions of the recursion agree where both are defined.
LEMMA SumsAgree ==
  ASSUME NEW f, NEW S, NEW T, NEW g, NEW h, Sums(f, S, g), Sums(f, T, h),
         NEW U \in SUBSET (S \cap T), IsFiniteSet(U)
  PROVE  g[U] = h[U]
<1> DEFINE Q == {V \in SUBSET U : g[V] = h[V]}
<1>1. \A V \in SUBSET U :
        /\ g[V] = IF V = {} THEN 0 ELSE f[Pick(V)] + g[V \ {Pick(V)}]
        /\ h[V] = IF V = {} THEN 0 ELSE f[Pick(V)] + h[V \ {Pick(V)}]
  <2> TAKE V \in SUBSET U
  <2>1. V \in SUBSET S /\ V \in SUBSET T
    OBVIOUS
  <2> QED
    BY <2>1 DEF Sums
<1>2. {} \in Q
  BY <1>1
<1>3. ASSUME NEW V \in SUBSET U, V # {}, \A x \in V : V \ {x} \in Q
      PROVE  V \in Q
  BY <1>1, <1>3, PickType
<1>4. U \in Q
  <2> HIDE DEF Q
  <2> QED
    BY <1>2, <1>3, SetInduction
<1> QED
  BY <1>4

\* The recursion has a solution: the step from the proper subsets of T to T takes
\* each of their sums from a solution of its own.
LEMMA SumsExist ==
  ASSUME NEW f, NEW S, IsFiniteSet(S)
  PROVE  \E it : Sums(f, S, it)
<1> DEFINE Q == {T \in SUBSET S : \A U \in SUBSET T : \E it : Sums(f, U, it)}
<1>0. \A T \in SUBSET S : IsFiniteSet(T)
  BY FS_Subset
<1>1. {} \in Q
  <2>1. Sums(f, {}, [s \in SUBSET {} |-> 0])
    BY DEF Sums
  <2> QED
    BY <2>1
<1>2. ASSUME NEW T \in SUBSET S, T # {}, \A x \in T : T \ {x} \in Q
      PROVE  T \in Q
  <2>1. ASSUME NEW U \in SUBSET T, U # T PROVE \E it : Sums(f, U, it)
    <3>1. PICK x \in T : x \notin U
      BY <2>1
    <3>2. U \in SUBSET (T \ {x})
      BY <3>1
    <3> QED
      BY <1>2, <3>2
  <2> DEFINE it == [s \in SUBSET T |->
                      IF s = {} THEN 0 ELSE f[Pick(s)] + SumOn(f, s \ {Pick(s)})]
  <2>2. ASSUME NEW U \in SUBSET T, U # T PROVE it[U] = SumOn(f, U)
    <3>1. PICK g : g = CHOOSE i : Sums(f, U, i)
      OBVIOUS
    <3>2. Sums(f, U, g)
      BY <2>1, <2>2, <3>1
    <3>3. g[U] = IF U = {} THEN 0 ELSE f[Pick(U)] + g[U \ {Pick(U)}]
      BY <3>2 DEF Sums
    <3>4. CASE U = {}
      BY <3>1, <3>3, <3>4 DEF SumOn
    <3>5. CASE U # {}
      <4> DEFINE W == U \ {Pick(U)}
      <4>1. PICK h : h = CHOOSE i : Sums(f, W, i)
        OBVIOUS
      <4>2. W \in SUBSET T /\ W # T /\ W \in SUBSET (U \cap W) /\ IsFiniteSet(W)
        BY <1>0, <3>5, <2>2, PickType
      <4>3. Sums(f, W, h)
        BY <2>1, <4>1, <4>2
      <4>4. g[W] = h[W]
        BY <3>2, <4>2, <4>3, SumsAgree
      <4> QED
        BY <3>1, <3>3, <3>5, <4>1, <4>4 DEF SumOn
    <3> QED
      BY <3>4, <3>5
  <2>3. Sums(f, T, it)
    <3>1. \A s \in SUBSET T : s # {} => s \ {Pick(s)} \in SUBSET T /\ s \ {Pick(s)} # T
      BY PickType
    <3>2. \A s \in SUBSET T :
            it[s] = IF s = {} THEN 0 ELSE f[Pick(s)] + it[s \ {Pick(s)}]
      BY <2>2, <3>1
    <3> QED
      BY <3>2 DEF Sums
  <2> QED
    BY <2>1, <2>3
<1>3. S \in Q
  <2> HIDE DEF Q
  <2> QED
    BY <1>1, <1>2, SetInduction
<1> QED
  BY <1>3

LEMMA SumEmpty == \A f : SumOn(f, {}) = 0
<1> TAKE f
<1>1. PICK it : it = CHOOSE i : Sums(f, {}, i)
  OBVIOUS
<1>2. Sums(f, {}, it)
  BY <1>1, SumsExist, FS_EmptySet
<1> QED
  BY <1>1, <1>2 DEF SumOn, Sums

\* The recursion holds of SumOn.
LEMMA SumStep ==
  ASSUME NEW f, NEW S, IsFiniteSet(S), S # {}
  PROVE  SumOn(f, S) = f[Pick(S)] + SumOn(f, S \ {Pick(S)})
<1> DEFINE T == S \ {Pick(S)}
<1>1. PICK g : g = CHOOSE i : Sums(f, S, i)
  OBVIOUS
<1>2. PICK h : h = CHOOSE i : Sums(f, T, i)
  OBVIOUS
<1>3. IsFiniteSet(T) /\ T \in SUBSET (S \cap T)
  BY FS_Subset
<1>4. Sums(f, S, g) /\ Sums(f, T, h)
  BY <1>1, <1>2, <1>3, SumsExist
<1>5. g[T] = h[T]
  BY <1>3, <1>4, SumsAgree
<1>6. g[S] = f[Pick(S)] + g[T]
  BY <1>4 DEF Sums
<1> QED
  BY <1>1, <1>2, <1>5, <1>6 DEF SumOn

\* Sums of integers are integers, and of natural numbers natural numbers.
LEMMA SumInt ==
  ASSUME NEW f, NEW S, IsFiniteSet(S), \A x \in S : f[x] \in Int
  PROVE  SumOn(f, S) \in Int
<1> DEFINE Q == {T \in SUBSET S : SumOn(f, T) \in Int}
<1>1. {} \in Q
  BY SumEmpty
<1>2. ASSUME NEW T \in SUBSET S, T # {}, \A x \in T : T \ {x} \in Q
      PROVE  T \in Q
  <2>1. PICK p \in T : p = Pick(T)
    BY <1>2, PickType
  <2>2. SumOn(f, T) = f[p] + SumOn(f, T \ {p})
    BY <1>2, <2>1, SumStep, FS_Subset
  <2>3. f[p] \in Int /\ SumOn(f, T \ {p}) \in Int
    BY <1>2
  <2> QED
    BY <2>2, <2>3
<1>3. S \in Q
  <2> HIDE DEF Q
  <2> QED
    BY <1>1, <1>2, SetInduction
<1> QED
  BY <1>3

LEMMA SumNat ==
  ASSUME NEW f, NEW S, IsFiniteSet(S), \A x \in S : f[x] \in Nat
  PROVE  SumOn(f, S) \in Nat
<1> DEFINE Q == {T \in SUBSET S : SumOn(f, T) \in Nat}
<1>1. {} \in Q
  BY SumEmpty
<1>2. ASSUME NEW T \in SUBSET S, T # {}, \A x \in T : T \ {x} \in Q
      PROVE  T \in Q
  <2>1. PICK p \in T : p = Pick(T)
    BY <1>2, PickType
  <2>2. SumOn(f, T) = f[p] + SumOn(f, T \ {p})
    BY <1>2, <2>1, SumStep, FS_Subset
  <2>3. f[p] \in Nat /\ SumOn(f, T \ {p}) \in Nat
    BY <1>2
  <2> QED
    BY <2>2, <2>3
<1>3. S \in Q
  <2> HIDE DEF Q
  <2> QED
    BY <1>1, <1>2, SetInduction
<1> QED
  BY <1>3

\* Any element can be taken out of a sum.
LEMMA SumRemove ==
  ASSUME NEW f, NEW S, IsFiniteSet(S), \A x \in S : f[x] \in Int, NEW a \in S
  PROVE  SumOn(f, S) = f[a] + SumOn(f, S \ {a})
<1> DEFINE Q == {T \in SUBSET S : \A x \in T : SumOn(f, T) = f[x] + SumOn(f, T \ {x})}
<1>0. \A T \in SUBSET S : IsFiniteSet(T) /\ SumOn(f, T) \in Int
  BY FS_Subset, SumInt
<1>1. {} \in Q
  OBVIOUS
<1>2. ASSUME NEW T \in SUBSET S, T # {}, \A x \in T : T \ {x} \in Q
      PROVE  T \in Q
  <2> SUFFICES ASSUME NEW x \in T PROVE SumOn(f, T) = f[x] + SumOn(f, T \ {x})
    OBVIOUS
  <2>1. PICK p \in T : p = Pick(T)
    BY <1>2, PickType
  <2>2. SumOn(f, T) = f[p] + SumOn(f, T \ {p})
    BY <1>0, <1>2, <2>1, SumStep
  <2>3. CASE x = p
    BY <2>2, <2>3
  <2>4. CASE x # p
    <3>1. SumOn(f, T \ {p}) = f[x] + SumOn(f, (T \ {p}) \ {x})
      BY <1>2, <2>4
    <3>2. SumOn(f, T \ {x}) = f[p] + SumOn(f, (T \ {x}) \ {p})
      BY <1>2, <2>4
    <3>3. (T \ {x}) \ {p} = (T \ {p}) \ {x}
      OBVIOUS
    <3>4. PICK rest \in Int : rest = SumOn(f, (T \ {p}) \ {x})
      BY <1>0
    <3>5. SumOn(f, T \ {p}) = f[x] + rest /\ SumOn(f, T \ {x}) = f[p] + rest
      BY <3>1, <3>2, <3>3, <3>4, Zenon
    <3>6. f[x] \in Int /\ f[p] \in Int
      OBVIOUS
    <3> QED
      BY <2>2, <3>5, <3>6
  <2> QED
    BY <2>3, <2>4
<1>3. S \in Q
  <2> HIDE DEF Q
  <2> QED
    BY <1>1, <1>2, SetInduction
<1> QED
  BY <1>3

\* A sum depends on the values of the function only.
LEMMA SumSame ==
  ASSUME NEW f, NEW g, NEW S, IsFiniteSet(S), \A x \in S : f[x] = g[x]
  PROVE  SumOn(f, S) = SumOn(g, S)
<1> DEFINE Q == {T \in SUBSET S : SumOn(f, T) = SumOn(g, T)}
<1>1. {} \in Q
  BY SumEmpty
<1>2. ASSUME NEW T \in SUBSET S, T # {}, \A x \in T : T \ {x} \in Q
      PROVE  T \in Q
  <2>1. PICK p \in T : p = Pick(T)
    BY <1>2, PickType
  <2>2. /\ SumOn(f, T) = f[p] + SumOn(f, T \ {p})
        /\ SumOn(g, T) = g[p] + SumOn(g, T \ {p})
    BY <1>2, <2>1, SumStep, FS_Subset
  <2>3. f[p] = g[p] /\ SumOn(f, T \ {p}) = SumOn(g, T \ {p})
    BY <1>2
  <2> QED
    BY <2>2, <2>3
<1>3. S \in Q
  <2> HIDE DEF Q
  <2> QED
    BY <1>1, <1>2, SetInduction
<1> QED
  BY <1>3

\* The sum of a sum of functions.
LEMMA SumPlus ==
  ASSUME NEW f, NEW g, NEW h, NEW S, IsFiniteSet(S),
         \A x \in S : f[x] \in Int /\ g[x] \in Int /\ h[x] = f[x] + g[x]
  PROVE  SumOn(h, S) = SumOn(f, S) + SumOn(g, S)
<1> DEFINE Q == {T \in SUBSET S : SumOn(h, T) = SumOn(f, T) + SumOn(g, T)}
<1>0. \A T \in SUBSET S :
        /\ IsFiniteSet(T)
        /\ SumOn(f, T) \in Int /\ SumOn(g, T) \in Int
  BY FS_Subset, SumInt
<1>1. {} \in Q
  BY SumEmpty
<1>2. ASSUME NEW T \in SUBSET S, T # {}, \A x \in T : T \ {x} \in Q
      PROVE  T \in Q
  <2>1. PICK p \in T : p = Pick(T)
    BY <1>2, PickType
  <2>2. /\ SumOn(f, T) = f[p] + SumOn(f, T \ {p})
        /\ SumOn(g, T) = g[p] + SumOn(g, T \ {p})
        /\ SumOn(h, T) = h[p] + SumOn(h, T \ {p})
    BY <1>0, <1>2, <2>1, SumStep
  <2>3. /\ SumOn(f, T \ {p}) \in Int /\ SumOn(g, T \ {p}) \in Int
        /\ SumOn(h, T \ {p}) = SumOn(f, T \ {p}) + SumOn(g, T \ {p})
    BY <1>0, <1>2
  <2> QED
    BY <2>2, <2>3
<1>3. S \in Q
  <2> HIDE DEF Q
  <2> QED
    BY <1>1, <1>2, SetInduction
<1> QED
  BY <1>3

\* A sum of zeros, and of multiples.
LEMMA SumZero ==
  ASSUME NEW f, NEW S, IsFiniteSet(S), \A x \in S : f[x] = 0
  PROVE  SumOn(f, S) = 0
<1>1. PICK s \in Int : s = SumOn(f, S)
  BY SumInt
<1>2. s = s + s
  BY <1>1, SumPlus
<1>3. \A n \in Int : n = n + n => n = 0
  OBVIOUS
<1>4. s = 0
  BY <1>2, <1>3, Zenon
<1> QED
  BY <1>1, <1>4

LEMMA SumTimes ==
  ASSUME NEW f, NEW g, NEW S, IsFiniteSet(S), NEW q \in Int,
         \A x \in S : f[x] \in Int /\ g[x] = f[x] * q
  PROVE  SumOn(g, S) = SumOn(f, S) * q
<1> DEFINE Q == {T \in SUBSET S : SumOn(g, T) = SumOn(f, T) * q}
<1>1. {} \in Q
  BY SumEmpty
<1>2. ASSUME NEW T \in SUBSET S, T # {}, \A x \in T : T \ {x} \in Q
      PROVE  T \in Q
  <2>1. PICK p \in T : p = Pick(T)
    BY <1>2, PickType
  <2>2. /\ SumOn(f, T) = f[p] + SumOn(f, T \ {p})
        /\ SumOn(g, T) = g[p] + SumOn(g, T \ {p})
    BY <1>2, <2>1, SumStep, FS_Subset
  <2>3. PICK a \in Int, b \in Int : a = f[p] /\ b = SumOn(f, T \ {p})
    BY SumInt, FS_Subset
  <2>4. g[p] = a * q /\ SumOn(g, T \ {p}) = b * q
    BY <1>2, <2>3
  <2>5. (a + b) * q = a * q + b * q
    OBVIOUS
  <2> QED
    BY <2>2, <2>3, <2>4, <2>5
<1>3. S \in Q
  <2> HIDE DEF Q
  <2> QED
    BY <1>1, <1>2, SetInduction
<1> QED
  BY <1>3

\* Bounds of the terms are bounds of the sum.
LEMMA SumBounds ==
  ASSUME NEW f, NEW S, IsFiniteSet(S), NEW lo \in Int, NEW hi \in Int,
         \A x \in S : f[x] \in Int /\ lo <= f[x] /\ f[x] <= hi
  PROVE  /\ Cardinality(S) * lo <= SumOn(f, S)
         /\ SumOn(f, S) <= Cardinality(S) * hi
<1> DEFINE Q == {T \in SUBSET S : /\ Cardinality(T) * lo <= SumOn(f, T)
                                  /\ SumOn(f, T) <= Cardinality(T) * hi}
<1>1. {} \in Q
  BY SumEmpty, FS_EmptySet
<1>2. ASSUME NEW T \in SUBSET S, T # {}, \A x \in T : T \ {x} \in Q
      PROVE  T \in Q
  <2>1. PICK p \in T : p = Pick(T)
    BY <1>2, PickType
  <2>2. SumOn(f, T) = f[p] + SumOn(f, T \ {p})
    BY <1>2, <2>1, SumStep, FS_Subset
  <2>3. PICK a \in Int, b \in Int : a = f[p] /\ b = SumOn(f, T \ {p})
    BY SumInt, FS_Subset
  <2>4. PICK n \in Nat : n = Cardinality(T \ {p}) /\ Cardinality(T) = n + 1
    <3>1. IsFiniteSet(T) /\ IsFiniteSet(T \ {p})
      BY FS_Subset
    <3>2. Cardinality(T) \in Nat /\ Cardinality(T \ {p}) \in Nat
      BY <3>1, FS_CardinalityType
    <3>3. Cardinality(T \ {p}) = Cardinality(T) - 1
      BY <3>1, FS_RemoveElement
    <3> QED
      BY <3>2, <3>3
  <2>5. n * lo <= b /\ b <= n * hi
    BY <1>2, <2>3, <2>4
  <2>6. (n + 1) * lo = n * lo + lo /\ (n + 1) * hi = n * hi + hi
    OBVIOUS
  <2>7. n * lo \in Int /\ n * hi \in Int /\ lo <= a /\ a <= hi
    BY <2>3
  <2>8. (n + 1) * lo <= a + b /\ a + b <= (n + 1) * hi
    BY <2>5, <2>6, <2>7
  <2> QED
    BY <2>2, <2>3, <2>4, <2>8
<1>3. S \in Q
  <2> HIDE DEF Q
  <2> QED
    BY <1>1, <1>2, SetInduction
<1> QED
  BY <1>3

\* The sums of the rows of a table.
RowSums(m, A, B) == [a \in A |-> SumOn(m[a], B)]

\* The rows m[a] of a table and those of its transpose, t[b], have the same sum.
LEMMA SumExchange ==
  ASSUME NEW A, NEW B, IsFiniteSet(A), IsFiniteSet(B), NEW m, NEW t,
         \A a \in A : \A b \in B : m[a][b] \in Int /\ t[b][a] = m[a][b]
  PROVE  SumOn(RowSums(m, A, B), A) = SumOn(RowSums(t, B, A), B)
<1> DEFINE row == RowSums(m, A, B)
           part(T) == RowSums(t, B, T)
           Q == {T \in SUBSET A : SumOn(row, T) = SumOn(part(T), B)}
<1>1. {} \in Q
  <2>1. SumOn(part({}), B) = 0
    BY SumZero, SumEmpty DEF RowSums
  <2> QED
    BY <2>1, SumEmpty
<1>2. ASSUME NEW T \in SUBSET A, T # {}, \A x \in T : T \ {x} \in Q
      PROVE  T \in Q
  <2>0. IsFiniteSet(T) /\ IsFiniteSet(T \ {Pick(T)})
    BY FS_Subset
  <2>1. PICK p \in T : p = Pick(T)
    BY <1>2, PickType
  <2>2. SumOn(row, T) = row[p] + SumOn(row, T \ {p})
    BY <1>2, <2>0, <2>1, SumStep
  <2>3. ASSUME NEW b \in B
        PROVE  /\ part(T)[b] = m[p][b] + part(T \ {p})[b]
               /\ part(T \ {p})[b] \in Int
    <3>1. SumOn(t[b], T) = t[b][p] + SumOn(t[b], T \ {p})
      BY <1>2, <2>0, <2>1, SumStep
    <3>2. SumOn(t[b], T \ {p}) \in Int
      BY <2>0, <2>1, SumInt
    <3> QED
      BY <3>1, <3>2 DEF RowSums
  <2>4. SumOn(part(T), B) = SumOn(m[p], B) + SumOn(part(T \ {p}), B)
    <3> DEFINE c == part(T)
               d == part(T \ {p})
    <3>1. \A b \in B : m[p][b] \in Int /\ d[b] \in Int /\ c[b] = m[p][b] + d[b]
      BY <2>3
    <3> HIDE DEF c, d
    <3>2. SumOn(c, B) = SumOn(m[p], B) + SumOn(d, B)
      BY <3>1, SumPlus
    <3> QED
      BY <3>2 DEF c, d
  <2>5. row[p] = SumOn(m[p], B) /\ SumOn(row, T \ {p}) = SumOn(part(T \ {p}), B)
    BY <1>2 DEF RowSums
  <2> HIDE DEF row, part
  <2> QED
    BY <2>2, <2>4, <2>5
<1>3. A \in Q
  <2> HIDE DEF Q
  <2> QED
    BY <1>1, <1>2, SetInduction
<1> QED
  BY <1>3

\* A sum over the values of a one-to-one function.
LEMMA SumReindex ==
  ASSUME NEW f, NEW g, NEW b, NEW S, IsFiniteSet(S),
         \A x, y \in S : b[x] = b[y] => x = y,
         \A x \in S : g[x] = f[b[x]] /\ f[b[x]] \in Int
  PROVE  /\ IsFiniteSet({b[x] : x \in S})
         /\ Cardinality({b[x] : x \in S}) = Cardinality(S)
         /\ SumOn(f, {b[x] : x \in S}) = SumOn(g, S)
<1> DEFINE im(T) == {b[x] : x \in T}
           Q == {T \in SUBSET S : /\ IsFiniteSet(im(T))
                                  /\ Cardinality(im(T)) = Cardinality(T)
                                  /\ SumOn(f, im(T)) = SumOn(g, T)}
<1>1. {} \in Q
  <2>1. im({}) = {}
    OBVIOUS
  <2> QED
    BY <2>1, SumEmpty, FS_EmptySet
<1>2. ASSUME NEW T \in SUBSET S, T # {}, \A x \in T : T \ {x} \in Q
      PROVE  T \in Q
  <2>1. PICK p \in T : p = Pick(T)
    BY <1>2, PickType
  <2>2. SumOn(g, T) = g[p] + SumOn(g, T \ {p})
    BY <1>2, <2>1, SumStep, FS_Subset
  <2>3. im(T) = im(T \ {p}) \cup {b[p]} /\ b[p] \notin im(T \ {p})
    OBVIOUS
  <2>4. /\ IsFiniteSet(im(T \ {p}))
        /\ Cardinality(im(T \ {p})) = Cardinality(T \ {p})
        /\ SumOn(f, im(T \ {p})) = SumOn(g, T \ {p})
    BY <1>2
  <2>5. \A y \in im(T) : f[y] \in Int
    OBVIOUS
  <2>6. PICK U, V : U = im(T) /\ V = im(T \ {p})
    OBVIOUS
  <2>7. /\ U = V \cup {b[p]} /\ b[p] \notin V /\ IsFiniteSet(V)
        /\ Cardinality(V) = Cardinality(T \ {p}) /\ SumOn(f, V) = SumOn(g, T \ {p})
        /\ \A y \in U : f[y] \in Int
    BY <2>3, <2>4, <2>5, <2>6
  <2>8. IsFiniteSet(U) /\ Cardinality(U) = Cardinality(V) + 1
    BY <2>7, FS_AddElement
  <2>9. SumOn(f, U) = f[b[p]] + SumOn(f, V)
    <3>1. V = U \ {b[p]} /\ b[p] \in U
      BY <2>7
    <3> QED
      BY <2>7, <2>8, <3>1, SumRemove
  <2>10. Cardinality(T \ {p}) + 1 = Cardinality(T)
    <3>1. IsFiniteSet(T) /\ Cardinality(T) \in Nat
      BY FS_Subset, FS_CardinalityType
    <3>2. Cardinality(T \ {p}) = Cardinality(T) - 1
      BY <3>1, FS_RemoveElement
    <3> QED
      BY <3>1, <3>2
  <2>11. /\ IsFiniteSet(U) /\ Cardinality(U) = Cardinality(T)
         /\ SumOn(f, U) = SumOn(g, T)
    BY <2>2, <2>7, <2>8, <2>9, <2>10
  <2> QED
    BY <2>6, <2>11
<1>3. S \in Q
  <2> HIDE DEF Q
  <2> QED
    BY <1>1, <1>2, SetInduction
<1> QED
  BY <1>3

\* Every element of a finite set I has one value under c: the numbers of elements
\* with the values of B add up to the size of I.
LEMMA SumFibres ==
  ASSUME NEW c, NEW I, NEW B, IsFiniteSet(I), IsFiniteSet(B), \A i \in I : c[i] \in B
  PROVE  SumOn([b \in B |-> Cardinality({i \in I : c[i] = b})], B) = Cardinality(I)
<1> DEFINE k == [b \in B |-> Cardinality({i \in I : c[i] = b})]
           over(T) == {i \in I : c[i] \in T}
           Q == {T \in SUBSET B : SumOn(k, T) = Cardinality(over(T))}
<1>1. {} \in Q
  <2>1. over({}) = {}
    OBVIOUS
  <2> QED
    BY <2>1, SumEmpty, FS_EmptySet
<1>2. ASSUME NEW T \in SUBSET B, T # {}, \A x \in T : T \ {x} \in Q
      PROVE  T \in Q
  <2>1. PICK p \in T : p = Pick(T)
    BY <1>2, PickType
  <2>2. SumOn(k, T) = k[p] + SumOn(k, T \ {p})
    BY <1>2, <2>1, SumStep, FS_Subset
  <2>3. PICK U, V, W : U = over(T) /\ V = over(T \ {p}) /\ W = {i \in I : c[i] = p}
    OBVIOUS
  <2>4. U = V \cup W /\ V \cap W = {} /\ V \subseteq I /\ W \subseteq I
    BY <2>3
  <2>5. IsFiniteSet(V) /\ IsFiniteSet(W)
    BY <2>4, FS_Subset
  <2>6. Cardinality(U) = Cardinality(V) + Cardinality(W)
    <3>1. Cardinality(V \cup W)
            = Cardinality(V) + Cardinality(W) - Cardinality(V \cap W)
      BY <2>5, FS_Union
    <3>2. Cardinality(V \cap W) = 0
      BY <2>4, FS_EmptySet
    <3>3. Cardinality(V) \in Nat /\ Cardinality(W) \in Nat
      BY <2>5, FS_CardinalityType
    <3> QED
      BY <2>4, <3>1, <3>2, <3>3
  <2>7. k[p] = Cardinality(W) /\ SumOn(k, T \ {p}) = Cardinality(V)
    BY <1>2, <2>3
  <2>8. Cardinality(V) \in Nat /\ Cardinality(W) \in Nat
    BY <2>5, FS_CardinalityType
  <2>9. SumOn(k, T) = Cardinality(U)
    BY <2>2, <2>6, <2>7, <2>8
  <2> QED
    BY <2>3, <2>9
<1>3. B \in Q
  <2> HIDE DEF Q
  <2> QED
    BY <1>1, <1>2, SetInduction
<1>4. over(B) = I
  OBVIOUS
<1> QED
  BY <1>3, <1>4

-----------------------------------------------------------------------------
(* Quotients.                                                              *)

\* Quotient and remainder.
LEMMA DivFacts ==
  ASSUME NEW n \in Nat, NEW d \in Nat \ {0}
  PROVE  /\ n \div d \in Nat /\ n % d \in Nat /\ n % d < d
         /\ n = (n \div d) * d + (n % d)
  OBVIOUS

LEMMA DivIs ==
  ASSUME NEW a \in Nat, NEW d \in Nat \ {0}, NEW r \in Nat, r < d
  PROVE  (a * d + r) \div d = a
  OBVIOUS

\* Rounding to a multiple of u moves a quotient by a multiple of u by one at most.
LEMMA RoundedQuotient ==
  ASSUME NEW n \in Nat, NEW u \in Nat \ {0}, NEW q \in Nat \ {0}
  PROVE  /\ ((n \div u) * u) \div (q * u) = n \div (q * u)
         /\ ((n \div u + 1) * u) \div (q * u) \in {n \div (q * u), n \div (q * u) + 1}
<1>1. PICK low \in Nat, rest \in Nat : low = n \div u /\ rest < u /\ n = low * u + rest
  BY DivFacts
<1>2. PICK a \in Nat, s \in Nat : s < q /\ low = a * q + s
  BY DivFacts
<1>3. PICK d \in Nat \ {0} : d = q * u
  <2>1. q * u \in Nat /\ q * u # 0
    BY Z3
  <2> QED
    BY <2>1
<1>4. a * q * u = a * d
  BY <1>3
<1>5. low * u = a * d + s * u
  BY <1>2, <1>4
<1>6. (low + 1) * u = a * d + (s + 1) * u
  BY <1>2, <1>4
<1>7. (s + 1) * u <= d /\ (s + 1) * u = s * u + u /\ s * u \in Nat
  <2>1. (q - (s + 1)) * u >= 0
    BY <1>2
  <2> QED
    BY <1>3, <2>1
<1>8. n = a * d + (s * u + rest)
  BY <1>1, <1>5, <1>7
<1>9. n \div d = a
  <2>1. s * u + rest \in Nat /\ s * u + rest < d
    BY <1>1, <1>7
  <2> QED
    BY <1>8, <2>1, DivIs
<1>10. (low * u) \div d = a
  BY <1>5, <1>7, DivIs
<1>11. ((low + 1) * u) \div d \in {a, a + 1}
  <2>1. CASE (s + 1) * u < d
    BY <1>6, <1>7, <2>1, DivIs
  <2>2. CASE (s + 1) * u = d
    <3>1. (low + 1) * u = (a + 1) * d + 0
      BY <1>6, <2>2
    <3> QED
      BY <3>1, DivIs
  <2> QED
    BY <1>7, <2>1, <2>2
<1> QED
  BY <1>1, <1>3, <1>9, <1>10, <1>11

-----------------------------------------------------------------------------
(* Powers of two and float64.                                              *)

\* The recursion that defines Pow2, up to n.
Powers(n, g) == g = [k \in 0..n |-> IF k = 0 THEN 1 ELSE 2 * g[k - 1]]

\* Two solutions agree, there is one for every n, and so Pow2 is one.
LEMMA PowersAgree ==
  ASSUME NEW n \in Nat, NEW m \in Nat, NEW g, NEW h, Powers(n, g), Powers(m, h),
         NEW k \in Nat, k <= n, k <= m
  PROVE  g[k] = h[k]
<1> DEFINE Q == {j \in Nat : j <= n /\ j <= m => g[j] = h[j]}
<1>1. 0 \in Q
  BY DEF Powers
<1>2. ASSUME NEW j \in Nat, j \in Q PROVE j + 1 \in Q
  <2> SUFFICES ASSUME j + 1 <= n, j + 1 <= m PROVE g[j + 1] = h[j + 1]
    OBVIOUS
  <2>1. j + 1 \in 0..n /\ j + 1 \in 0..m /\ j + 1 # 0 /\ (j + 1) - 1 = j
    OBVIOUS
  <2>2. g[j + 1] = 2 * g[j] /\ h[j + 1] = 2 * h[j]
    BY <2>1 DEF Powers
  <2>3. g[j] = h[j]
    BY <1>2
  <2> QED
    BY <2>2, <2>3
<1>3. Nat \subseteq Q
  <2> HIDE DEF Q
  <2> QED
    BY <1>1, <1>2, NatInductionSet
<1> QED
  BY <1>3

LEMMA PowersExist == \A n \in Nat : \E g : Powers(n, g)
<1> DEFINE Q == {n \in Nat : \E g : Powers(n, g)}
<1>1. 0 \in Q
  <2>1. Powers(0, [k \in 0..0 |-> 1])
    BY DEF Powers
  <2> QED
    BY <2>1
<1>2. ASSUME NEW n \in Nat, n \in Q PROVE n + 1 \in Q
  <2>1. PICK g : Powers(n, g)
    BY <1>2
  <2> DEFINE h == [k \in 0..(n + 1) |-> IF k <= n THEN g[k] ELSE 2 * g[n]]
  <2>2. ASSUME NEW k \in 0..(n + 1)
        PROVE  h[k] = IF k = 0 THEN 1 ELSE 2 * h[k - 1]
    <3>1. CASE k = 0
      BY <2>1, <3>1 DEF Powers
    <3>2. CASE k # 0 /\ k <= n
      <4>1. k \in 0..n /\ k - 1 \in 0..n /\ k - 1 \in 0..(n + 1) /\ k - 1 <= n
        BY <3>2
      <4>2. g[k] = 2 * g[k - 1]
        BY <2>1, <3>2, <4>1 DEF Powers
      <4> QED
        BY <3>2, <4>1, <4>2
    <3>3. CASE k = n + 1
      <4>1. k - 1 = n /\ n \in 0..(n + 1) /\ ~(k <= n) /\ k # 0
        BY <3>3
      <4> QED
        BY <4>1
    <3> QED
      BY <3>1, <3>2, <3>3
  <2>3. Powers(n + 1, h)
    BY <2>2 DEF Powers
  <2> QED
    BY <2>3
<1>3. Nat \subseteq Q
  <2> HIDE DEF Q
  <2> QED
    BY <1>1, <1>2, NatInductionSet
<1> QED
  BY <1>3

LEMMA Pow2Def ==
  Pow2 = [n \in Nat |-> IF n = 0 THEN 1 ELSE 2 * Pow2[n - 1]]
<1> DEFINE G(n) == CHOOSE g : Powers(n, g)
           F == [n \in Nat |-> G(n)[n]]
<1>1. \A n \in Nat : Powers(n, G(n))
  BY PowersExist
<1>2. ASSUME NEW n \in Nat PROVE F[n] = IF n = 0 THEN 1 ELSE 2 * F[n - 1]
  <2>1. G(n)[n] = IF n = 0 THEN 1 ELSE 2 * G(n)[n - 1]
    <3>1. PICK g : g = G(n)
      OBVIOUS
    <3>2. Powers(n, g) /\ n \in 0..n
      BY <1>1, <3>1
    <3>3. g[n] = IF n = 0 THEN 1 ELSE 2 * g[n - 1]
      BY <3>2 DEF Powers
    <3> QED
      BY <3>1, <3>3
  <2>2. CASE n = 0
    BY <2>1, <2>2
  <2>3. CASE n # 0
    <3>1. n - 1 \in Nat /\ n - 1 <= n
      BY <2>3
    <3>2. G(n)[n - 1] = G(n - 1)[n - 1]
      BY <1>1, <3>1, PowersAgree
    <3> QED
      BY <2>1, <2>3, <3>1, <3>2
  <2> QED
    BY <2>2, <2>3
<1>3. F = [n \in Nat |-> F[n]]
  OBVIOUS
<1> HIDE DEF F
<1>4. F = [n \in Nat |-> IF n = 0 THEN 1 ELSE 2 * F[n - 1]]
  BY <1>2, <1>3
<1> QED
  BY <1>4 DEF Pow2

LEMMA Pow2Step ==
  Pow2[0] = 1 /\ \A n \in Nat : Pow2[n + 1] = 2 * Pow2[n]
<1>1. Pow2[0] = 1
  BY Pow2Def
<1>2. ASSUME NEW n \in Nat PROVE Pow2[n + 1] = 2 * Pow2[n]
  <2>1. n + 1 \in Nat /\ n + 1 # 0 /\ (n + 1) - 1 = n
    OBVIOUS
  <2>2. \A k \in Nat : Pow2[k] = IF k = 0 THEN 1 ELSE 2 * Pow2[k - 1]
    BY Pow2Def
  <2> QED
    BY <2>1, <2>2
<1> QED
  BY <1>1, <1>2

\* Powers of two are positive and grow.
LEMMA Pow2Type == \A n \in Nat : Pow2[n] \in Nat /\ n < Pow2[n]
<1> DEFINE Q == {n \in Nat : Pow2[n] \in Nat /\ n < Pow2[n]}
<1>1. 0 \in Q
  BY Pow2Step
<1>2. ASSUME NEW n \in Nat, n \in Q PROVE n + 1 \in Q
  BY <1>2, Pow2Step
<1>3. Nat \subseteq Q
  <2> HIDE DEF Q
  <2> QED
    BY <1>1, <1>2, NatInductionSet
<1> QED
  BY <1>3

\* A power of two divides the next ones.
LEMMA Pow2Divides ==
  ASSUME NEW k \in Nat, NEW e \in Nat, k <= e
  PROVE  \E q \in Nat \ {0} : Pow2[e] = q * Pow2[k]
<1> DEFINE Q == {n \in Nat : \E q \in Nat \ {0} : Pow2[k + n] = q * Pow2[k]}
<1>1. 0 \in Q
  <2>1. k + 0 = k /\ Pow2[k] = 1 * Pow2[k]
    BY Pow2Type
  <2> QED
    BY <2>1
<1>2. ASSUME NEW n \in Nat, n \in Q PROVE n + 1 \in Q
  <2>1. PICK q \in Nat \ {0} : Pow2[k + n] = q * Pow2[k]
    BY <1>2
  <2>2. Pow2[k + (n + 1)] = 2 * Pow2[k + n]
    <3>1. k + (n + 1) = (k + n) + 1 /\ k + n \in Nat
      OBVIOUS
    <3> QED
      BY <3>1, Pow2Step
  <2>3. Pow2[k + (n + 1)] = (2 * q) * Pow2[k] /\ 2 * q \in Nat \ {0}
    BY <2>1, <2>2, Pow2Type
  <2> QED
    BY <2>3
<1>3. Nat \subseteq Q
  <2> HIDE DEF Q
  <2> QED
    BY <1>1, <1>2, NatInductionSet
<1>4. e - k \in Nat /\ k + (e - k) = e
  OBVIOUS
<1> QED
  BY <1>3, <1>4

\* The shift that Float chooses is the least that makes a number fit.
LEMMA ShiftType ==
  ASSUME NEW n \in Nat
  PROVE  /\ Shift(n) \in Nat
         /\ n \div Pow2[Shift(n)] < Pow2[Bits]
         /\ \A j \in Nat : n \div Pow2[j] < Pow2[Bits] => Shift(n) <= j
<1> DEFINE Fit == {k \in Nat : n \div Pow2[k] < Pow2[Bits]}
<1>1. Bits \in Nat /\ Pow2[Bits] \in Nat /\ 0 < Pow2[Bits]
  BY ConstantsAssumption, Pow2Type
<1>2. n \div Pow2[n] = 0
  <2>1. PICK p \in Nat \ {0} : p = Pow2[n] /\ n < p
    BY Pow2Type
  <2>2. n = 0 * p + n
    OBVIOUS
  <2> QED
    BY <2>1, <2>2, DivIs
<1>3. n \in Fit
  BY <1>1, <1>2
<1>4. PICK k \in Fit : \A m \in Fit : k <= m
  BY <1>3, Least
<1> DEFINE Is(i) == /\ n \div Pow2[i] < Pow2[Bits]
                    /\ \A j \in 0..(i - 1) : n \div Pow2[j] >= Pow2[Bits]
<1>5. \A j \in Nat : n \div Pow2[j] \in Int
  BY Pow2Type
<1>6. k \in 0..n /\ Is(k)
  <2>1. k <= n
    BY <1>3, <1>4
  <2>2. ASSUME NEW j \in 0..(k - 1) PROVE n \div Pow2[j] >= Pow2[Bits]
    <3>1. j \in Nat /\ j < k
      OBVIOUS
    <3>2. j \notin Fit
      BY <1>4, <3>1
    <3> QED
      BY <1>1, <1>5, <3>1, <3>2
  <2> QED
    BY <1>4, <2>1, <2>2
<1>7. Shift(n) \in 0..n /\ Is(Shift(n))
  BY <1>6 DEF Shift
<1>8. ASSUME NEW j \in Nat, n \div Pow2[j] < Pow2[Bits] PROVE Shift(n) <= j
  BY <1>1, <1>5, <1>7, <1>8
<1> QED
  BY <1>7, <1>8

\* Float rounds to one of the two neighbouring multiples.
LEMMA FloatIs ==
  ASSUME NEW n \in Nat
  PROVE  \E u \in Nat \ {0} :
           /\ u = Pow2[Shift(n)]
           /\ Float(n) \in {(n \div u) * u, (n \div u + 1) * u}
<1>1. PICK u \in Nat \ {0} : u = Pow2[Shift(n)]
  BY ShiftType, Pow2Type
<1> QED
  BY <1>1 DEF Float

LEMMA FloatType == \A n \in Nat : Float(n) \in Nat
<1> TAKE n \in Nat
<1>1. PICK u \in Nat \ {0} : Float(n) \in {(n \div u) * u, (n \div u + 1) * u}
  BY FloatIs
<1>2. PICK q \in Nat : q = n \div u
  BY DivFacts
<1>3. q * u \in Nat /\ (q + 1) * u \in Nat
  OBVIOUS
<1> QED
  BY <1>1, <1>2, <1>3

\* float64 holds the integers of its significand.
LEMMA FloatExact ==
  ASSUME NEW n \in Nat, n < Pow2[Bits]
  PROVE  Float(n) = n
<1>1. n \div Pow2[0] = n /\ Pow2[0] = 1
  BY Pow2Step
<1>2. Shift(n) = 0
  BY <1>1, ShiftType
<1>3. n \div 1 = n /\ n % 1 = 0
  OBVIOUS
<1> QED
  BY <1>1, <1>2, <1>3 DEF Float

\* A rounded product whose quotient by 2^e fits float64 has that quotient or the
\* next.
LEMMA FloatQuotient ==
  ASSUME NEW n \in Nat, NEW e \in Nat, n \div Pow2[e] < Pow2[Bits]
  PROVE  Float(n) \div Pow2[e] \in {n \div Pow2[e], n \div Pow2[e] + 1}
<1>1. PICK u \in Nat \ {0} : /\ u = Pow2[Shift(n)]
                             /\ Float(n) \in {(n \div u) * u, (n \div u + 1) * u}
  BY FloatIs
<1>2. Shift(n) \in Nat /\ Shift(n) <= e
  BY ShiftType
<1>3. PICK q \in Nat \ {0} : Pow2[e] = q * u
  BY <1>1, <1>2, Pow2Divides
<1>4. /\ ((n \div u) * u) \div Pow2[e] = n \div Pow2[e]
      /\ ((n \div u + 1) * u) \div Pow2[e] \in {n \div Pow2[e], n \div Pow2[e] + 1}
  BY <1>3, RoundedQuotient
<1> QED
  BY <1>1, <1>4, Zenon

-----------------------------------------------------------------------------
(* Floored sums.                                                           *)

\* Flooring each of the terms c[x] * m / p loses less than one unit a term.
LEMMA FlooredSum ==
  ASSUME NEW S, IsFiniteSet(S), NEW c, NEW fl, NEW m \in Nat, NEW p \in Nat \ {0},
         \A x \in S : c[x] \in Nat /\ fl[x] = (c[x] * m) \div p
  PROVE  /\ SumOn(c, S) \in Nat /\ SumOn(fl, S) \in Nat
         /\ (SumOn(c, S) * m) \div p - SumOn(fl, S) \in {0} \cup 0..(Cardinality(S) - 1)
<1> DEFINE prod == [x \in S |-> c[x] * m]
           whole == [x \in S |-> fl[x] * p]
           rem == [x \in S |-> (c[x] * m) % p]
<1>1. ASSUME NEW x \in S
      PROVE  /\ fl[x] \in Nat /\ rem[x] \in Int /\ 0 <= rem[x] /\ rem[x] <= p - 1
             /\ whole[x] \in Int /\ prod[x] = whole[x] + rem[x]
  <2>1. PICK k \in Nat : k = c[x] * m
    OBVIOUS
  <2>2. PICK q \in Nat, r \in Nat : q = k \div p /\ r = k % p /\ r < p /\ k = q * p + r
    BY DivFacts
  <2>3. fl[x] = q /\ rem[x] = r /\ prod[x] = k /\ whole[x] = q * p
    BY <2>1, <2>2
  <2>4. r <= p - 1 /\ q * p \in Int
    BY <2>2
  <2> HIDE DEF prod, whole, rem
  <2> QED
    BY <2>2, <2>3, <2>4
<1>2. PICK C \in Nat, f \in Nat, n \in Nat, R \in Int :
        /\ C = SumOn(c, S) /\ f = SumOn(fl, S) /\ n = Cardinality(S)
        /\ R = SumOn(rem, S)
  <2>1. SumOn(c, S) \in Nat /\ SumOn(fl, S) \in Nat
    BY <1>1, SumNat
  <2>2. SumOn(rem, S) \in Int
    <3> HIDE DEF rem
    <3> QED
      BY <1>1, SumInt
  <2>3. Cardinality(S) \in Nat
    BY FS_CardinalityType
  <2> QED
    BY <2>1, <2>2, <2>3
<1>3. SumOn(prod, S) = C * m /\ SumOn(whole, S) = f * p
  <2>1. SumOn(prod, S) = SumOn(c, S) * m
    BY SumTimes
  <2>2. SumOn(whole, S) = SumOn(fl, S) * p
    BY <1>1, SumTimes
  <2> QED
    BY <1>2, <2>1, <2>2
<1>4. SumOn(prod, S) = SumOn(whole, S) + SumOn(rem, S)
  <2> HIDE DEF prod, whole, rem
  <2> QED
    BY <1>1, SumPlus
<1>5. 0 <= R /\ R <= n * (p - 1)
  <2>1. /\ Cardinality(S) * 0 <= SumOn(rem, S)
        /\ SumOn(rem, S) <= Cardinality(S) * (p - 1)
    <3>1. 0 \in Int /\ p - 1 \in Int
      OBVIOUS
    <3> HIDE DEF rem
    <3> QED
      BY <1>1, <3>1, SumBounds
  <2> QED
    BY <1>2, <2>1
<1>6. C * m = f * p + R
  BY <1>2, <1>3, <1>4
<1>7. PICK F \in Nat, r \in Nat : F = (C * m) \div p /\ r < p /\ C * m = F * p + r
  <2>1. C * m \in Nat
    OBVIOUS
  <2> QED
    BY <2>1, DivFacts
<1>8. PICK D \in Int : D = F - f
  OBVIOUS
<1>9. D * p = R - r
  BY <1>6, <1>7, <1>8
<1>10. D >= 0
  <2>1. D <= -1 => D * p <= -p
    OBVIOUS
  <2> QED
    BY <1>5, <1>7, <1>9, <2>1
<1>11. D = 0 \/ D <= n - 1
  <2> SUFFICES ASSUME D >= 1, D >= n PROVE FALSE
    BY <1>10
  <2>1. D * p <= n * p - n
    BY <1>5, <1>7, <1>9
  <2>2. (D - n) * p >= 0 /\ (D - n) * p = D * p - n * p
    OBVIOUS
  <2>3. n = 0
    BY <2>1, <2>2
  <2>4. D * p >= p
    OBVIOUS
  <2> QED
    BY <2>1, <2>3, <2>4
<1>12. F - f \in {0} \cup 0..(n - 1)
  BY <1>8, <1>10, <1>11
<1> QED
  BY <1>2, <1>7, <1>12

\* Terms that are off by one at most make a sum that is off by one a term.
LEMMA RoundedSum ==
  ASSUME NEW S, IsFiniteSet(S), NEW fl, NEW e,
         \A x \in S : fl[x] \in Nat /\ e[x] \in {fl[x], fl[x] + 1}
  PROVE  /\ SumOn(fl, S) \in Nat /\ SumOn(e, S) \in Nat
         /\ SumOn(e, S) - SumOn(fl, S) \in 0..Cardinality(S)
<1> DEFINE up == [x \in S |-> e[x] - fl[x]]
<1>1. \A x \in S : /\ up[x] \in Int /\ 0 <= up[x] /\ up[x] <= 1
                   /\ e[x] \in Nat /\ e[x] = fl[x] + up[x]
  OBVIOUS
<1> HIDE DEF up
<1>2. SumOn(fl, S) \in Nat /\ SumOn(e, S) \in Nat /\ SumOn(up, S) \in Int
  BY <1>1, SumNat, SumInt
<1>3. SumOn(e, S) = SumOn(fl, S) + SumOn(up, S)
  BY <1>1, SumPlus
<1>4. Cardinality(S) * 0 <= SumOn(up, S) /\ SumOn(up, S) <= Cardinality(S) * 1
  <2>1. 0 \in Int /\ 1 \in Int
    OBVIOUS
  <2> QED
    BY <1>1, <2>1, SumBounds
<1>5. Cardinality(S) \in Nat
  BY FS_CardinalityType
<1> QED
  BY <1>2, <1>3, <1>4, <1>5

=============================================================================
