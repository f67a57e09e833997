---------------------------- MODULE NumberLemmas ----------------------------
(***************************************************************************)
(* Least and largest elements of sets of numbers, from the well-founded    *)
(* order of the naturals, smallest members of families of finite sets, and *)
(* with them what a sum over a finite set is.  Taking the least            *)
(* counterexample is how a proof here reasons by induction.                *)
(***************************************************************************)
EXTENDS Integers, FiniteSets, FiniteSetsExt, FiniteSetTheorems, WellFoundedInduction, TLAPS

\* A set of naturals that is not empty has a least element.
LEMMA LeastOf ==
  ASSUME NEW T \in SUBSET Nat, T # {}
  PROVE  \E x \in T : \A y \in T : x <= y
<1> DEFINE R == OpToRel(<, Nat)
<1>1. IsWellFoundedOn(R, Nat)
  BY NatLessThanWellFounded
<1>2. \A x, y \in Nat : x < y => <<x, y>> \in R
  BY DEF OpToRel
<1> HIDE DEF R
<1>3. PICK x \in T : \A y \in T : <<y, x>> \notin R
  BY <1>1, WFMin
<1>4. \A y \in T : ~(y < x)
  BY <1>2, <1>3
<1> QED
  BY <1>4

\* And one that is bounded has a largest.
LEMMA LargestOf ==
  ASSUME NEW n \in Nat, NEW S \in SUBSET (0 .. n), S # {}
  PROVE  \E x \in S : \A y \in S : y <= x
<1> DEFINE T == {n - x : x \in S}
<1>0. \A x \in S : x \in 0 .. n /\ n - x \in Nat
  OBVIOUS
<1>1. T \in SUBSET Nat /\ T # {}
  BY <1>0
<1>2. PICK t \in T : \A u \in T : t <= u
  BY <1>1, LeastOf
<1>3. PICK x \in S : t = n - x
  OBVIOUS
<1>4. \A y \in S : n - x <= n - y
  BY <1>2, <1>3
<1> QED
  BY <1>0, <1>4

\* A family of finite sets that is not empty has a member of least size.
LEMMA SmallestOf ==
  ASSUME NEW C, C # {}, \A s \in C : IsFiniteSet(s)
  PROVE  \E s \in C : \A t \in C : Cardinality(s) <= Cardinality(t)
<1> DEFINE T == {Cardinality(s) : s \in C}
<1>1. \A s \in C : Cardinality(s) \in Nat
  BY FS_CardinalityType
<1>2. T \in SUBSET Nat /\ T # {}
  BY <1>1
<1>3. PICK n \in T : \A m \in T : n <= m
  BY <1>2, LeastOf
<1> QED
  BY <1>3

-----------------------------------------------------------------------------
(* Sums.  SumOf is the sum the modules write; Partial is the table of sums   *)
(* of the subsets of S that its definition stands for.                       *)

SumOf(f, S) == MapThenSumSet(LAMBDA x : f[x], S)

Pick1(s) == CHOOSE x \in s : TRUE

Table(f, S, g) == g = [s \in SUBSET S |-> IF s = {} THEN 0 ELSE f[Pick1(s)] + g[s \ {Pick1(s)}]]

Partial(f, S) == CHOOSE g : Table(f, S, g)

\* The sum is the entry of the whole set in its table.
LEMMA SumIs ==
  ASSUME NEW f, NEW S
  PROVE  SumOf(f, S) = Partial(f, S)[S]
BY DEF SumOf, Partial, Table, Pick1, MapThenSumSet, MapThenFoldSet

\* An element of a set that has one.
LEMMA PickIn ==
  ASSUME NEW s, s # {}
  PROVE  Pick1(s) \in s
BY DEF Pick1

\* Every finite set has a table, built up by the size of its subsets.
LEMMA TableExists ==
  ASSUME NEW f, NEW S, IsFiniteSet(S), \A x \in S : f[x] \in Nat
  PROVE  \E g \in [SUBSET S -> Nat] : Table(f, S, g)
<1> DEFINE L(n) == {s \in SUBSET S : Cardinality(s) <= n}
           Upto(n, g) == g = [s \in L(n) |-> IF s = {} THEN 0 ELSE f[Pick1(s)] + g[s \ {Pick1(s)}]]
           T == {n \in Nat : ~ \E g \in [L(n) -> Nat] : Upto(n, g)}
<1>0. \A s \in SUBSET S : IsFiniteSet(s) /\ Cardinality(s) \in Nat
  BY FS_Subset, FS_CardinalityType
<1>1. \A s \in SUBSET S : s # {} =>
         /\ Pick1(s) \in S
         /\ s \ {Pick1(s)} \in SUBSET S
         /\ Cardinality(s \ {Pick1(s)}) = Cardinality(s) - 1
  <2> TAKE s \in SUBSET S
  <2> HAVE s # {}
  <2>1. Pick1(s) \in s
    BY PickIn
  <2> QED
    BY <2>1, <1>0, FS_RemoveElement
<1>2. T = {}
  <2> SUFFICES ASSUME T # {} PROVE FALSE
    OBVIOUS
  <2>1. PICK m \in T : \A n \in T : m <= n
    <3>1. T \in SUBSET Nat
      OBVIOUS
    <3> HIDE DEF T
    <3> QED
      BY <3>1, LeastOf
  <2>2. CASE m = 0
    <3>1. \A s \in L(0) : s = {}
      BY <1>0, FS_EmptySet
    <3> DEFINE z == [s \in L(0) |-> 0]
    <3>2. z = [s \in L(0) |-> IF s = {} THEN 0 ELSE f[Pick1(s)] + z[s \ {Pick1(s)}]]
      BY <3>1
    <3>3. z \in [L(0) -> Nat]
      OBVIOUS
    <3> QED
      BY <2>2, <3>2, <3>3
  <2>3. CASE m # 0
    <3> DEFINE k == m - 1
    <3>1. k \in Nat /\ k \notin T /\ m = k + 1
      <4>1. m \in Nat
        OBVIOUS
      <4> HIDE DEF T
      <4> QED
        BY <4>1, <2>1, <2>3
    <3>2. PICK g \in [L(k) -> Nat] : Upto(k, g)
      BY <3>1
    <3> DEFINE h == [s \in L(m) |-> IF s = {} THEN 0 ELSE f[Pick1(s)] + g[s \ {Pick1(s)}]]
    <3>3. \A s \in L(m) : s # {} => Pick1(s) \in S /\ s \ {Pick1(s)} \in L(k) /\ s \ {Pick1(s)} \in L(m)
      BY <1>0, <1>1, <3>1
    <3>4. \A s \in L(k) : h[s] = g[s]
      <4> TAKE s \in L(k)
      <4>1. s \in L(m)
        BY <1>0, <3>1
      <4>2. g[s] = IF s = {} THEN 0 ELSE f[Pick1(s)] + g[s \ {Pick1(s)}]
        BY <3>2, Zenon
      <4>3. h[s] = IF s = {} THEN 0 ELSE f[Pick1(s)] + g[s \ {Pick1(s)}]
        BY <4>1
      <4> QED
        BY <4>2, <4>3
    <3>5. Upto(m, h)
      <4>1. \A s \in L(m) : (IF s = {} THEN 0 ELSE f[Pick1(s)] + g[s \ {Pick1(s)}])
                            = (IF s = {} THEN 0 ELSE f[Pick1(s)] + h[s \ {Pick1(s)}])
        <5> HIDE DEF h, L
        <5> QED
          BY <3>3, <3>4
      <4> HIDE DEF L
      <4> QED
        BY <4>1, Zenon
    <3>6. h \in [L(m) -> Nat]
      BY <3>3
    <3> HIDE DEF h, Upto, L
    <3> QED
      BY <3>5, <3>6, <2>1
  <2> QED
    BY <2>2, <2>3
<1>3. Cardinality(S) \in Nat /\ L(Cardinality(S)) = SUBSET S
  BY <1>0, FS_Subset, FS_CardinalityType
<1>4. PICK g \in [L(Cardinality(S)) -> Nat] : Upto(Cardinality(S), g)
  BY <1>2, <1>3
<1> QED
  BY <1>3, <1>4 DEF Table

\* So Partial is a table, and its entries are naturals.
LEMMA PartialTable ==
  ASSUME NEW f, NEW S, IsFiniteSet(S), \A x \in S : f[x] \in Nat
  PROVE  /\ \A s \in SUBSET S : Partial(f, S)[s] \in Nat
         /\ Partial(f, S)[{}] = 0
         /\ \A s \in SUBSET S : s # {} => Partial(f, S)[s] = f[Pick1(s)] + Partial(f, S)[s \ {Pick1(s)}]
<1>1. PICK g \in [SUBSET S -> Nat] : Table(f, S, g)
  BY TableExists
<1>2. Table(f, S, Partial(f, S))
  BY <1>1 DEF Partial
<1> DEFINE h == Partial(f, S)
<1>3. \A s \in SUBSET S : h[s] = IF s = {} THEN 0 ELSE f[Pick1(s)] + h[s \ {Pick1(s)}]
  BY <1>2, Zenon DEF Table
<1>4. \A s \in SUBSET S : s # {} =>
         /\ Pick1(s) \in s /\ Pick1(s) \in S
         /\ s \ {Pick1(s)} \in SUBSET S
         /\ IsFiniteSet(s)
         /\ Cardinality(s) \in Nat
         /\ Cardinality(s \ {Pick1(s)}) = Cardinality(s) - 1
  <2> TAKE s \in SUBSET S
  <2> HAVE s # {}
  <2>1. Pick1(s) \in s
    BY PickIn
  <2> QED
    BY <2>1, FS_Subset, FS_CardinalityType, FS_RemoveElement
<1> HIDE DEF h
<1>5. \A s \in SUBSET S : h[s] \in Nat
  <2> DEFINE C == {s \in SUBSET S : h[s] \notin Nat}
  <2> SUFFICES ASSUME C # {} PROVE FALSE
    OBVIOUS
  <2>1. \A s \in C : IsFiniteSet(s)
    BY FS_Subset
  <2>2. PICK s \in C : \A t \in C : Cardinality(s) <= Cardinality(t)
    <3> HIDE DEF C
    <3> QED
      BY <2>1, SmallestOf
  <2>3. s \in SUBSET S /\ h[s] \notin Nat
    OBVIOUS
  <2>4. s # {}
    <3>1. h[{}] = 0
      BY <1>3, Zenon
    <3>2. h[{}] \in Nat
      BY <3>1
    <3> HIDE DEF C
    <3> QED
      BY <2>3, <3>2, Zenon
  <2>5. h[s] = f[Pick1(s)] + h[s \ {Pick1(s)}]
    BY <1>3, <2>3, <2>4, Zenon
  <2>6. s \ {Pick1(s)} \notin C
    <3>1. ~(Cardinality(s) <= Cardinality(s \ {Pick1(s)}))
      BY <1>4, <2>3, <2>4
    <3> HIDE DEF C
    <3> QED
      BY <3>1, <2>2
  <2>7. h[s \ {Pick1(s)}] \in Nat
    BY <1>4, <2>3, <2>4, <2>6
  <2>8. f[Pick1(s)] \in Nat
    BY <1>4, <2>3, <2>4
  <2> HIDE DEF C
  <2> QED
    BY <2>3, <2>5, <2>7, <2>8
<1> QED
  BY <1>3, <1>5 DEF h

\* The table of partial sums, one entry at a time.
LEMMA PartialStep ==
  ASSUME NEW f, NEW S, IsFiniteSet(S), \A x \in S : f[x] \in Nat, NEW s \in SUBSET S, s # {}
  PROVE  Partial(f, S)[s] = f[Pick1(s)] + Partial(f, S)[s \ {Pick1(s)}]
<1>1. \A t \in SUBSET S : t # {} => Partial(f, S)[t] = f[Pick1(t)] + Partial(f, S)[t \ {Pick1(t)}]
  BY PartialTable
<1> QED
  BY <1>1, Zenon

\* The sum of a subset is its entry in the table of the whole.
LEMMA SumOfSubset ==
  ASSUME NEW f, NEW S, IsFiniteSet(S), \A x \in S : f[x] \in Nat, NEW T \in SUBSET S
  PROVE  SumOf(f, T) = Partial(f, S)[T]
<1> DEFINE C == {s \in SUBSET T : Partial(f, T)[s] # Partial(f, S)[s]}
<1>1. IsFiniteSet(T) /\ \A s \in SUBSET T : IsFiniteSet(s)
  BY FS_Subset
<1>2. C = {}
  <2> SUFFICES ASSUME C # {} PROVE FALSE
    OBVIOUS
  <2>1. PICK s \in C : \A t \in C : Cardinality(s) <= Cardinality(t)
    <3>1. \A t \in C : IsFiniteSet(t)
      BY <1>1
    <3> HIDE DEF C
    <3> QED
      BY <3>1, SmallestOf
  <2>2. s # {}
    <3>1. \A x \in T : f[x] \in Nat
      OBVIOUS
    <3>2. Partial(f, T)[{}] = 0
      BY <1>1, <3>1, PartialTable
    <3>3. Partial(f, S)[{}] = 0
      BY PartialTable
    <3> QED
      BY <3>2, <3>3
  <2>3. Pick1(s) \in s /\ s \ {Pick1(s)} \in SUBSET T /\ s \in SUBSET T /\ s \in SUBSET S
    BY <2>2, PickIn
  <2>4. Cardinality(s) \in Nat /\ Cardinality(s \ {Pick1(s)}) = Cardinality(s) - 1
    BY <1>1, <2>3, FS_CardinalityType, FS_RemoveElement
  <2>5. s \ {Pick1(s)} \notin C
    <3> HIDE DEF C
    <3> QED
      BY <2>1, <2>4
  <2>6. Partial(f, T)[s \ {Pick1(s)}] = Partial(f, S)[s \ {Pick1(s)}]
    BY <2>3, <2>5
  <2>7. Partial(f, T)[s] = f[Pick1(s)] + Partial(f, T)[s \ {Pick1(s)}]
    <3>1. \A x \in T : f[x] \in Nat
      OBVIOUS
    <3> HIDE DEF C
    <3> QED
      BY <3>1, <1>1, <2>2, <2>3, PartialTable
  <2>8. Partial(f, S)[s] = f[Pick1(s)] + Partial(f, S)[s \ {Pick1(s)}]
    BY <2>3, <2>2, PartialTable
  <2> QED
    BY <2>6, <2>7, <2>8
<1> QED
  BY <1>2, SumIs

\* Sums are naturals and that of no element is zero.
LEMMA SumType ==
  ASSUME NEW f, NEW S, IsFiniteSet(S), \A x \in S : f[x] \in Nat
  PROVE  SumOf(f, S) \in Nat /\ SumOf(f, {}) = 0
<1>1. S \in SUBSET S /\ {} \in SUBSET S
  OBVIOUS
<1>2. SumOf(f, S) = Partial(f, S)[S] /\ SumOf(f, {}) = Partial(f, S)[{}]
  BY <1>1, SumOfSubset
<1>3. Partial(f, S)[S] \in Nat /\ Partial(f, S)[{}] = 0
  BY <1>1, PartialTable
<1> QED
  BY <1>2, <1>3

\* An element, whichever it is, can be taken out of a sum.
LEMMA SumTakes ==
  ASSUME NEW f, NEW S, IsFiniteSet(S), \A x \in S : f[x] \in Nat, NEW a \in S
  PROVE  SumOf(f, S) = f[a] + SumOf(f, S \ {a})
<1> DEFINE P(s) == SumOf(f, s)
           Bad(s) == \E x \in s : P(s) # f[x] + P(s \ {x})
           C == {s \in SUBSET S : Bad(s)}
<1>1. \A s \in SUBSET S : IsFiniteSet(s) /\ P(s) \in Nat
  <2> TAKE s \in SUBSET S
  <2>1. IsFiniteSet(s) /\ \A x \in s : f[x] \in Nat
    BY FS_Subset
  <2> QED
    BY <2>1, SumType
<1>2. \A s \in SUBSET S : s # {} => Pick1(s) \in s /\ P(s) = f[Pick1(s)] + P(s \ {Pick1(s)})
  <2> TAKE s \in SUBSET S
  <2> HAVE s # {}
  <2>1. Pick1(s) \in s /\ s \ {Pick1(s)} \in SUBSET S
    BY PickIn
  <2>2. SumOf(f, s) = Partial(f, S)[s] /\ SumOf(f, s \ {Pick1(s)}) = Partial(f, S)[s \ {Pick1(s)}]
    BY <2>1, SumOfSubset
  <2>3. Partial(f, S)[s] = f[Pick1(s)] + Partial(f, S)[s \ {Pick1(s)}]
    BY PartialStep
  <2> QED
    BY <2>1, <2>2, <2>3
<1> HIDE DEF P
<1>3. C = {}
  <2> SUFFICES ASSUME C # {} PROVE FALSE
    OBVIOUS
  <2>1. \A t \in C : t \in SUBSET S /\ IsFiniteSet(t)
    BY <1>1
  <2>2. PICK s \in C : \A t \in C : Cardinality(s) <= Cardinality(t)
    <3> HIDE DEF C
    <3> QED
      BY <2>1, SmallestOf
  <2>3. s \in SUBSET S /\ IsFiniteSet(s) /\ Cardinality(s) \in Nat
    BY <2>1, FS_CardinalityType
  <2>4. PICK x \in s : P(s) # f[x] + P(s \ {x})
    OBVIOUS
  <2> DEFINE y == Pick1(s)
  <2>5. y \in s /\ P(s) = f[y] + P(s \ {y})
    BY <1>2, <2>3
  <2>6. x # y
    BY <2>4, <2>5
  <2>7. \A z \in s : s \ {z} \notin C /\ s \ {z} \in SUBSET S
    <3> TAKE z \in s
    <3>1. Cardinality(s \ {z}) = Cardinality(s) - 1
      BY <2>3, FS_RemoveElement
    <3> HIDE DEF C
    <3> QED
      BY <3>1, <2>2, <2>3
  <2>8. P(s \ {y}) = f[x] + P((s \ {y}) \ {x})
    BY <2>5, <2>6, <2>7
  <2>9. P(s \ {x}) = f[y] + P((s \ {x}) \ {y})
    BY <2>5, <2>6, <2>7
  <2>10. (s \ {y}) \ {x} = (s \ {x}) \ {y}
    OBVIOUS
  <2>11. f[x] \in Nat /\ f[y] \in Nat /\ P((s \ {y}) \ {x}) \in Nat
    BY <1>1, <2>3, <2>5
  <2> HIDE DEF y, C
  <2> QED
    BY <2>4, <2>5, <2>8, <2>9, <2>10, <2>11
<1>4. S \in SUBSET S
  OBVIOUS
<1> QED
  BY <1>3, <1>4 DEF P

\* A sum over more elements is not smaller.
LEMMA SumMonotone ==
  ASSUME NEW f, NEW S, IsFiniteSet(S), \A x \in S : f[x] \in Nat, NEW T \in SUBSET S
  PROVE  SumOf(f, T) <= SumOf(f, S)
<1> DEFINE P(s) == SumOf(f, s)
           C == {s \in SUBSET S : T \subseteq s /\ ~(P(T) <= P(s))}
<1>1. \A s \in SUBSET S : IsFiniteSet(s) /\ P(s) \in Nat /\ \A a \in s : P(s) = f[a] + P(s \ {a})
  <2> TAKE s \in SUBSET S
  <2>1. IsFiniteSet(s) /\ \A x \in s : f[x] \in Nat
    BY FS_Subset
  <2> QED
    BY <2>1, SumType, SumTakes
<1> HIDE DEF P
<1>2. C = {}
  <2> SUFFICES ASSUME C # {} PROVE FALSE
    OBVIOUS
  <2>1. \A t \in C : t \in SUBSET S /\ IsFiniteSet(t)
    BY <1>1
  <2>2. PICK s \in C : \A t \in C : Cardinality(s) <= Cardinality(t)
    <3> HIDE DEF C
    <3> QED
      BY <2>1, SmallestOf
  <2>3. s \in SUBSET S /\ IsFiniteSet(s) /\ Cardinality(s) \in Nat
    BY <2>1, FS_CardinalityType
  <2>4. T \subseteq s /\ ~(P(T) <= P(s))
    OBVIOUS
  <2>5. T # s
    BY <1>1, <2>3, <2>4
  <2>6. PICK a \in s : a \notin T
    BY <2>4, <2>5
  <2>7. Cardinality(s \ {a}) = Cardinality(s) - 1
    BY <2>3, FS_RemoveElement
  <2>8. s \ {a} \notin C
    <3> HIDE DEF C
    <3> QED
      BY <2>2, <2>3, <2>7
  <2>9. P(T) <= P(s \ {a})
    BY <2>3, <2>4, <2>6, <2>8
  <2>10. P(s) = f[a] + P(s \ {a}) /\ f[a] \in Nat /\ P(s) \in Nat /\ P(s \ {a}) \in Nat /\ P(T) \in Nat
    BY <1>1, <2>3
  <2> HIDE DEF C
  <2> QED
    BY <2>4, <2>9, <2>10
<1>3. S \in SUBSET S
  OBVIOUS
<1> QED
  BY <1>2, <1>3 DEF P

\* A product grows with its factor.
LEMMA TimesMonotone ==
  ASSUME NEW p \in Nat, NEW x \in Nat, NEW y \in Nat, x <= y
  PROVE  p * x <= p * y
<1>1. PICK k \in Nat : y = x + k
  <2>1. y - x \in Nat /\ y = x + (y - x)
    OBVIOUS
  <2> QED
    BY <2>1
<1>2. p * y = p * x + p * k /\ p * x \in Nat /\ p * k \in Nat
  BY <1>1
<1> QED
  BY <1>2

\* Two sums of which one is bounded by a multiple of the other element by element, with
\* something on top of each element.
LEMMA SumScaled ==
  ASSUME NEW f, NEW g, NEW S, IsFiniteSet(S), \A x \in S : f[x] \in Nat /\ g[x] \in Nat,
         NEW a \in Nat, NEW b \in Nat, NEW c \in Nat, \A x \in S : a * f[x] <= b * g[x] + c
  PROVE  a * SumOf(f, S) <= b * SumOf(g, S) + c * Cardinality(S)
<1> DEFINE P(s) == SumOf(f, s)
           Q(s) == SumOf(g, s)
           C == {s \in SUBSET S : ~(a * P(s) <= b * Q(s) + c * Cardinality(s))}
<1>1. \A s \in SUBSET S : /\ IsFiniteSet(s) /\ Cardinality(s) \in Nat /\ P(s) \in Nat /\ Q(s) \in Nat
                         /\ \A e \in s : P(s) = f[e] + P(s \ {e}) /\ Q(s) = g[e] + Q(s \ {e})
  <2> TAKE s \in SUBSET S
  <2>1. IsFiniteSet(s) /\ (\A x \in s : f[x] \in Nat) /\ (\A x \in s : g[x] \in Nat)
    BY FS_Subset
  <2>2. IsFiniteSet(s) /\ Cardinality(s) \in Nat /\ P(s) \in Nat /\ Q(s) \in Nat
    BY <2>1, FS_CardinalityType, SumType
  <2>3. \A e \in s : P(s) = f[e] + P(s \ {e})
    BY <2>1, SumTakes
  <2>4. \A e \in s : Q(s) = g[e] + Q(s \ {e})
    BY <2>1, SumTakes
  <2> QED
    BY <2>2, <2>3, <2>4
<1>2. P({}) = 0 /\ Q({}) = 0 /\ Cardinality({}) = 0
  BY SumType, FS_EmptySet
<1> HIDE DEF P, Q
<1>3. C = {}
  <2> SUFFICES ASSUME C # {} PROVE FALSE
    OBVIOUS
  <2>1. \A t \in C : t \in SUBSET S /\ IsFiniteSet(t)
    BY <1>1
  <2>2. PICK s \in C : \A t \in C : Cardinality(s) <= Cardinality(t)
    <3> HIDE DEF C
    <3> QED
      BY <2>1, SmallestOf
  <2>3. s \in SUBSET S /\ IsFiniteSet(s) /\ ~(a * P(s) <= b * Q(s) + c * Cardinality(s))
    BY <2>1
  <2>4. s # {}
    <3>1. a * 0 <= b * 0 + c * 0
      OBVIOUS
    <3> HIDE DEF C
    <3> QED
      BY <1>2, <2>3, <3>1
  <2>5. PICK e \in s : TRUE
    BY <2>4
  <2>6. s \ {e} \in SUBSET S /\ Cardinality(s) = Cardinality(s \ {e}) + 1
    BY <1>1, <2>3, FS_RemoveElement
  <2>7. s \ {e} \notin C
    <3>1. ~(Cardinality(s) <= Cardinality(s \ {e}))
      BY <1>1, <2>6
    <3> HIDE DEF C
    <3> QED
      BY <3>1, <2>2
  <2> DEFINE p == P(s \ {e})
             q == Q(s \ {e})
             n == Cardinality(s \ {e})
  <2>8. p \in Nat /\ q \in Nat /\ n \in Nat /\ f[e] \in Nat /\ g[e] \in Nat
    BY <1>1, <2>3, <2>6
  <2>9. P(s) = f[e] + p /\ Q(s) = g[e] + q /\ Cardinality(s) = n + 1
    BY <1>1, <2>3, <2>6
  <2>10. a * p <= b * q + c * n /\ a * f[e] <= b * g[e] + c
    BY <2>3, <2>6, <2>7
  <2> HIDE DEF C, p, q, n
  <2>11. a * P(s) = a * f[e] + a * p /\ a * f[e] \in Nat /\ a * p \in Nat
    BY <2>8, <2>9
  <2>12. b * Q(s) = b * g[e] + b * q /\ b * g[e] \in Nat /\ b * q \in Nat
    BY <2>8, <2>9
  <2>13. c * Cardinality(s) = c * n + c /\ c * n \in Nat
    BY <2>8, <2>9
  <2> QED
    BY <2>3, <2>10, <2>11, <2>12, <2>13
<1>4. S \in SUBSET S
  OBVIOUS
<1> QED
  BY <1>3, <1>4 DEF P, Q

=============================================================================
