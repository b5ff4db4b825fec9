---------------------------- MODULE NumberLemmas ----------------------------
(***************************************************************************)
(* Facts about rounded division, least and greatest elements of sets of     *)
(* numbers and sums over finite sets, for the proofs of the other modules.  *)
(* Induction is by least counterexample (LeastElement).                     *)
(***************************************************************************)
EXTENDS Integers, FiniteSets, FiniteSetsExt, FiniteSetTheorems, WellFoundedInduction, TLAPS

-----------------------------------------------------------------------------
(* Products and quotients. *)

\* Products keep the order.
LEMMA TimesMono ==
  ASSUME NEW a \in Nat, NEW b \in Nat, NEW c \in Nat, a <= b
  PROVE  a * c <= b * c /\ c * a <= c * b /\ a * c \in Nat
  OBVIOUS

\* What rounding down returns.
LEMMA DivBounds ==
  ASSUME NEW a \in Nat, NEW b \in Nat \ {0}
  PROVE  a \div b \in Nat /\ (a \div b) * b <= a /\ a < (a \div b) * b + b
  OBVIOUS

\* What rounding up returns.
LEMMA UpBounds ==
  ASSUME NEW a \in Nat, NEW b \in Nat \ {0}
  PROVE  /\ (a + b - 1) \div b \in Nat
         /\ a <= ((a + b - 1) \div b) * b
         /\ ((a + b - 1) \div b) * b < a + b
  OBVIOUS

\* Rounding down returns no more than any bound.
LEMMA FloorMost ==
  ASSUME NEW a \in Nat, NEW b \in Nat \ {0}, NEW c \in Nat, a <= c * b
  PROVE  a \div b <= c
  <1>1. PICK q \in Nat : q = a \div b /\ q * b <= a
    BY DivBounds
  <1>2. ASSUME q >= c + 1 PROVE FALSE
    <2>1. q * b >= (c + 1) * b
      BY <1>2, TimesMono
    <2>2. q * b \in Nat /\ (c + 1) * b = c * b + b /\ c * b \in Nat
      OBVIOUS
    <2> QED
      BY <1>1, <2>1, <2>2
  <1> QED
    BY <1>1, <1>2

\* Rounding down returns the most that is covered.
LEMMA FloorLeast ==
  ASSUME NEW a \in Nat, NEW b \in Nat \ {0}, NEW c \in Nat, c * b <= a
  PROVE  c <= a \div b
  <1>1. PICK q \in Nat : q = a \div b /\ a < q * b + b
    BY DivBounds
  <1>2. ASSUME c >= q + 1 PROVE FALSE
    <2>1. c * b >= (q + 1) * b
      BY <1>2, TimesMono
    <2>2. c * b \in Nat /\ (q + 1) * b = q * b + b /\ q * b \in Nat
      OBVIOUS
    <2> QED
      BY <1>1, <2>1, <2>2
  <1> QED
    BY <1>1, <1>2

\* Rounding up returns the least that covers.
LEMMA UpLeast ==
  ASSUME NEW a \in Nat, NEW b \in Nat \ {0}, NEW c \in Nat, a <= c * b
  PROVE  (a + b - 1) \div b <= c
  <1>1. PICK q \in Nat : q = (a + b - 1) \div b /\ q * b < a + b
    BY UpBounds
  <1>2. q * b < (c + 1) * b
    BY <1>1
  <1>3. ASSUME q >= c + 1 PROVE FALSE
    <2>1. q * b >= (c + 1) * b
      BY <1>3, TimesMono
    <2>2. q * b \in Nat /\ (c + 1) * b \in Nat
      OBVIOUS
    <2> QED
      BY <1>2, <2>1, <2>2
  <1> QED
    BY <1>1, <1>3

\* Scaling by m / d, rounded down, keeps the order.
LEMMA ScaleMono ==
  ASSUME NEW a \in Nat, NEW b \in Nat, a <= b, NEW m \in Nat, NEW d \in Nat \ {0}
  PROVE  (a * m) \div d \in Nat /\ (b * m) \div d \in Nat /\ (a * m) \div d <= (b * m) \div d
  <1>1. PICK x \in Nat, y \in Nat : x = a * m /\ y = b * m /\ x <= y
    BY TimesMono
  <1>2. PICK q \in Nat : q = y \div d /\ y < q * d + d
    BY DivBounds
  <1>3. PICK p \in Nat : p = x \div d /\ p * d <= x
    BY DivBounds
  <1>4. p * d <= y
    <2>1. p * d \in Nat
      OBVIOUS
    <2> QED
      BY <1>1, <1>3, <2>1
  <1>5. p <= q
    BY <1>2, <1>4, FloorLeast
  <1> QED
    BY <1>1, <1>2, <1>3, <1>5

-----------------------------------------------------------------------------
(* Least and greatest elements. *)

\* A set of natural numbers that is not empty has a least element.
LEMMA LeastElement ==
  ASSUME NEW T \in SUBSET Nat, T # {}
  PROVE  \E x \in T : \A y \in T : x <= y
  <1> DEFINE R == {ss \in Nat \X Nat : ss[1] < ss[2]}
  <1>1. OpToRel(<, Nat) = R
    BY DEF OpToRel
  <1>2. IsWellFoundedOn(R, Nat)
    BY <1>1, NatLessThanWellFounded
  <1>3. PICK x \in T : \A y \in T : <<y, x>> \notin R
    <2> HIDE DEF R
    <2> QED
      BY <1>2, WFMin
  <1>4. \A y \in T : ~(y < x)
    BY <1>3
  <1> QED
    BY <1>4

\* What Min returns.
LEMMA MinProperties ==
  ASSUME NEW T \in SUBSET Nat, T # {}
  PROVE  Min(T) \in T /\ \A y \in T : Min(T) <= y
  <1>1. \E x \in T : \A y \in T : x =< y
    BY LeastElement
  <1> QED
    BY <1>1, Zenon DEF Min

\* What Max returns of a set that is bounded.
LEMMA MaxProperties ==
  ASSUME NEW T \in SUBSET Nat, T # {}, NEW n \in Nat, \A x \in T : x <= n
  PROVE  Max(T) \in T /\ \A y \in T : Max(T) >= y
  <1> DEFINE D == {n - x : x \in T}
  <1>0. D \in SUBSET Nat /\ D # {}
    <2>1. \A x \in T : n - x \in Nat
      OBVIOUS
    <2>2. \E x : x \in T
      OBVIOUS
    <2> QED
      BY <2>1, <2>2
  <1>1. PICK d \in D : \A y \in D : d <= y
    <2> HIDE DEF D
    <2> QED
      BY <1>0, LeastElement
  <1>2. PICK m \in T : d = n - m
    OBVIOUS
  <1>3. \A y \in T : m >= y
    <2> SUFFICES ASSUME NEW y \in T PROVE m >= y
      OBVIOUS
    <2>1. n - m <= n - y
      BY <1>1, <1>2
    <2> QED
      BY <2>1
  <1>4. \E x \in T : \A y \in T : x >= y
    BY <1>3
  <1> QED
    BY <1>4, Zenon DEF Max

\* The smaller of two numbers.
LEMMA MinOfTwo ==
  ASSUME NEW a \in Nat, NEW b \in Nat
  PROVE  Min({a, b}) = IF a <= b THEN a ELSE b
  <1>1. Min({a, b}) \in {a, b} /\ \A y \in {a, b} : Min({a, b}) <= y
    BY MinProperties
  <1> QED
    BY <1>1

\* The larger of two numbers.
LEMMA MaxOfTwo ==
  ASSUME NEW a \in Nat, NEW b \in Nat
  PROVE  Max({a, b}) = IF a >= b THEN a ELSE b
  <1>1. a + b \in Nat /\ \A x \in {a, b} : x <= a + b
    OBVIOUS
  <1>2. Max({a, b}) \in {a, b} /\ \A y \in {a, b} : Max({a, b}) >= y
    BY <1>1, MaxProperties
  <1> QED
    BY <1>2

-----------------------------------------------------------------------------
(* Induction, with the set of good values in place of a predicate. *)

\* A set with 0 and the successor of each of its members holds every number.
LEMMA NatInductionSet ==
  ASSUME NEW P \in SUBSET Nat, 0 \in P, \A n \in P : n + 1 \in P
  PROVE  P = Nat
  <1> SUFFICES ASSUME Nat \ P # {} PROVE FALSE
    OBVIOUS
  <1>1. PICK m \in Nat \ P : \A y \in Nat \ P : m <= y
    BY LeastElement
  <1>2. m - 1 \in Nat /\ m - 1 \in P
    BY <1>1
  <1> QED
    BY <1>1, <1>2

\* A family of subsets of D that holds every finite set whose subsets with one
\* element less it holds, holds every finite set.
LEMMA SubsetInduction ==
  ASSUME NEW D, NEW P,
         {} \in P,
         \A s \in SUBSET D : IsFiniteSet(s) /\ s # {} /\ (\A x \in s : s \ {x} \in P) => s \in P
  PROVE  \A s \in SUBSET D : IsFiniteSet(s) => s \in P
  <1> DEFINE N == {n \in Nat : \A s \in SUBSET D : IsFiniteSet(s) /\ Cardinality(s) = n => s \in P}
  <1>1. 0 \in N
    BY FS_EmptySet
  <1>2. \A n \in N : n + 1 \in N
    <2> SUFFICES ASSUME NEW n \in N, NEW s \in SUBSET D, IsFiniteSet(s), Cardinality(s) = n + 1
                 PROVE  s \in P
      OBVIOUS
    <2>1. s # {}
      BY FS_EmptySet
    <2>2. \A x \in s : IsFiniteSet(s \ {x}) /\ Cardinality(s \ {x}) = n /\ s \ {x} \in SUBSET D
      <3> SUFFICES ASSUME NEW x \in s
                   PROVE  IsFiniteSet(s \ {x}) /\ Cardinality(s \ {x}) = n
        OBVIOUS
      <3>1. IsFiniteSet(s \ {x}) /\ Cardinality(s \ {x}) = Cardinality(s) - 1
        BY FS_RemoveElement
      <3> QED
        BY <3>1
    <2>3. \A x \in s : s \ {x} \in P
      BY <2>2
    <2> QED
      BY <2>1, <2>3
  <1>3. N = Nat
    <2> HIDE DEF N
    <2>1. N \in SUBSET Nat
      BY DEF N
    <2> QED
      BY <1>1, <1>2, <2>1, NatInductionSet
  <1> QED
    BY <1>3, FS_CardinalityType

\* A finite set of numbers is bounded.
LEMMA FiniteBounded ==
  ASSUME NEW T \in SUBSET Nat, IsFiniteSet(T)
  PROVE  \E n \in Nat : \A x \in T : x <= n
  <1> DEFINE P == {s \in SUBSET Nat : \E n \in Nat : \A x \in s : x <= n}
  <1>1. {} \in P
    OBVIOUS
  <1>2. \A s \in SUBSET Nat : IsFiniteSet(s) /\ s # {} /\ (\A x \in s : s \ {x} \in P) => s \in P
    <2> SUFFICES ASSUME NEW s \in SUBSET Nat, NEW y \in s, s \ {y} \in P
                 PROVE  s \in P
      OBVIOUS
    <2>1. PICK n \in Nat : \A x \in s \ {y} : x <= n
      OBVIOUS
    <2>2. \A x \in s : x <= n + y
      BY <2>1
    <2>3. n + y \in Nat
      OBVIOUS
    <2> QED
      BY <2>2, <2>3
  <1>3. T \in P
    <2> HIDE DEF P
    <2> QED
      BY <1>1, <1>2, SubsetInduction
  <1> QED
    BY <1>3

\* The image of a finite set is finite.
LEMMA ImageFinite ==
  ASSUME NEW A, IsFiniteSet(A), NEW h
  PROVE  IsFiniteSet({h[x] : x \in A})
  <1> DEFINE T == {h[x] : x \in A}
             f == [x \in A |-> h[x]]
  <1>1. f \in Surjection(A, T)
    BY DEF Surjection
  <1> HIDE DEF f, T
  <1>2. IsFiniteSet(T)
    BY <1>1, FS_Surjection
  <1> QED
    BY <1>2 DEF T

-----------------------------------------------------------------------------
(* Sums. SumFunctionOnSet is a recursive function of the subsets of its index *)
(* set; that there is one such function has to be shown first.                *)

Some(s) == CHOOSE x \in s : TRUE

\* g is the running sum of f over the subsets of A, up to size n.
SumsUpTo(g, f, A, n) ==
    \A s \in SUBSET A : Cardinality(s) <= n =>
        g[s] = IF s = {} THEN 0 ELSE f[Some(s)] + g[s \ {Some(s)}]

\* What is left of a finite set without the element that is summed first.
LEMMA SomeOf ==
  ASSUME NEW A, IsFiniteSet(A), NEW s \in SUBSET A, s # {}
  PROVE  /\ Some(s) \in s
         /\ s \ {Some(s)} \in SUBSET A
         /\ IsFiniteSet(s) /\ Cardinality(s) \in Nat \ {0}
         /\ IsFiniteSet(s \ {Some(s)}) /\ Cardinality(s \ {Some(s)}) = Cardinality(s) - 1
  <1>1. Some(s) \in s
    BY DEF Some
  <1>2. IsFiniteSet(s) /\ Cardinality(s) \in Nat /\ Cardinality(s) # 0
    BY FS_Subset, FS_CardinalityType, FS_EmptySet
  <1> QED
    BY <1>1, <1>2, FS_RemoveElement

\* The recursive definition has a solution.
LEMMA SumExists ==
  ASSUME NEW A, IsFiniteSet(A), NEW f, \A x \in A : f[x] \in Nat
  PROVE  \E g \in [SUBSET A -> Nat] : SumsUpTo(g, f, A, Cardinality(A))
  <1> DEFINE N == {n \in Nat : \E g \in [SUBSET A -> Nat] : SumsUpTo(g, f, A, n)}
  <1>0. \A s \in SUBSET A : IsFiniteSet(s) /\ Cardinality(s) \in Nat
    BY FS_Subset, FS_CardinalityType
  <1>1. 0 \in N
    <2> DEFINE g == [s \in SUBSET A |-> 0]
    <2>1. \A s \in SUBSET A : Cardinality(s) <= 0 => s = {}
      BY <1>0, FS_EmptySet
    <2>2. SumsUpTo(g, f, A, 0)
      BY <2>1 DEF SumsUpTo
    <2>3. g \in [SUBSET A -> Nat]
      OBVIOUS
    <2> QED
      BY <2>2, <2>3
  <1>2. \A n \in N : n + 1 \in N
    <2> SUFFICES ASSUME NEW n \in N PROVE n + 1 \in N
      OBVIOUS
    <2>0. n \in Nat
      OBVIOUS
    <2>1. PICK g \in [SUBSET A -> Nat] : SumsUpTo(g, f, A, n)
      OBVIOUS
    <2> DEFINE h == [s \in SUBSET A |-> IF Cardinality(s) <= n THEN g[s]
                                       ELSE f[Some(s)] + g[s \ {Some(s)}]]
    <2>2. \A s \in SUBSET A : s # {} => Some(s) \in A /\ s \ {Some(s)} \in SUBSET A
      BY SomeOf
    <2>3. \A s \in SUBSET A : Cardinality(s) > n => s # {}
      <3> HIDE DEF h, N
      <3>1. Cardinality({}) = 0
        BY FS_EmptySet
      <3>2. \A s \in SUBSET A : s = {} => Cardinality(s) = 0
        BY <3>1, Zenon
      <3> QED
        BY <2>0, <3>2
    <2>4. h \in [SUBSET A -> Nat]
      BY <1>0, <2>2, <2>3
    <2>5. ASSUME NEW s \in SUBSET A, Cardinality(s) <= n + 1, s # {}
          PROVE  h[s] = f[Some(s)] + h[s \ {Some(s)}]
      <3>1. /\ s \ {Some(s)} \in SUBSET A
            /\ Cardinality(s \ {Some(s)}) = Cardinality(s) - 1
            /\ Cardinality(s) \in Nat
        BY <2>5, SomeOf
      <3>2. h[s \ {Some(s)}] = g[s \ {Some(s)}]
        BY <2>5, <3>1
      <3> QED
        BY <2>1, <2>5, <3>1, <3>2 DEF SumsUpTo
    <2>6. h[{}] = 0
      <3>1. Cardinality({}) = 0 /\ {} \in SUBSET A
        BY FS_EmptySet
      <3> QED
        BY <2>1, <3>1 DEF SumsUpTo
    <2>7. SumsUpTo(h, f, A, n + 1)
      <3> HIDE DEF h
      <3> QED
        BY <2>5, <2>6 DEF SumsUpTo
    <2> HIDE DEF h
    <2>8. \E d \in [SUBSET A -> Nat] : SumsUpTo(d, f, A, n + 1)
      BY <2>4, <2>7, Zenon
    <2>9. n + 1 \in Nat
      BY <2>0
    <2> QED
      BY <2>8, <2>9, Zenon
  <1>3. N = Nat
    <2> HIDE DEF N
    <2>1. N \in SUBSET Nat
      BY DEF N
    <2> QED
      BY <1>1, <1>2, <2>1, NatInductionSet
  <1> QED
    BY <1>0, <1>3

\* Two solutions agree where both are defined.
LEMMA SumUnique ==
  ASSUME NEW A, IsFiniteSet(A), NEW B \in SUBSET A, NEW f, NEW e,
         \A x \in B : f[x] = e[x],
         NEW g, SumsUpTo(g, f, A, Cardinality(A)),
         NEW h, SumsUpTo(h, e, B, Cardinality(B))
  PROVE  \A s \in SUBSET B : g[s] = h[s]
  <1> DEFINE P == {s \in SUBSET B : g[s] = h[s]}
  <1>0. /\ IsFiniteSet(B)
        /\ \A s \in SUBSET B : s \in SUBSET A /\ Cardinality(s) <= Cardinality(B) /\ Cardinality(s) <= Cardinality(A)
    BY FS_Subset
  <1>1. {} \in P
    BY <1>0 DEF SumsUpTo
  <1>2. ASSUME NEW s \in SUBSET B, s # {}, \A x \in s : s \ {x} \in P
        PROVE  s \in P
    <2>1. Some(s) \in s
      BY <1>2 DEF Some
    <2>2. g[s \ {Some(s)}] = h[s \ {Some(s)}] /\ f[Some(s)] = e[Some(s)]
      BY <1>2, <2>1
    <2>3. g[s] = f[Some(s)] + g[s \ {Some(s)}]
      BY <1>0, <1>2 DEF SumsUpTo
    <2>4. h[s] = e[Some(s)] + h[s \ {Some(s)}]
      BY <1>0, <1>2 DEF SumsUpTo
    <2> QED
      BY <2>2, <2>3, <2>4
  <1>3. \A s \in SUBSET B : IsFiniteSet(s) => s \in P
    <2> HIDE DEF P
    <2> QED
      BY <1>1, <1>2, SubsetInduction
  <1> QED
    BY <1>0, <1>3, FS_Subset

\* The sum, as the library's recursive function computes it.
LEMMA SumIsRunning ==
  ASSUME NEW B, IsFiniteSet(B), NEW f, \A x \in B : f[x] \in Nat
  PROVE  \E h : SumsUpTo(h, f, B, Cardinality(B)) /\ SumFunctionOnSet(f, B) = h[B]
  <1> DEFINE Body(g) == [s \in SUBSET B |-> IF s = {} THEN 0 ELSE f[Some(s)] + g[s \ {Some(s)}]]
             iter == CHOOSE g : g = Body(g)
  <1>1. SumFunctionOnSet(f, B) = iter[B]
    BY DEF SumFunctionOnSet, FoldFunctionOnSet, MapThenFoldSet, Some
  <1>2. \E g : g = Body(g)
    <2>1. PICK g \in [SUBSET B -> Nat] : SumsUpTo(g, f, B, Cardinality(B))
      BY SumExists
    <2>2. \A s \in SUBSET B : Cardinality(s) <= Cardinality(B)
      BY FS_Subset
    <2>3. \A s \in SUBSET B : g[s] = IF s = {} THEN 0 ELSE f[Some(s)] + g[s \ {Some(s)}]
      BY <2>1, <2>2 DEF SumsUpTo
    <2>4. g = [s \in SUBSET B |-> g[s]]
      OBVIOUS
    <2>5. g = Body(g)
      BY <2>3, <2>4
    <2> QED
      BY <2>5, Zenon
  <1>3. iter = Body(iter)
    <2> HIDE DEF Body
    <2> QED
      BY <1>2, Zenon
  <1>4. SumsUpTo(iter, f, B, Cardinality(B))
    <2> HIDE DEF iter
    <2>1. \A s \in SUBSET B : Body(iter)[s] = IF s = {} THEN 0 ELSE f[Some(s)] + iter[s \ {Some(s)}]
      OBVIOUS
    <2>2. \A s \in SUBSET B : Body(iter)[s] = iter[s]
      <3> HIDE DEF Body
      <3> QED
        BY <1>3, Zenon
    <2> HIDE DEF Body
    <2> QED
      BY <2>1, <2>2 DEF SumsUpTo
  <1> HIDE DEF iter
  <1> QED
    BY <1>1, <1>4, Zenon

\* One running sum serves every subset.
LEMMA SumOfSubsets ==
  ASSUME NEW A, IsFiniteSet(A), NEW f, \A x \in A : f[x] \in Nat
  PROVE  \E g : /\ SumsUpTo(g, f, A, Cardinality(A))
                /\ \A B \in SUBSET A : g[B] \in Nat /\ SumFunctionOnSet(f, B) = g[B]
  <1>1. PICK g \in [SUBSET A -> Nat] : SumsUpTo(g, f, A, Cardinality(A))
    BY SumExists
  <1>2. ASSUME NEW B \in SUBSET A PROVE SumFunctionOnSet(f, B) = g[B]
    <2>1. IsFiniteSet(B)
      BY FS_Subset
    <2>2. PICK h : SumsUpTo(h, f, B, Cardinality(B)) /\ SumFunctionOnSet(f, B) = h[B]
      BY <2>1, SumIsRunning
    <2>3. g[B] = h[B]
      BY <1>1, <2>2, SumUnique
    <2> QED
      BY <2>2, <2>3
  <1> QED
    BY <1>1, <1>2

\* The empty sum.
LEMMA SumEmpty == \A f : SumFunctionOnSet(f, {}) = 0
  <1> SUFFICES ASSUME NEW f PROVE SumFunctionOnSet(f, {}) = 0
    OBVIOUS
  <1>1. IsFiniteSet({}) /\ Cardinality({}) = 0
    BY FS_EmptySet
  <1>2. PICK h : SumsUpTo(h, f, {}, Cardinality({})) /\ SumFunctionOnSet(f, {}) = h[{}]
    BY <1>1, SumIsRunning
  <1> QED
    BY <1>1, <1>2 DEF SumsUpTo

\* A sum is its first term and the rest.
LEMMA SumFirst ==
  ASSUME NEW A, IsFiniteSet(A), A # {}, NEW f, \A x \in A : f[x] \in Nat
  PROVE  /\ SumFunctionOnSet(f, A) \in Nat
         /\ SumFunctionOnSet(f, A) = f[Some(A)] + SumFunctionOnSet(f, A \ {Some(A)})
  <1>1. PICK g : /\ SumsUpTo(g, f, A, Cardinality(A))
                 /\ \A B \in SUBSET A : g[B] \in Nat /\ SumFunctionOnSet(f, B) = g[B]
    BY SumOfSubsets
  <1>2. A \in SUBSET A /\ A \ {Some(A)} \in SUBSET A /\ Cardinality(A) \in Nat
    BY FS_CardinalityType
  <1>3. g[A] = f[Some(A)] + g[A \ {Some(A)}]
    BY <1>1, <1>2 DEF SumsUpTo
  <1>4. SumFunctionOnSet(f, A) = g[A] /\ SumFunctionOnSet(f, A \ {Some(A)}) = g[A \ {Some(A)}]
    BY <1>1, <1>2
  <1> QED
    BY <1>1, <1>2, <1>3, <1>4

\* A sum is any one of its terms and the rest.
LEMMA SumAdd ==
  ASSUME NEW A, IsFiniteSet(A), NEW f, \A x \in A : f[x] \in Nat
  PROVE  /\ SumFunctionOnSet(f, A) \in Nat
         /\ \A x \in A : SumFunctionOnSet(f, A) = f[x] + SumFunctionOnSet(f, A \ {x})
  <1> DEFINE S(s) == SumFunctionOnSet(f, s)
             P == {s \in SUBSET A : S(s) \in Nat /\ \A x \in s : S(s) = f[x] + S(s \ {x})}
  <1>1. {} \in P
    BY SumEmpty
  <1>2. ASSUME NEW s \in SUBSET A, IsFiniteSet(s), s # {}, \A x \in s : s \ {x} \in P
        PROVE  s \in P
    <2> DEFINE y == Some(s)
    <2>0. y \in s /\ \A x \in s : f[x] \in Nat
      BY <1>2 DEF Some
    <2>1. S(s) \in Nat /\ S(s) = f[y] + S(s \ {y})
      BY <1>2, <2>0, SumFirst
    <2>2. ASSUME NEW x \in s PROVE S(s) = f[x] + S(s \ {x})
      <3>1. CASE x = y
        BY <2>1, <3>1
      <3>2. CASE x # y
        <4> HIDE DEF y, S
        <4>1. x \in s \ {y} /\ y \in s \ {x}
          BY <2>0, <2>2, <3>2
        <4>2. S(s \ {y}) = f[x] + S((s \ {y}) \ {x})
          BY <1>2, <2>0, <4>1
        <4>3. S(s \ {x}) = f[y] + S((s \ {x}) \ {y})
          BY <1>2, <2>0, <4>1
        <4>4. (s \ {y}) \ {x} = (s \ {x}) \ {y}
          OBVIOUS
        <4>5. S((s \ {y}) \ {x}) = S((s \ {x}) \ {y})
          BY <4>4, Zenon
        <4>6. s \ {x} \in P /\ (s \ {x}) \ {y} \in SUBSET A
          BY <1>2
        <4>7. S(s \ {x}) \in Nat /\ S(s \ {y}) \in Nat
          BY <1>2, <2>0
        <4>8. f[x] \in Nat /\ f[y] \in Nat
          BY <2>0
        <4>9. S((s \ {x}) \ {y}) \in Int
          <5>1. s \ {x} # {} /\ IsFiniteSet(s \ {x})
            BY <1>2, <4>1, FS_RemoveElement
          <5>2. IsFiniteSet((s \ {x}) \ {y})
            BY <5>1, FS_RemoveElement
          <5>3. \A z \in (s \ {x}) \ {y} : f[z] \in Nat
            BY <2>0
          <5> DEFINE C == (s \ {x}) \ {y}
          <5>4. PICK g : \A B \in SUBSET C : g[B] \in Nat /\ SumFunctionOnSet(f, B) = g[B]
            <6> HIDE DEF C
            <6> QED
              BY <5>2, <5>3, SumOfSubsets DEF C
          <5> QED
            BY <5>4 DEF S
        <4> QED
          BY <2>1, <4>2, <4>3, <4>5, <4>7, <4>8, <4>9
      <3> QED
        BY <3>1, <3>2
    <2> QED
      BY <2>1, <2>2
  <1>3. \A s \in SUBSET A : IsFiniteSet(s) => s \in P
    <2> HIDE DEF P
    <2> QED
      BY <1>1, <1>2, SubsetInduction
  <1> QED
    BY <1>3

\* Functions that agree on a set have the same sum over it.
LEMMA SumSame ==
  ASSUME NEW A, IsFiniteSet(A), NEW f, NEW e, \A x \in A : f[x] \in Nat /\ f[x] = e[x]
  PROVE  SumFunctionOnSet(f, A) = SumFunctionOnSet(e, A)
  <1>1. PICK g : SumsUpTo(g, f, A, Cardinality(A)) /\ SumFunctionOnSet(f, A) = g[A]
    BY SumIsRunning
  <1>2. PICK h : SumsUpTo(h, e, A, Cardinality(A)) /\ SumFunctionOnSet(e, A) = h[A]
    BY SumIsRunning
  <1>3. g[A] = h[A]
    BY <1>1, <1>2, SumUnique
  <1> QED
    BY <1>1, <1>2, <1>3

\* A sum over a subset is no larger.
LEMMA SumMono ==
  ASSUME NEW A, IsFiniteSet(A), NEW f, \A x \in A : f[x] \in Nat, NEW B \in SUBSET A
  PROVE  SumFunctionOnSet(f, B) <= SumFunctionOnSet(f, A)
  <1> DEFINE S(s) == SumFunctionOnSet(f, s)
             P == {s \in SUBSET A : \A b \in SUBSET s : S(b) \in Nat /\ S(s) \in Nat /\ S(b) <= S(s)}
  <1>0. \A s \in SUBSET A : S(s) \in Nat
    <2> SUFFICES ASSUME NEW s \in SUBSET A PROVE S(s) \in Nat
      OBVIOUS
    <2>1. IsFiniteSet(s) /\ \A x \in s : f[x] \in Nat
      BY FS_Subset
    <2> QED
      BY <2>1, SumAdd
  <1>1. {} \in P
    BY SumEmpty
  <1>2. ASSUME NEW s \in SUBSET A, IsFiniteSet(s), s # {}, \A x \in s : s \ {x} \in P
        PROVE  s \in P
    <2> SUFFICES ASSUME NEW b \in SUBSET s PROVE S(b) <= S(s)
      BY <1>0
    <2> HIDE DEF S
    <2>0. S(b) \in Nat /\ S(s) \in Nat
      BY <1>0
    <2>1. CASE b = s
      BY <2>0, <2>1
    <2>2. CASE b # s
      <3>1. PICK x \in s : x \notin b
        BY <2>2
      <3>2. S(b) <= S(s \ {x})
        BY <1>2, <3>1
      <3>3. S(s) = f[x] + S(s \ {x})
        BY <1>2, SumAdd DEF S
      <3>4. f[x] \in Nat /\ S(s \ {x}) \in Nat
        BY <1>0
      <3> QED
        BY <2>0, <3>2, <3>3, <3>4
    <2> QED
      BY <2>1, <2>2
  <1>3. \A s \in SUBSET A : IsFiniteSet(s) => s \in P
    <2> HIDE DEF P
    <2> QED
      BY <1>1, <1>2, SubsetInduction
  <1> QED
    BY <1>3

\* The terms of a sum may be renamed, one for one.
LEMMA SumImage ==
  ASSUME NEW A, IsFiniteSet(A), NEW f, \A x \in A : f[x] \in Nat,
         NEW h, NEW g, \A x \in A : g[h[x]] = f[x],
         \A x, y \in A : h[x] = h[y] => x = y
  PROVE  SumFunctionOnSet(g, {h[x] : x \in A}) = SumFunctionOnSet(f, A)
  <1> DEFINE S(s) == SumFunctionOnSet(f, s)
             T(s) == SumFunctionOnSet(g, {h[x] : x \in s})
             P == {s \in SUBSET A : T(s) = S(s)}
  <1>1. {} \in P
    <2>1. {h[x] : x \in {}} = {}
      OBVIOUS
    <2>2. T({}) = SumFunctionOnSet(g, {})
      BY <2>1, Zenon
    <2> HIDE DEF T
    <2> QED
      BY <2>2, SumEmpty
  <1>2. ASSUME NEW s \in SUBSET A, IsFiniteSet(s), s # {}, \A x \in s : s \ {x} \in P
        PROVE  s \in P
    <2>1. PICK x : x \in s
      BY <1>2
    <2>2. {h[y] : y \in s} \ {h[x]} = {h[y] : y \in s \ {x}}
      BY <2>1
    <2>3. IsFiniteSet({h[y] : y \in s}) /\ \A z \in {h[y] : y \in s} : g[z] \in Nat
      <3>1. IsFiniteSet({h[y] : y \in s})
        BY <1>2, ImageFinite
      <3> QED
        BY <3>1
    <2>4. T(s) = g[h[x]] + SumFunctionOnSet(g, {h[y] : y \in s} \ {h[x]})
      <3>1. h[x] \in {h[y] : y \in s}
        BY <2>1
      <3> QED
        BY <2>3, <3>1, SumAdd
    <2>5. T(s) = f[x] + T(s \ {x})
      BY <2>1, <2>2, <2>4
    <2>6. S(s) = f[x] + S(s \ {x})
      BY <1>2, <2>1, SumAdd
    <2>7. T(s \ {x}) = S(s \ {x})
      BY <1>2, <2>1
    <2> HIDE DEF S, T
    <2> QED
      BY <2>5, <2>6, <2>7
  <1>3. \A s \in SUBSET A : IsFiniteSet(s) => s \in P
    <2> HIDE DEF P
    <2> QED
      BY <1>1, <1>2, SubsetInduction
  <1> QED
    BY <1>3

\* The sum over two sets that share nothing.
LEMMA SumUnion ==
  ASSUME NEW A, IsFiniteSet(A), NEW f, \A x \in A : f[x] \in Nat,
         NEW B, NEW C, A = B \cup C, B \cap C = {}
  PROVE  SumFunctionOnSet(f, A) = SumFunctionOnSet(f, B) + SumFunctionOnSet(f, C)
  <1> DEFINE S(s) == SumFunctionOnSet(f, s)
             P == {s \in SUBSET B : S(s \cup C) = S(s) + S(C)}
  <1>0. \A s \in SUBSET A : IsFiniteSet(s) /\ S(s) \in Nat /\ \A x \in s : S(s) = f[x] + S(s \ {x})
    <2> SUFFICES ASSUME NEW s \in SUBSET A
                 PROVE  IsFiniteSet(s) /\ S(s) \in Nat /\ \A x \in s : S(s) = f[x] + S(s \ {x})
      OBVIOUS
    <2>1. IsFiniteSet(s) /\ \A x \in s : f[x] \in Nat
      BY FS_Subset
    <2> QED
      BY <2>1, SumAdd
  <1>1. {} \in P
    <2>1. {} \cup C = C
      OBVIOUS
    <2>2. S({} \cup C) = S(C)
      BY <2>1, Zenon
    <2>3. S({}) = 0
      BY SumEmpty
    <2>4. S(C) \in Nat
      BY <1>0
    <2> HIDE DEF S
    <2> QED
      BY <2>2, <2>3, <2>4
  <1> HIDE DEF S
  <1>2. ASSUME NEW s \in SUBSET B, IsFiniteSet(s), s # {}, \A x \in s : s \ {x} \in P
        PROVE  s \in P
    <2>1. PICK x : x \in s
      BY <1>2
    <2>2. s \cup C \in SUBSET A /\ s \in SUBSET A /\ x \in s \cup C /\ f[x] \in Nat
          /\ s \ {x} \in SUBSET A /\ C \in SUBSET A
      BY <2>1
    <2>3. S(s \cup C) = f[x] + S((s \cup C) \ {x})
      BY <1>0, <2>2
    <2>4. (s \cup C) \ {x} = (s \ {x}) \cup C
      BY <2>1
    <2>5. S((s \cup C) \ {x}) = S((s \ {x}) \cup C)
      BY <2>4, Zenon
    <2>6. S((s \ {x}) \cup C) = S(s \ {x}) + S(C)
      BY <1>2, <2>1
    <2>7. S(s) = f[x] + S(s \ {x})
      BY <1>0, <2>1, <2>2
    <2>8. S(s \ {x}) \in Nat /\ S(C) \in Nat /\ S(s) \in Nat
      BY <1>0, <2>2
    <2> QED
      BY <2>2, <2>3, <2>5, <2>6, <2>7, <2>8
  <1>3. \A s \in SUBSET B : IsFiniteSet(s) => s \in P
    <2> HIDE DEF P
    <2> QED
      BY <1>1, <1>2, SubsetInduction
  <1>4. B \in P
    BY <1>0, <1>3
  <1>5. S(A) = S(B \cup C)
    BY Zenon
  <1> QED
    BY <1>4, <1>5 DEF S

\* A sum of terms that are no larger than c.
LEMMA SumBound ==
  ASSUME NEW A, IsFiniteSet(A), NEW f, NEW c \in Nat, \A x \in A : f[x] \in Nat /\ f[x] <= c
  PROVE  SumFunctionOnSet(f, A) \in Nat /\ SumFunctionOnSet(f, A) <= c * Cardinality(A)
  <1> DEFINE S(s) == SumFunctionOnSet(f, s)
             P == {s \in SUBSET A : S(s) \in Nat /\ S(s) <= c * Cardinality(s)}
  <1>1. {} \in P
    BY SumEmpty, FS_EmptySet
  <1>2. ASSUME NEW s \in SUBSET A, IsFiniteSet(s), s # {}, \A x \in s : s \ {x} \in P
        PROVE  s \in P
    <2>1. PICK x : x \in s
      BY <1>2
    <2>2. S(s) = f[x] + S(s \ {x})
      BY <1>2, <2>1, SumAdd
    <2>3. Cardinality(s \ {x}) = Cardinality(s) - 1 /\ Cardinality(s) \in Nat
      BY <1>2, <2>1, FS_RemoveElement, FS_CardinalityType
    <2>4. S(s \ {x}) \in Nat /\ S(s \ {x}) <= c * Cardinality(s \ {x})
      BY <1>2, <2>1
    <2>5. f[x] \in Nat /\ f[x] <= c
      BY <2>1
    <2> HIDE DEF S
    <2>6. PICK n \in Nat, r \in Nat, t \in Nat : n = Cardinality(s) /\ r = S(s \ {x}) /\ t = f[x]
      BY <2>3, <2>4, <2>5
    <2>7. c * (n - 1) = c * n - c /\ c * n \in Nat
      OBVIOUS
    <2>8. S(s) \in Nat /\ S(s) <= c * n
      BY <2>2, <2>3, <2>4, <2>5, <2>6, <2>7
    <2> QED
      BY <2>6, <2>8
  <1>3. \A s \in SUBSET A : IsFiniteSet(s) => s \in P
    <2> HIDE DEF P
    <2> QED
      BY <1>1, <1>2, SubsetInduction
  <1> QED
    BY <1>3

\* A sum of zeros.
LEMMA SumZero ==
  ASSUME NEW A, IsFiniteSet(A), NEW f, \A x \in A : f[x] = 0
  PROVE  SumFunctionOnSet(f, A) = 0
  <1> DEFINE S(s) == SumFunctionOnSet(f, s)
             P == {s \in SUBSET A : S(s) = 0}
  <1>1. {} \in P
    BY SumEmpty
  <1>2. ASSUME NEW s \in SUBSET A, IsFiniteSet(s), s # {}, \A x \in s : s \ {x} \in P
        PROVE  s \in P
    <2>1. PICK x : x \in s
      BY <1>2
    <2>2. S(s) = f[x] + S(s \ {x})
      BY <1>2, <2>1, SumAdd
    <2> QED
      BY <1>2, <2>1, <2>2
  <1>3. \A s \in SUBSET A : IsFiniteSet(s) => s \in P
    <2> HIDE DEF P
    <2> QED
      BY <1>1, <1>2, SubsetInduction
  <1> QED
    BY <1>3
=============================================================================
