----------------------------- MODULE Induction -----------------------------
(***************************************************************************)
(* Induction over the naturals and over finite sets, stated with sets so   *)
(* that the first-order provers can instantiate it.                        *)
(***************************************************************************)
EXTENDS Integers, Sequences, FiniteSetsExt, FiniteSetTheorems, WellFoundedInduction, TLAPS

\* The pairs of the order on the naturals.
LEMMA LessPair ==
  ASSUME NEW x \in Nat, NEW y \in Nat, y < x
  PROVE  <<y, x>> \in OpToRel(<, Nat)
<1>1. <<y, x>> \in Nat \X Nat /\ <<y, x>>[1] = y /\ <<y, x>>[2] = x
  OBVIOUS
<1>2. <<y, x>>[1] < <<y, x>>[2]
  BY <1>1
<1> QED BY <1>1, <1>2, Zenon DEF OpToRel

\* A non-empty set of naturals has a least element.
LEMMA LeastNatural ==
  ASSUME NEW T \in SUBSET Nat, T # {}
  PROVE  \E x \in T : \A y \in T : x <= y
<1>1. PICK x \in T : \A y \in T : ~(<<y, x>> \in OpToRel(<, Nat))
  BY WFMin, NatLessThanWellFounded
<1>2. ASSUME NEW y \in T PROVE x <= y
  <2>1. ~(y < x)
    BY <1>1, LessPair
  <2> QED BY <2>1
<1> QED BY <1>2

\* Simple induction: a set with 0 and every successor of its members is all of Nat.
LEMMA NatSetInduction ==
  ASSUME NEW S, 0 \in S, \A n \in Nat : n \in S => n + 1 \in S
  PROVE  \A n \in Nat : n \in S
<1> DEFINE T == Nat \ S
<1>1. SUFFICES ASSUME T # {} PROVE FALSE
  OBVIOUS
<1>2. PICK x \in T : \A y \in T : x <= y
  BY <1>1, LeastNatural
<1>3. x - 1 \in Nat
  BY x \in Nat, x # 0
<1>4. x - 1 \notin T
  BY <1>2, <1>3
<1> QED BY <1>3, <1>4

\* Induction over the finite subsets of a set: a family with the empty set that is closed under
\* adding one element has every one of them.
LEMMA FiniteSetInduction ==
  ASSUME NEW S, IsFiniteSet(S), NEW F, {} \in F,
         \A T \in SUBSET S : \A x \in S \ T : T \in F => T \cup {x} \in F
  PROVE  S \in F
<1> DEFINE bad == {T \in SUBSET S : T \notin F}
<1>1. SUFFICES ASSUME bad # {} PROVE FALSE
  OBVIOUS
<1>2. bad \subseteq FiniteSubsetsOf(S)
  BY FS_FiniteSubsetsOfFinite
<1>3. PICK T \in bad : \A U \in bad : ~(<<U, T>> \in StrictSubsetOrdering(S))
  BY <1>1, <1>2, WFMin, FS_StrictSubsetOrderingWellFounded
<1>4. PICK x : x \in T
  BY <1>3
<1> DEFINE U == T \ {x}
<1>5. U \in SUBSET S /\ U \cup {x} = T /\ x \in S \ U
  BY <1>4
<1>6. U \in bad
  BY <1>5
<1>7. <<U, T>> \in StrictSubsetOrdering(S)
  BY <1>4, <1>5 DEF StrictSubsetOrdering
<1> QED BY <1>3, <1>6, <1>7

-----------------------------------------------------------------------------
(***************************************************************************)
(* The folds of the community modules recurse over the subsets of a finite *)
(* set: the value of a set is computed from the one without an element     *)
(* that is chosen.  Such a function exists.                                *)
(***************************************************************************)

\* f is defined so on the subsets in Q.
Iterates(f, Q, base, ch, D) ==
  f = [s \in Q |-> IF s = {} THEN base ELSE D[<<ch[s], f[s \ {ch[s]}]>>]]

LEMMA SubsetRecursion ==
  ASSUME NEW S, IsFiniteSet(S), NEW V, NEW base \in V, NEW ch, NEW D \in [S \X V -> V],
         \A s \in SUBSET S : s # {} => ch[s] \in s
  PROVE  \E f \in [SUBSET S -> V] : Iterates(f, SUBSET S, base, ch, D)
<1> DEFINE Q(n) == {s \in SUBSET S : Cardinality(s) <= n}
           G == {n \in Nat : \E f \in [Q(n) -> V] : Iterates(f, Q(n), base, ch, D)}
<1>1. \A s \in SUBSET S : IsFiniteSet(s) /\ Cardinality(s) \in Nat
  BY FS_Subset, FS_CardinalityType
<1>2. \A s \in SUBSET S : s # {} => /\ s \ {ch[s]} \in SUBSET S
                                    /\ Cardinality(s \ {ch[s]}) = Cardinality(s) - 1
  BY <1>1, FS_RemoveElement
<1>3. 0 \in G
  <2>1. Q(0) = {{}}
    BY <1>1, FS_EmptySet
  <2> DEFINE f == [s \in Q(0) |-> base]
  <2>2. f \in [Q(0) -> V] /\ Iterates(f, Q(0), base, ch, D)
    BY <2>1 DEF Iterates
  <2> QED BY <2>2
<1>4. ASSUME NEW n \in Nat, n \in G PROVE n + 1 \in G
  <2>1. PICK f \in [Q(n) -> V] : Iterates(f, Q(n), base, ch, D)
    BY <1>4
  <2> DEFINE g == [s \in Q(n + 1) |->
                     IF s = {} THEN base ELSE D[<<ch[s], f[s \ {ch[s]}]>>]]
  <2>2. ASSUME NEW s \in Q(n + 1), s # {}
        PROVE  /\ s \ {ch[s]} \in Q(n) /\ ch[s] \in S /\ f[s \ {ch[s]}] \in V
               /\ D[<<ch[s], f[s \ {ch[s]}]>>] \in V
    <3>1. s \ {ch[s]} \in Q(n)
      BY <1>1, <1>2, <2>2
    <3> QED BY <2>1, <2>2, <3>1
  <2>3. g \in [Q(n + 1) -> V]
    BY <2>2
  <2>4. ASSUME NEW s \in Q(n) PROVE s \in Q(n + 1) /\ g[s] = f[s]
    <3>1. s \in Q(n + 1)
      BY <1>1
    <3>2. f[s] = IF s = {} THEN base ELSE D[<<ch[s], f[s \ {ch[s]}]>>]
      BY <2>1 DEF Iterates
    <3> QED BY <3>1, <3>2
  <2>5. Iterates(g, Q(n + 1), base, ch, D)
    <3>1. ASSUME NEW s \in Q(n + 1)
          PROVE  g[s] = IF s = {} THEN base ELSE D[<<ch[s], g[s \ {ch[s]}]>>]
      <4>1. CASE s = {}
        BY <4>1
      <4>2. CASE s # {}
        <5>1. g[s \ {ch[s]}] = f[s \ {ch[s]}]
          BY <2>2, <2>4, <4>2
        <5> QED BY <4>2, <5>1
      <4> QED BY <4>1, <4>2
    <3> HIDE DEF Q
    <3>2. g = [s \in Q(n + 1) |-> g[s]]
      OBVIOUS
    <3> HIDE DEF g
    <3>3. [s \in Q(n + 1) |-> g[s]]
            = [s \in Q(n + 1) |-> IF s = {} THEN base ELSE D[<<ch[s], g[s \ {ch[s]}]>>]]
      BY <3>1
    <3> QED BY <3>2, <3>3, Zenon DEF Iterates
  <2> HIDE DEF g
  <2>6. \E h \in [Q(n + 1) -> V] : Iterates(h, Q(n + 1), base, ch, D)
    BY <2>3, <2>5
  <2>7. n + 1 \in Nat
    OBVIOUS
  <2> HIDE DEF Q
  <2> QED BY <2>6, <2>7
<1> HIDE DEF G
<1>5. Cardinality(S) \in G
  <2>1. Cardinality(S) \in Nat
    BY FS_CardinalityType
  <2> QED BY <1>3, <1>4, <2>1, NatSetInduction
<1>6. Q(Cardinality(S)) = SUBSET S
  BY <1>1, FS_Subset
<1> QED BY <1>5, <1>6 DEF G

-----------------------------------------------------------------------------
(***************************************************************************)
(* FoldLeft takes the largest index of the rest.                           *)
(***************************************************************************)

LEMMA MaxIsMember ==
  ASSUME NEW n \in Nat, NEW s \in SUBSET (0 .. n), s # {}
  PROVE  Max(s) \in s /\ \A y \in s : Max(s) >= y
<1> DEFINE T == {n - x : x \in s}
<1>1. T \in SUBSET Nat /\ T # {}
  <2>1. PICK x : x \in s
    OBVIOUS
  <2>2. n - x \in T
    BY <2>1
  <2>3. ASSUME NEW t \in T PROVE t \in Nat
    OBVIOUS
  <2> QED BY <2>2, <2>3
<1>2. PICK t \in T : \A u \in T : t <= u
  BY <1>1, LeastNatural
<1>3. PICK x \in s : t = n - x
  OBVIOUS
<1>4. \A y \in s : x >= y
  BY <1>2, <1>3
<1>5. \E m \in s : \A y \in s : m >= y
  BY <1>4
<1> QED BY <1>5, Zenon DEF Max

LEMMA MinIsMember ==
  ASSUME NEW s \in SUBSET Nat, s # {}
  PROVE  Min(s) \in s /\ \A y \in s : Min(s) <= y
<1>1. \E x \in s : \A y \in s : x <= y
  BY LeastNatural
<1>2. Min(s) = CHOOSE x \in s : \A y \in s : x <= y
  BY Zenon DEF Min
<1> QED BY <1>1, <1>2

LEMMA MaxOfInterval ==
  ASSUME NEW n \in Nat, n > 0
  PROVE  Max(1 .. n) = n
<1>1. 1 .. n \in SUBSET (0 .. n) /\ 1 .. n # {} /\ n \in 1 .. n
  OBVIOUS
<1>2. Max(1 .. n) \in 1 .. n /\ Max(1 .. n) >= n
  BY <1>1, MaxIsMember
<1> QED BY <1>2

\* The fold of a sequence of n elements over the values V: g holds what the first i give.
LEMMA FoldSteps ==
  ASSUME NEW n \in Nat, NEW V, NEW base \in V, NEW D \in [(1 .. n) \X V -> V], NEW ch,
         \A s \in SUBSET (1 .. n) : s # {} => ch[s] = Max(s),
         NEW f, Iterates(f, SUBSET (1 .. n), base, ch, D)
  PROVE  /\ f[1 .. 0] = base
         /\ \A i \in 1 .. n : f[1 .. i] = D[<<i, f[1 .. i - 1]>>]
<1>1. \A s \in SUBSET (1 .. n) : f[s] = IF s = {} THEN base ELSE D[<<ch[s], f[s \ {ch[s]}]>>]
  BY Zenon DEF Iterates
<1>2. f[1 .. 0] = base
  <2>1. 1 .. 0 = {} /\ {} \in SUBSET (1 .. n)
    OBVIOUS
  <2> QED BY <1>1, <2>1
<1>3. ASSUME NEW i \in 1 .. n PROVE f[1 .. i] = D[<<i, f[1 .. i - 1]>>]
  <2>1. i \in Nat /\ i > 0 /\ 1 .. i \in SUBSET (1 .. n) /\ 1 .. i # {}
    OBVIOUS
  <2>2. ch[1 .. i] = i
    BY <2>1, MaxOfInterval
  <2>3. (1 .. i) \ {i} = 1 .. i - 1
    OBVIOUS
  <2>4. f[1 .. i] = D[<<ch[1 .. i], f[(1 .. i) \ {ch[1 .. i]}]>>]
    BY <1>1, <2>1
  <2> QED BY <2>2, <2>3, <2>4
<1> QED BY <1>2, <1>3

-----------------------------------------------------------------------------
(***************************************************************************)
(* Sums and counts over finite sets.                                       *)
(***************************************************************************)

\* Two sets that differ at most in x have cardinalities that differ at most by x.
LEMMA CountOne ==
  ASSUME NEW S, IsFiniteSet(S), NEW A \in SUBSET S, NEW B \in SUBSET S, NEW x \in S,
         \A y \in S \ {x} : y \in A <=> y \in B
  PROVE  Cardinality(B) = Cardinality(A) + (IF x \in B THEN 1 ELSE 0) - (IF x \in A THEN 1 ELSE 0)
<1>1. IsFiniteSet(A) /\ IsFiniteSet(B) /\ Cardinality(A) \in Nat /\ Cardinality(B) \in Nat
  BY FS_Subset, FS_CardinalityType
<1>2. A \ {x} = B \ {x}
  OBVIOUS
<1>3. Cardinality(A \ {x}) = IF x \in A THEN Cardinality(A) - 1 ELSE Cardinality(A)
  BY <1>1, FS_RemoveElement
<1>4. Cardinality(B \ {x}) = IF x \in B THEN Cardinality(B) - 1 ELSE Cardinality(B)
  BY <1>1, FS_RemoveElement
<1> QED BY <1>1, <1>2, <1>3, <1>4

\* F[T] is the sum of v over T, whichever element is taken last.
Summing(F, S, v) ==
  /\ F \in [SUBSET S -> Int]
  /\ F[{}] = 0
  /\ \A T \in SUBSET S : \A x \in T : F[T] = F[T \ {x}] + v[x]

\* A function that sums in the order of some choice sums in every order.
LEMMA SumInAnyOrder ==
  ASSUME NEW S, IsFiniteSet(S), NEW v \in [S -> Int], NEW ch,
         \A s \in SUBSET S : s # {} => ch[s] \in s,
         NEW F \in [SUBSET S -> Int], F[{}] = 0,
         \A s \in SUBSET S : s # {} => F[s] = v[ch[s]] + F[s \ {ch[s]}]
  PROVE  Summing(F, S, v)
<1> DEFINE G == {n \in Nat : \A T \in SUBSET S : Cardinality(T) <= n =>
                                \A x \in T : F[T] = F[T \ {x}] + v[x]}
<1>1. \A T \in SUBSET S : IsFiniteSet(T) /\ Cardinality(T) \in Nat
  BY FS_Subset, FS_CardinalityType
<1>2. \A T \in SUBSET S : \A x \in T :
        T \ {x} \in SUBSET S /\ Cardinality(T \ {x}) = Cardinality(T) - 1
  BY <1>1, FS_RemoveElement
<1>3. 0 \in G
  BY <1>1, FS_EmptySet
<1>4. ASSUME NEW n \in Nat, n \in G PROVE n + 1 \in G
  <2> SUFFICES ASSUME NEW T \in SUBSET S, Cardinality(T) <= n + 1, NEW x \in T
               PROVE  F[T] = F[T \ {x}] + v[x]
    OBVIOUS
  <2> DEFINE c == ch[T]
  <2>1. c \in T /\ F[T] = v[c] + F[T \ {c}]
    OBVIOUS
  <2> HIDE DEF c
  <2>2. CASE x = c
    BY <2>1, <2>2
  <2>3. CASE x # c
    <3>1. /\ T \ {c} \in SUBSET S /\ Cardinality(T \ {c}) <= n /\ x \in T \ {c}
          /\ T \ {x} \in SUBSET S /\ Cardinality(T \ {x}) <= n /\ c \in T \ {x}
      BY <1>1, <1>2, <2>1, <2>3
    <3>2. F[T \ {c}] = F[(T \ {c}) \ {x}] + v[x]
      BY <1>4, <3>1
    <3>3. F[T \ {x}] = F[(T \ {x}) \ {c}] + v[c]
      BY <1>4, <3>1
    <3>4. (T \ {c}) \ {x} = (T \ {x}) \ {c} /\ (T \ {c}) \ {x} \in SUBSET S
      OBVIOUS
    <3> DEFINE e == F[(T \ {c}) \ {x}]
    <3>5. e \in Int /\ v[x] \in Int /\ v[c] \in Int
      BY <2>1, <3>4
    <3>6. F[T] = v[c] + (e + v[x]) /\ F[T \ {x}] = e + v[c]
      BY <2>1, <3>2, <3>3, <3>4
    <3> HIDE DEF e
    <3> QED BY <3>5, <3>6
  <2> QED BY <2>2, <2>3
<1> HIDE DEF G
<1>5. \A n \in Nat : n \in G
  BY <1>3, <1>4, NatSetInduction
<1>6. ASSUME NEW T \in SUBSET S, NEW x \in T PROVE F[T] = F[T \ {x}] + v[x]
  <2>1. Cardinality(T) \in G /\ Cardinality(T) \in Nat /\ Cardinality(T) <= Cardinality(T)
    BY <1>1, <1>5
  <2> QED BY <2>1 DEF G
<1> QED BY <1>6 DEF Summing

\* The sum over a set depends on the summands in it only.
LEMMA SumsAgree ==
  ASSUME NEW S, NEW R, NEW F, NEW G, NEW v, NEW w, Summing(F, S, v), Summing(G, R, w),
         NEW T, IsFiniteSet(T), T \subseteq S, T \subseteq R, \A x \in T : v[x] = w[x]
  PROVE  F[T] = G[T]
<1> DEFINE E == {U \in SUBSET T : F[U] = G[U]}
<1>1. {} \in E
  BY DEF Summing
<1>2. ASSUME NEW U \in SUBSET T, NEW x \in T \ U, U \in E PROVE U \cup {x} \in E
  <2>1. (U \cup {x}) \ {x} = U /\ U \cup {x} \in SUBSET S /\ U \cup {x} \in SUBSET R
    OBVIOUS
  <2>2. F[U \cup {x}] = F[U] + v[x] /\ G[U \cup {x}] = G[U] + w[x]
    BY <2>1 DEF Summing
  <2> QED BY <1>2, <2>2
<1> HIDE DEF E
<1>3. T \in E
  BY <1>1, <1>2, FiniteSetInduction
<1> QED BY <1>3 DEF E

\* A function on a non-empty finite set has a greatest value, and a least one.
LEMMA ExtremeValues ==
  ASSUME NEW S, IsFiniteSet(S), S # {}, NEW f \in [S -> Nat]
  PROVE  /\ \E x \in S : \A y \in S : f[y] <= f[x]
         /\ \E x \in S : \A y \in S : f[x] <= f[y]
<1> DEFINE E == {U \in SUBSET S : U # {} => /\ \E x \in U : \A y \in U : f[y] <= f[x]
                                          /\ \E x \in U : \A y \in U : f[x] <= f[y]}
<1>1. {} \in E
  OBVIOUS
<1>2. ASSUME NEW U \in SUBSET S, NEW z \in S \ U, U \in E PROVE U \cup {z} \in E
  <2>1. CASE U = {}
    BY <2>1
  <2>2. CASE U # {}
    <3>1. PICK x \in U : \A y \in U : f[y] <= f[x]
      BY <1>2, <2>2
    <3>2. PICK w \in U : \A y \in U : f[w] <= f[y]
      BY <1>2, <2>2
    <3>3. f[z] \in Nat /\ \A y \in U : f[y] \in Nat
      OBVIOUS
    <3>4. \E g \in U \cup {z} : \A y \in U \cup {z} : f[y] <= f[g]
      <4>1. CASE f[x] <= f[z]
        BY <3>1, <3>3, <4>1
      <4>2. CASE ~(f[x] <= f[z])
        BY <3>1, <3>3, <4>2
      <4> QED BY <4>1, <4>2
    <3>5. \E g \in U \cup {z} : \A y \in U \cup {z} : f[g] <= f[y]
      <4>1. CASE f[z] <= f[w]
        BY <3>2, <3>3, <4>1
      <4>2. CASE ~(f[z] <= f[w])
        BY <3>2, <3>3, <4>2
      <4> QED BY <4>1, <4>2
    <3> QED BY <3>4, <3>5
  <2> QED BY <2>1, <2>2
<1> HIDE DEF E
<1>3. S \in E
  BY <1>1, <1>2, FiniteSetInduction
<1> QED BY <1>3 DEF E

-----------------------------------------------------------------------------
(***************************************************************************)
(* Loops: what is computed step by step exists, and stays in a set that    *)
(* every step stays in.                                                    *)
(***************************************************************************)

\* e goes on from w by D, step by step.
Steps(e, n, w, D) == e = [i \in 0 .. n |-> IF i = 0 THEN w ELSE D[e[i - 1]]]

LEMMA StepsExist ==
  ASSUME NEW n \in Nat, NEW V, NEW w \in V, NEW D \in [V -> V]
  PROVE  \E e \in [0 .. n -> V] : Steps(e, n, w, D)
<1> DEFINE G == {m \in Nat : \E e \in [0 .. m -> V] : Steps(e, m, w, D)}
<1>1. 0 \in G
  <2> DEFINE e == [i \in 0 .. 0 |-> w]
  <2>1. e \in [0 .. 0 -> V] /\ e = [i \in 0 .. 0 |-> IF i = 0 THEN w ELSE D[e[i - 1]]]
    OBVIOUS
  <2> HIDE DEF e
  <2> QED BY <2>1 DEF Steps
<1>2. ASSUME NEW m \in Nat, m \in G PROVE m + 1 \in G
  <2>1. PICK e \in [0 .. m -> V] : Steps(e, m, w, D)
    BY <1>2
  <2> DEFINE d == [i \in 0 .. m + 1 |-> IF i <= m THEN e[i] ELSE D[e[m]]]
  <2>2. \A i \in 0 .. m : e[i] = IF i = 0 THEN w ELSE D[e[i - 1]]
    BY <2>1, Zenon DEF Steps
  <2>3. e[m] \in V /\ D[e[m]] \in V
    OBVIOUS
  <2>4. d \in [0 .. m + 1 -> V]
    BY <2>3
  <2>5. ASSUME NEW i \in 0 .. m + 1 PROVE d[i] = IF i = 0 THEN w ELSE D[d[i - 1]]
    <3>1. CASE i <= m
      <4>1. d[i] = e[i] /\ (i # 0 => d[i - 1] = e[i - 1])
        BY <3>1
      <4>2. i \in 0 .. m
        BY <3>1
      <4> QED BY <2>2, <4>1, <4>2
    <3>2. CASE i = m + 1
      <4>1. d[i] = D[e[m]] /\ d[i - 1] = e[m]
        BY <3>2
      <4> QED BY <3>2, <4>1
    <3> QED BY <3>1, <3>2
  <2>6. DOMAIN d = 0 .. m + 1 /\ d = [i \in 0 .. m + 1 |-> d[i]]
    OBVIOUS
  <2> HIDE DEF d
  <2>7. Steps(d, m + 1, w, D)
    BY <2>5, <2>6 DEF Steps
  <2> QED BY <2>4, <2>7
<1> HIDE DEF G
<1>3. n \in G
  BY <1>1, <1>2, NatSetInduction
<1> QED BY <1>3 DEF G

LEMMA StepsStay ==
  ASSUME NEW n \in Nat, NEW V, NEW w \in V, NEW f, f[0] = w,
         \A i \in 1 .. n : f[i - 1] \in V => f[i] \in V
  PROVE  \A i \in 0 .. n : f[i] \in V
<1> DEFINE G == {i \in Nat : i <= n => f[i] \in V}
<1>1. 0 \in G
  OBVIOUS
<1>2. ASSUME NEW i \in Nat, i \in G PROVE i + 1 \in G
  <2>1. SUFFICES ASSUME i + 1 <= n PROVE f[i + 1] \in V
    OBVIOUS
  <2>2. i + 1 \in 1 .. n /\ (i + 1) - 1 = i /\ f[i] \in V
    BY <1>2, <2>1
  <2> QED BY <2>2
<1> HIDE DEF G
<1>3. \A i \in Nat : i \in G
  BY <1>1, <1>2, NatSetInduction
<1> QED BY <1>3 DEF G

\* e folds the steps D from w on: the last of the indices in t is taken last.
FoldsBy(e, n, w, D) ==
  /\ e[{}] = w
  /\ \A t \in SUBSET (1 .. n) : t # {} =>
       Max(t) \in t /\ e[t] = D[<<Max(t), e[t \ {Max(t)}]>>]

LEMMA FoldExists ==
  ASSUME NEW n \in Nat, NEW V, NEW w \in V, NEW D \in [(1 .. n) \X V -> V]
  PROVE  \E e \in [SUBSET (1 .. n) -> V] : FoldsBy(e, n, w, D)
<1> DEFINE Q == SUBSET (1 .. n)
           ch == [t \in Q |-> Max(t)]
<1>1. ASSUME NEW t \in Q, t # {} PROVE ch[t] = Max(t) /\ ch[t] \in t
  <2>1. t \in SUBSET (0 .. n)
    OBVIOUS
  <2> QED BY <1>1, <2>1, MaxIsMember
<1>2. IsFiniteSet(1 .. n)
  BY FS_Interval
<1> HIDE DEF ch
<1>3. PICK e \in [Q -> V] : Iterates(e, Q, w, ch, D)
  BY <1>1, <1>2, SubsetRecursion
<1>4. ASSUME NEW t \in Q PROVE e[t] = IF t = {} THEN w ELSE D[<<ch[t], e[t \ {ch[t]}]>>]
  <2> HIDE DEF Q
  <2> QED BY <1>3, Zenon DEF Iterates
<1>5. {} \in Q
  OBVIOUS
<1> HIDE DEF Q
<1>6. e[{}] = w
  BY <1>4, <1>5
<1>7. \A t \in Q : t # {} => Max(t) \in t /\ e[t] = D[<<Max(t), e[t \ {Max(t)}]>>]
  BY <1>1, <1>4
<1>8. FoldsBy(e, n, w, D)
  BY <1>6, <1>7 DEF Q, FoldsBy
<1> QED BY <1>3, <1>8 DEF Q

LEMMA FoldStays ==
  ASSUME NEW n \in Nat, NEW V, NEW w \in V, NEW f, f[{}] = w,
         \A t \in SUBSET (1 .. n) : t # {} /\ f[t \ {Max(t)}] \in V => f[t] \in V
  PROVE  f[1 .. n] \in V
<1> DEFINE G == {i \in Nat : i <= n => f[1 .. i] \in V}
<1>1. 0 \in G
  <2>1. 1 .. 0 = {}
    OBVIOUS
  <2> QED BY <2>1
<1>2. ASSUME NEW i \in Nat, i \in G PROVE i + 1 \in G
  <2>1. SUFFICES ASSUME i + 1 <= n PROVE f[1 .. i + 1] \in V
    OBVIOUS
  <2>2. f[1 .. i] \in V
    BY <1>2, <2>1
  <2>3. 1 .. i + 1 \in SUBSET (1 .. n) /\ 1 .. i + 1 # {} /\ (1 .. i + 1) \ {i + 1} = 1 .. i
    BY <2>1
  <2>4. Max(1 .. i + 1) = i + 1
    BY MaxOfInterval
  <2> QED BY <2>2, <2>3, <2>4
<1> HIDE DEF G
<1>3. n \in G
  BY <1>1, <1>2, NatSetInduction
<1> QED BY <1>3 DEF G

=============================================================================
