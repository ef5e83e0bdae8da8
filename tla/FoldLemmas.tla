------------------------------ MODULE FoldLemmas ------------------------------
(***************************************************************************)
(* Folds over finite sets, and the sums the models take, for proofs.       *)
(*                                                                         *)
(* The library states induction over an operator, which cannot be          *)
(* instantiated by the provers; here a predicate is the set of what        *)
(* satisfies it, and an operator to fold with is a function.               *)
(***************************************************************************)
EXTENDS Integers, Functions, FiniteSetTheorems, WellFoundedInduction, TLAPS

-----------------------------------------------------------------------------
(* Induction *)

\* A set of naturals that has 0 and every successor is all of them.
LEMMA SuccessorsReachAll ==
  ASSUME NEW P, 0 \in P, \A n \in Nat : n \in P => n + 1 \in P
  PROVE  \A n \in Nat : n \in P
<1> DEFINE N == Nat \ P
<1>1. SUFFICES ASSUME N # {} PROVE FALSE
  OBVIOUS
<1>2. N \subseteq Nat
  OBVIOUS
<1>3. PICK m \in N : \A k \in N : ~ (<<k, m>> \in OpToRel(<, Nat))
  BY <1>1, <1>2, NatLessThanWellFounded, WFMin
<1>4. m \in Nat /\ m # 0
  OBVIOUS
<1>5. m - 1 \in Nat /\ m - 1 < m /\ (m - 1) + 1 = m
  BY <1>4
<1>6. <<m - 1, m>> \in OpToRel(<, Nat)
  BY <1>4, <1>5 DEF OpToRel
<1>7. m - 1 \in P
  BY <1>3, <1>5, <1>6
<1> QED
  BY <1>5, <1>7

\* The same between two integers, upwards and downwards.
LEMMA ClimbingReaches ==
  ASSUME NEW lo \in Int, NEW hi \in Int, NEW P, lo \in P,
         \A k \in lo .. hi - 1 : k \in P => k + 1 \in P
  PROVE  \A k \in lo .. hi : k \in P
<1> DEFINE Q == {n \in Nat : lo + n <= hi => lo + n \in P}
<1>1. 0 \in Q
  OBVIOUS
<1>2. ASSUME NEW n \in Nat, n \in Q PROVE n + 1 \in Q
  <2>1. SUFFICES ASSUME lo + (n + 1) <= hi PROVE lo + (n + 1) \in P
    OBVIOUS
  <2>2. lo + n \in lo .. hi - 1 /\ (lo + n) + 1 = lo + (n + 1)
    BY <2>1
  <2> QED
    BY <1>2, <2>2
<1> HIDE DEF Q
<1>3. \A n \in Nat : n \in Q
  BY <1>1, <1>2, SuccessorsReachAll
<1>4. ASSUME NEW k \in lo .. hi PROVE k \in P
  <2>1. k - lo \in Nat /\ lo + (k - lo) = k /\ k <= hi
    OBVIOUS
  <2> QED
    BY <1>3, <2>1 DEF Q
<1> QED
  BY <1>4

LEMMA DescendingReaches ==
  ASSUME NEW lo \in Int, NEW hi \in Int, NEW P, hi \in P,
         \A k \in lo + 1 .. hi : k \in P => k - 1 \in P
  PROVE  \A k \in lo .. hi : k \in P
<1> DEFINE Q == {n \in Nat : lo <= hi - n => hi - n \in P}
<1>1. 0 \in Q
  OBVIOUS
<1>2. ASSUME NEW n \in Nat, n \in Q PROVE n + 1 \in Q
  <2>1. SUFFICES ASSUME lo <= hi - (n + 1) PROVE hi - (n + 1) \in P
    OBVIOUS
  <2>2. hi - n \in lo + 1 .. hi /\ (hi - n) - 1 = hi - (n + 1)
    BY <2>1
  <2> QED
    BY <1>2, <2>2
<1> HIDE DEF Q
<1>3. \A n \in Nat : n \in Q
  BY <1>1, <1>2, SuccessorsReachAll
<1>4. ASSUME NEW k \in lo .. hi PROVE k \in P
  <2>1. hi - k \in Nat /\ hi - (hi - k) = k /\ lo <= k
    OBVIOUS
  <2> QED
    BY <1>3, <2>1 DEF Q
<1> QED
  BY <1>4

LEMMA OneFewer ==
  ASSUME NEW T, IsFiniteSet(T), NEW n \in Nat, Cardinality(T) = n + 1
  PROVE  T # {} /\ \A x \in T : Cardinality(T \ {x}) = n
<1>1. T # {}
  <2>1. SUFFICES ASSUME T = {} PROVE FALSE
    OBVIOUS
  <2>2. Cardinality(T) = 0
    BY <2>1, FS_EmptySet
  <2> QED
    BY <2>2
<1>2. ASSUME NEW x \in T PROVE Cardinality(T \ {x}) = n
  <2>1. Cardinality(T \ {x}) = Cardinality(T) - 1
    BY FS_RemoveElement
  <2> QED
    BY <2>1
<1> QED
  BY <1>1, <1>2

\* A set of sets that has the empty one and stays closed when an element of S is
\* added has all subsets of a finite S.
LEMMA AddingReachesAll ==
  ASSUME NEW S, IsFiniteSet(S), NEW P, {} \in P,
         \A T \in SUBSET S, x \in S : T \in P /\ x \notin T => T \cup {x} \in P
  PROVE  \A T \in SUBSET S : T \in P
<1> DEFINE Q == {n \in Nat : \A T \in SUBSET S : Cardinality(T) = n => T \in P}
<1>1. \A T \in SUBSET S : IsFiniteSet(T) /\ Cardinality(T) \in Nat
  BY FS_Subset, FS_CardinalityType
<1>2. 0 \in Q
  BY <1>1, FS_EmptySet
<1>3. ASSUME NEW n \in Nat, n \in Q PROVE n + 1 \in Q
  <2>1. SUFFICES ASSUME NEW T \in SUBSET S, Cardinality(T) = n + 1 PROVE T \in P
    OBVIOUS
  <2>2. T # {}
    BY <1>1, <2>1, OneFewer
  <2>3. PICK x \in T : TRUE
    BY <2>2
  <2>4. Cardinality(T \ {x}) = n
    BY <1>1, <2>1, OneFewer
  <2>5. T \ {x} \in P /\ x \in S /\ T = (T \ {x}) \cup {x}
    BY <1>3, <2>4
  <2> QED
    BY <2>5
<1> HIDE DEF Q
<1>4. \A n \in Nat : n \in Q
  BY <1>2, <1>3, SuccessorsReachAll
<1> QED
  BY <1>1, <1>4 DEF Q

\* A finite set of integers has a greatest element.
LEMMA HasMaximum ==
  ASSUME NEW S, IsFiniteSet(S), S \in SUBSET Int, S # {}
  PROVE  \E m \in S : \A y \in S : m >= y
<1> DEFINE P == {T \in SUBSET S : T # {} => \E m \in T : \A y \in T : m >= y}
<1>1. {} \in P
  OBVIOUS
<1>2. ASSUME NEW T \in SUBSET S, NEW x \in S, T \in P, x \notin T PROVE T \cup {x} \in P
  <2>1. CASE T = {}
    BY <2>1
  <2>2. CASE T # {}
    <3>1. PICK m \in T : \A y \in T : m >= y
      BY <1>2, <2>2
    <3>2. CASE m >= x
      BY <3>1, <3>2
    <3>3. CASE x >= m
      BY <3>1, <3>3
    <3> QED
      BY <3>2, <3>3
  <2> QED
    BY <2>1, <2>2
<1> HIDE DEF P
<1>3. \A T \in SUBSET S : T \in P
  BY ONLY IsFiniteSet(S), <1>1, <1>2, AddingReachesAll
<1> QED
  BY <1>3 DEF P

\* Something in a finite set is least by any measure.
LEMMA HasLeast ==
  ASSUME NEW S, IsFiniteSet(S), S # {}, NEW f, \A y \in S : f[y] \in Int
  PROVE  \E m \in S : \A y \in S : f[m] <= f[y]
<1> DEFINE P == {T \in SUBSET S : T # {} => \E m \in T : \A y \in T : f[m] <= f[y]}
<1>1. {} \in P
  OBVIOUS
<1>2. ASSUME NEW T \in SUBSET S, NEW x \in S, T \in P, x \notin T PROVE T \cup {x} \in P
  <2>1. CASE T = {}
    BY <2>1
  <2>2. CASE T # {}
    <3>1. PICK m \in T : \A y \in T : f[m] <= f[y]
      BY <1>2, <2>2
    <3>2. CASE f[m] <= f[x]
      BY <3>1, <3>2
    <3>3. CASE f[x] <= f[m]
      BY <3>1, <3>3
    <3> QED
      BY <3>2, <3>3
  <2> QED
    BY <2>1, <2>2
<1> HIDE DEF P
<1>3. \A T \in SUBSET S : T \in P
  BY ONLY IsFiniteSet(S), <1>1, <1>2, AddingReachesAll
<1> QED
  BY <1>3 DEF P

-----------------------------------------------------------------------------
(* Folds: F[x] maps a value to the next, ch picks the element to fold next. *)

IsChoice(ch, S) == \A T \in SUBSET S : T # {} => ch[T] \in T

Follows(g, F, base, ch, S) ==
  \A T \in SUBSET S : g[T] = IF T = {} THEN base ELSE F[ch[T]][g[T \ {ch[T]}]]

\* There is a fold, and its values have the type of the operator.
LEMMA FoldExists ==
  ASSUME NEW S, IsFiniteSet(S), NEW V, NEW base \in V, NEW F \in [S -> [V -> V]],
         NEW ch, IsChoice(ch, S)
  PROVE  \E g \in [SUBSET S -> V] : Follows(g, F, base, ch, S)
<1> DEFINE Up(g) == [T \in SUBSET S |-> IF T = {} THEN base ELSE F[ch[T]][g[T \ {ch[T]}]]]
           Solves(g, n) == \A T \in SUBSET S : Cardinality(T) <= n => g[T] = Up(g)[T]
           Q == {n \in Nat : \E g \in [SUBSET S -> V] : Solves(g, n)}
<1>1. ASSUME NEW g \in [SUBSET S -> V] PROVE Up(g) \in [SUBSET S -> V]
  <2>1. ASSUME NEW T \in SUBSET S, T # {} PROVE F[ch[T]][g[T \ {ch[T]}]] \in V
    <3>1. ch[T] \in S /\ T \ {ch[T]} \in SUBSET S
      BY <2>1 DEF IsChoice
    <3>2. F[ch[T]] \in [V -> V] /\ g[T \ {ch[T]}] \in V
      BY <3>1
    <3> QED
      BY <3>2
  <2> QED
    BY <2>1
<1>2. \A T \in SUBSET S : IsFiniteSet(T) /\ Cardinality(T) \in Nat
  BY FS_Subset, FS_CardinalityType
<1>3. 0 \in Q
  <2> DEFINE g == [T \in SUBSET S |-> base]
  <2>1. g \in [SUBSET S -> V]
    OBVIOUS
  <2>2. Up(g) \in [SUBSET S -> V]
    BY <1>1, <2>1
  <2>3. ASSUME NEW T \in SUBSET S, Cardinality(T) <= 0 PROVE Up(g)[T] = Up(Up(g))[T]
    <3>1. T = {}
      BY <1>2, <2>3, FS_EmptySet
    <3> QED
      BY <3>1
  <2> QED
    BY <2>2, <2>3
<1>4. ASSUME NEW n \in Nat, n \in Q PROVE n + 1 \in Q
  <2>1. PICK g \in [SUBSET S -> V] : Solves(g, n)
    BY <1>4
  <2>2. Up(g) \in [SUBSET S -> V]
    BY <1>1
  <2>3. ASSUME NEW T \in SUBSET S, Cardinality(T) <= n + 1
        PROVE  Up(g)[T] = Up(Up(g))[T]
    <3>1. CASE T = {}
      BY <3>1
    <3>2. CASE T # {}
      <4> DEFINE R == T \ {ch[T]}
      <4>1. ch[T] \in T
        BY <3>2 DEF IsChoice
      <4>2. R \in SUBSET S /\ Cardinality(R) = Cardinality(T) - 1
        BY <1>2, <4>1, FS_RemoveElement
      <4>3. Cardinality(R) <= n
        BY <1>2, <2>3, <4>2
      <4>4. g[R] = Up(g)[R]
        BY <2>1, <4>2, <4>3
      <4>5. Up(g)[T] = F[ch[T]][g[R]] /\ Up(Up(g))[T] = F[ch[T]][Up(g)[R]]
        BY <3>2
      <4> QED
        BY <4>4, <4>5
    <3> QED
      BY <3>1, <3>2
  <2>4. Solves(Up(g), n + 1)
    BY <2>3
  <2> HIDE DEF Solves, Up
  <2> QED
    BY <2>2, <2>4
<1>5. Cardinality(S) \in Q
  <2> HIDE DEF Q
  <2>1. \A n \in Nat : n \in Q
    BY <1>3, <1>4, SuccessorsReachAll
  <2> QED
    BY <1>2, <2>1
<1>6. PICK g \in [SUBSET S -> V] : Solves(g, Cardinality(S))
  BY <1>5
<1>7. \A T \in SUBSET S : Cardinality(T) <= Cardinality(S)
  BY FS_Subset
<1> QED
  BY <1>6, <1>7 DEF Follows

\* It is the only one: folds over two sets agree on what both are about.
LEMMA FoldsAgree ==
  ASSUME NEW R, IsFiniteSet(R), NEW g, NEW h, NEW ch, IsChoice(ch, R), g[{}] = h[{}],
         \A T \in SUBSET R :
           T # {} /\ g[T \ {ch[T]}] = h[T \ {ch[T]}] => g[T] = h[T]
  PROVE  g[R] = h[R]
<1> DEFINE Q == {n \in Nat : \A T \in SUBSET R : Cardinality(T) = n => g[T] = h[T]}
<1>1. \A T \in SUBSET R : IsFiniteSet(T) /\ Cardinality(T) \in Nat
  BY FS_Subset, FS_CardinalityType
<1>2. 0 \in Q
  BY <1>1, FS_EmptySet
<1>3. ASSUME NEW n \in Nat, n \in Q PROVE n + 1 \in Q
  <2>1. SUFFICES ASSUME NEW T \in SUBSET R, Cardinality(T) = n + 1 PROVE g[T] = h[T]
    OBVIOUS
  <2>2. T # {}
    BY <2>1, FS_EmptySet
  <2>3. ch[T] \in T
    BY <2>2 DEF IsChoice
  <2>4. T \ {ch[T]} \in SUBSET R /\ Cardinality(T \ {ch[T]}) = n
    <3>1. IsFiniteSet(T)
      BY <1>1
    <3>2. Cardinality(T \ {ch[T]}) = Cardinality(T) - 1
      BY <2>3, <3>1, FS_RemoveElement
    <3> QED
      BY <2>1, <3>2
  <2>5. g[T \ {ch[T]}] = h[T \ {ch[T]}]
    BY <1>3, <2>4
  <2> QED
    BY <2>2, <2>5
<1> HIDE DEF Q
<1>4. \A n \in Nat : n \in Q
  BY <1>2, <1>3, SuccessorsReachAll
<1> QED
  BY <1>1, <1>4 DEF Q

-----------------------------------------------------------------------------
(* Sums: SumFunctionOnSet of module Functions *)

\* SumFunctionOnSet is the CHOOSE of this equation.
SumsUp(g, f, S) == g = [T \in SUBSET S |-> IF T = {} THEN 0
                          ELSE f[CHOOSE x \in T : TRUE] + g[T \ {CHOOSE x \in T : TRUE}]]

LEMMA SumIsOne ==
  ASSUME NEW f, NEW S, NEW h, SumsUp(h, f, S)
  PROVE  \E g : SumsUp(g, f, S) /\ SumFunctionOnSet(f, S) = g[S]
<1> DEFINE Def(g) == [T \in SUBSET S |-> IF T = {} THEN 0
                          ELSE f[CHOOSE x \in T : TRUE] + g[T \ {CHOOSE x \in T : TRUE}]]
           sum == CHOOSE g : g = Def(g)
<1>1. SumFunctionOnSet(f, S) = sum[S]
  BY DEF SumFunctionOnSet, FoldFunctionOnSet, MapThenFoldSet
<1>2. h = Def(h)
  BY DEF SumsUp
<1> HIDE DEF Def
<1>3. sum = Def(sum)
  BY <1>2
<1> QED
  BY <1>1, <1>3 DEF Def, SumsUp

\* On a finite set it is a fold.
LEMMA SumFolds ==
  ASSUME NEW S, IsFiniteSet(S), NEW f, \A x \in S : f[x] \in Int
  PROVE  \E ch : /\ IsChoice(ch, S)
                 /\ \A T \in SUBSET S :
                      /\ SumFunctionOnSet(f, T) \in Int
                      /\ T # {} => SumFunctionOnSet(f, T) =
                                     f[ch[T]] + SumFunctionOnSet(f, T \ {ch[T]})
                 /\ SumFunctionOnSet(f, {}) = 0
<1> DEFINE ch == [T \in SUBSET S |-> CHOOSE x \in T : TRUE]
           F == [x \in S |-> [v \in Int |-> f[x] + v]]
<1>1. \A T \in SUBSET S : T # {} => ch[T] \in T /\ ch[T] \in S /\ T \ {ch[T]} \in SUBSET S
  OBVIOUS
<1>2. IsChoice(ch, S)
  BY <1>1 DEF IsChoice
<1>3. F \in [S -> [Int -> Int]]
  OBVIOUS
<1>4. PICK g \in [SUBSET S -> Int] : Follows(g, F, 0, ch, S)
  <2> DEFINE V == Int
  <2>1. 0 \in V /\ F \in [S -> [V -> V]]
    BY <1>3
  <2> HIDE DEF ch, F, V
  <2>2. \E g \in [SUBSET S -> V] : Follows(g, F, 0, ch, S)
    BY <1>2, <2>1, FoldExists
  <2> QED
    BY <2>2 DEF V
<1>5. \A T \in SUBSET S : T # {} => g[T] = f[ch[T]] + g[T \ {ch[T]}]
  <2>1. SUFFICES ASSUME NEW T \in SUBSET S, T # {} PROVE g[T] = f[ch[T]] + g[T \ {ch[T]}]
    OBVIOUS
  <2>2. g[T] = F[ch[T]][g[T \ {ch[T]}]]
    BY <1>4, <2>1 DEF Follows
  <2>3. ch[T] \in S /\ T \ {ch[T]} \in SUBSET S
    BY <1>1, <2>1
  <2> HIDE DEF ch
  <2>4. g[T \ {ch[T]}] \in Int
    BY <1>4, <2>3
  <2> QED
    BY <2>2, <2>3, <2>4
<1>6. g[{}] = 0
  BY <1>4 DEF Follows
<1>7. ASSUME NEW R \in SUBSET S PROVE SumFunctionOnSet(f, R) = g[R]
  <2> DEFINE h == [T \in SUBSET R |-> g[T]]
  <2>1. SumsUp(h, f, R)
    <3>1. ASSUME NEW T \in SUBSET R, T # {}
          PROVE  h[T] = f[CHOOSE x \in T : TRUE] + h[T \ {CHOOSE x \in T : TRUE}]
      <4>1. T \in SUBSET S /\ ch[T] = CHOOSE x \in T : TRUE
        OBVIOUS
      <4>2. g[T] = f[ch[T]] + g[T \ {ch[T]}]
        BY <1>5, <3>1, <4>1
      <4>3. T \ {ch[T]} \in SUBSET R
        OBVIOUS
      <4> HIDE DEF ch
      <4> QED
        BY <4>1, <4>2, <4>3
    <3>2. h[{}] = 0
      BY <1>6
    <3>3. h = [T \in SUBSET R |-> h[T]]
      OBVIOUS
    <3> HIDE DEF h
    <3> QED
      BY <3>1, <3>2, <3>3 DEF SumsUp
  <2>2. PICK sum : SumsUp(sum, f, R) /\ SumFunctionOnSet(f, R) = sum[R]
    BY <2>1, SumIsOne
  <2>3. sum[{}] = 0 /\ \A T \in SUBSET R :
          T # {} => sum[T] = f[ch[T]] + sum[T \ {ch[T]}]
    <3>1. sum[{}] = 0
      BY <2>2 DEF SumsUp
    <3>2. ASSUME NEW T \in SUBSET R, T # {} PROVE sum[T] = f[ch[T]] + sum[T \ {ch[T]}]
      <4>1. ch[T] = CHOOSE x \in T : TRUE
        OBVIOUS
      <4> DEFINE c == CHOOSE x \in T : TRUE
      <4>2. sum[T] = f[c] + sum[T \ {c}]
        BY <2>2, <3>2 DEF SumsUp
      <4> HIDE DEF c
      <4>3. ch[T] = c
        BY <4>1 DEF c
      <4> HIDE DEF ch
      <4> QED
        BY <4>2, <4>3
    <3> QED
      BY <3>1, <3>2
  <2>4. IsFiniteSet(R) /\ IsChoice(ch, R)
    BY FS_Subset DEF IsChoice
  <2>5. ASSUME NEW T \in SUBSET R, T # {}, sum[T \ {ch[T]}] = g[T \ {ch[T]}]
        PROVE  sum[T] = g[T]
    <3>1. T \in SUBSET S
      OBVIOUS
    <3> HIDE DEF ch
    <3> QED
      BY <1>5, <2>3, <2>5, <3>1
  <2> HIDE DEF ch
  <2>6. sum[{}] = g[{}]
    BY <1>6, <2>3
  <2>7. \A T \in SUBSET R : T # {} /\ sum[T \ {ch[T]}] = g[T \ {ch[T]}] => sum[T] = g[T]
    BY <2>5
  <2>8. sum[R] = g[R]
    BY <2>4, <2>6, <2>7, FoldsAgree
  <2> QED
    BY <2>2, <2>8
<1>8. \A T \in SUBSET S : SumFunctionOnSet(f, T) = g[T] /\ g[T] \in Int
  BY <1>4, <1>7
<1>9. \A T \in SUBSET S : T # {} => SumFunctionOnSet(f, T) =
                                     f[ch[T]] + SumFunctionOnSet(f, T \ {ch[T]})
  <2> HIDE DEF ch
  <2> QED
    BY <1>1, <1>5, <1>8
<1> HIDE DEF ch
<1> QED
  BY <1>2, <1>6, <1>8, <1>9

LEMMA SumEmpty ==
  ASSUME NEW f
  PROVE  SumFunctionOnSet(f, {}) = 0
<1>1. \A x \in {} : f[x] \in Int
  OBVIOUS
<1> QED
  BY <1>1, SumFolds, FS_EmptySet

LEMMA SumType ==
  ASSUME NEW S, IsFiniteSet(S), NEW f, \A x \in S : f[x] \in Int
  PROVE  SumFunctionOnSet(f, S) \in Int
BY SumFolds

\* Any element can be taken out first.
LEMMA SumElement ==
  ASSUME NEW S, IsFiniteSet(S), NEW f, \A x \in S : f[x] \in Int, NEW e \in S
  PROVE  SumFunctionOnSet(f, S) = f[e] + SumFunctionOnSet(f, S \ {e})
<1> DEFINE Sum(T) == SumFunctionOnSet(f, T)
           Q == {n \in Nat : \A T \in SUBSET S : Cardinality(T) = n =>
                               \A x \in T : Sum(T) = f[x] + Sum(T \ {x})}
<1>1. \A T \in SUBSET S : IsFiniteSet(T) /\ Cardinality(T) \in Nat
  BY FS_Subset, FS_CardinalityType
<1>2. 0 \in Q
  BY <1>1, FS_EmptySet
<1>3. PICK ch : /\ IsChoice(ch, S)
                /\ \A T \in SUBSET S : /\ Sum(T) \in Int
                                       /\ T # {} => Sum(T) = f[ch[T]] + Sum(T \ {ch[T]})
  <2>1. PICK ch : /\ IsChoice(ch, S)
                  /\ \A T \in SUBSET S :
                       /\ SumFunctionOnSet(f, T) \in Int
                       /\ T # {} => SumFunctionOnSet(f, T) =
                                      f[ch[T]] + SumFunctionOnSet(f, T \ {ch[T]})
                  /\ SumFunctionOnSet(f, {}) = 0
    BY SumFolds, Zenon
  <2> QED
    BY <2>1
<1> HIDE DEF Sum
<1>4. ASSUME NEW n \in Nat, n \in Q PROVE n + 1 \in Q
  <2>1. SUFFICES ASSUME NEW T \in SUBSET S, Cardinality(T) = n + 1, NEW x \in T
                 PROVE  Sum(T) = f[x] + Sum(T \ {x})
    OBVIOUS
  <2> DEFINE c == ch[T]
  <2>2. c \in T /\ Sum(T) = f[c] + Sum(T \ {c})
    BY <1>3, <2>1 DEF IsChoice
  <2> HIDE DEF c
  <2>3. CASE x = c
    BY <2>2, <2>3
  <2>4. CASE x # c
    <3>1. Cardinality(T \ {c}) = n /\ Cardinality(T \ {x}) = n
      BY <1>1, <2>1, <2>2, OneFewer
    <3>2. Sum(T \ {c}) = f[x] + Sum((T \ {c}) \ {x})
      BY <1>4, <2>4, <3>1
    <3>3. Sum(T \ {x}) = f[c] + Sum((T \ {x}) \ {c})
      BY <1>4, <2>2, <2>4, <3>1
    <3>4. (T \ {x}) \ {c} = (T \ {c}) \ {x} /\ (T \ {c}) \ {x} \in SUBSET S
      OBVIOUS
    <3>5. f[x] \in Int /\ f[c] \in Int /\ Sum((T \ {c}) \ {x}) \in Int
      BY <1>3, <2>2, <3>4
    <3>6. Sum((T \ {x}) \ {c}) = Sum((T \ {c}) \ {x})
      BY <3>4
    <3> QED
      BY ONLY <2>2, <3>2, <3>3, <3>5, <3>6
  <2> QED
    BY <2>3, <2>4
<1> HIDE DEF Q
<1>5. \A n \in Nat : n \in Q
  BY <1>2, <1>4, SuccessorsReachAll
<1> QED
  BY <1>1, <1>5 DEF Q, Sum

-----------------------------------------------------------------------------
(* What follows by taking elements out *)

LEMMA SumSingle ==
  ASSUME NEW f, NEW x, f[x] \in Int
  PROVE  SumFunctionOnSet(f, {x}) = f[x]
<1>1. IsFiniteSet({x}) /\ {x} \ {x} = {} /\ x \in {x} /\ \A y \in {x} : f[y] \in Int
  BY FS_Singleton
<1>2. SumFunctionOnSet(f, {x}) = f[x] + SumFunctionOnSet(f, {x} \ {x})
  BY <1>1, SumElement
<1>3. SumFunctionOnSet(f, {x} \ {x}) = 0
  BY <1>1, SumEmpty
<1> QED
  BY <1>2, <1>3

LEMMA SumAdd ==
  ASSUME NEW S, IsFiniteSet(S), NEW f, \A y \in S : f[y] \in Int,
         NEW T \in SUBSET S, NEW x \in S, x \notin T
  PROVE  /\ SumFunctionOnSet(f, T \cup {x}) = f[x] + SumFunctionOnSet(f, T)
         /\ SumFunctionOnSet(f, T) \in Int
<1>1. IsFiniteSet(T) /\ IsFiniteSet(T \cup {x})
  BY FS_Subset, FS_AddElement
<1>2. x \in T \cup {x} /\ \A y \in T \cup {x} : f[y] \in Int
  OBVIOUS
<1>3. SumFunctionOnSet(f, T \cup {x}) = f[x] + SumFunctionOnSet(f, (T \cup {x}) \ {x})
  BY <1>1, <1>2, SumElement
<1>4. (T \cup {x}) \ {x} = T
  OBVIOUS
<1>5. SumFunctionOnSet(f, T) \in Int
  BY <1>1, <1>2, SumType
<1> QED
  BY <1>3, <1>4, <1>5

\* Two functions that agree on a set have one sum over it.
LEMMA SumSame ==
  ASSUME NEW S, IsFiniteSet(S), NEW f, NEW h, \A y \in S : f[y] \in Int /\ h[y] = f[y]
  PROVE  SumFunctionOnSet(h, S) = SumFunctionOnSet(f, S)
<1> DEFINE P == {T \in SUBSET S : SumFunctionOnSet(h, T) = SumFunctionOnSet(f, T)}
<1>1. {} \in P
  BY SumEmpty
<1>2. ASSUME NEW T \in SUBSET S, NEW x \in S, T \in P, x \notin T PROVE T \cup {x} \in P
  <2>1. SumFunctionOnSet(f, T \cup {x}) = f[x] + SumFunctionOnSet(f, T)
    BY <1>2, SumAdd
  <2>2. SumFunctionOnSet(h, T \cup {x}) = h[x] + SumFunctionOnSet(h, T)
    BY <1>2, SumAdd
  <2>3. SumFunctionOnSet(h, T) = SumFunctionOnSet(f, T) /\ h[x] = f[x]
    BY <1>2
  <2> QED
    BY <2>1, <2>2, <2>3
<1> HIDE DEF P
<1>3. S \in P
  BY <1>1, <1>2, AddingReachesAll
<1> QED
  BY <1>3 DEF P

\* A sum of naturals is one, and at least that over fewer.
LEMMA SumNat ==
  ASSUME NEW S, IsFiniteSet(S), NEW f, \A y \in S : f[y] \in Nat
  PROVE  SumFunctionOnSet(f, S) \in Nat
<1> DEFINE P == {T \in SUBSET S : SumFunctionOnSet(f, T) \in Nat}
<1>1. {} \in P
  BY SumEmpty
<1>2. ASSUME NEW T \in SUBSET S, NEW x \in S, T \in P, x \notin T PROVE T \cup {x} \in P
  <2>1. SumFunctionOnSet(f, T \cup {x}) = f[x] + SumFunctionOnSet(f, T)
    BY <1>2, SumAdd
  <2>2. SumFunctionOnSet(f, T) \in Nat /\ f[x] \in Nat
    BY <1>2
  <2> QED
    BY <2>1, <2>2
<1> HIDE DEF P
<1>3. S \in P
  BY <1>1, <1>2, AddingReachesAll
<1> QED
  BY <1>3 DEF P

LEMMA SumDisjoint ==
  ASSUME NEW A, NEW B, IsFiniteSet(A), IsFiniteSet(B), A \cap B = {},
         NEW f, \A y \in A \cup B : f[y] \in Int
  PROVE  /\ SumFunctionOnSet(f, A \cup B) = SumFunctionOnSet(f, A) + SumFunctionOnSet(f, B)
         /\ SumFunctionOnSet(f, A) \in Int /\ SumFunctionOnSet(f, B) \in Int
<1> DEFINE Sum(T) == SumFunctionOnSet(f, T)
           P == {T \in SUBSET B : Sum(A \cup T) = Sum(A) + Sum(T)}
<1>1. IsFiniteSet(A \cup B)
  BY FS_Union
<1>2. Sum(A) \in Int /\ Sum(B) \in Int
  BY SumType
<1>3. {} \in P
  <2>1. A \cup {} = A
    OBVIOUS
  <2>2. Sum({}) = 0
    BY SumEmpty
  <2> HIDE DEF Sum
  <2> QED
    BY <1>2, <2>1, <2>2
<1>4. ASSUME NEW T \in SUBSET B, NEW x \in B, T \in P, x \notin T PROVE T \cup {x} \in P
  <2>1. A \cup T \in SUBSET (A \cup B) /\ x \in A \cup B /\ x \notin A \cup T
    BY <1>4
  <2>2. Sum((A \cup T) \cup {x}) = f[x] + Sum(A \cup T) /\ Sum(A \cup T) \in Int
    BY <1>1, <2>1, SumAdd
  <2>3. Sum(T \cup {x}) = f[x] + Sum(T) /\ Sum(T) \in Int
    BY <1>4, SumAdd
  <2>4. Sum(A \cup T) = Sum(A) + Sum(T) /\ f[x] \in Int
    BY <1>4
  <2>5. (A \cup T) \cup {x} = A \cup (T \cup {x}) /\ T \cup {x} \in SUBSET B
    OBVIOUS
  <2> HIDE DEF Sum
  <2>6. Sum(A \cup (T \cup {x})) = Sum((A \cup T) \cup {x})
    BY <2>5
  <2>7. Sum(A \cup (T \cup {x})) = Sum(A) + Sum(T \cup {x})
    BY ONLY <1>2, <2>2, <2>3, <2>4, <2>6
  <2> QED
    BY <2>5, <2>7
<1> HIDE DEF P
<1>5. B \in P
  BY <1>3, <1>4, AddingReachesAll
<1> QED
  BY <1>2, <1>5 DEF P

LEMMA SumMonotone ==
  ASSUME NEW S, IsFiniteSet(S), NEW f, \A y \in S : f[y] \in Nat, NEW R \in SUBSET S
  PROVE  SumFunctionOnSet(f, R) <= SumFunctionOnSet(f, S)
<1>1. IsFiniteSet(R) /\ IsFiniteSet(S \ R) /\ R \cap (S \ R) = {} /\ R \cup (S \ R) = S
  BY FS_Subset
<1>2. /\ SumFunctionOnSet(f, R \cup (S \ R)) =
           SumFunctionOnSet(f, R) + SumFunctionOnSet(f, S \ R)
      /\ SumFunctionOnSet(f, R) \in Int
  BY <1>1, SumDisjoint
<1>3. SumFunctionOnSet(f, S \ R) \in Nat
  BY <1>1, SumNat
<1>4. SumFunctionOnSet(f, S) = SumFunctionOnSet(f, R \cup (S \ R))
  BY <1>1
<1> QED
  BY ONLY <1>2, <1>3, <1>4

\* Only what is not zero counts.
LEMMA SumZero ==
  ASSUME NEW S, IsFiniteSet(S), NEW f, \A y \in S : f[y] = 0
  PROVE  SumFunctionOnSet(f, S) = 0
<1> DEFINE P == {T \in SUBSET S : SumFunctionOnSet(f, T) = 0}
<1>1. {} \in P
  BY SumEmpty
<1>2. ASSUME NEW T \in SUBSET S, NEW x \in S, T \in P, x \notin T PROVE T \cup {x} \in P
  <2>1. SumFunctionOnSet(f, T \cup {x}) = f[x] + SumFunctionOnSet(f, T)
    BY <1>2, SumAdd
  <2>2. SumFunctionOnSet(f, T) = 0 /\ f[x] = 0
    BY <1>2
  <2> QED
    BY <2>1, <2>2
<1> HIDE DEF P
<1>3. S \in P
  BY <1>1, <1>2, AddingReachesAll
<1> QED
  BY <1>3 DEF P

LEMMA SumOneNonzero ==
  ASSUME NEW S, IsFiniteSet(S), NEW f, NEW x \in S, f[x] \in Int,
         \A y \in S \ {x} : f[y] = 0
  PROVE  SumFunctionOnSet(f, S) = f[x]
<1>1. \A y \in S : f[y] \in Int
  OBVIOUS
<1>2. SumFunctionOnSet(f, S) = f[x] + SumFunctionOnSet(f, S \ {x})
  BY <1>1, SumElement
<1>3. SumFunctionOnSet(f, S \ {x}) = 0
  BY FS_Subset, SumZero
<1> QED
  BY <1>2, <1>3

\* Adding at one place adds to every sum that has the place.
LEMMA SumBumped ==
  ASSUME NEW S, IsFiniteSet(S), NEW f, \A y \in S : f[y] \in Int,
         NEW h, NEW x, NEW d \in Int,
         \A y \in S : h[y] = IF y = x THEN f[y] + d ELSE f[y]
  PROVE  SumFunctionOnSet(h, S) = SumFunctionOnSet(f, S) + (IF x \in S THEN d ELSE 0)
<1>1. SumFunctionOnSet(f, S) \in Int
  BY SumType
<1>2. CASE x \notin S
  BY <1>1, <1>2, SumSame
<1>3. CASE x \in S
  <2>1. SumFunctionOnSet(f, S) = f[x] + SumFunctionOnSet(f, S \ {x})
    BY <1>3, SumElement
  <2>2. \A y \in S : h[y] \in Int
    OBVIOUS
  <2>3. SumFunctionOnSet(h, S) = h[x] + SumFunctionOnSet(h, S \ {x})
    BY <1>3, <2>2, SumElement
  <2>4. IsFiniteSet(S \ {x}) /\ \A y \in S \ {x} : f[y] \in Int /\ h[y] = f[y]
    BY FS_Subset
  <2>5. SumFunctionOnSet(h, S \ {x}) = SumFunctionOnSet(f, S \ {x})
    BY <2>4, SumSame
  <2>6. SumFunctionOnSet(f, S \ {x}) \in Int
    BY <2>4, SumType
  <2>7. h[x] = f[x] + d /\ f[x] \in Int
    BY <1>3
  <2> QED
    BY <1>3, <2>1, <2>3, <2>5, <2>6, <2>7
<1> QED
  BY <1>2, <1>3

-----------------------------------------------------------------------------
(* Functions defined by recursion on a number *)

Ascends(g, F, base, n) == g[0] = base /\ \A k \in 1 .. n : g[k] = F[k][g[k - 1]]
Descends(g, F, base, n) == g[n + 1] = base /\ \A k \in 1 .. n : g[k] = F[k][g[k + 1]]

LEMMA UpwardExists ==
  ASSUME NEW n \in Nat, NEW V, NEW base \in V, NEW F \in [1 .. n -> [V -> V]]
  PROVE  \E g \in [0 .. n -> V] : Ascends(g, F, base, n)
<1> DEFINE P == {m \in 0 .. n : \E g \in [0 .. n -> V] : Ascends(g, F, base, m)}
<1>1. 0 \in P
  <2> DEFINE g == [k \in 0 .. n |-> base]
  <2>1. g \in [0 .. n -> V] /\ Ascends(g, F, base, 0)
    BY DEF Ascends
  <2> HIDE DEF g
  <2> QED
    BY <2>1
<1>2. ASSUME NEW m \in 0 .. n - 1, m \in P PROVE m + 1 \in P
  <2>1. PICK g \in [0 .. n -> V] : Ascends(g, F, base, m)
    BY <1>2
  <2> DEFINE v == F[m + 1][g[m]]
             h == [k \in 0 .. n |-> IF k = m + 1 THEN v ELSE g[k]]
  <2>2. v \in V
    <3>1. m + 1 \in 1 .. n /\ m \in 0 .. n
      OBVIOUS
    <3> QED
      BY <3>1
  <2>3. h \in [0 .. n -> V]
    BY <2>2
  <2>4. \A k \in 0 .. m : h[k] = g[k]
    OBVIOUS
  <2>5. h[m + 1] = v
    OBVIOUS
  <2> HIDE DEF h
  <2>6. h[0] = base
    BY <2>1, <2>4 DEF Ascends
  <2>7. ASSUME NEW k \in 1 .. m + 1 PROVE h[k] = F[k][h[k - 1]]
    <3>1. CASE k = m + 1
      <4>1. k - 1 = m /\ h[m] = g[m]
        BY <2>4, <3>1
      <4> QED
        BY <2>5, <3>1, <4>1
    <3>2. CASE k # m + 1
      <4>1. k \in 1 .. m /\ k \in 0 .. m /\ k - 1 \in 0 .. m
        BY <3>2
      <4>2. h[k] = g[k] /\ h[k - 1] = g[k - 1] /\ g[k] = F[k][g[k - 1]]
        BY <2>1, <2>4, <4>1 DEF Ascends
      <4> QED
        BY <4>2
    <3> QED
      BY <3>1, <3>2
  <2>8. Ascends(h, F, base, m + 1)
    BY <2>6, <2>7 DEF Ascends
  <2> QED
    BY <2>3, <2>8
<1> HIDE DEF P
<1>3. \A m \in 0 .. n : m \in P
  <2>1. 0 \in Int /\ n \in Int
    OBVIOUS
  <2> QED
    BY ONLY <1>1, <1>2, <2>1, ClimbingReaches
<1>4. n \in P
  BY <1>3
<1> QED
  BY <1>4 DEF P

LEMMA DownwardExists ==
  ASSUME NEW n \in Nat, NEW V, NEW base \in V, NEW F \in [1 .. n -> [V -> V]]
  PROVE  \E g \in [1 .. n + 1 -> V] : Descends(g, F, base, n)
<1> DEFINE G == [k \in 1 .. n |-> F[n + 1 - k]]
<1>1. G \in [1 .. n -> [V -> V]]
  OBVIOUS
<1>2. PICK h \in [0 .. n -> V] : Ascends(h, G, base, n)
  <2> HIDE DEF G
  <2> QED
    BY <1>1, UpwardExists
<1> DEFINE g == [k \in 1 .. n + 1 |-> h[n + 1 - k]]
<1>3. g \in [1 .. n + 1 -> V] /\ g[n + 1] = base
  BY <1>2 DEF Ascends
<1>4. ASSUME NEW k \in 1 .. n PROVE g[k] = F[k][g[k + 1]]
  <2> DEFINE j == n + 1 - k
  <2>1. j \in 1 .. n /\ n + 1 - j = k /\ j - 1 = n + 1 - (k + 1)
    OBVIOUS
  <2>2. g[k] = h[j] /\ g[k + 1] = h[j - 1] /\ G[j] = F[k]
    BY <2>1
  <2> HIDE DEF g, j, G
  <2> QED
    BY <1>2, <2>1, <2>2 DEF Ascends
<1> HIDE DEF g
<1> QED
  BY <1>3, <1>4 DEF Descends

-----------------------------------------------------------------------------
(* Sums over an interval *)

LEMMA SumUpTo ==
  ASSUME NEW n \in Nat, NEW f, \A i \in 1 .. n + 1 : f[i] \in Int
  PROVE  /\ SumFunctionOnSet(f, 1 .. n + 1) = f[n + 1] + SumFunctionOnSet(f, 1 .. n)
         /\ SumFunctionOnSet(f, 1 .. n) \in Int
<1> DEFINE S == 1 .. n + 1
           R == 1 .. n
           x == n + 1
<1>1. IsFiniteSet(S) /\ IsFiniteSet(R)
  BY FS_Interval
<1>2. x \in S /\ S \ {x} = R /\ \A i \in S : f[i] \in Int
  OBVIOUS
<1>3. \A i \in R : f[i] \in Int
  BY <1>2
<1> HIDE DEF S, R, x
<1>4. SumFunctionOnSet(f, S) = f[x] + SumFunctionOnSet(f, S \ {x})
  BY <1>1, <1>2, SumElement
<1>5. SumFunctionOnSet(f, R) \in Int
  BY <1>1, <1>3, SumType
<1>6. SumFunctionOnSet(f, S) = f[x] + SumFunctionOnSet(f, R)
  BY <1>2, <1>4
<1> QED
  BY <1>5, <1>6 DEF S, R, x

\* The first term apart, and the rest shifted and scaled.
LEMMA SumShifted ==
  ASSUME NEW n \in Nat, NEW c \in Int, NEW f, NEW h,
         \A i \in 1 .. n + 1 : f[i] \in Int, \A i \in 1 .. n : h[i] \in Int,
         \A i \in 1 .. n : f[i + 1] = c * h[i]
  PROVE  SumFunctionOnSet(f, 1 .. n + 1) = f[1] + c * SumFunctionOnSet(h, 1 .. n)
<1> DEFINE P == {m \in 0 .. n : SumFunctionOnSet(f, 1 .. m + 1) =
                                  f[1] + c * SumFunctionOnSet(h, 1 .. m)}
<1>1. 0 \in P
  <2>1. 1 .. 0 + 1 = {1} /\ 1 .. 0 = {} /\ f[1] \in Int
    OBVIOUS
  <2>2. SumFunctionOnSet(f, {1}) = f[1] /\ SumFunctionOnSet(h, {}) = 0
    BY <2>1, SumSingle, SumEmpty
  <2>3. f[1] = f[1] + c * 0
    BY <2>1
  <2>4. SumFunctionOnSet(f, 1 .. 0 + 1) = f[1] + c * SumFunctionOnSet(h, 1 .. 0)
    BY ONLY <2>1, <2>2, <2>3
  <2> QED
    BY <2>4
<1>2. ASSUME NEW m \in 0 .. n - 1, m \in P PROVE m + 1 \in P
  <2> DEFINE sf(j) == SumFunctionOnSet(f, 1 .. j)
             sh(j) == SumFunctionOnSet(h, 1 .. j)
  <2>1. m + 1 \in 1 .. n /\ m + 2 \in 1 .. n + 1 /\ m \in Nat /\ m + 1 \in Nat
    OBVIOUS
  <2>2. (\A i \in 1 .. m + 2 : f[i] \in Int) /\ (\A i \in 1 .. m + 1 : h[i] \in Int)
    BY <2>1
  <2>3. sf(m + 2) = f[m + 2] + sf(m + 1) /\ sf(m + 1) \in Int
    <3>1. (m + 1) + 1 = m + 2
      OBVIOUS
    <3>2. \A i \in 1 .. (m + 1) + 1 : f[i] \in Int
      BY <2>2, <3>1
    <3>3. sf((m + 1) + 1) = f[(m + 1) + 1] + sf(m + 1) /\ sf(m + 1) \in Int
      BY <2>1, <3>2, SumUpTo
    <3> HIDE DEF sf
    <3> QED
      BY <3>1, <3>3
  <2>4. sh(m + 1) = h[m + 1] + sh(m) /\ sh(m) \in Int
    BY <2>1, <2>2, SumUpTo
  <2>5. f[m + 2] = c * h[m + 1] /\ h[m + 1] \in Int /\ f[1] \in Int
    <3>1. (m + 1) + 1 = m + 2
      OBVIOUS
    <3> QED
      BY <2>1, <3>1
  <2>6. sf(m + 1) = f[1] + c * sh(m)
    BY <1>2
  <2> HIDE DEF sf, sh
  <2>7. sf(m + 2) = f[1] + c * sh(m + 1)
    <3> DEFINE a == h[m + 1]
               b == sh(m)
    <3>1. a \in Int /\ b \in Int /\ sf(m + 2) = c * a + (f[1] + c * b) /\ sh(m + 1) = a + b
      BY <2>3, <2>4, <2>5, <2>6
    <3> HIDE DEF a, b
    <3>2. c * (a + b) = c * a + c * b /\ c * a \in Int /\ c * b \in Int
      BY <3>1
    <3> QED
      BY <2>5, <3>1, <3>2
  <2>8. (m + 1) + 1 = m + 2 /\ m + 1 \in 0 .. n
    OBVIOUS
  <2> QED
    BY <2>7, <2>8 DEF sf, sh
<1> HIDE DEF P
<1>3. \A m \in 0 .. n : m \in P
  <2>1. 0 \in Int /\ n \in Int
    OBVIOUS
  <2> QED
    BY ONLY <1>1, <1>2, <2>1, ClimbingReaches
<1>4. n \in P
  BY <1>3
<1> QED
  BY <1>4 DEF P
=============================================================================
