----------------------------- MODULE Inductions ------------------------------
(***************************************************************************)
(* What the proofs of the components need of induction, by way of a least  *)
(* counterexample: there is a least set among finitely many elements and a *)
(* least number; a function defined by recursion up to a number is what    *)
(* its definition says; and sums over finite sets do not depend on the     *)
(* order in which they are taken.                                          *)
(***************************************************************************)
EXTENDS Integers, Sequences, FiniteSets, Functions, FiniteSetTheorems, WellFoundedInduction, TLAPS

-------------------------------------------------------------------------------
\* Numbers.

LEMMA LeastNumber ==
  ASSUME NEW T \in SUBSET Nat, T # {}
  PROVE  \E m \in T : \A k \in T : m <= k
<1> DEFINE R == OpToRel(<, Nat)
<1>1. IsWellFoundedOn(R, Nat)
  BY NatLessThanWellFounded
<1>2. \A x, y \in Nat : x < y => <<x, y>> \in R
  BY DEF OpToRel
<1> HIDE DEF R
<1>3. PICK m \in T : \A k \in T : ~ (<<k, m>> \in R)
  BY <1>1, WFMin
<1>4. \A k \in T : ~ (k < m)
  BY <1>2, <1>3
<1> QED
  BY <1>4

\* A set of numbers up to n that holds 0 and with each number the next holds
\* them all.
LEMMA AllUpTo ==
  ASSUME NEW n \in Nat, NEW T, 0 \in T, \A i \in 1 .. n : i - 1 \in T => i \in T
  PROVE  0 .. n \subseteq T
<1> DEFINE B == (0 .. n) \ T
<1> SUFFICES ASSUME B # {} PROVE FALSE
  OBVIOUS
<1>1. PICK m \in B : \A k \in B : m <= k
  <2>1. B \in SUBSET Nat
    OBVIOUS
  <2> HIDE DEF B
  <2> QED
    BY <2>1, LeastNumber
<1>2. m \in 1 .. n /\ m - 1 \in 0 .. n /\ m - 1 \notin B
  BY <1>1
<1> QED
  BY <1>1, <1>2

\* What is built from b by the steps G, one for each number up to n.
Built(g, b, G, n) ==
    g = [i \in 0 .. n |-> IF i = 0 THEN b ELSE G[<<g[i - 1], i>>]]

LEMMA BuiltExists ==
  ASSUME NEW n \in Nat, NEW X, NEW b \in X, NEW G \in [X \X (1 .. n) -> X]
  PROVE  \E g \in [0 .. n -> X] : Built(g, b, G, n)
<1> DEFINE T == {m \in 0 .. n : \E g \in [0 .. m -> X] : Built(g, b, G, m)}
<1>1. 0 \in T
  <2> DEFINE g == [i \in 0 .. 0 |-> b]
  <2>1. g \in [0 .. 0 -> X] /\ Built(g, b, G, 0)
    BY DEF Built
  <2> QED
    BY <2>1
<1>2. ASSUME NEW m \in 1 .. n, m - 1 \in T
      PROVE  m \in T
  <2>1. PICK h \in [0 .. m - 1 -> X] : Built(h, b, G, m - 1)
    BY <1>2
  <2>2. /\ \A i \in 0 .. m - 1 : h[i] = IF i = 0 THEN b ELSE G[<<h[i - 1], i>>]
    BY <2>1 DEF Built
  <2>3. PICK g : g = [i \in 0 .. m |-> IF i = m THEN G[<<h[m - 1], m>>] ELSE h[i]]
    OBVIOUS
  <2>4. G[<<h[m - 1], m>>] \in X
    <3>1. h[m - 1] \in X
      OBVIOUS
    <3> QED
      BY <3>1
  <2>5. g \in [0 .. m -> X]
    BY <2>3, <2>4
  <2>6. \A i \in 0 .. m : g[i] = IF i = 0 THEN b ELSE G[<<g[i - 1], i>>]
    <3> SUFFICES ASSUME NEW i \in 0 .. m
                 PROVE  g[i] = IF i = 0 THEN b ELSE G[<<g[i - 1], i>>]
      OBVIOUS
    <3>1. CASE i = m
      <4>1. g[i] = G[<<h[m - 1], m>>] /\ g[m - 1] = h[m - 1]
        BY <2>3, <3>1
      <4> QED
        BY <3>1, <4>1
    <3>2. CASE i # m /\ i # 0
      <4>1. i \in 0 .. m - 1 /\ i - 1 \in 0 .. m /\ i - 1 # m
        BY <3>2
      <4>2. g[i] = h[i] /\ g[i - 1] = h[i - 1]
        BY <2>3, <3>2, <4>1
      <4> QED
        BY <2>2, <3>2, <4>1, <4>2
    <3>3. CASE i # m /\ i = 0
      <4>1. g[i] = h[i] /\ i \in 0 .. m - 1
        BY <2>3, <3>3
      <4> QED
        BY <2>2, <3>3, <4>1
    <3> QED
      BY <3>1, <3>2, <3>3
  <2>7. Built(g, b, G, m)
    BY <2>5, <2>6 DEF Built
  <2> QED
    BY <2>5, <2>7
<1>3. n \in T
  <2> HIDE DEF T
  <2> QED
    BY <1>1, <1>2, AllUpTo
<1> QED
  BY <1>3

-------------------------------------------------------------------------------
\* Sets.

\* Among sets of subsets of a finite set there is a least one: induction.
LEMMA LeastSet ==
  ASSUME NEW S, IsFiniteSet(S), NEW B \in SUBSET SUBSET S, B # {}
  PROVE  \E T \in B : \A U \in B : U \subseteq T => U = T
<1> DEFINE R == StrictSubsetOrdering(S)
<1>1. IsWellFoundedOn(R, SUBSET S)
  BY FS_StrictSubsetOrderingWellFounded, FS_FiniteSubsetsOfFinite
<1>2. \A T, U \in SUBSET S : U \subseteq T /\ U # T => <<U, T>> \in R
  BY DEF StrictSubsetOrdering
<1> HIDE DEF R
<1>3. PICK T \in B : \A U \in B : ~ (<<U, T>> \in R)
  BY <1>1, WFMin
<1> QED
  BY <1>2, <1>3

-------------------------------------------------------------------------------
\* Sums.

\* What the sum over the subsets of T is made of: a function on them that adds
\* one element after the other.
Foremost(s) == CHOOSE x \in s : TRUE
Summed(g, w, T) ==
    g = [s \in SUBSET T |-> IF s = {} THEN 0 ELSE w[Foremost(s)] + g[s \ {Foremost(s)}]]

LEMMA SumIsSummed ==
  ASSUME NEW w, NEW S
  PROVE  SumFunctionOnSet(w, S) = (CHOOSE g : Summed(g, w, S))[S]
  BY DEF SumFunctionOnSet, FoldFunctionOnSet, MapThenFoldSet, Summed, Foremost

LEMMA Picked == ASSUME NEW s, s # {} PROVE Foremost(s) \in s
  BY DEF Foremost

\* Two of them agree where both are defined ...
LEMMA SummedAgree ==
  ASSUME NEW S, IsFiniteSet(S), NEW T \in SUBSET S, NEW w,
         NEW g, Summed(g, w, S), NEW h, Summed(h, w, T)
  PROVE  \A s \in SUBSET T : h[s] = g[s]
<1> DEFINE B == {s \in SUBSET T : h[s] # g[s]}
<1> SUFFICES ASSUME B # {} PROVE FALSE
  OBVIOUS
<1>1. PICK U \in B : \A V \in B : V \subseteq U => V = U
  <2>1. B \in SUBSET SUBSET S
    OBVIOUS
  <2> HIDE DEF B
  <2> QED
    BY <2>1, LeastSet
<1>2. /\ g[U] = IF U = {} THEN 0 ELSE w[Foremost(U)] + g[U \ {Foremost(U)}]
      /\ h[U] = IF U = {} THEN 0 ELSE w[Foremost(U)] + h[U \ {Foremost(U)}]
  BY DEF Summed
<1>3. U # {}
  BY <1>2
<1>4. U \ {Foremost(U)} \in SUBSET T /\ U \ {Foremost(U)} \subseteq U /\ U \ {Foremost(U)} # U
  BY <1>3, Picked
<1>5. U \ {Foremost(U)} \notin B
  BY <1>1, <1>4
<1>6. h[U \ {Foremost(U)}] = g[U \ {Foremost(U)}]
  BY <1>4, <1>5
<1> QED
  BY <1>2, <1>3, <1>6

\* ... and there is one.
LEMMA SummedExists ==
  ASSUME NEW S, IsFiniteSet(S), NEW w
  PROVE  \E g : Summed(g, w, S)
<1> DEFINE B == {T \in SUBSET S : ~ \E g : Summed(g, w, T)}
<1> SUFFICES ASSUME B # {} PROVE FALSE
  OBVIOUS
<1>1. PICK T \in B : \A U \in B : U \subseteq T => U = T
  <2>1. B \in SUBSET SUBSET S
    OBVIOUS
  <2> HIDE DEF B
  <2> QED
    BY <2>1, LeastSet
<1> DEFINE G(U) == CHOOSE g : Summed(g, w, U)
           rest(s) == s \ {Foremost(s)}
           g == [s \in SUBSET T |-> IF s = {} THEN 0 ELSE w[Foremost(s)] + G(rest(s))[rest(s)]]
<1>2. ASSUME NEW U \in SUBSET T, U # T
      PROVE  Summed(G(U), w, U)
  <2>1. \E k : Summed(k, w, U)
    BY <1>1, <1>2
  <2> QED
    BY <2>1
<1>3. ASSUME NEW s \in SUBSET T, s # {}
      PROVE  rest(s) \in SUBSET T /\ rest(s) # T /\ rest(s) \in SUBSET s /\ rest(s) # s
  BY <1>3, Picked
<1> HIDE DEF G, rest
<1>4. ASSUME NEW s \in SUBSET T, s # {}
      PROVE  g[rest(s)] = G(rest(s))[rest(s)]
  <2> DEFINE U == rest(s)
  <2>1. U \in SUBSET T /\ U # T
    BY <1>3, <1>4
  <2>2. Summed(G(U), w, U)
    BY <1>2, <2>1
  <2> HIDE DEF U
  <2>3. G(U)[U] = IF U = {} THEN 0 ELSE w[Foremost(U)] + G(U)[rest(U)]
    BY <2>2 DEF Summed, rest
  <2>4. CASE U = {}
    BY <2>1, <2>3, <2>4 DEF U
  <2>5. CASE U # {}
    <3>1. rest(U) \in SUBSET T /\ rest(U) # T /\ rest(U) \in SUBSET U
      BY <1>3, <2>1, <2>5
    <3>2. Summed(G(rest(U)), w, rest(U))
      BY <1>2, <3>1
    <3>3. IsFiniteSet(U)
      BY <2>1, FS_Subset
    <3>4. G(rest(U))[rest(U)] = G(U)[rest(U)]
      BY <2>2, <3>1, <3>2, <3>3, SummedAgree
    <3> QED
      BY <2>1, <2>3, <2>5, <3>4 DEF U
  <2> QED
    BY <2>4, <2>5
<1>5. Summed(g, w, T)
  <2>1. \A s \in SUBSET T : g[s] = IF s = {} THEN 0 ELSE w[Foremost(s)] + g[s \ {Foremost(s)}]
    <3> SUFFICES ASSUME NEW s \in SUBSET T
                 PROVE  g[s] = IF s = {} THEN 0 ELSE w[Foremost(s)] + g[s \ {Foremost(s)}]
      OBVIOUS
    <3>1. s # {} => g[rest(s)] = G(rest(s))[rest(s)]
      BY <1>4
    <3> QED
      BY <3>1 DEF rest
  <2>2. g = [s \in SUBSET T |-> g[s]]
    OBVIOUS
  <2> HIDE DEF g
  <2> QED
    BY <2>1, <2>2 DEF Summed
<1> QED
  BY <1>1, <1>5

\* The sum over a set, element by element.
LEMMA SumOfSome ==
  ASSUME NEW S, IsFiniteSet(S), NEW w, NEW T \in SUBSET S
  PROVE  SumFunctionOnSet(w, T) = IF T = {} THEN 0
                                  ELSE w[Foremost(T)] + SumFunctionOnSet(w, T \ {Foremost(T)})
<1> DEFINE G(U) == CHOOSE g : Summed(g, w, U)
           U == T \ {Foremost(T)}
<1>1. IsFiniteSet(T) /\ IsFiniteSet(U)
  BY FS_Subset
<1>2. Summed(G(T), w, T) /\ Summed(G(U), w, U)
  <2>1. (\E g : Summed(g, w, T)) /\ (\E g : Summed(g, w, U))
    BY <1>1, SummedExists
  <2> QED
    BY <2>1
<1>3. SumFunctionOnSet(w, T) = G(T)[T] /\ SumFunctionOnSet(w, U) = G(U)[U]
  BY SumIsSummed
<1> HIDE DEF G
<1>4. G(U)[U] = G(T)[U]
  <2>1. U \in SUBSET T
    OBVIOUS
  <2> HIDE DEF U
  <2> QED
    BY <1>1, <1>2, <2>1, SummedAgree
<1>5. G(T)[T] = IF T = {} THEN 0 ELSE w[Foremost(T)] + G(T)[U]
  BY <1>2 DEF Summed
<1> QED
  BY <1>3, <1>4, <1>5

\* Which element comes first does not matter.
LEMMA SumOfPart ==
  ASSUME NEW S, IsFiniteSet(S), NEW w, \A x \in S : w[x] \in Int
  PROVE  \A T \in SUBSET S :
            /\ SumFunctionOnSet(w, T) \in Int
            /\ \A y \in T : SumFunctionOnSet(w, T)
                               = w[y] + SumFunctionOnSet(w, T \ {y})
<1> DEFINE Sum(T) == SumFunctionOnSet(w, T)
           Right(T) == Sum(T) \in Int /\ \A y \in T : Sum(T) = w[y] + Sum(T \ {y})
           B == {T \in SUBSET S : ~ Right(T)}
<1>1. \A T \in SUBSET S : Sum(T) = IF T = {} THEN 0 ELSE w[Foremost(T)] + Sum(T \ {Foremost(T)})
  BY SumOfSome
<1> HIDE DEF Sum
<1> SUFFICES ASSUME B # {} PROVE FALSE
  BY DEF Sum
<1>2. PICK T \in B : \A U \in B : U \subseteq T => U = T
  <2>1. B \in SUBSET SUBSET S
    OBVIOUS
  <2> HIDE DEF B
  <2> QED
    BY <2>1, LeastSet
<1>3. \A U \in SUBSET T : U # T => Right(U)
  BY <1>2
<1> HIDE DEF B
<1>4. T \in SUBSET S /\ ~ Right(T)
  BY <1>2 DEF B
<1>5. CASE T = {}
  <2>1. Sum(T) = 0
    BY <1>1, <1>4, <1>5
  <2>2. \A y \in T : Sum(T) = w[y] + Sum(T \ {y})
    BY <1>5
  <2> QED
    BY <1>4, <2>1, <2>2
<1>6. CASE T # {}
  <2> DEFINE p == Foremost(T)
  <2>1. p \in T /\ w[p] \in Int
    BY <1>4, <1>6, Picked
  <2>2. Sum(T) = w[p] + Sum(T \ {p})
    BY <1>1, <1>4, <1>6
  <2> HIDE DEF p
  <2>3. Right(T \ {p})
    BY <1>3, <2>1
  <2>4. Sum(T \ {p}) \in Int /\ Sum(T) \in Int
    BY <2>1, <2>2, <2>3
  <2>5. ASSUME NEW y \in T, y # p
        PROVE  Sum(T) = w[y] + Sum(T \ {y})
    <3>1. Right(T \ {y}) /\ w[y] \in Int
      BY <1>3, <1>4
    <3>2. (T \ {p}) \ {y} = (T \ {y}) \ {p}
      OBVIOUS
    <3> DEFINE V == (T \ {p}) \ {y}
    <3>3. Sum(T \ {p}) = w[y] + Sum(V)
      BY <2>3, <2>5
    <3>4. Sum(T \ {y}) = w[p] + Sum(V)
      BY <2>1, <2>5, <3>1, <3>2
    <3>5. Sum(V) \in Int
      <4>1. V \in SUBSET T /\ V # T
        BY <2>1
      <4> HIDE DEF V
      <4> QED
        BY <1>3, <4>1
    <3> HIDE DEF V
    <3> QED
      BY <2>1, <2>2, <3>1, <3>3, <3>4, <3>5
  <2> QED
    BY <1>4, <2>2, <2>4, <2>5
<1> QED
  BY <1>5, <1>6

\* Only the values in the set matter.
LEMMA SumOfSame ==
  ASSUME NEW S, IsFiniteSet(S), NEW w, NEW v, \A x \in S : w[x] = v[x]
  PROVE  SumFunctionOnSet(w, S) = SumFunctionOnSet(v, S)
<1> DEFINE B == {T \in SUBSET S : SumFunctionOnSet(w, T) # SumFunctionOnSet(v, T)}
<1> SUFFICES ASSUME B # {} PROVE FALSE
  OBVIOUS
<1>1. PICK T \in B : \A U \in B : U \subseteq T => U = T
  <2>1. B \in SUBSET SUBSET S
    OBVIOUS
  <2> HIDE DEF B
  <2> QED
    BY <2>1, LeastSet
<1>2. /\ SumFunctionOnSet(w, T) = IF T = {} THEN 0
                                  ELSE w[Foremost(T)] + SumFunctionOnSet(w, T \ {Foremost(T)})
      /\ SumFunctionOnSet(v, T) = IF T = {} THEN 0
                                  ELSE v[Foremost(T)] + SumFunctionOnSet(v, T \ {Foremost(T)})
  <2>1. T \in SUBSET S
    BY <1>1
  <2> HIDE DEF B
  <2> QED
    BY <2>1, SumOfSome
<1>3. T # {}
  BY <1>1, <1>2
<1>4. Foremost(T) \in T
  BY <1>3, Picked
<1>5. T \ {Foremost(T)} \notin B
  BY <1>1, <1>4
<1> QED
  BY <1>1, <1>2, <1>3, <1>4, <1>5

\* One value changes.
LEMMA SumOfChange ==
  ASSUME NEW S, IsFiniteSet(S), NEW w \in [S -> Int], NEW v \in [S -> Int], NEW y \in S,
         \A x \in S \ {y} : v[x] = w[x]
  PROVE  SumFunction(v) = SumFunction(w) + (v[y] - w[y])
<1>1. IsFiniteSet(S \ {y})
  BY FS_Subset
<1>2. SumFunctionOnSet(v, S \ {y}) = SumFunctionOnSet(w, S \ {y})
  BY <1>1, SumOfSame
<1>3. /\ SumFunctionOnSet(w, S) = w[y] + SumFunctionOnSet(w, S \ {y})
      /\ SumFunctionOnSet(w, S \ {y}) \in Int
  BY SumOfPart
<1>4. SumFunctionOnSet(v, S) = v[y] + SumFunctionOnSet(v, S \ {y})
  BY SumOfPart
<1>5. SumFunction(w) = SumFunctionOnSet(w, S) /\ SumFunction(v) = SumFunctionOnSet(v, S)
  BY DEF SumFunction
<1> QED
  BY <1>2, <1>3, <1>4, <1>5

LEMMA SumIsNumber ==
  ASSUME NEW S, IsFiniteSet(S), NEW w \in [S -> Int]
  PROVE  SumFunction(w) \in Int
  BY SumOfPart DEF SumFunction

\* All values are the same.
LEMMA SumOfEqual ==
  ASSUME NEW S, IsFiniteSet(S), NEW n \in Nat
  PROVE  SumFunction([x \in S |-> n]) = n * Cardinality(S)
<1> DEFINE w == [x \in S |-> n]
           B == {T \in SUBSET S : SumFunctionOnSet(w, T) # n * Cardinality(T)}
<1> SUFFICES ASSUME B # {} PROVE FALSE
  BY DEF SumFunction
<1>1. PICK T \in B : \A U \in B : U \subseteq T => U = T
  <2>1. B \in SUBSET SUBSET S
    OBVIOUS
  <2> HIDE DEF B
  <2> QED
    BY <2>1, LeastSet
<1>2. IsFiniteSet(T) /\ Cardinality({}) = 0
  BY <1>1, FS_Subset, FS_EmptySet
<1>3. SumFunctionOnSet(w, {}) = 0
  BY SumOfSome
<1>4. PICK y : y \in T
  BY <1>1, <1>2, <1>3
<1>5. /\ SumFunctionOnSet(w, T) = w[y] + SumFunctionOnSet(w, T \ {y})
      /\ w[y] = n
  BY <1>1, <1>4, SumOfPart
<1>6. SumFunctionOnSet(w, T \ {y}) = n * Cardinality(T \ {y})
  BY <1>1, <1>4
<1>7. Cardinality(T \ {y}) \in Nat /\ Cardinality(T) = Cardinality(T \ {y}) + 1
  BY <1>2, <1>4, FS_RemoveElement, FS_CardinalityType, FS_Subset
<1> HIDE DEF w
<1>8. n * (Cardinality(T \ {y}) + 1) = n * Cardinality(T \ {y}) + n
  <2> DEFINE k == Cardinality(T \ {y})
  <2> HIDE DEF k
  <2>1. k \in Nat
    BY <1>7 DEF k
  <2>2. n * (k + 1) = n * k + n
    BY <2>1
  <2> QED
    BY <2>2 DEF k
<1>9. n * Cardinality(T \ {y}) \in Nat
  BY <1>7
<1>10. SumFunctionOnSet(w, T) = n * Cardinality(T)
  BY <1>5, <1>6, <1>7, <1>8, <1>9
<1> QED
  BY <1>1, <1>10

\* There is one element more.
LEMMA SumOfMore ==
  ASSUME NEW S, IsFiniteSet(S), NEW w \in [S -> Int], NEW y, y \notin S,
         NEW v \in [S \cup {y} -> Int], \A x \in S : v[x] = w[x]
  PROVE  SumFunction(v) = SumFunction(w) + v[y]
<1> DEFINE T == S \cup {y}
<1>1. IsFiniteSet(T) /\ T \ {y} = S /\ T \in SUBSET T /\ y \in T
  BY FS_AddElement
<1>2. \A x \in T : v[x] \in Int
  OBVIOUS
<1>3. SumFunction(v) = SumFunctionOnSet(v, T) /\ SumFunction(w) = SumFunctionOnSet(w, S)
  BY DEF SumFunction
<1>4. SumFunctionOnSet(v, S) = SumFunctionOnSet(w, S)
  BY SumOfSame
<1>5. SumFunctionOnSet(w, S) \in Int
  BY SumOfPart
<1> HIDE DEF T
<1>6. SumFunctionOnSet(v, T) = v[y] + SumFunctionOnSet(v, T \ {y})
  BY <1>1, <1>2, SumOfPart
<1>7. SumFunctionOnSet(v, T) = v[y] + SumFunctionOnSet(w, S)
  BY <1>1, <1>4, <1>6
<1>8. v[y] \in Int
  BY <1>1, <1>2
<1> QED
  BY <1>3, <1>5, <1>7, <1>8

\* Among numbers that are not negative no one exceeds the sum.
LEMMA SumIsMost ==
  ASSUME NEW S, IsFiniteSet(S), NEW w, \A x \in S : w[x] \in Nat
  PROVE  /\ SumFunctionOnSet(w, S) \in Nat
         /\ \A y \in S : w[y] <= SumFunctionOnSet(w, S)
         /\ (\A y \in S : w[y] = 0) => SumFunctionOnSet(w, S) = 0
<1> DEFINE B == {T \in SUBSET S : SumFunctionOnSet(w, T) \notin Nat}
           Z == {T \in SUBSET S : (\A y \in T : w[y] = 0) /\ SumFunctionOnSet(w, T) # 0}
<1>1. \A T \in SUBSET S : \A y \in T :
         SumFunctionOnSet(w, T) = w[y] + SumFunctionOnSet(w, T \ {y})
  <2>1. \A x \in S : w[x] \in Int
    OBVIOUS
  <2>2. \A T \in SUBSET S :
            /\ SumFunctionOnSet(w, T) \in Int
            /\ \A y \in T : SumFunctionOnSet(w, T)
                               = w[y] + SumFunctionOnSet(w, T \ {y})
    BY <2>1, SumOfPart
  <2> QED
    BY <2>2
<1>2. SumFunctionOnSet(w, {}) = 0
  BY SumOfSome
<1>3. B = {}
  <2> SUFFICES ASSUME B # {} PROVE FALSE
    OBVIOUS
  <2>1. PICK T \in B : \A U \in B : U \subseteq T => U = T
    <3>1. B \in SUBSET SUBSET S
      OBVIOUS
    <3> HIDE DEF B
    <3> QED
      BY <3>1, LeastSet
  <2>2. PICK y : y \in T
    <3>1. T # {}
      <4>1. SumFunctionOnSet(w, T) \notin Nat
        BY <2>1
      <4>2. SUFFICES ASSUME T = {} PROVE SumFunctionOnSet(w, T) \in Nat
        BY <4>1
      <4>3. SumFunctionOnSet(w, T) = SumFunctionOnSet(w, {})
        BY <4>2
      <4> QED
        BY <1>2, <4>3
    <3> QED
      BY <3>1
  <2>3. T \ {y} \notin B
    BY <2>1, <2>2
  <2>4. SumFunctionOnSet(w, T \ {y}) \in Nat
    BY <2>1, <2>3
  <2> QED
    BY <1>1, <2>1, <2>2, <2>4
<1>4. Z = {}
  <2> SUFFICES ASSUME Z # {} PROVE FALSE
    OBVIOUS
  <2>1. PICK T \in Z : \A U \in Z : U \subseteq T => U = T
    <3>1. Z \in SUBSET SUBSET S
      OBVIOUS
    <3> HIDE DEF Z
    <3> QED
      BY <3>1, LeastSet
  <2>2. PICK y : y \in T
    BY <1>2, <2>1
  <2>3. T \ {y} \notin Z
    BY <2>1, <2>2
  <2>4. SumFunctionOnSet(w, T \ {y}) = 0
    BY <2>1, <2>3
  <2> QED
    BY <1>1, <2>1, <2>2, <2>4
<1>5. \A T \in SUBSET S : SumFunctionOnSet(w, T) \in Nat
  BY <1>3
<1>6. \A y \in S : w[y] <= SumFunctionOnSet(w, S)
  <2> SUFFICES ASSUME NEW y \in S PROVE w[y] <= SumFunctionOnSet(w, S)
    OBVIOUS
  <2>1. SumFunctionOnSet(w, S \ {y}) \in Nat /\ w[y] \in Nat
    BY <1>5
  <2>2. SumFunctionOnSet(w, S) = w[y] + SumFunctionOnSet(w, S \ {y})
    BY <1>1
  <2> QED
    BY <2>1, <2>2
<1> QED
  BY <1>4, <1>5, <1>6

=============================================================================
