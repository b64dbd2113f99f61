---------------------------- MODULE SumTheorems -----------------------------
(***************************************************************************)
(* Lemmas about Sum, the fold of the community modules that adds up the     *)
(* values of a function over a finite set.  The induction over finite sets  *)
(* they need is stated with a set of sets, SetInduction, where the library's *)
(* has an operator.                                                         *)
(***************************************************************************)
EXTENDS Sums, FiniteSetTheorems, WellFoundedInduction, TLAPS

\* A set of subsets of S that has the empty set, and with a set every larger one by an
\* element, has all the subsets of a finite S.
LEMMA SetInduction ==
    ASSUME NEW S, IsFiniteSet(S), NEW B \in SUBSET (SUBSET S), {} \in B,
           \A T \in B : \A x \in S \ T : T \cup {x} \in B
    PROVE  B = SUBSET S
<1> SUFFICES ASSUME (SUBSET S) \ B # {}
             PROVE  FALSE
  OBVIOUS
<1> DEFINE bad == (SUBSET S) \ B
<1>1. IsWellFoundedOn(StrictSubsetOrdering(S), SUBSET S)
  BY FS_StrictSubsetOrderingWellFounded, FS_FiniteSubsetsOfFinite
<1>2. PICK T \in bad : \A U \in bad : <<U, T>> \notin StrictSubsetOrdering(S)
  <2> HIDE DEF bad
  <2>1. bad \subseteq SUBSET S /\ bad # {}
    BY DEF bad
  <2> QED
    BY <1>1, <2>1, WFMin
<1>3. PICK x \in T : TRUE
  BY <1>2
<1>4. T \ {x} \in B
  <2>1. <<T \ {x}, T>> \in StrictSubsetOrdering(S)
    BY <1>2, <1>3 DEF StrictSubsetOrdering
  <2> QED
    BY <1>2, <2>1
<1>5. (T \ {x}) \cup {x} = T /\ x \in S \ (T \ {x})
  BY <1>3
<1> QED
  BY <1>2, <1>4, <1>5

-----------------------------------------------------------------------------
(* g is the sum of f over every subset of S.                               *)
Additive(f, S, g) ==
    /\ g \in [SUBSET S -> Int]
    /\ g[{}] = 0
    /\ \A T \in SUBSET S : \A x \in T : g[T] = f[x] + g[T \ {x}]

\* the function the fold defines
Folded(f, S, g) ==
    g = [T \in SUBSET S |->
            IF T = {} THEN 0 ELSE LET x == CHOOSE x \in T : TRUE IN f[x] + g[T \ {x}]]

\* Sum is the value on the whole set of some function like that.
LEMMA SumUnfold ==
    ASSUME NEW f, NEW S
    PROVE  Sum(f, S) = (CHOOSE g : Folded(f, S, g))[S]
  BY DEF Sum, MapThenSumSet, MapThenFoldSet, Folded

\* There is such a function: an element more adds its value to the sets it is in.
LEMMA AdditiveExists ==
    ASSUME NEW S, IsFiniteSet(S), NEW f, \A x \in S : f[x] \in Int
    PROVE  \E g : Additive(f, S, g)
<1> DEFINE B == {T \in SUBSET S : \E g : Additive(f, T, g)}
<1>1. {} \in B
  <2>1. Additive(f, {}, [T \in SUBSET {} |-> 0])
    BY DEF Additive
  <2> QED
    BY <2>1
<1>2. ASSUME NEW T \in B, NEW a \in S \ T
      PROVE  T \cup {a} \in B
  <2>1. PICK g : Additive(f, T, g)
    OBVIOUS
  <2> DEFINE h == [U \in SUBSET (T \cup {a}) |-> IF a \in U THEN f[a] + g[U \ {a}] ELSE g[U]]
  <2>2. h \in [SUBSET (T \cup {a}) -> Int]
    <3>1. ASSUME NEW U \in SUBSET (T \cup {a})
          PROVE  U \ {a} \in SUBSET T /\ (a \notin U => U \in SUBSET T)
      OBVIOUS
    <3>2. \A U \in SUBSET T : g[U] \in Int
      BY <2>1 DEF Additive
    <3>3. f[a] \in Int
      BY <1>2
    <3> QED
      BY <3>1, <3>2, <3>3
  <2>3. h[{}] = 0
    BY <2>1 DEF Additive
  <2>4. ASSUME NEW U \in SUBSET (T \cup {a}), NEW x \in U
        PROVE  h[U] = f[x] + h[U \ {x}]
    <3>1. CASE x = a
      <4>1. U \ {a} \in SUBSET (T \cup {a}) /\ a \notin U \ {a}
        OBVIOUS
      <4> QED
        BY <3>1, <4>1
    <3>2. CASE x # a /\ a \in U
      <4>1. /\ U \ {a} \in SUBSET T /\ x \in U \ {a}
            /\ U \ {x} \in SUBSET (T \cup {a}) /\ a \in U \ {x}
            /\ (U \ {x}) \ {a} = (U \ {a}) \ {x} /\ (U \ {a}) \ {x} \in SUBSET T
        BY <3>2
      <4>2. g[U \ {a}] = f[x] + g[(U \ {a}) \ {x}] /\ g[(U \ {a}) \ {x}] \in Int
        BY <2>1, <4>1 DEF Additive
      <4>3. h[U] = f[a] + g[U \ {a}] /\ h[U \ {x}] = f[a] + g[(U \ {a}) \ {x}]
        BY <3>2, <4>1
      <4>4. f[a] \in Int /\ f[x] \in Int
        BY <4>1, <1>2
      <4> QED
        BY <4>2, <4>3, <4>4
    <3>3. CASE x # a /\ a \notin U
      <4>1. U \in SUBSET T /\ U \ {x} \in SUBSET (T \cup {a}) /\ a \notin U \ {x}
        BY <3>3
      <4>2. g[U] = f[x] + g[U \ {x}]
        BY <2>1, <4>1 DEF Additive
      <4> QED
        BY <3>3, <4>1, <4>2
    <3> QED
      BY <3>1, <3>2, <3>3
  <2>5. Additive(f, T \cup {a}, h)
    <3> HIDE DEF h
    <3> QED
      BY <2>2, <2>3, <2>4 DEF Additive
  <2> QED
    BY <2>5
<1>3. B = SUBSET S
  <2> HIDE DEF B
  <2>1. B \in SUBSET (SUBSET S)
    BY DEF B
  <2> QED
    BY <1>1, <1>2, <2>1, SetInduction
<1> QED
  BY <1>3

\* It satisfies the recursion of the fold, whichever element the fold takes first.
LEMMA AdditiveIsFolded ==
    ASSUME NEW S, NEW f, NEW g, Additive(f, S, g)
    PROVE  Folded(f, S, g)
<1> DEFINE body == [T \in SUBSET S |->
            IF T = {} THEN 0 ELSE LET x == CHOOSE x \in T : TRUE IN f[x] + g[T \ {x}]]
<1>1. ASSUME NEW T \in SUBSET S
      PROVE  g[T] = body[T]
  <2>1. CASE T = {}
    BY <2>1 DEF Additive
  <2>2. CASE T # {}
    <3> DEFINE x == CHOOSE x \in T : TRUE
    <3>1. x \in T
      BY <2>2
    <3>2. g[T] = f[x] + g[T \ {x}]
      BY <3>1 DEF Additive
    <3>3. body[T] = f[x] + g[T \ {x}]
      BY <2>2
    <3> QED
      BY <3>2, <3>3
  <2> QED
    BY <2>1, <2>2
<1>2. g = body
  BY <1>1 DEF Additive
<1> QED
  BY <1>2 DEF Folded

\* The fold is additive, on every subset and not only for its own order.
LEMMA FoldedIsAdditive ==
    ASSUME NEW S, IsFiniteSet(S), NEW f, NEW g, NEW h, Additive(f, S, g), Folded(f, S, h)
    PROVE  \A T \in SUBSET S : h[T] = g[T]
<1> DEFINE B == {T \in SUBSET S : h[T] = g[T]}
<1>0. h = [T \in SUBSET S |->
            IF T = {} THEN 0 ELSE LET x == CHOOSE x \in T : TRUE IN f[x] + h[T \ {x}]]
  BY DEF Folded
<1>1. SUFFICES ASSUME (SUBSET S) \ B # {}
               PROVE  FALSE
  OBVIOUS
<1> DEFINE bad == (SUBSET S) \ B
<1>2. IsWellFoundedOn(StrictSubsetOrdering(S), SUBSET S)
  BY FS_StrictSubsetOrderingWellFounded, FS_FiniteSubsetsOfFinite
<1>3. PICK T \in bad : \A U \in bad : <<U, T>> \notin StrictSubsetOrdering(S)
  <2>0. bad # {}
    BY <1>1
  <2> HIDE DEF bad
  <2>1. bad \subseteq SUBSET S
    BY DEF bad
  <2> QED
    BY <1>2, <2>0, <2>1, WFMin
<1>4. T \in SUBSET S /\ h[T] # g[T]
  BY <1>3
<1>5. T # {}
  <2>1. h[{}] = 0
    BY <1>0
  <2> QED
    BY <1>4, <2>1 DEF Additive
<1> DEFINE x == CHOOSE x \in T : TRUE
<1>6. x \in T
  BY <1>5
<1>7. h[T] = f[x] + h[T \ {x}]
  BY <1>0, <1>4, <1>5
<1>8. g[T] = f[x] + g[T \ {x}]
  BY <1>4, <1>6 DEF Additive
<1> HIDE DEF x
<1>9. T \ {x} \in B
  <2>1. <<T \ {x}, T>> \in StrictSubsetOrdering(S)
    BY <1>4, <1>6 DEF StrictSubsetOrdering
  <2>2. T \ {x} \in SUBSET S
    BY <1>4
  <2> QED
    BY <1>3, <2>1, <2>2
<1> QED
  BY <1>4, <1>7, <1>8, <1>9

\* Sum is the value of the additive function.
LEMMA SumAdditive ==
    ASSUME NEW S, IsFiniteSet(S), NEW f, NEW g, Additive(f, S, g)
    PROVE  Sum(f, S) = g[S]
<1>1. Folded(f, S, CHOOSE h : Folded(f, S, h))
  BY AdditiveIsFolded
<1> QED
  BY <1>1, FoldedIsAdditive, SumUnfold

\* An additive function is one on every subset.
LEMMA AdditiveBelow ==
    ASSUME NEW S, NEW f, NEW g, Additive(f, S, g), NEW T \in SUBSET S
    PROVE  Additive(f, T, [U \in SUBSET T |-> g[U]])
  BY DEF Additive

-----------------------------------------------------------------------------
(* What the sums of a finite set obey.                                     *)

\* Nothing adds up to zero.
LEMMA SumEmpty == \A f : Sum(f, {}) = 0
<1> TAKE f
<1>1. Additive(f, {}, [T \in SUBSET {} |-> 0])
  BY DEF Additive
<1>2. IsFiniteSet({})
  BY FS_EmptySet
<1> QED
  BY <1>1, <1>2, SumAdditive

\* One element can be taken out of a sum.
LEMMA SumRemove ==
    ASSUME NEW S, IsFiniteSet(S), NEW f, \A x \in S : f[x] \in Int, NEW a \in S
    PROVE  /\ Sum(f, S) = f[a] + Sum(f, S \ {a})
           /\ Sum(f, S) \in Int /\ Sum(f, S \ {a}) \in Int
<1>1. PICK g : Additive(f, S, g)
  BY AdditiveExists
<1>2. Sum(f, S) = g[S]
  BY <1>1, SumAdditive
<1>3. Sum(f, S \ {a}) = g[S \ {a}]
  <2> DEFINE T == S \ {a}
             h == [U \in SUBSET T |-> g[U]]
  <2>1. T \in SUBSET S
    OBVIOUS
  <2>2. IsFiniteSet(T)
    BY FS_RemoveElement
  <2>3. Additive(f, T, h)
    <3> HIDE DEF T
    <3> QED
      BY <1>1, <2>1, AdditiveBelow
  <2>4. h[T] = g[T]
    OBVIOUS
  <2>5. Sum(f, T) = h[T]
    <3> HIDE DEF T, h
    <3> QED
      BY <2>2, <2>3, SumAdditive
  <2> QED
    BY <2>4, <2>5
<1> QED
  BY <1>1, <1>2, <1>3 DEF Additive

\* A sum of integers is one.
LEMMA SumInt ==
    ASSUME NEW S, IsFiniteSet(S), NEW f, \A x \in S : f[x] \in Int
    PROVE  Sum(f, S) \in Int
<1>1. CASE S = {}
  BY <1>1, SumEmpty
<1>2. CASE S # {}
  <2>1. PICK a \in S : TRUE
    BY <1>2
  <2> QED
    BY <2>1, SumRemove
<1> QED
  BY <1>1, <1>2

\* One element can be added to a sum.
LEMMA SumAdd ==
    ASSUME NEW S, IsFiniteSet(S), NEW f, \A x \in S : f[x] \in Int,
           NEW a, a \notin S, f[a] \in Int
    PROVE  Sum(f, S \cup {a}) = Sum(f, S) + f[a]
<1> DEFINE T == S \cup {a}
<1>1. IsFiniteSet(T) /\ a \in T /\ T \ {a} = S /\ \A x \in T : f[x] \in Int
  BY FS_AddElement
<1>2. Sum(f, T) = f[a] + Sum(f, T \ {a})
  <2> HIDE DEF T
  <2> QED
    BY <1>1, SumRemove
<1>3. Sum(f, S) \in Int
  BY SumInt
<1>4. Sum(f, T \ {a}) = Sum(f, S)
  <2> HIDE DEF T
  <2> QED
    BY <1>1
<1> QED
  BY <1>2, <1>3, <1>4

\* The sum over one element is its value.
LEMMA SumOne ==
    ASSUME NEW f, NEW a, f[a] \in Int
    PROVE  Sum(f, {a}) = f[a]
<1>1. IsFiniteSet({}) /\ a \notin {} /\ \A x \in {} : f[x] \in Int
  BY FS_EmptySet
<1>2. Sum(f, {} \cup {a}) = Sum(f, {}) + f[a]
  BY <1>1, SumAdd
<1>3. Sum(f, {}) = 0
  BY SumEmpty
<1>4. {} \cup {a} = {a}
  OBVIOUS
<1> QED BY <1>2, <1>3, <1>4

\* Only the values on the set count.
LEMMA SumSame ==
    ASSUME NEW S, IsFiniteSet(S), NEW f, NEW g, \A x \in S : f[x] \in Int /\ g[x] = f[x]
    PROVE  Sum(g, S) = Sum(f, S)
<1> DEFINE B == {T \in SUBSET S : Sum(g, T) = Sum(f, T)}
<1>1. {} \in B
  BY SumEmpty
<1>2. ASSUME NEW T \in B, NEW a \in S \ T
      PROVE  T \cup {a} \in B
  <2>1. IsFiniteSet(T)
    BY FS_Subset
  <2>2. Sum(f, T \cup {a}) = Sum(f, T) + f[a] /\ Sum(g, T \cup {a}) = Sum(g, T) + g[a]
    BY <2>1, SumAdd
  <2> QED
    BY <2>2
<1>3. B = SUBSET S
  <2> HIDE DEF B
  <2>1. B \in SUBSET (SUBSET S)
    BY DEF B
  <2> QED
    BY <1>1, <1>2, <2>1, SetInduction
<1> QED
  BY <1>3

\* One value changes.
LEMMA SumChange ==
    ASSUME NEW S, IsFiniteSet(S), NEW f, NEW g, NEW a \in S,
           \A x \in S : f[x] \in Int /\ g[x] \in Int,
           \A x \in S \ {a} : g[x] = f[x]
    PROVE  Sum(g, S) = Sum(f, S) + g[a] - f[a]
<1>1. IsFiniteSet(S \ {a})
  BY FS_RemoveElement
<1>2. Sum(g, S \ {a}) = Sum(f, S \ {a})
  BY <1>1, SumSame
<1>3. Sum(f, S) = f[a] + Sum(f, S \ {a}) /\ Sum(f, S \ {a}) \in Int
  BY SumRemove
<1>4. Sum(g, S) = g[a] + Sum(g, S \ {a})
  BY SumRemove
<1> QED
  BY <1>2, <1>3, <1>4

\* Zeros add up to zero.
LEMMA SumZero ==
    ASSUME NEW S, IsFiniteSet(S), NEW f, \A x \in S : f[x] = 0
    PROVE  Sum(f, S) = 0
<1> DEFINE B == {T \in SUBSET S : Sum(f, T) = 0}
<1>1. {} \in B
  BY SumEmpty
<1>2. ASSUME NEW T \in B, NEW a \in S \ T
      PROVE  T \cup {a} \in B
  <2>1. IsFiniteSet(T)
    BY FS_Subset
  <2>2. Sum(f, T \cup {a}) = Sum(f, T) + f[a]
    BY <2>1, SumAdd
  <2> QED
    BY <2>2
<1>3. B = SUBSET S
  <2> HIDE DEF B
  <2>1. B \in SUBSET (SUBSET S)
    BY DEF B
  <2> QED
    BY <1>1, <1>2, <2>1, SetInduction
<1> QED
  BY <1>3

\* Larger values have a larger sum.
LEMMA SumMonotone ==
    ASSUME NEW S, IsFiniteSet(S), NEW f, NEW g,
           \A x \in S : f[x] \in Int /\ g[x] \in Int /\ f[x] <= g[x]
    PROVE  Sum(f, S) <= Sum(g, S)
<1> DEFINE B == {T \in SUBSET S : Sum(f, T) <= Sum(g, T)}
<1>1. {} \in B
  BY SumEmpty
<1>2. ASSUME NEW T \in B, NEW a \in S \ T
      PROVE  T \cup {a} \in B
  <2>1. IsFiniteSet(T)
    BY FS_Subset
  <2>2. Sum(f, T \cup {a}) = Sum(f, T) + f[a] /\ Sum(g, T \cup {a}) = Sum(g, T) + g[a]
    BY <2>1, SumAdd
  <2>3. Sum(f, T) \in Int /\ Sum(g, T) \in Int
    BY <2>1, SumInt
  <2> QED
    BY <2>2, <2>3
<1>3. B = SUBSET S
  <2> HIDE DEF B
  <2>1. B \in SUBSET (SUBSET S)
    BY DEF B
  <2> QED
    BY <1>1, <1>2, <2>1, SetInduction
<1> QED
  BY <1>3

\* A sum of naturals is one, and no less than any of them.
LEMMA SumNat ==
    ASSUME NEW S, IsFiniteSet(S), NEW f, \A x \in S : f[x] \in Nat
    PROVE  Sum(f, S) \in Nat /\ \A a \in S : f[a] <= Sum(f, S)
<1>1. ASSUME NEW T \in SUBSET S
      PROVE  Sum(f, T) \in Nat
  <2> DEFINE zero == [x \in T |-> 0]
  <2>1. IsFiniteSet(T)
    BY FS_Subset
  <2>2. Sum(zero, T) = 0
    BY <2>1, SumZero
  <2>3. Sum(zero, T) <= Sum(f, T)
    BY <2>1, SumMonotone
  <2>4. Sum(f, T) \in Int
    BY <2>1, SumInt
  <2> QED
    BY <2>2, <2>3, <2>4
<1>2. ASSUME NEW a \in S
      PROVE  f[a] <= Sum(f, S)
  <2>1. S \ {a} \in SUBSET S
    OBVIOUS
  <2>2. Sum(f, S \ {a}) \in Nat
    BY <1>1, <2>1
  <2> QED
    BY <2>2, SumRemove
<1> QED
  BY <1>1, <1>2

\* The sum of a sum is the sum of the sums.
LEMMA SumPlus ==
    ASSUME NEW S, IsFiniteSet(S), NEW f, NEW g, NEW h,
           \A x \in S : f[x] \in Int /\ g[x] \in Int /\ h[x] = f[x] + g[x]
    PROVE  Sum(h, S) = Sum(f, S) + Sum(g, S)
<1> DEFINE B == {T \in SUBSET S : Sum(h, T) = Sum(f, T) + Sum(g, T)}
<1>1. {} \in B
  BY SumEmpty
<1>2. ASSUME NEW T \in B, NEW a \in S \ T
      PROVE  T \cup {a} \in B
  <2>1. IsFiniteSet(T)
    BY FS_Subset
  <2>2. /\ Sum(f, T \cup {a}) = Sum(f, T) + f[a] /\ Sum(g, T \cup {a}) = Sum(g, T) + g[a]
        /\ Sum(h, T \cup {a}) = Sum(h, T) + h[a]
    BY <2>1, SumAdd
  <2>3. Sum(f, T) \in Int /\ Sum(g, T) \in Int
    BY <2>1, SumInt
  <2> QED
    BY <2>2, <2>3
<1>3. B = SUBSET S
  <2> HIDE DEF B
  <2>1. B \in SUBSET (SUBSET S)
    BY DEF B
  <2> QED
    BY <1>1, <1>2, <2>1, SetInduction
<1> QED
  BY <1>3

\* A common factor can be taken out.
LEMMA SumScale ==
    ASSUME NEW S, IsFiniteSet(S), NEW f, NEW g, NEW c \in Int,
           \A x \in S : f[x] \in Int /\ g[x] = c * f[x]
    PROVE  Sum(g, S) = c * Sum(f, S)
<1> DEFINE B == {T \in SUBSET S : Sum(g, T) = c * Sum(f, T)}
<1>1. {} \in B
  BY SumEmpty
<1>2. ASSUME NEW T \in B, NEW a \in S \ T
      PROVE  T \cup {a} \in B
  <2>1. IsFiniteSet(T)
    BY FS_Subset
  <2>2. /\ \A x \in T : f[x] \in Int /\ g[x] \in Int
        /\ f[a] \in Int /\ g[a] \in Int /\ g[a] = c * f[a]
    OBVIOUS
  <2>3. Sum(f, T \cup {a}) = Sum(f, T) + f[a] /\ Sum(g, T \cup {a}) = Sum(g, T) + g[a]
    BY <2>1, <2>2, SumAdd
  <2>4. Sum(f, T) \in Int /\ Sum(g, T) = c * Sum(f, T)
    BY <2>1, <2>2, SumInt
  <2>5. c * (Sum(f, T) + f[a]) = c * Sum(f, T) + c * f[a]
    BY <2>2, <2>4
  <2>6. Sum(g, T \cup {a}) = c * Sum(f, T \cup {a})
    BY <2>2, <2>3, <2>4, <2>5
  <2> QED
    BY <2>6
<1>3. B = SUBSET S
  <2> HIDE DEF B
  <2>1. B \in SUBSET (SUBSET S)
    BY DEF B
  <2> QED
    BY <1>1, <1>2, <2>1, SetInduction
<1> QED
  BY <1>3

\* A part and the rest add up to the whole.
LEMMA SumSplit ==
    ASSUME NEW S, IsFiniteSet(S), NEW f, \A x \in S : f[x] \in Int, NEW T \in SUBSET S
    PROVE  Sum(f, S) = Sum(f, T) + Sum(f, S \ T)
<1> DEFINE B == {U \in SUBSET S : Sum(f, S) = Sum(f, U) + Sum(f, S \ U)}
<1>1. {} \in B
  <2>1. S \ {} = S /\ Sum(f, S) \in Int /\ Sum(f, {}) = 0
    BY SumInt, SumEmpty
  <2> QED BY <2>1
<1>2. ASSUME NEW U \in B, NEW a \in S \ U
      PROVE  U \cup {a} \in B
  <2>1. IsFiniteSet(U) /\ IsFiniteSet(S \ U) /\ U \subseteq S
    BY FS_Subset
  <2>2. Sum(f, S) = Sum(f, U) + Sum(f, S \ U)
    OBVIOUS
  <2> HIDE DEF B
  <2>3. Sum(f, U) \in Int /\ Sum(f, U \cup {a}) = Sum(f, U) + f[a]
    <3>1. \A x \in U : f[x] \in Int
      BY <2>1
    <3> QED BY <2>1, <3>1, SumInt, SumAdd
  <2>4. /\ Sum(f, S \ U) = f[a] + Sum(f, (S \ U) \ {a})
        /\ Sum(f, (S \ U) \ {a}) \in Int
    <3> DEFINE V == S \ U
    <3>1. /\ IsFiniteSet(V) /\ a \in V /\ \A x \in V : f[x] \in Int
      BY <2>1
    <3> HIDE DEF V
    <3>2. Sum(f, V) = f[a] + Sum(f, V \ {a}) /\ Sum(f, V \ {a}) \in Int
      BY <3>1, SumRemove
    <3> QED BY <3>2 DEF V
  <2>5. (S \ U) \ {a} = S \ (U \cup {a}) /\ U \cup {a} \in SUBSET S /\ f[a] \in Int
    BY <2>1
  <2>6. Sum(f, (S \ U) \ {a}) = Sum(f, S \ (U \cup {a}))
    BY <2>5
  <2>7. Sum(f, S) = Sum(f, U \cup {a}) + Sum(f, (S \ U) \ {a})
    BY <2>2, <2>3, <2>4, <2>5
  <2> QED BY <2>5, <2>6, <2>7 DEF B
<1> HIDE DEF B
<1>3. B = SUBSET S
  <2>1. B \in SUBSET (SUBSET S)
    BY DEF B
  <2> QED BY <1>1, <1>2, <2>1, SetInduction
<1> QED BY <1>3 DEF B

\* The triples over finite sets are finitely many.
LEMMA TriplesFinite ==
    ASSUME NEW A, NEW B, NEW C, IsFiniteSet(A), IsFiniteSet(B), IsFiniteSet(C)
    PROVE  IsFiniteSet(A \X B \X C)
<1> DEFINE pairs == (A \X B) \X C
           f == [x \in pairs |-> <<x[1][1], x[1][2], x[2]>>]
<1>1. IsFiniteSet(A \X B)
  BY FS_Product
<1>2. IsFiniteSet(pairs)
  BY <1>1, FS_Product
<1>3. f \in [pairs -> A \X B \X C]
  OBVIOUS
<1>4. ASSUME NEW a \in A, NEW b \in B, NEW c \in C
      PROVE  \E x \in pairs : f[x] = <<a, b, c>>
  <2>1. <<<<a, b>>, c>> \in pairs /\ f[<<<<a, b>>, c>>] = <<a, b, c>>
    OBVIOUS
  <2> QED BY <2>1
<1> HIDE DEF f, pairs
<1>5. f \in Surjection(pairs, A \X B \X C)
  BY <1>3, <1>4 DEF Surjection
<1> QED BY <1>2, <1>5, FS_Surjection
=============================================================================
