---------------------------- MODULE MoneyTheorems ----------------------------
(***************************************************************************)
(* What amounts of money add up to: the facts about Sum of module Sums,    *)
(* for every finite set and every function with integer values on it,      *)
(* about the greatest of finitely many integers, and about what the        *)
(* exposure services answer, for every finite set of bets.                 *)
(***************************************************************************)
EXTENDS Exposure, FiniteSetTheorems, WellFoundedInduction, TLAPS

-----------------------------------------------------------------------------
(* Sums.  Induction over finite sets is taken from the well-foundedness of *)
(* the strict subset ordering: a set of counterexamples would have a       *)
(* minimal one.                                                            *)

Chosen(s) == CHOOSE x \in s : TRUE

\* What the recursive function inside Sum satisfies.
AddsUp(g, f, S) ==
  g = [s \in SUBSET S |-> IF s = {} THEN 0 ELSE f[Chosen(s)] + g[s \ {Chosen(s)}]]

Adder(f, S) == CHOOSE g : AddsUp(g, f, S)

LEMMA SumIsAdder == \A f, S : Sum(f, S) = Adder(f, S)[S]
BY DEF Sum, MapThenFoldSet, Adder, AddsUp, Chosen

\* Every set of finite sets has a minimal one.
LEMMA MinimalSet ==
  ASSUME NEW C, C # {}, \A T \in C : IsFiniteSet(T)
  PROVE  \E T \in C : \A U \in C : ~(U \subseteq T /\ U # T)
<1> DEFINE S == UNION C
<1>1. C \subseteq FiniteSubsetsOf(S)
  BY DEF FiniteSubsetsOf
<1>2. IsWellFoundedOn(StrictSubsetOrdering(S), FiniteSubsetsOf(S))
  BY FS_StrictSubsetOrderingWellFounded
<1>3. \E T \in C : \A U \in C : <<U, T>> \notin StrictSubsetOrdering(S)
  BY <1>1, <1>2, WFMin
<1>4. QED BY <1>3 DEF StrictSubsetOrdering

\* Induction over the subsets of a finite set: P holds those of which the
\* property is known.
LEMMA FiniteInduction ==
  ASSUME NEW T, IsFiniteSet(T), NEW P, {} \in P,
         \A U \in SUBSET T, x \in T : U \in P /\ x \notin U => U \union {x} \in P
  PROVE  T \in P
<1> DEFINE C == {U \in SUBSET T : U \notin P}
<1> SUFFICES ASSUME C # {} PROVE FALSE
  OBVIOUS
<1>1. \A U \in C : IsFiniteSet(U)
  BY FS_Subset
<1>2. PICK U \in C : \A V \in C : ~(V \subseteq U /\ V # U)
  <2> HIDE DEF C
  <2>1. QED BY <1>1, MinimalSet
<1>3. PICK x \in U : TRUE
  BY <1>2
<1>4. U \ {x} \in P
  BY <1>2, <1>3
<1>5. (U \ {x}) \union {x} = U
  BY <1>3
<1>6. QED BY <1>2, <1>3, <1>4, <1>5

-----------------------------------------------------------------------------
(* The recursion has one solution *)

LEMMA ChosenIn == \A s : s # {} => Chosen(s) \in s
BY DEF Chosen

LEMMA AdderUnfolds ==
  ASSUME NEW f, NEW S, NEW g, AddsUp(g, f, S), NEW s \in SUBSET S
  PROVE  g[s] = IF s = {} THEN 0 ELSE f[Chosen(s)] + g[s \ {Chosen(s)}]
BY DEF AddsUp

LEMMA AdderUnique ==
  ASSUME NEW f, NEW S, NEW T, IsFiniteSet(S), IsFiniteSet(T), NEW g, NEW h,
         AddsUp(g, f, S), AddsUp(h, f, T)
  PROVE  \A s \in SUBSET (S \intersect T) : g[s] = h[s]
<1> DEFINE C == {s \in SUBSET (S \intersect T) : g[s] # h[s]}
<1> SUFFICES ASSUME C # {} PROVE FALSE
  OBVIOUS
<1>1. \A s \in C : IsFiniteSet(s)
  BY FS_Subset
<1>2. PICK s \in C : \A r \in C : ~(r \subseteq s /\ r # s)
  <2> HIDE DEF C
  <2>1. QED BY <1>1, MinimalSet
<1>3. s \in SUBSET S /\ s \in SUBSET T /\ g[s] # h[s]
  BY <1>2
<1>4. g[s] = IF s = {} THEN 0 ELSE f[Chosen(s)] + g[s \ {Chosen(s)}]
  BY <1>3 DEF AddsUp
<1>5. h[s] = IF s = {} THEN 0 ELSE f[Chosen(s)] + h[s \ {Chosen(s)}]
  BY <1>3 DEF AddsUp
<1>6. s # {} => g[s \ {Chosen(s)}] = h[s \ {Chosen(s)}]
  BY <1>2, ChosenIn
<1>7. QED BY <1>3, <1>4, <1>5, <1>6

LEMMA AdderExists ==
  ASSUME NEW f, NEW S, IsFiniteSet(S)
  PROVE  AddsUp(Adder(f, S), f, S)
<1> DEFINE C == {T \in SUBSET S : ~AddsUp(Adder(f, T), f, T)}
<1> SUFFICES ASSUME C # {} PROVE FALSE
  OBVIOUS
<1>1. \A T \in C : IsFiniteSet(T)
  BY FS_Subset
<1>2. PICK T \in C : \A r \in C : ~(r \subseteq T /\ r # T)
  <2> HIDE DEF C
  <2>1. QED BY <1>1, MinimalSet
<1>3. \A r \in SUBSET T : r # T => AddsUp(Adder(f, r), f, r)
  BY <1>2
<1> DEFINE g == [s \in SUBSET T |->
                   IF s = {} THEN 0 ELSE f[Chosen(s)] + Adder(f, s \ {Chosen(s)})[s \ {Chosen(s)}]]
<1>4. \A s \in SUBSET T : s # T => Adder(f, s)[s] = g[s]
  <2> SUFFICES ASSUME NEW s \in SUBSET T, s # T PROVE Adder(f, s)[s] = g[s]
    OBVIOUS
  <2>1. AddsUp(Adder(f, s), f, s)
    BY <1>3
  <2>2. Adder(f, s)[s] = IF s = {} THEN 0 ELSE f[Chosen(s)] + Adder(f, s)[s \ {Chosen(s)}]
    BY <2>1, AdderUnfolds
  <2>3. ASSUME s # {} PROVE Adder(f, s)[s \ {Chosen(s)}] = Adder(f, s \ {Chosen(s)})[s \ {Chosen(s)}]
    <3> DEFINE r == s \ {Chosen(s)}
    <3>1. AddsUp(Adder(f, r), f, r)
      BY <1>3, <2>3, ChosenIn
    <3>2. IsFiniteSet(s) /\ IsFiniteSet(r)
      BY <1>1, FS_Subset
    <3>3. \A u \in SUBSET (s \intersect r) : Adder(f, s)[u] = Adder(f, r)[u]
      BY <2>1, <3>1, <3>2, AdderUnique
    <3>4. QED BY <3>3
  <2>4. QED BY <2>2, <2>3
<1>5. AddsUp(g, f, T)
  <2>1. \A s \in SUBSET T : s # {} => g[s] = f[Chosen(s)] + g[s \ {Chosen(s)}]
    <3> SUFFICES ASSUME NEW s \in SUBSET T, s # {}
                 PROVE  g[s] = f[Chosen(s)] + g[s \ {Chosen(s)}]
      OBVIOUS
    <3>1. s \ {Chosen(s)} \in SUBSET T /\ s \ {Chosen(s)} # T
      BY ChosenIn
    <3>2. Adder(f, s \ {Chosen(s)})[s \ {Chosen(s)}] = g[s \ {Chosen(s)}]
      BY <1>4, <3>1
    <3>3. QED BY <3>2
  <2>2. g = [s \in SUBSET T |-> IF s = {} THEN 0 ELSE f[Chosen(s)] + g[s \ {Chosen(s)}]]
    BY <2>1
  <2> HIDE DEF g
  <2>3. QED BY <2>2 DEF AddsUp
<1>6. AddsUp(Adder(f, T), f, T)
  BY <1>5 DEF Adder
<1>7. QED BY <1>2, <1>6

-----------------------------------------------------------------------------
(* Sums, element by element *)

LEMMA SumEmpty == \A f : Sum(f, {}) = 0
<1> SUFFICES ASSUME NEW f PROVE Sum(f, {}) = 0
  OBVIOUS
<1>1. AddsUp(Adder(f, {}), f, {})
  BY AdderExists, FS_EmptySet
<1>2. Adder(f, {})[{}] = 0
  BY <1>1, AdderUnfolds
<1>3. QED BY <1>2, SumIsAdder

LEMMA SumFirst ==
  ASSUME NEW f, NEW S, IsFiniteSet(S), S # {}
  PROVE  Sum(f, S) = f[Chosen(S)] + Sum(f, S \ {Chosen(S)})
<1> DEFINE R == S \ {Chosen(S)}
<1>1. IsFiniteSet(R) /\ S \intersect R = R
  BY FS_Subset
<1>2. AddsUp(Adder(f, S), f, S) /\ AddsUp(Adder(f, R), f, R)
  BY <1>1, AdderExists
<1>3. Adder(f, S)[S] = f[Chosen(S)] + Adder(f, S)[R]
  BY <1>2, AdderUnfolds
<1>4. Adder(f, S)[R] = Adder(f, R)[R]
  <2>1. PICK g : g = Adder(f, S)
    OBVIOUS
  <2>2. PICK h : h = Adder(f, R)
    OBVIOUS
  <2>3. AddsUp(g, f, S) /\ AddsUp(h, f, R)
    BY <1>2, <2>1, <2>2
  <2> HIDE DEF R
  <2>4. \A s \in SUBSET (S \intersect R) : g[s] = h[s]
    BY <1>1, <2>3, AdderUnique
  <2>5. QED BY <1>1, <2>1, <2>2, <2>4
<1>5. QED BY <1>3, <1>4, SumIsAdder

\* A sum of integers is an integer.
LEMMA SumType ==
  ASSUME NEW f, NEW S, IsFiniteSet(S), \A x \in S : f[x] \in Int
  PROVE  Sum(f, S) \in Int
<1> DEFINE C == {T \in SUBSET S : Sum(f, T) \notin Int}
<1> SUFFICES ASSUME C # {} PROVE FALSE
  OBVIOUS
<1>1. \A T \in C : IsFiniteSet(T)
  BY FS_Subset
<1>2. PICK T \in C : \A U \in C : ~(U \subseteq T /\ U # T)
  <2> HIDE DEF C
  <2>1. QED BY <1>1, MinimalSet
<1>3. T # {}
  <2>1. Sum(f, T) \notin Int /\ Sum(f, {}) \in Int
    BY <1>2, SumEmpty
  <2>2. QED BY <2>1
<1>4. Sum(f, T) = f[Chosen(T)] + Sum(f, T \ {Chosen(T)})
  BY <1>1, <1>3, SumFirst
<1>5. f[Chosen(T)] \in Int /\ Sum(f, T \ {Chosen(T)}) \in Int
  BY <1>2, <1>3, ChosenIn
<1>6. QED BY <1>2, <1>4, <1>5

\* Any element may be taken out first.
LEMMA SumRemove ==
  ASSUME NEW f, NEW S, IsFiniteSet(S), \A x \in S : f[x] \in Int, NEW x \in S
  PROVE  Sum(f, S) = f[x] + Sum(f, S \ {x})
<1> DEFINE C == {T \in SUBSET S : \E y \in T : Sum(f, T) # f[y] + Sum(f, T \ {y})}
<1> SUFFICES ASSUME C # {} PROVE FALSE
  OBVIOUS
<1>1. \A T \in SUBSET S : IsFiniteSet(T) /\ Sum(f, T) \in Int
  BY FS_Subset, SumType
<1>2. PICK T \in C : \A U \in C : ~(U \subseteq T /\ U # T)
  <2>1. \A T \in C : IsFiniteSet(T)
    BY <1>1
  <2> HIDE DEF C
  <2>2. QED BY <2>1, MinimalSet
<1>3. PICK y \in T : Sum(f, T) # f[y] + Sum(f, T \ {y})
  BY <1>2
<1> DEFINE z == Chosen(T)
<1>4. z \in T /\ T \in SUBSET S /\ y \in S /\ z \in S
  BY <1>2, <1>3, ChosenIn
<1>5. Sum(f, T) = f[z] + Sum(f, T \ {z})
  BY <1>1, <1>4, SumFirst
<1>6. y # z
  BY <1>3, <1>5
<1>7. \A U \in SUBSET T : U # T => \A v \in U : Sum(f, U) = f[v] + Sum(f, U \ {v})
  BY <1>2
<1>8. /\ Sum(f, T \ {z}) = f[y] + Sum(f, (T \ {z}) \ {y})
      /\ Sum(f, T \ {y}) = f[z] + Sum(f, (T \ {y}) \ {z})
  <2>1. /\ T \ {z} \in SUBSET T /\ T \ {z} # T /\ y \in T \ {z}
        /\ T \ {y} \in SUBSET T /\ T \ {y} # T /\ z \in T \ {y}
    BY <1>3, <1>4, <1>6
  <2> HIDE DEF z
  <2>2. QED BY <1>7, <2>1
<1>9. (T \ {z}) \ {y} = (T \ {y}) \ {z} /\ (T \ {z}) \ {y} \in SUBSET S
  BY <1>4
<1>10. Sum(f, (T \ {z}) \ {y}) \in Int /\ f[y] \in Int /\ f[z] \in Int
  BY <1>1, <1>4, <1>9
<1> HIDE DEF z
<1>11. Sum(f, T) = f[y] + Sum(f, T \ {y})
  <2> DEFINE r == Sum(f, (T \ {z}) \ {y})
             q == Sum(f, T \ {z})
             p == Sum(f, T \ {y})
  <2>1. q = f[y] + r /\ p = f[z] + r /\ Sum(f, T) = f[z] + q /\ r \in Int
    BY <1>5, <1>8, <1>9, <1>10
  <2> HIDE DEF p, q, r
  <2>2. Sum(f, T) = f[y] + p
    BY <1>10, <2>1
  <2>3. QED BY <2>2 DEF p
<1>12. QED BY <1>3, <1>11

LEMMA SumAdd ==
  ASSUME NEW f, NEW S, IsFiniteSet(S), NEW x, x \notin S,
         f[x] \in Int, \A y \in S : f[y] \in Int
  PROVE  Sum(f, S \union {x}) = f[x] + Sum(f, S)
<1>1. IsFiniteSet(S \union {x}) /\ (S \union {x}) \ {x} = S
  BY FS_AddElement
<1>2. \A y \in S \union {x} : f[y] \in Int
  OBVIOUS
<1>3. QED BY <1>1, <1>2, SumRemove

LEMMA SumSingle ==
  ASSUME NEW f, NEW x, f[x] \in Int
  PROVE  Sum(f, {x}) = f[x]
<1>1. Sum(f, {} \union {x}) = f[x] + Sum(f, {})
  BY SumAdd, FS_EmptySet
<1>2. {} \union {x} = {x}
  OBVIOUS
<1>3. QED BY <1>1, <1>2, SumEmpty

-----------------------------------------------------------------------------
(* Sums of related functions, and over related sets *)

\* If f is nowhere more than g plus h, neither is its sum.  The other facts
\* about two or three functions are instances.
LEMMA SumBound ==
  ASSUME NEW f, NEW g, NEW h, NEW S, IsFiniteSet(S),
         \A x \in S : f[x] \in Int /\ g[x] \in Int /\ h[x] \in Int /\ f[x] <= g[x] + h[x]
  PROVE  Sum(f, S) <= Sum(g, S) + Sum(h, S)
<1> DEFINE P == {T \in SUBSET S : Sum(f, T) <= Sum(g, T) + Sum(h, T)}
<1>1. {} \in P
  BY SumEmpty
<1>2. ASSUME NEW U \in SUBSET S, NEW x \in S, U \in P, x \notin U
      PROVE  U \union {x} \in P
  <2>1. IsFiniteSet(U)
    BY FS_Subset
  <2>2. Sum(f, U) \in Int /\ Sum(g, U) \in Int /\ Sum(h, U) \in Int
    BY <2>1, SumType
  <2>3. /\ Sum(f, U \union {x}) = f[x] + Sum(f, U)
        /\ Sum(g, U \union {x}) = g[x] + Sum(g, U)
        /\ Sum(h, U \union {x}) = h[x] + Sum(h, U)
    BY <1>2, <2>1, SumAdd
  <2>4. f[x] \in Int /\ g[x] \in Int /\ h[x] \in Int /\ f[x] <= g[x] + h[x]
    OBVIOUS
  <2>5. QED BY <1>2, <2>2, <2>3, <2>4
<1>3. S \in P
  <2> HIDE DEF P
  <2>1. QED BY <1>1, <1>2, FiniteInduction
<1>4. QED BY <1>3

LEMMA SumZero ==
  ASSUME NEW f, NEW S, IsFiniteSet(S), \A x \in S : f[x] = 0
  PROVE  Sum(f, S) = 0
<1> DEFINE P == {T \in SUBSET S : Sum(f, T) = 0}
<1>1. {} \in P
  BY SumEmpty
<1>2. ASSUME NEW U \in SUBSET S, NEW x \in S, U \in P, x \notin U
      PROVE  U \union {x} \in P
  BY <1>2, FS_Subset, SumAdd
<1>3. S \in P
  <2> HIDE DEF P
  <2>1. QED BY <1>1, <1>2, FiniteInduction
<1>4. QED BY <1>3

LEMMA SumPlus ==
  ASSUME NEW f, NEW g, NEW h, NEW S, IsFiniteSet(S),
         \A x \in S : f[x] \in Int /\ g[x] \in Int /\ h[x] = f[x] + g[x]
  PROVE  Sum(h, S) = Sum(f, S) + Sum(g, S)
<1> DEFINE P == {T \in SUBSET S : Sum(h, T) = Sum(f, T) + Sum(g, T)}
<1>1. {} \in P
  BY SumEmpty
<1>2. ASSUME NEW U \in SUBSET S, NEW x \in S, U \in P, x \notin U
      PROVE  U \union {x} \in P
  <2>1. IsFiniteSet(U)
    BY FS_Subset
  <2>2. \A y \in S : h[y] \in Int
    OBVIOUS
  <2>3. Sum(f, U) \in Int /\ Sum(g, U) \in Int
    BY <2>1, SumType
  <2>4. /\ Sum(f, U \union {x}) = f[x] + Sum(f, U)
        /\ Sum(g, U \union {x}) = g[x] + Sum(g, U)
        /\ Sum(h, U \union {x}) = h[x] + Sum(h, U)
    BY <1>2, <2>1, <2>2, SumAdd
  <2>5. f[x] \in Int /\ g[x] \in Int /\ h[x] = f[x] + g[x]
    OBVIOUS
  <2>6. QED BY <1>2, <2>3, <2>4, <2>5
<1>3. S \in P
  <2> HIDE DEF P
  <2>1. QED BY <1>1, <1>2, FiniteInduction
<1>4. QED BY <1>3

LEMMA SumEqual ==
  ASSUME NEW f, NEW g, NEW S, IsFiniteSet(S), \A x \in S : f[x] \in Int /\ f[x] = g[x]
  PROVE  Sum(f, S) = Sum(g, S)
<1> DEFINE zero == [x \in S |-> 0]
<1>1. Sum(g, S) = Sum(f, S) + Sum(zero, S)
  BY SumPlus
<1>2. Sum(zero, S) = 0
  BY SumZero
<1>3. QED BY <1>1, <1>2, SumType

LEMMA SumOpposite ==
  ASSUME NEW f, NEW g, NEW S, IsFiniteSet(S), \A x \in S : f[x] \in Int /\ g[x] = -f[x]
  PROVE  Sum(g, S) = -Sum(f, S)
<1> DEFINE zero == [x \in S |-> 0]
<1>1. \A x \in S : g[x] \in Int /\ zero[x] = f[x] + g[x]
  OBVIOUS
<1>2. Sum(zero, S) = Sum(f, S) + Sum(g, S)
  BY <1>1, SumPlus
<1>3. Sum(zero, S) = 0
  BY SumZero
<1>4. Sum(f, S) \in Int /\ Sum(g, S) \in Int
  BY <1>1, SumType
<1>5. QED BY <1>2, <1>3, <1>4

LEMMA SumAtMost ==
  ASSUME NEW f, NEW g, NEW S, IsFiniteSet(S),
         \A x \in S : f[x] \in Int /\ g[x] \in Int /\ f[x] <= g[x]
  PROVE  Sum(f, S) <= Sum(g, S)
<1> DEFINE zero == [x \in S |-> 0]
<1>1. Sum(f, S) <= Sum(g, S) + Sum(zero, S)
  BY SumBound
<1>2. Sum(zero, S) = 0
  BY SumZero
<1>3. Sum(g, S) \in Int
  BY SumType
<1>4. QED BY <1>1, <1>2, <1>3

LEMMA SumNatural ==
  ASSUME NEW f, NEW S, IsFiniteSet(S), \A x \in S : f[x] \in Nat
  PROVE  Sum(f, S) \in Nat
<1> DEFINE zero == [x \in S |-> 0]
<1>1. Sum(zero, S) <= Sum(f, S)
  BY SumAtMost
<1>2. Sum(zero, S) = 0
  BY SumZero
<1>3. Sum(f, S) \in Int
  BY SumType
<1>4. QED BY <1>1, <1>2, <1>3

LEMMA SumUnion ==
  ASSUME NEW f, NEW S, NEW T, IsFiniteSet(S), IsFiniteSet(T), S \intersect T = {},
         \A x \in S \union T : f[x] \in Int
  PROVE  Sum(f, S \union T) = Sum(f, S) + Sum(f, T)
<1> DEFINE P == {U \in SUBSET T : Sum(f, S \union U) = Sum(f, S) + Sum(f, U)}
<1>1. {} \in P
  <2>1. S \union {} = S
    OBVIOUS
  <2>2. QED BY <2>1, SumEmpty, SumType
<1>2. ASSUME NEW U \in SUBSET T, NEW x \in T, U \in P, x \notin U
      PROVE  U \union {x} \in P
  <2>1. IsFiniteSet(U) /\ IsFiniteSet(S \union U)
    BY FS_Subset, FS_Union
  <2>2. Sum(f, S) \in Int /\ Sum(f, U) \in Int /\ f[x] \in Int
    BY <2>1, SumType
  <2>3. x \notin S \union U
    BY <1>2
  <2>4. Sum(f, (S \union U) \union {x}) = f[x] + Sum(f, S \union U)
    BY <2>1, <2>3, SumAdd
  <2>5. Sum(f, U \union {x}) = f[x] + Sum(f, U)
    BY <1>2, <2>1, SumAdd
  <2>6. (S \union U) \union {x} = S \union (U \union {x})
    OBVIOUS
  <2>7. Sum(f, S \union U) = Sum(f, S) + Sum(f, U)
    BY <1>2
  <2>8. Sum(f, S \union (U \union {x})) = Sum(f, S) + Sum(f, U \union {x})
    <3> DEFINE a == Sum(f, S \union U)
               b == Sum(f, U \union {x})
               c == Sum(f, S)
               d == Sum(f, U)
    <3>1. a = c + d /\ b = f[x] + d /\ Sum(f, (S \union U) \union {x}) = f[x] + a
      BY <2>4, <2>5, <2>7
    <3>2. c \in Int /\ d \in Int /\ f[x] \in Int
      BY <2>2
    <3> HIDE DEF a, b, c, d
    <3>3. f[x] + a = c + b
      BY <3>1, <3>2
    <3>4. QED BY <2>6, <3>1, <3>3 DEF b, c
  <2>9. QED BY <2>8
<1>3. T \in P
  <2> HIDE DEF P
  <2>1. QED BY <1>1, <1>2, FiniteInduction
<1>4. QED BY <1>3

LEMMA SumWithout ==
  ASSUME NEW f, NEW S, IsFiniteSet(S), NEW T \in SUBSET S, \A x \in S : f[x] \in Int
  PROVE  Sum(f, S \ T) = Sum(f, S) - Sum(f, T)
<1>1. IsFiniteSet(T) /\ IsFiniteSet(S \ T) /\ (S \ T) \intersect T = {} /\ (S \ T) \union T = S
  BY FS_Subset
<1>2. Sum(f, S) = Sum(f, S \ T) + Sum(f, T)
  BY <1>1, SumUnion
<1>3. Sum(f, T) \in Int /\ Sum(f, S \ T) \in Int
  BY <1>1, SumType
<1>4. QED BY <1>2, <1>3

\* Elements that count nothing may be left out.
LEMMA SumSupport ==
  ASSUME NEW f, NEW S, IsFiniteSet(S), NEW T \in SUBSET S,
         \A x \in S : f[x] \in Int, \A x \in S \ T : f[x] = 0
  PROVE  Sum(f, S) = Sum(f, T)
<1>1. IsFiniteSet(T) /\ IsFiniteSet(S \ T)
  BY FS_Subset
<1>2. Sum(f, S \ T) = 0
  BY <1>1, SumZero
<1>3. Sum(f, S \ T) = Sum(f, S) - Sum(f, T)
  BY SumWithout
<1>4. Sum(f, S) \in Int /\ Sum(f, T) \in Int
  BY <1>1, SumType
<1>5. QED BY <1>2, <1>3, <1>4

\* Only one of the summands differs.
LEMMA SumChanged ==
  ASSUME NEW f, NEW g, NEW S, IsFiniteSet(S), NEW x \in S,
         \A y \in S : f[y] \in Int /\ g[y] \in Int,
         \A y \in S \ {x} : f[y] = g[y]
  PROVE  Sum(g, S) = Sum(f, S) - f[x] + g[x]
<1>1. IsFiniteSet(S \ {x})
  BY FS_Subset
<1>2. Sum(f, S) = f[x] + Sum(f, S \ {x}) /\ Sum(g, S) = g[x] + Sum(g, S \ {x})
  BY SumRemove
<1>3. Sum(f, S \ {x}) = Sum(g, S \ {x})
  BY <1>1, SumEqual
<1>4. Sum(f, S \ {x}) \in Int
  BY <1>1, SumType
<1>5. QED BY <1>2, <1>3, <1>4

\* What a sum changes by, when some of its elements do.
LEMMA SumShift ==
  ASSUME NEW f, NEW g, NEW h, NEW S, IsFiniteSet(S), NEW T \in SUBSET S,
         \A x \in S : f[x] \in Int /\ g[x] \in Int,
         \A x \in T : h[x] \in Int /\ g[x] = f[x] + h[x],
         \A x \in S \ T : g[x] = f[x]
  PROVE  Sum(g, S) = Sum(f, S) + Sum(h, T)
<1>1. IsFiniteSet(T) /\ IsFiniteSet(S \ T)
  BY FS_Subset
<1>2. Sum(g, T) = Sum(f, T) + Sum(h, T)
  BY <1>1, SumPlus
<1>3. Sum(f, S \ T) = Sum(g, S \ T)
  BY <1>1, SumEqual
<1>4. Sum(f, S \ T) = Sum(f, S) - Sum(f, T) /\ Sum(g, S \ T) = Sum(g, S) - Sum(g, T)
  BY SumWithout
<1>5. Sum(f, S) \in Int /\ Sum(g, S) \in Int
  BY SumType
<1>6. Sum(f, T) \in Int /\ Sum(g, T) \in Int /\ Sum(h, T) \in Int
  <2>1. \A x \in T : f[x] \in Int /\ g[x] \in Int
    OBVIOUS
  <2>2. QED BY <1>1, <2>1, SumType
<1>7. Sum(f, S) - Sum(f, T) = Sum(g, S) - Sum(g, T)
  BY <1>3, <1>4
<1>8. QED BY <1>2, <1>5, <1>6, <1>7

\* The sum over a part is that of a function which is zero elsewhere.
LEMMA SumWithin ==
  ASSUME NEW f, NEW g, NEW S, IsFiniteSet(S), NEW T \in SUBSET S, \A x \in T : f[x] \in Int,
         \A x \in S : g[x] = IF x \in T THEN f[x] ELSE 0
  PROVE  Sum(g, S) = Sum(f, T)
<1>1. IsFiniteSet(T)
  BY FS_Subset
<1>2. \A x \in S : g[x] \in Int
  OBVIOUS
<1>3. Sum(g, S) = Sum(g, T)
  BY <1>2, SumSupport
<1>4. Sum(f, T) = Sum(g, T)
  BY <1>1, SumEqual
<1>5. QED BY <1>3, <1>4

\* A sum may be taken part by part: f summed over the parts of S that k sends
\* to the elements of T.
LEMMA SumPartition ==
  ASSUME NEW f, NEW S, IsFiniteSet(S), \A x \in S : f[x] \in Int,
         NEW T, IsFiniteSet(T), NEW k, \A x \in S : k[x] \in T
  PROVE  Sum([y \in T |-> Sum(f, {x \in S : k[x] = y})], T) = Sum(f, S)
<1> DEFINE part(y) == {x \in S : k[x] = y}
           within(U) == {x \in S : k[x] \in U}
           by == [y \in T |-> Sum(f, part(y))]
           P == {U \in SUBSET T : Sum(by, U) = Sum(f, within(U))}
<1>1. {} \in P
  <2>1. within({}) = {}
    OBVIOUS
  <2>2. QED BY <2>1, SumEmpty
<1>2. \A y \in T : IsFiniteSet(part(y)) /\ by[y] = Sum(f, part(y)) /\ by[y] \in Int
  <2> SUFFICES ASSUME NEW y \in T PROVE IsFiniteSet(part(y)) /\ Sum(f, part(y)) \in Int
    OBVIOUS
  <2>1. IsFiniteSet(part(y)) /\ \A x \in part(y) : f[x] \in Int
    BY FS_Subset
  <2> HIDE DEF part
  <2>2. QED BY <2>1, SumType
<1>3. ASSUME NEW U \in SUBSET T, NEW y \in T, U \in P, y \notin U
      PROVE  U \union {y} \in P
  <2>1. /\ IsFiniteSet(U) /\ IsFiniteSet(within(U)) /\ IsFiniteSet(part(y))
        /\ within(U \union {y}) = within(U) \union part(y)
        /\ within(U) \intersect part(y) = {}
        /\ \A x \in within(U) \union part(y) : f[x] \in Int
    BY <1>2, <1>3, FS_Subset
  <2>2. Sum(by, U) = Sum(f, within(U))
    BY <1>3
  <2> HIDE DEF part, within, by
  <2>3. Sum(f, within(U) \union part(y)) = Sum(f, within(U)) + Sum(f, part(y))
    BY <2>1, SumUnion
  <2>4. Sum(by, U \union {y}) = by[y] + Sum(by, U)
    BY <1>2, <1>3, <2>1, SumAdd
  <2>5. Sum(f, within(U)) \in Int /\ Sum(f, part(y)) \in Int
    BY <2>1, SumType
  <2>6. Sum(by, U \union {y}) = Sum(f, within(U \union {y}))
    <3> DEFINE p == Sum(f, within(U))
               q == Sum(f, part(y))
    <3>1. p \in Int /\ q \in Int /\ by[y] = q /\ Sum(by, U \union {y}) = by[y] + p
      BY <1>2, <2>2, <2>4, <2>5
    <3>2. Sum(f, within(U \union {y})) = p + q
      BY <2>1, <2>3
    <3> HIDE DEF p, q
    <3>3. QED BY <3>1, <3>2
  <2>7. QED BY <2>6
<1>4. T \in P
  <2> HIDE DEF P
  <2>1. QED BY <1>1, <1>3, FiniteInduction
<1>5. Sum(by, T) = Sum(f, within(T))
  BY <1>4
<1>6. within(T) = S
  OBVIOUS
<1>7. QED BY <1>5, <1>6

-----------------------------------------------------------------------------
(* Finitely many results *)

LEMMA ImageFinite ==
  ASSUME NEW f, NEW S, IsFiniteSet(S)
  PROVE  IsFiniteSet({f[x] : x \in S})
<1> DEFINE T == {f[x] : x \in S}
           g == [x \in S |-> f[x]]
<1>1. g \in Surjection(S, T)
  BY DEF Surjection
<1>2. QED BY <1>1, FS_Surjection

LEMMA HasGreatest ==
  ASSUME NEW S, IsFiniteSet(S), S # {}, \A x \in S : x \in Int
  PROVE  \E m \in S : \A x \in S : m >= x
<1> DEFINE P == {U \in SUBSET S : U # {} => \E m \in U : \A x \in U : m >= x}
<1>1. ASSUME NEW U \in SUBSET S, NEW y \in S, U \in P, y \notin U
      PROVE  U \union {y} \in P
  <2>1. CASE U = {}
    BY <2>1
  <2>2. CASE U # {}
    <3>1. PICK m \in U : \A x \in U : m >= x
      BY <1>1, <2>2
    <3>2. CASE m >= y
      BY <3>1, <3>2
    <3>3. CASE y >= m
      <4>1. \A x \in U \union {y} : y >= x
        BY <3>1, <3>3
      <4>2. QED BY <4>1
    <3>4. QED BY <3>2, <3>3
  <2>3. QED BY <2>1, <2>2
<1>2. S \in P
  <2>1. {} \in P
    OBVIOUS
  <2> HIDE DEF P
  <2>2. QED BY <1>1, <2>1, FiniteInduction
<1>3. QED BY <1>2

LEMMA MaxIsGreatest ==
  ASSUME NEW S, IsFiniteSet(S), S # {}, \A x \in S : x \in Int
  PROVE  Max(S) \in S /\ \A x \in S : Max(S) >= x
BY HasGreatest DEF Max

LEMMA MinIsLeast ==
  ASSUME NEW S, IsFiniteSet(S), S # {}, \A x \in S : x \in Int
  PROVE  Min(S) \in S /\ \A x \in S : Min(S) <= x
<1> DEFINE minus == [x \in S |-> -x]
           T == {minus[x] : x \in S}
<1>1. \A x \in S : minus[x] = -x /\ minus[x] \in Int
  OBVIOUS
<1>2. IsFiniteSet(T) /\ T # {} /\ \A y \in T : y \in Int
  <2>1. IsFiniteSet(T)
    BY ImageFinite
  <2> HIDE DEF minus
  <2>2. QED BY <2>1, <1>1
<1>3. PICK m \in T : \A y \in T : m >= y
  <2> HIDE DEF T
  <2>1. QED BY <1>2, HasGreatest
<1>4. PICK x \in S : m = minus[x]
  BY <1>3
<1>5. \A z \in S : x <= z
  <2> SUFFICES ASSUME NEW z \in S PROVE x <= z
    OBVIOUS
  <2>1. m >= minus[z]
    BY <1>3
  <2>2. QED BY <1>1, <1>4, <2>1
<1>6. QED BY <1>5 DEF Min

LEMMA MaxWithZero ==
  ASSUME NEW x \in Int
  PROVE  Max({0, x}) = IF x >= 0 THEN x ELSE 0
<1>1. IsFiniteSet({0, x})
  <2>1. IsFiniteSet({0} \union {x})
    BY FS_Singleton, FS_Union
  <2>2. {0} \union {x} = {0, x}
    OBVIOUS
  <2>3. QED BY <2>1, <2>2
<1>2. Max({0, x}) \in {0, x} /\ \A y \in {0, x} : Max({0, x}) >= y
  BY <1>1, MaxIsGreatest
<1>3. Max({0, x}) >= 0 /\ Max({0, x}) >= x
  BY <1>2
<1>4. QED BY <1>2, <1>3

LEMMA MinOfTwo ==
  ASSUME NEW a \in Int, NEW b \in Int
  PROVE  Min({a, b}) = IF a <= b THEN a ELSE b
<1> DEFINE m == IF a <= b THEN a ELSE b
<1>1. m \in {a, b} /\ \A y \in {a, b} : m <= y
  OBVIOUS
<1>2. \A x \in {a, b} : (\A y \in {a, b} : x <= y) => x = m
  OBVIOUS
<1> HIDE DEF m
<1>3. Min({a, b}) = m
  BY <1>1, <1>2 DEF Min
<1>4. QED BY <1>3 DEF m

-----------------------------------------------------------------------------
(* The exposure services *)

\* The worst loss is one of the results, turned round, or nothing; and no
\* result loses more.
LEMMA WorstLossOfResults ==
  ASSUME NEW R, IsFiniteSet(R), \A r \in R : r \in Int
  PROVE  /\ WorstLoss(R) \in Nat
         /\ \A r \in R : -r <= WorstLoss(R)
         /\ WorstLoss(R) = 0 \/ \E r \in R : WorstLoss(R) = -r
<1> DEFINE losses == [r \in R |-> -r]
           S == {0} \union {-r : r \in R}
<1>1. IsFiniteSet({-r : r \in R})
  <2>1. IsFiniteSet({losses[r] : r \in R})
    BY ImageFinite
  <2>2. \A r \in R : losses[r] = -r
    OBVIOUS
  <2> HIDE DEF losses
  <2>3. {losses[r] : r \in R} = {-r : r \in R}
    BY <2>2
  <2>4. QED BY <2>1, <2>3
<1>2. IsFiniteSet(S) /\ S # {} /\ \A x \in S : x \in Int
  <2>1. IsFiniteSet({0})
    BY FS_Singleton
  <2>2. IsFiniteSet(S)
    BY <1>1, <2>1, FS_Union
  <2>3. QED BY <2>2
<1>3. Max(S) \in S /\ \A x \in S : Max(S) >= x
  <2> HIDE DEF S
  <2>1. QED BY <1>2, MaxIsGreatest
<1>4. WorstLoss(R) \in S /\ \A x \in S : WorstLoss(R) >= x
  BY <1>3 DEF WorstLoss
<1>5. WorstLoss(R) \in Int /\ WorstLoss(R) >= 0
  BY <1>2, <1>4
<1>6. \A r \in R : WorstLoss(R) >= -r
  BY <1>4
<1>7. QED BY <1>4, <1>5, <1>6

-----------------------------------------------------------------------------
(* Match odds *)

\* Finitely many bets with their amounts.
Book(bets) ==
  /\ IsFiniteSet(bets)
  /\ \A b \in bets : b.stake \in Nat /\ b.profit \in Nat /\ b.side \in {"BACK", "LAY"}

LEMMA EarnsInteger ==
  ASSUME NEW bets, Book(bets), NEW b \in bets, NEW won
  PROVE  Earns(b, won) \in Int
BY DEF Book, Earns

LEMMA NetInteger ==
  ASSUME NEW bets, Book(bets)
  PROVE  NetIfAllLose(bets) \in Int /\ \A s : NetIfWins(bets, s) \in Int
<1>1. NetIfAllLose(bets) \in Int
  <2> DEFINE f == [b \in bets |-> Earns(b, FALSE)]
  <2>1. \A b \in bets : f[b] \in Int
    BY EarnsInteger
  <2> HIDE DEF f
  <2>2. Sum(f, bets) \in Int
    BY <2>1, SumType DEF Book
  <2>3. QED BY <2>2 DEF f, NetIfAllLose
<1>2. ASSUME NEW s PROVE NetIfWins(bets, s) \in Int
  <2> DEFINE f == [b \in bets |-> Earns(b, b.selection = s)]
  <2>1. \A b \in bets : f[b] \in Int
    BY EarnsInteger
  <2> HIDE DEF f
  <2>2. Sum(f, bets) \in Int
    BY <2>1, SumType DEF Book
  <2>3. QED BY <2>2 DEF f, NetIfWins
<1>3. QED BY <1>1, <1>2

LEMMA SelectionsFinite ==
  ASSUME NEW bets, IsFiniteSet(bets)
  PROVE  IsFiniteSet(Selections(bets))
<1> DEFINE f == [b \in bets |-> b.selection]
<1>1. IsFiniteSet({f[b] : b \in bets})
  BY ImageFinite
<1>2. QED BY <1>1 DEF Selections

\* What the service simulates.
Simulated(bets) ==
  {NetIfWins(bets, s) : s \in Selections(bets)}
    \union (IF Cardinality(Selections(bets)) = 1 THEN {NetIfAllLose(bets)} ELSE {})

LEMMA SimulatedResults ==
  ASSUME NEW bets, Book(bets)
  PROVE  /\ MatchOddsExposure(bets) = WorstLoss(Simulated(bets))
         /\ IsFiniteSet(Simulated(bets)) /\ \A r \in Simulated(bets) : r \in Int
<1> DEFINE wins == [s \in Selections(bets) |-> NetIfWins(bets, s)]
           W == {wins[s] : s \in Selections(bets)}
<1>1. W = {NetIfWins(bets, s) : s \in Selections(bets)}
  OBVIOUS
<1>2. IsFiniteSet(W)
  BY ImageFinite, SelectionsFinite DEF Book
<1>3. IsFiniteSet(Simulated(bets))
  BY <1>1, <1>2, FS_Union, FS_Singleton, FS_EmptySet DEF Simulated
<1>4. \A r \in Simulated(bets) : r \in Int
  BY NetInteger DEF Simulated
<1>5. QED BY <1>3, <1>4 DEF MatchOddsExposure, Simulated

LEMMA MatchOddsExposureNatural ==
  ASSUME NEW bets, Book(bets)
  PROVE  MatchOddsExposure(bets) \in Nat
BY SimulatedResults, WorstLossOfResults

\* The exposure of bets on one side of one selection is what they stake, or
\* lay, together.
LEMMA OneSidedExposure ==
  ASSUME NEW bets, Book(bets), NEW locks,
         \A b \in bets : locks[b] = IF b.side = "BACK" THEN b.stake ELSE b.profit,
         \A b, c \in bets : b.selection = c.selection /\ b.side = c.side
  PROVE  MatchOddsExposure(bets) = Sum(locks, bets)
<1>1. CASE bets = {}
  <2>1. Simulated(bets) = {}
    BY <1>1, FS_EmptySet DEF Simulated, Selections
  <2>2. WorstLoss({}) = 0
    BY WorstLossOfResults, FS_EmptySet
  <2>3. QED BY <1>1, <2>1, <2>2, SimulatedResults, SumEmpty
<1>2. ASSUME bets # {} PROVE MatchOddsExposure(bets) = Sum(locks, bets)
  <2>1. PICK c \in bets : TRUE
    BY <1>2
  <2> DEFINE s == c.selection
  <2>2. Selections(bets) = {s}
    BY <2>1 DEF Selections
  <2>3. Simulated(bets) = {NetIfWins(bets, s), NetIfAllLose(bets)}
    BY <2>2, FS_Singleton DEF Simulated
  <2> DEFINE won == [b \in bets |-> Earns(b, b.selection = s)]
             lost == [b \in bets |-> Earns(b, FALSE)]
             L == Sum(locks, bets)
  <2>4. IsFiniteSet(bets) /\ \A b \in bets : won[b] \in Int /\ lost[b] \in Int /\ locks[b] \in Nat
    BY EarnsInteger DEF Book
  <2>5. L \in Nat
    BY <2>4, SumNatural
  <2>6. NetIfWins(bets, s) = Sum(won, bets) /\ NetIfAllLose(bets) = Sum(lost, bets)
    BY DEF NetIfWins, NetIfAllLose
  <2>7. \E r \in Simulated(bets) : r = -L
    <3>1. CASE c.side = "BACK"
      <4>1. \A b \in bets : locks[b] \in Int /\ lost[b] = -locks[b]
        BY <3>1, <2>4 DEF Earns
      <4>2. Sum(lost, bets) = -L
        <5> HIDE DEF lost
        <5>1. QED BY <4>1, <2>4, SumOpposite
      <4>3. QED BY <4>2, <2>3, <2>6
    <3>2. CASE c.side # "BACK"
      <4>1. \A b \in bets : locks[b] \in Int /\ won[b] = -locks[b]
        BY <3>2, <2>4 DEF Earns
      <4>2. Sum(won, bets) = -L
        <5> HIDE DEF won
        <5>1. QED BY <4>1, <2>4, SumOpposite
      <4>3. QED BY <4>2, <2>3, <2>6
    <3>3. QED BY <3>1, <3>2
  <2>8. \A r \in Simulated(bets) : -r <= L
    <3> DEFINE minus == [b \in bets |-> -locks[b]]
    <3>1. \A b \in bets : minus[b] \in Int /\ minus[b] <= won[b] /\ minus[b] <= lost[b]
      <4> SUFFICES ASSUME NEW b \in bets
                   PROVE  minus[b] \in Int /\ minus[b] <= won[b] /\ minus[b] <= lost[b]
        OBVIOUS
      <4>1. b.stake \in Nat /\ b.profit \in Nat /\ locks[b] \in Nat
        BY <2>4 DEF Book
      <4>2. CASE b.side = "BACK"
        BY <4>1, <4>2 DEF Earns
      <4>3. CASE b.side # "BACK"
        BY <4>1, <4>3 DEF Earns
      <4>4. QED BY <4>2, <4>3
    <3>2. Sum(minus, bets) = -L
      <4> HIDE DEF won, lost, L
      <4>1. \A b \in bets : locks[b] \in Int /\ minus[b] = -locks[b]
        BY <2>4
      <4> HIDE DEF minus
      <4> USE DEF L
      <4>2. QED BY <4>1, <2>4, SumOpposite
    <3>3. Sum(minus, bets) <= Sum(won, bets) /\ Sum(minus, bets) <= Sum(lost, bets)
      <4> HIDE DEF minus, won, lost
      <4>1. QED BY <3>1, <2>4, SumAtMost
    <3>4. Sum(won, bets) \in Int /\ Sum(lost, bets) \in Int
      BY <2>4, SumType
    <3> DEFINE p == Sum(won, bets)
               q == Sum(lost, bets)
    <3>5. -L <= p /\ -L <= q /\ p \in Int /\ q \in Int
      BY <3>2, <3>3, <3>4
    <3>6. \A r \in Simulated(bets) : r = p \/ r = q
      BY <2>3, <2>6
    <3> HIDE DEF L, p, q
    <3>7. QED BY <2>5, <3>5, <3>6
  <2>9. WorstLoss(Simulated(bets)) = L
    <3> DEFINE w == WorstLoss(Simulated(bets))
    <3>1. /\ w \in Nat /\ \A r \in Simulated(bets) : -r <= w
          /\ w = 0 \/ \E r \in Simulated(bets) : w = -r
      BY SimulatedResults, WorstLossOfResults
    <3> HIDE DEF w, L
    <3>2. L <= w
      BY <2>5, <2>7, <3>1
    <3>3. w <= L
      BY <2>5, <2>8, <3>1
    <3>4. w = L
      BY <2>5, <3>1, <3>2, <3>3
    <3>5. QED BY <3>4 DEF w
  <2>10. QED BY <2>9, SimulatedResults
<1>3. QED BY <1>1, <1>2
-----------------------------------------------------------------------------
(* Bookmaker *)

LEMMA SidesFinite ==
  ASSUME NEW bets, Book(bets)
  PROVE  /\ IsFiniteSet({b \in bets : b.side = "BACK"})
         /\ IsFiniteSet({b \in bets : b.side = "LAY"})
         /\ IsFiniteSet(bets)
<1>1. \A T \in SUBSET bets : IsFiniteSet(T)
  BY FS_Subset DEF Book
<1>2. QED BY <1>1

LEMMA BookmakerExposureNatural ==
  ASSUME NEW bets, Book(bets)
  PROVE  BookmakerExposure(bets) \in Nat
<1> DEFINE backs == {b \in bets : b.side = "BACK"}
           lays  == {b \in bets : b.side = "LAY"}
           stakes == [b \in backs |-> b.stake]
           profits == [b \in lays |-> b.profit]
<1>1. IsFiniteSet(backs) /\ IsFiniteSet(lays)
  BY SidesFinite
<1>2. Sum(stakes, backs) \in Int
  <2>1. \A b \in backs : stakes[b] \in Int
    BY DEF Book
  <2> HIDE DEF stakes, backs
  <2>2. QED BY <1>1, <2>1, SumType
<1>3. Sum(profits, lays) \in Int
  <2>1. \A b \in lays : profits[b] \in Int
    BY DEF Book
  <2> HIDE DEF profits, lays
  <2>2. QED BY <1>1, <2>1, SumType
<1>4. BookmakerExposure(bets) = Abs(Sum(stakes, backs) - Sum(profits, lays))
  BY DEF BookmakerExposure
<1> HIDE DEF backs, lays, stakes, profits
<1>5. QED BY <1>2, <1>3, <1>4 DEF Abs

\* Bets on one side of one selection: the services agree.
LEMMA OneSidedBookmaker ==
  ASSUME NEW bets, Book(bets),
         \A b, c \in bets : b.selection = c.selection /\ b.side = c.side
  PROVE  BookmakerExposure(bets) = MatchOddsExposure(bets)
<1> DEFINE backs == {b \in bets : b.side = "BACK"}
           lays  == {b \in bets : b.side = "LAY"}
           stakes == [b \in backs |-> b.stake]
           profits == [b \in lays |-> b.profit]
           locks == [b \in bets |-> IF b.side = "BACK" THEN b.stake ELSE b.profit]
<1>1. MatchOddsExposure(bets) = Sum(locks, bets)
  <2>1. \A b \in bets : locks[b] = IF b.side = "BACK" THEN b.stake ELSE b.profit
    OBVIOUS
  <2> HIDE DEF locks
  <2>2. QED BY <2>1, OneSidedExposure
<1>2. IsFiniteSet(bets) /\ \A b \in bets : locks[b] \in Nat
  BY DEF Book
<1>3. Sum(locks, bets) \in Nat
  <2> HIDE DEF locks
  <2>1. QED BY <1>2, SumNatural
<1>4. BookmakerExposure(bets) = Abs(Sum(stakes, backs) - Sum(profits, lays))
  BY DEF BookmakerExposure
<1>5. \/ backs = bets /\ lays = {}
      \/ backs = {} /\ lays = bets
  BY DEF Book
<1>6. CASE backs = bets /\ lays = {}
  <2>1. Sum(profits, lays) = 0
    BY <1>6, SumEmpty
  <2>2. \A b \in bets : locks[b] \in Int /\ locks[b] = stakes[b]
    BY <1>2, <1>6
  <2>3. Sum(locks, bets) = Sum(stakes, backs)
    <3> HIDE DEF locks, stakes, backs, lays
    <3>1. QED BY <1>2, <1>6, <2>2, SumEqual
  <2> HIDE DEF locks, stakes, profits, backs, lays
  <2>4. QED BY <1>1, <1>3, <1>4, <2>1, <2>3 DEF Abs
<1>7. CASE backs = {} /\ lays = bets
  <2>1. Sum(stakes, backs) = 0
    BY <1>7, SumEmpty
  <2>2. \A b \in bets : locks[b] \in Int /\ locks[b] = profits[b]
    BY <1>2, <1>7
  <2>3. Sum(locks, bets) = Sum(profits, lays)
    <3> HIDE DEF locks, profits, backs, lays
    <3>1. QED BY <1>2, <1>7, <2>2, SumEqual
  <2> HIDE DEF locks, stakes, profits, backs, lays
  <2>4. QED BY <1>1, <1>3, <1>4, <2>1, <2>3 DEF Abs
<1>8. QED BY <1>5, <1>6, <1>7

-----------------------------------------------------------------------------
(* Fancy *)

\* Finitely many bets on a number of runs.
LineBook(bets) ==
  /\ IsFiniteSet(bets)
  /\ \A b \in bets : b.win \in Nat /\ b.loss \in Nat /\ b.line \in Nat

LEMMA FancyPnlInteger ==
  ASSUME NEW bets, LineBook(bets), NEW runs
  PROVE  FancyPnl(bets, runs) \in Int
<1> DEFINE f == [b \in bets |-> FancyBetPnl(b, runs)]
<1>1. \A b \in bets : f[b] \in Int
  BY DEF LineBook, FancyBetPnl
<1> HIDE DEF f
<1>2. Sum(f, bets) \in Int
  BY <1>1, SumType DEF LineBook
<1>3. QED BY <1>2 DEF f, FancyPnl

\* Results over a set of outcomes that are possible.
LEMMA FancyResults ==
  ASSUME NEW bets, LineBook(bets), NEW O \in SUBSET (0 .. MaxOutcome)
  PROVE  LET R == {FancyPnl(bets, runs) : runs \in O} IN IsFiniteSet(R) /\ \A r \in R : r \in Int
<1> DEFINE f == [runs \in O |-> FancyPnl(bets, runs)]
           T == {f[runs] : runs \in O}
<1>1. IsFiniteSet(O)
  <2>1. IsFiniteSet(0 .. MaxOutcome)
    BY FS_Interval, MaxOutcomeAssumption
  <2>2. QED BY <2>1, FS_Subset
<1>2. IsFiniteSet(T)
  BY <1>1, ImageFinite
<1>3. T = {FancyPnl(bets, runs) : runs \in O}
  OBVIOUS
<1> HIDE DEF T, f
<1>4. QED BY <1>2, <1>3, FancyPnlInteger

LEMMA CandidatesPossible == \A bets : CandidateOutcomes(bets) \subseteq 0 .. MaxOutcome
BY MaxOutcomeAssumption DEF CandidateOutcomes

LEMMA FancyExposureNatural ==
  ASSUME NEW bets, LineBook(bets)
  PROVE  FancyExposure(bets) \in Nat
<1>1. CandidateOutcomes(bets) \in SUBSET (0 .. MaxOutcome)
  BY CandidatesPossible
<1>2. QED BY <1>1, FancyResults, WorstLossOfResults DEF FancyExposure

LEMMA NoFancyExposure == FancyExposure({}) = 0
<1> DEFINE R == {FancyPnl({}, runs) : runs \in CandidateOutcomes({})}
<1>1. \A r \in R : r = 0
  BY SumEmpty DEF FancyPnl
<1>2. IsFiniteSet(R)
  <2>1. LineBook({})
    BY FS_EmptySet DEF LineBook
  <2>2. CandidateOutcomes({}) \in SUBSET (0 .. MaxOutcome)
    BY CandidatesPossible
  <2>3. QED BY <2>1, <2>2, FancyResults
<1>3. WorstLoss(R) = 0
  <2> HIDE DEF R
  <2>1. WorstLoss(R) = 0 \/ \E r \in R : WorstLoss(R) = -r
    BY <1>1, <1>2, WorstLossOfResults
  <2>2. QED BY <1>1, <2>1
<1>4. QED BY <1>3 DEF FancyExposure

\* Every outcome has a candidate at which all bets fare alike: the greatest
\* line that is not above it, rounded up.
LEMMA CandidateForOutcome ==
  ASSUME NEW bets, LineBook(bets), NEW runs \in 0 .. MaxOutcome
  PROVE  \E c \in CandidateOutcomes(bets) :
           \A b \in bets : FancyBetPnl(b, c) = FancyBetPnl(b, runs)
<1> DEFINE below == {b \in bets : b.line <= 2 * runs}
<1>1. CASE below = {}
  <2>1. 0 \in CandidateOutcomes(bets)
    BY DEF CandidateOutcomes
  <2>2. ASSUME NEW b \in bets PROVE FancyBetPnl(b, 0) = FancyBetPnl(b, runs)
    <3>1. b.line \in Nat /\ ~(b.line <= 2 * runs)
      BY <1>1 DEF LineBook
    <3>2. ~(2 * 0 >= b.line) /\ 2 * 0 < b.line /\ ~(2 * runs >= b.line) /\ 2 * runs < b.line
      BY <3>1
    <3>3. QED BY <3>2 DEF FancyBetPnl
  <2>3. QED BY <2>1, <2>2
<1>2. CASE below # {}
  <2> DEFINE line == [b \in below |-> b.line]
             lines == {line[b] : b \in below}
  <2>1. IsFiniteSet(lines) /\ lines # {} /\ \A x \in lines : x \in Int
    <3>1. IsFiniteSet(below)
      BY FS_Subset DEF LineBook
    <3>2. IsFiniteSet(lines)
      BY <3>1, ImageFinite
    <3>3. QED BY <1>2, <3>2 DEF LineBook
  <2>2. PICK l \in lines : \A x \in lines : l >= x
    <3> HIDE DEF lines
    <3>1. QED BY <2>1, HasGreatest
  <2>3. PICK greatest \in below : l = greatest.line
    BY <2>2
  <2>4. l \in Nat /\ l <= 2 * runs /\ greatest \in bets
    BY <2>3 DEF LineBook
  <2>5. PICK c : c = (l + 1) \div 2
    OBVIOUS
  <2>6. c \in Int /\ l <= 2 * c /\ 2 * c <= l + 1
    BY <2>4, <2>5
  <2>7. c \in 0 .. MaxOutcome /\ 2 * c <= 2 * runs
    BY <2>4, <2>6, MaxOutcomeAssumption
  <2>8. c \in CandidateOutcomes(bets)
    <3>1. c \in c - 1 .. c + 1 /\ (greatest.line + 1) \div 2 = c
      BY <2>3, <2>5, <2>6
    <3>2. QED BY <2>4, <2>7, <3>1 DEF CandidateOutcomes
  <2>9. ASSUME NEW b \in bets PROVE FancyBetPnl(b, c) = FancyBetPnl(b, runs)
    <3>1. b.line \in Nat
      BY DEF LineBook
    <3>2. CASE b.line <= 2 * runs
      <4>1. b \in below /\ line[b] = b.line
        BY <3>2
      <4>2. l >= b.line
        BY <2>2, <4>1
      <4>3. 2 * c >= b.line /\ ~(2 * c < b.line) /\ 2 * runs >= b.line /\ ~(2 * runs < b.line)
        BY <2>4, <2>6, <3>1, <3>2, <4>2
      <4>4. QED BY <4>3 DEF FancyBetPnl
    <3>3. CASE ~(b.line <= 2 * runs)
      <4>1. ~(2 * c >= b.line) /\ 2 * c < b.line /\ ~(2 * runs >= b.line) /\ 2 * runs < b.line
        BY <2>6, <2>7, <3>1, <3>3
      <4>2. QED BY <4>1 DEF FancyBetPnl
    <3>4. QED BY <3>2, <3>3
  <2>10. QED BY <2>8, <2>9
<1>3. QED BY <1>1, <1>2

\* The candidates are enough: no outcome loses more than the worst of them.
LEMMA FancyExposureIsWorstLoss ==
  ASSUME NEW bets, LineBook(bets)
  PROVE  FancyExposure(bets) = WorstLoss({FancyPnl(bets, runs) : runs \in 0 .. MaxOutcome})
<1> DEFINE R == {FancyPnl(bets, runs) : runs \in CandidateOutcomes(bets)}
           S == {FancyPnl(bets, runs) : runs \in 0 .. MaxOutcome}
<1>1. IsFiniteSet(R) /\ \A r \in R : r \in Int
  <2>1. CandidateOutcomes(bets) \in SUBSET (0 .. MaxOutcome)
    BY CandidatesPossible
  <2>2. QED BY <2>1, FancyResults
<1>2. IsFiniteSet(S) /\ \A r \in S : r \in Int
  BY FancyResults
<1>3. R \subseteq S
  BY CandidatesPossible
<1>4. S \subseteq R
  <2> SUFFICES ASSUME NEW runs \in 0 .. MaxOutcome PROVE FancyPnl(bets, runs) \in R
    OBVIOUS
  <2>1. PICK c \in CandidateOutcomes(bets) :
          \A b \in bets : FancyBetPnl(b, c) = FancyBetPnl(b, runs)
    BY CandidateForOutcome
  <2>2. [b \in bets |-> FancyBetPnl(b, c)] = [b \in bets |-> FancyBetPnl(b, runs)]
    BY <2>1
  <2>3. FancyPnl(bets, c) = FancyPnl(bets, runs)
    BY <2>2 DEF FancyPnl
  <2>4. QED BY <2>3
<1>5. R = S
  BY <1>3, <1>4
<1>6. QED BY <1>5 DEF FancyExposure
=============================================================================
