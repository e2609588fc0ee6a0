-------------------------------- MODULE Sums --------------------------------
(***************************************************************************)
(* Facts about SumFunctionOnSet, with which the quantities of an order, the *)
(* movements under way and the totals of a cart are defined: it obeys its  *)
(* equation, any element can be taken out first, and it depends on nothing *)
(* but the terms.                                                          *)
(*                                                                         *)
(* The induction is over the subsets of a finite set, in the form that a   *)
(* set of them holds, with each, one that has no proper subset in it.      *)
(***************************************************************************)
EXTENDS Integers, FiniteSets, Functions, TLAPS, WellFoundedInduction, FiniteSetTheorems

\* The element the sum takes first.
Chosen(S) == CHOOSE x \in S : TRUE

\* g holds the sums of f over the subsets of S.
IsSum(g, f, S) ==
  g = [s \in SUBSET S |-> IF s = {} THEN 0 ELSE f[Chosen(s)] + g[s \ {Chosen(s)}]]

\* What holds of a set of which it holds for the proper subsets holds of all
\* subsets of a finite set.
LEMMA SubsetInduction ==
  ASSUME NEW S, IsFiniteSet(S), NEW B,
         \A T \in SUBSET S : (\A U \in SUBSET T : U # T => U \in B) => T \in B
  PROVE  \A T \in SUBSET S : T \in B
<1>. DEFINE Bad == {T \in SUBSET S : T \notin B}
<1>1. SUFFICES ASSUME Bad # {} PROVE FALSE
  OBVIOUS
<1>2. FiniteSubsetsOf(S) = SUBSET S
  BY FS_FiniteSubsetsOfFinite
<1>3. IsWellFoundedOn(StrictSubsetOrdering(S), SUBSET S)
  BY <1>2, FS_StrictSubsetOrderingWellFounded
<1>4. Bad \subseteq SUBSET S
  OBVIOUS
<1>. HIDE DEF Bad
<1>5. PICK T \in Bad : \A U \in Bad : <<U, T>> \notin StrictSubsetOrdering(S)
  BY <1>1, <1>3, <1>4, WFMin
<1>6. \A U, V \in SUBSET S : U \subseteq V /\ U # V => <<U, V>> \in StrictSubsetOrdering(S)
  BY DEF StrictSubsetOrdering
<1>7. ASSUME NEW U \in SUBSET T, U # T
      PROVE  U \in B
  <2>1. T \in SUBSET S /\ U \in SUBSET S
    BY <1>4, <1>5
  <2>2. U \notin Bad
    BY <1>5, <1>6, <1>7, <2>1
  <2>. QED
    BY <2>1, <2>2 DEF Bad
<1>. QED
  BY <1>4, <1>5, <1>7 DEF Bad

\* Sums over one set agree, whatever larger set they are taken from.
LEMMA SumsAgree ==
  ASSUME NEW f, NEW S, NEW g, IsSum(g, f, S), NEW T, NEW h, IsSum(h, f, T),
         NEW U \in SUBSET S, U \subseteq T, IsFiniteSet(U)
  PROVE  g[U] = h[U]
<1>. DEFINE B == {V \in SUBSET U : g[V] = h[V]}
<1>1. ASSUME NEW V \in SUBSET U, \A W \in SUBSET V : W # V => W \in B
      PROVE  V \in B
  <2>1. CASE V = {}
    BY <2>1 DEF IsSum
  <2>2. CASE V # {}
    <3>1. Chosen(V) \in V
      BY <2>2 DEF Chosen
    <3>2. g[V \ {Chosen(V)}] = h[V \ {Chosen(V)}]
      BY <1>1, <3>1
    <3>3. g[V] = f[Chosen(V)] + g[V \ {Chosen(V)}] /\ h[V] = f[Chosen(V)] + h[V \ {Chosen(V)}]
      BY <2>2 DEF IsSum
    <3>. QED
      BY <3>2, <3>3
  <2>. QED
    BY <2>1, <2>2
<1>. HIDE DEF B
<1>2. U \in B
  BY <1>1, SubsetInduction
<1>. QED
  BY <1>2 DEF B

\* The recursion defines a function.
LEMMA SumsExist ==
  ASSUME NEW f, NEW S, IsFiniteSet(S)
  PROVE  \E g : IsSum(g, f, S)
<1>. DEFINE B == {T \in SUBSET S : \E g : IsSum(g, f, T)}
            H(s) == CHOOSE g : IsSum(g, f, s)
<1>1. ASSUME NEW T \in SUBSET S, \A U \in SUBSET T : U # T => U \in B
      PROVE  T \in B
  <2>. DEFINE G == [s \in SUBSET T |->
                      IF s = {} THEN 0 ELSE f[Chosen(s)] + H(s \ {Chosen(s)})[s \ {Chosen(s)}]]
  <2>1. \A s \in SUBSET T : s # T => IsSum(H(s), f, s)
    BY <1>1
  <2>. HIDE DEF H
  <2>2. ASSUME NEW s \in SUBSET T, s # T
        PROVE  G[s] = H(s)[s]
    <3>1. CASE s = {}
      BY <2>1, <2>2, <3>1 DEF IsSum
    <3>2. CASE s # {}
      <4>. DEFINE r == s \ {Chosen(s)}
      <4>1. Chosen(s) \in s
        BY <3>2 DEF Chosen
      <4>2. r # T /\ r \in SUBSET T /\ r \in SUBSET s
        BY <4>1
      <4>3. IsSum(H(s), f, s) /\ IsSum(H(r), f, r) /\ IsFiniteSet(r)
        BY <2>1, <2>2, <4>2, FS_Subset
      <4>4. H(s)[r] = H(r)[r]
        BY <4>2, <4>3, SumsAgree
      <4>5. H(s)[s] = f[Chosen(s)] + H(s)[r]
        BY <3>2, <4>3 DEF IsSum
      <4>. QED
        BY <3>2, <4>4, <4>5
    <3>. QED
      BY <3>1, <3>2
  <2>3. ASSUME NEW s \in SUBSET T
        PROVE  G[s] = IF s = {} THEN 0 ELSE f[Chosen(s)] + G[s \ {Chosen(s)}]
    <3>1. s # {} => s \ {Chosen(s)} # T /\ s \ {Chosen(s)} \in SUBSET T
      BY DEF Chosen
    <3>2. s # {} => G[s \ {Chosen(s)}] = H(s \ {Chosen(s)})[s \ {Chosen(s)}]
      BY <2>2, <3>1
    <3>. QED
      BY <3>2
  <2>4. IsSum(G, f, T)
    BY <2>3 DEF IsSum
  <2>. QED
    BY <2>4
<1>. HIDE DEF B
<1>2. S \in B
  BY <1>1, SubsetInduction
<1>. QED
  BY <1>2 DEF B

\* The sum obeys its defining equation.
LEMMA SumEquation ==
  ASSUME NEW f, NEW S, IsFiniteSet(S)
  PROVE  SumFunctionOnSet(f, S) =
           IF S = {} THEN 0
           ELSE f[Chosen(S)] + SumFunctionOnSet(f, S \ {Chosen(S)})
<1>. DEFINE H(s) == CHOOSE g : IsSum(g, f, s)
            r == S \ {Chosen(S)}
<1>1. \A s : SumFunctionOnSet(f, s) = H(s)[s]
  BY DEF SumFunctionOnSet, FoldFunctionOnSet, MapThenFoldSet, IsSum, Chosen
<1>2. IsFiniteSet(r) /\ r \in SUBSET S
  BY FS_RemoveElement
<1>3. IsSum(H(S), f, S) /\ IsSum(H(r), f, r)
  BY <1>2, SumsExist
<1>. HIDE DEF H
<1>4. H(S)[r] = H(r)[r]
  BY <1>2, <1>3, SumsAgree
<1>5. H(S)[S] = IF S = {} THEN 0 ELSE f[Chosen(S)] + H(S)[r]
  BY <1>3 DEF IsSum
<1>. QED
  BY <1>1, <1>4, <1>5

LEMMA SumEmpty ==
  ASSUME NEW f
  PROVE  SumFunctionOnSet(f, {}) = 0
  BY SumEquation, FS_EmptySet

\* A sum of integers is one.
LEMMA SumInt ==
  ASSUME NEW S, IsFiniteSet(S), NEW f, \A x \in S : f[x] \in Int
  PROVE  SumFunctionOnSet(f, S) \in Int
<1>. DEFINE B == {T \in SUBSET S : SumFunctionOnSet(f, T) \in Int}
<1>1. ASSUME NEW T \in SUBSET S, \A U \in SUBSET T : U # T => U \in B
      PROVE  T \in B
  <2>1. IsFiniteSet(T)
    BY FS_Subset
  <2>2. CASE T = {}
    BY <2>2, SumEmpty
  <2>3. CASE T # {}
    <3>1. Chosen(T) \in T
      BY <2>3 DEF Chosen
    <3>2. SumFunctionOnSet(f, T \ {Chosen(T)}) \in Int
      BY <1>1, <3>1
    <3>3. SumFunctionOnSet(f, T) = f[Chosen(T)] + SumFunctionOnSet(f, T \ {Chosen(T)})
      BY <2>1, <2>3, SumEquation
    <3>4. f[Chosen(T)] \in Int
      BY <3>1
    <3>. QED
      BY <3>2, <3>3, <3>4
  <2>. QED
    BY <2>2, <2>3
<1>. HIDE DEF B
<1>2. S \in B
  BY <1>1, SubsetInduction
<1>. QED
  BY <1>2 DEF B

\* Any element may be taken out first.
LEMMA SumRemove ==
  ASSUME NEW S, IsFiniteSet(S), NEW f, \A x \in S : f[x] \in Int, NEW x \in S
  PROVE  SumFunctionOnSet(f, S) = f[x] + SumFunctionOnSet(f, S \ {x})
<1>. DEFINE Sum(T) == SumFunctionOnSet(f, T)
            B == {T \in SUBSET S : \A y \in T : Sum(T) = f[y] + Sum(T \ {y})}
<1>1. \A T \in SUBSET S : IsFiniteSet(T) /\ Sum(T) \in Int
  BY FS_Subset, SumInt
<1>2. \A T \in SUBSET S : T # {} => Chosen(T) \in T /\ Sum(T) = f[Chosen(T)] + Sum(T \ {Chosen(T)})
  BY <1>1, SumEquation DEF Chosen
<1>. HIDE DEF Sum
<1>3. ASSUME NEW T \in SUBSET S, \A U \in SUBSET T : U # T => U \in B
      PROVE  T \in B
  <2>. SUFFICES ASSUME NEW y \in T, y # Chosen(T) PROVE Sum(T) = f[y] + Sum(T \ {y})
    BY <1>2
  <2>. DEFINE c == Chosen(T)
              R == T \ {y, c}
  <2>1. c \in T /\ Sum(T) = f[c] + Sum(T \ {c})
    BY <1>2
  <2>. HIDE DEF c
  <2>2. T \ {c} \in B /\ T \ {y} \in B
    BY <1>3, <2>1
  <2>3. (T \ {c}) \ {y} = R /\ (T \ {y}) \ {c} = R /\ y \in T \ {c} /\ c \in T \ {y}
    BY <2>1 DEF c
  <2>4. Sum(T \ {c}) = f[y] + Sum(R)
    BY <2>2, <2>3
  <2>5. Sum(T \ {y}) = f[c] + Sum(R)
    BY <2>2, <2>3
  <2>6. f[y] \in Int /\ f[c] \in Int /\ Sum(R) \in Int
    BY <1>1, <2>1
  <2>. QED
    BY <2>1, <2>4, <2>5, <2>6
<1>. HIDE DEF B
<1>4. S \in B
  BY <1>3, SubsetInduction
<1>. QED
  BY <1>4 DEF B, Sum

LEMMA SumAdd ==
  ASSUME NEW S, IsFiniteSet(S), NEW f, NEW x, x \notin S, \A y \in S \cup {x} : f[y] \in Int
  PROVE  SumFunctionOnSet(f, S \cup {x}) = SumFunctionOnSet(f, S) + f[x]
<1>1. IsFiniteSet(S \cup {x}) /\ (S \cup {x}) \ {x} = S
  BY FS_AddElement
<1>2. SumFunctionOnSet(f, S \cup {x}) = f[x] + SumFunctionOnSet(f, (S \cup {x}) \ {x})
  BY <1>1, SumRemove
<1>3. SumFunctionOnSet(f, S \cup {x}) = f[x] + SumFunctionOnSet(f, S)
  BY <1>1, <1>2
<1>4. SumFunctionOnSet(f, S) \in Int /\ f[x] \in Int
  BY SumInt
<1>. QED
  BY <1>3, <1>4

\* A sum depends on its terms only.
LEMMA SumSame ==
  ASSUME NEW S, IsFiniteSet(S), NEW f, NEW g, \A x \in S : f[x] = g[x]
  PROVE  SumFunctionOnSet(f, S) = SumFunctionOnSet(g, S)
<1>. DEFINE B == {T \in SUBSET S : SumFunctionOnSet(f, T) = SumFunctionOnSet(g, T)}
<1>1. ASSUME NEW T \in SUBSET S, \A U \in SUBSET T : U # T => U \in B
      PROVE  T \in B
  <2>1. IsFiniteSet(T)
    BY FS_Subset
  <2>2. CASE T = {}
    BY <2>2, SumEmpty
  <2>3. CASE T # {}
    <3>1. Chosen(T) \in T
      BY <2>3 DEF Chosen
    <3>2. SumFunctionOnSet(f, T \ {Chosen(T)}) = SumFunctionOnSet(g, T \ {Chosen(T)})
      BY <1>1, <3>1
    <3>3. SumFunctionOnSet(f, T) = f[Chosen(T)] + SumFunctionOnSet(f, T \ {Chosen(T)})
      BY <2>1, <2>3, SumEquation
    <3>4. SumFunctionOnSet(g, T) = g[Chosen(T)] + SumFunctionOnSet(g, T \ {Chosen(T)})
      BY <2>1, <2>3, SumEquation
    <3>5. f[Chosen(T)] = g[Chosen(T)]
      BY <3>1
    <3>. QED
      BY <3>2, <3>3, <3>4, <3>5
  <2>. QED
    BY <2>2, <2>3
<1>. HIDE DEF B
<1>2. S \in B
  BY <1>1, SubsetInduction
<1>. QED
  BY <1>2 DEF B

\* A sum of natural numbers is one, and none of its terms exceeds it.
LEMMA SumNat ==
  ASSUME NEW S, IsFiniteSet(S), NEW f, \A x \in S : f[x] \in Nat
  PROVE  /\ SumFunctionOnSet(f, S) \in Nat
         /\ \A x \in S : f[x] <= SumFunctionOnSet(f, S)
<1>. DEFINE B == {T \in SUBSET S : SumFunctionOnSet(f, T) \in Nat}
<1>1. ASSUME NEW T \in SUBSET S, \A U \in SUBSET T : U # T => U \in B
      PROVE  T \in B
  <2>1. IsFiniteSet(T)
    BY FS_Subset
  <2>2. CASE T = {}
    BY <2>2, SumEmpty
  <2>3. CASE T # {}
    <3>1. Chosen(T) \in T /\ f[Chosen(T)] \in Nat
      BY <2>3 DEF Chosen
    <3>2. SumFunctionOnSet(f, T \ {Chosen(T)}) \in Nat
      BY <1>1, <3>1
    <3>3. SumFunctionOnSet(f, T) = f[Chosen(T)] + SumFunctionOnSet(f, T \ {Chosen(T)})
      BY <2>1, <2>3, SumEquation
    <3>. QED
      BY <3>1, <3>2, <3>3
  <2>. QED
    BY <2>2, <2>3
<1>. HIDE DEF B
<1>2. \A T \in SUBSET S : T \in B
  BY <1>1, SubsetInduction
<1>3. ASSUME NEW x \in S
      PROVE  f[x] <= SumFunctionOnSet(f, S)
  <2>1. SumFunctionOnSet(f, S) = f[x] + SumFunctionOnSet(f, S \ {x})
    BY SumRemove
  <2>2. SumFunctionOnSet(f, S \ {x}) \in Nat
    BY <1>2 DEF B
  <2>. QED
    BY <2>1, <2>2
<1>. QED
  BY <1>2, <1>3 DEF B
=============================================================================
