----------------------------- MODULE SumLemmas -----------------------------
(***************************************************************************)
(* Facts about SumFunctionOnSet(f, S) for finite S: what it is for an      *)
(* empty set and when an element is peeled off or added, its type, and how *)
(* it changes with f; and that finitely many naturals have a least and a   *)
(* greatest.  Induction is by a smallest counterexample, which the         *)
(* well-founded order of strict inclusion provides.                        *)
(***************************************************************************)
EXTENDS Integers, Functions, FiniteSets, FiniteSetTheorems, WellFoundedInduction, TLAPS

\* The element the sum takes out of s first, and the equation of its recursion.
Pick(s) == CHOOSE x \in s : TRUE

SumStep(f, g, s) == IF s = {} THEN 0 ELSE f[Pick(s)] + g[s \ {Pick(s)}]

IsSum(g, f, S) == g = [s \in SUBSET S |-> SumStep(f, g, s)]

\* A set of finite sets has a member that contains no other.
LEMMA SmallestSet ==
  ASSUME NEW S, IsFiniteSet(S), NEW B, B \subseteq SUBSET S, B # {}
  PROVE  \E T \in B : \A U \in B : U \subseteq T => U = T
  <1>1. IsWellFoundedOn(StrictSubsetOrdering(S), SUBSET S)
    BY FS_StrictSubsetOrderingWellFounded, FS_FiniteSubsetsOfFinite
  <1>2. PICK T \in B : \A U \in B : ~ (<<U, T>> \in StrictSubsetOrdering(S))
    BY <1>1, WFMin
  <1> QED
    BY <1>2 DEF StrictSubsetOrdering

\* Of finitely many naturals one is the least and one the greatest.
LEMMA Extremes ==
  ASSUME NEW S, S \subseteq Nat, IsFiniteSet(S), S # {}
  PROVE  /\ \E m \in S : \A n \in S : m <= n
         /\ \E m \in S : \A n \in S : n <= m
  <1> DEFINE Ends(T) == /\ \E m \in T : \A n \in T : m <= n
                        /\ \E m \in T : \A n \in T : n <= m
             B == {T \in SUBSET S : T # {} /\ ~Ends(T)}
  <1> SUFFICES ASSUME B # {} PROVE FALSE
    BY DEF B
  <1>1. B \subseteq SUBSET S
    OBVIOUS
  <1>2. PICK T \in B : \A U \in B : U \subseteq T => U = T
    <2> HIDE DEF B, Ends
    <2>1. IsFiniteSet(S) /\ B \subseteq SUBSET S /\ B # {}
      BY <1>1
    <2> QED
      BY ONLY <2>1, SmallestSet
  <1>3. PICK e \in T : TRUE
    BY <1>2
  <1>4. T \subseteq Nat /\ e \in Nat /\ ~Ends(T)
    BY <1>2, <1>3
  <1>5. CASE T \ {e} = {}
    <2>1. \A n \in T : n = e
      BY <1>5
    <2> QED
      BY <1>3, <1>4, <2>1
  <1>6. CASE T \ {e} # {}
    <2>1. T \ {e} \notin B
      BY <1>2, <1>3
    <2>2. Ends(T \ {e})
      BY <1>2, <1>6, <2>1
    <2>3. PICK l \in T \ {e} : \A n \in T \ {e} : l <= n
      BY <2>2
    <2>4. PICK h \in T \ {e} : \A n \in T \ {e} : n <= h
      BY <2>2
    <2>5. \E m \in T : \A n \in T : m <= n
      <3>1. CASE l <= e
        BY <1>4, <2>3, <3>1
      <3>2. CASE ~(l <= e)
        BY <1>3, <1>4, <2>3, <3>2
      <3> QED
        BY <3>1, <3>2
    <2>6. \E m \in T : \A n \in T : n <= m
      <3>1. CASE e <= h
        BY <1>4, <2>4, <3>1
      <3>2. CASE ~(e <= h)
        BY <1>3, <1>4, <2>4, <3>2
      <3> QED
        BY <3>1, <3>2
    <2> QED
      BY <1>4, <2>5, <2>6
  <1> QED
    BY <1>5, <1>6

LEMMA SumUnfolds ==
  ASSUME NEW f, NEW S
  PROVE  SumFunctionOnSet(f, S) = (CHOOSE g : IsSum(g, f, S))[S]
  BY DEF SumFunctionOnSet, FoldFunctionOnSet, MapThenFoldSet, IsSum, SumStep, Pick

\* Two functions that obey the recursion agree where both are defined.
LEMMA SumUnique ==
  ASSUME NEW f, NEW S, IsFiniteSet(S), NEW T, NEW g, NEW h, IsSum(g, f, S), IsSum(h, f, T)
  PROVE  \A s \in SUBSET (S \cap T) : g[s] = h[s]
  <1> DEFINE B == {s \in SUBSET (S \cap T) : g[s] # h[s]}
  <1> SUFFICES ASSUME B # {} PROVE FALSE
    OBVIOUS
  <1>1. PICK s \in B : \A u \in B : u \subseteq s => u = s
    <2>1. B \subseteq SUBSET S
      OBVIOUS
    <2> HIDE DEF B
    <2> QED
      BY <2>1, SmallestSet
  <1> DEFINE u == s \ {Pick(s)}
  <1>2. s \in SUBSET S /\ s \in SUBSET T /\ u \in SUBSET (S \cap T)
    BY <1>1
  <1>3. g[s] = SumStep(f, g, s) /\ h[s] = SumStep(f, h, s)
    BY <1>2 DEF IsSum
  <1>4. CASE s = {}
    BY <1>1, <1>3, <1>4 DEF SumStep
  <1>5. CASE s # {}
    <2>1. Pick(s) \in s
      BY <1>5 DEF Pick
    <2>2. u \subseteq s /\ u # s
      BY <2>1
    <2>3. g[u] = h[u]
      BY <1>1, <1>2, <2>2
    <2> QED
      BY <1>1, <1>3, <1>5, <2>3 DEF SumStep
  <1> QED
    BY <1>4, <1>5

\* Such a function exists for every finite set.
LEMMA SumExists ==
  ASSUME NEW f, NEW S, IsFiniteSet(S)
  PROVE  \E g : IsSum(g, f, S)
  <1> DEFINE B == {T \in SUBSET S : ~ \E g : IsSum(g, f, T)}
  <1> SUFFICES ASSUME B # {} PROVE FALSE
    OBVIOUS
  <1>1. PICK T \in B : \A U \in B : U \subseteq T => U = T
    <2>1. B \subseteq SUBSET S
      OBVIOUS
    <2> HIDE DEF B
    <2> QED
      BY <2>1, SmallestSet
  <1> DEFINE part(U) == CHOOSE g : IsSum(g, f, U)
  <1> DEFINE V == T \ {Pick(T)}
  <1> DEFINE G == [s \in SUBSET T |-> IF s = T THEN SumStep(f, part(V), T) ELSE part(s)[s]]
  <1>2. \A U \in SUBSET T : U # T => IsSum(part(U), f, U) /\ IsFiniteSet(U)
    <2> SUFFICES ASSUME NEW U \in SUBSET T, U # T PROVE IsSum(part(U), f, U) /\ IsFiniteSet(U)
      OBVIOUS
    <2>1. U \in SUBSET S /\ U \notin B
      BY <1>1
    <2>2. \E g : IsSum(g, f, U)
      BY <2>1
    <2> HIDE DEF IsSum
    <2> QED
      BY <2>1, <2>2, FS_Subset
  <1>3. ASSUME NEW s \in SUBSET T PROVE G[s] = SumStep(f, G, s)
    <2>1. CASE s = T
      <3>1. CASE T = {}
        BY <2>1, <3>1 DEF SumStep
      <3>2. CASE T # {}
        <4>1. V \in SUBSET T /\ V # T
          BY <3>2 DEF Pick
        <4>2. G[V] = part(V)[V]
          BY <4>1
        <4> QED
          BY <2>1, <3>2, <4>2 DEF SumStep
      <3> QED
        BY <3>1, <3>2
    <2>2. CASE s # T
      <3> DEFINE u == s \ {Pick(s)}
      <3>1. u \in SUBSET T /\ u # T /\ u \in SUBSET s /\ s \in SUBSET s
        BY <2>2
      <3>2. IsSum(part(s), f, s) /\ IsSum(part(u), f, u) /\ IsFiniteSet(s) /\ IsFiniteSet(u)
        BY <1>2, <2>2, <3>1
      <3>3. part(s)[s] = SumStep(f, part(s), s)
        BY <3>2 DEF IsSum
      <3>4. part(u)[u] = part(s)[u]
        <4>1. u \in SUBSET (u \cap s)
          OBVIOUS
        <4> HIDE DEF part, u
        <4> QED
          BY <3>2, <4>1, SumUnique
      <3>5. G[u] = part(u)[u] /\ G[s] = part(s)[s]
        BY <2>2, <3>1
      <3> HIDE DEF part, G
      <3> QED
        BY <3>3, <3>4, <3>5 DEF SumStep
    <2> QED
      BY <2>1, <2>2
  <1>4. IsSum(G, f, T)
    <2>1. G = [s \in SUBSET T |-> G[s]]
      OBVIOUS
    <2> HIDE DEF G
    <2> QED
      BY <1>3, <2>1 DEF IsSum
  <1> QED
    BY <1>1, <1>4

LEMMA SumIsSum ==
  ASSUME NEW f, NEW S, IsFiniteSet(S)
  PROVE  IsSum(CHOOSE g : IsSum(g, f, S), f, S)
  <1> HIDE DEF IsSum
  <1> QED
    BY SumExists

\* The sum obeys its recursion.
LEMMA SumEmpty ==
  ASSUME NEW f
  PROVE  SumFunctionOnSet(f, {}) = 0
  <1>1. IsFiniteSet({}) /\ {} \in SUBSET {}
    BY FS_EmptySet
  <1> QED
    BY <1>1, SumUnfolds, SumIsSum DEF IsSum, SumStep

LEMMA SumPick ==
  ASSUME NEW f, NEW S, IsFiniteSet(S), S # {}
  PROVE  SumFunctionOnSet(f, S) = f[Pick(S)] + SumFunctionOnSet(f, S \ {Pick(S)})
  <1> DEFINE V == S \ {Pick(S)}
  <1> DEFINE g == CHOOSE g : IsSum(g, f, S)
  <1> DEFINE h == CHOOSE h : IsSum(h, f, V)
  <1>1. IsFiniteSet(V) /\ V \in SUBSET (S \cap V) /\ S \in SUBSET S
    BY FS_RemoveElement
  <1>2. IsSum(g, f, S) /\ IsSum(h, f, V)
    BY <1>1, SumIsSum
  <1>3. SumFunctionOnSet(f, S) = g[S] /\ SumFunctionOnSet(f, V) = h[V]
    BY SumUnfolds
  <1> HIDE DEF g, h
  <1>4. g[V] = h[V]
    BY <1>1, <1>2, SumUnique
  <1>5. g[S] = SumStep(f, g, S)
    BY <1>1, <1>2 DEF IsSum
  <1> QED
    BY <1>3, <1>4, <1>5 DEF SumStep

LEMMA SumType ==
  ASSUME NEW S, IsFiniteSet(S), NEW f, \A x \in S : f[x] \in Int
  PROVE  SumFunctionOnSet(f, S) \in Int
  <1> DEFINE B == {T \in SUBSET S : SumFunctionOnSet(f, T) \notin Int}
  <1> SUFFICES ASSUME B # {} PROVE FALSE
    BY DEF B
  <1>1. PICK T \in B : \A U \in B : U \subseteq T => U = T
    <2>1. B \subseteq SUBSET S
      OBVIOUS
    <2> HIDE DEF B
    <2> QED
      BY <2>1, SmallestSet
  <1>2. T # {}
    <2>1. SumFunctionOnSet(f, {}) = 0
      BY SumEmpty
    <2>2. SumFunctionOnSet(f, T) \notin Int /\ 0 \in Int
      BY <1>1
    <2> QED
      BY <2>1, <2>2, Zenon
  <1>3. IsFiniteSet(T) /\ Pick(T) \in T
    BY <1>1, <1>2, FS_Subset DEF Pick
  <1>4. SumFunctionOnSet(f, T \ {Pick(T)}) \in Int
    BY <1>1, <1>3
  <1>5. SumFunctionOnSet(f, T) = f[Pick(T)] + SumFunctionOnSet(f, T \ {Pick(T)})
    BY <1>2, <1>3, SumPick
  <1> QED
    BY <1>1, <1>3, <1>4, <1>5

\* Any element may be peeled off, not only the one the recursion picks.
LEMMA SumPeel ==
  ASSUME NEW S, IsFiniteSet(S), NEW f, \A x \in S : f[x] \in Int, NEW e \in S
  PROVE  SumFunctionOnSet(f, S) = f[e] + SumFunctionOnSet(f, S \ {e})
  <1> DEFINE Sum(T) == SumFunctionOnSet(f, T)
  <1> DEFINE B == {T \in SUBSET S : \E x \in T : Sum(T) # f[x] + Sum(T \ {x})}
  <1> HIDE DEF Sum
  <1> SUFFICES ASSUME B # {} PROVE FALSE
    BY DEF Sum
  <1>1. PICK T \in B : \A U \in B : U \subseteq T => U = T
    <2>1. B \subseteq SUBSET S
      OBVIOUS
    <2> HIDE DEF B
    <2> QED
      BY <2>1, SmallestSet
  <1>2. PICK x \in T : Sum(T) # f[x] + Sum(T \ {x})
    BY <1>1
  <1> DEFINE p == Pick(T)
  <1>3. IsFiniteSet(T) /\ p \in T /\ T \subseteq S
    BY <1>1, <1>2, FS_Subset DEF Pick
  <1>4. Sum(T) = f[p] + Sum(T \ {p})
    BY <1>2, <1>3, SumPick DEF Sum
  <1> HIDE DEF p
  <1>5. p # x
    BY <1>2, <1>4
  <1>6. Sum(T \ {p}) = f[x] + Sum((T \ {p}) \ {x})
    <2>1. T \ {p} \notin B /\ T \ {p} \in SUBSET S /\ x \in T \ {p}
      BY <1>1, <1>2, <1>3, <1>5
    <2> QED
      BY <2>1
  <1>7. Sum(T \ {x}) = f[p] + Sum((T \ {x}) \ {p})
    <2>1. T \ {x} \notin B /\ T \ {x} \in SUBSET S /\ p \in T \ {x}
      BY <1>1, <1>2, <1>3, <1>5
    <2> QED
      BY <2>1
  <1>8. (T \ {p}) \ {x} = (T \ {x}) \ {p}
    OBVIOUS
  <1>9. Sum((T \ {p}) \ {x}) \in Int
    <2>1. (T \ {p}) \ {x} \subseteq S /\ IsFiniteSet((T \ {p}) \ {x})
      BY <1>3, FS_RemoveElement
    <2> QED
      BY <2>1, SumType DEF Sum
  <1>10. f[p] \in Int /\ f[x] \in Int
    BY <1>2, <1>3
  <1>11. f[p] + (f[x] + Sum((T \ {p}) \ {x})) = f[x] + (f[p] + Sum((T \ {p}) \ {x}))
    BY <1>9, <1>10
  <1> QED
    BY <1>2, <1>4, <1>6, <1>7, <1>8, <1>11, Zenon

LEMMA SumAdd ==
  ASSUME NEW S, IsFiniteSet(S), NEW e, e \notin S, NEW f, \A x \in S \cup {e} : f[x] \in Int
  PROVE  SumFunctionOnSet(f, S \cup {e}) = f[e] + SumFunctionOnSet(f, S)
  <1>1. IsFiniteSet(S \cup {e}) /\ e \in S \cup {e} /\ (S \cup {e}) \ {e} = S
    BY FS_AddElement
  <1> QED
    BY <1>1, SumPeel

\* The sum depends on the values at its elements only.
LEMMA SumAgree ==
  ASSUME NEW S, IsFiniteSet(S), NEW f, NEW g, \A x \in S : f[x] = g[x]
  PROVE  SumFunctionOnSet(f, S) = SumFunctionOnSet(g, S)
  <1> DEFINE B == {T \in SUBSET S : SumFunctionOnSet(f, T) # SumFunctionOnSet(g, T)}
  <1> SUFFICES ASSUME B # {} PROVE FALSE
    BY DEF B
  <1>1. PICK T \in B : \A U \in B : U \subseteq T => U = T
    <2>1. B \subseteq SUBSET S
      OBVIOUS
    <2> HIDE DEF B
    <2> QED
      BY <2>1, SmallestSet
  <1>2. T # {}
    BY <1>1, SumEmpty
  <1>3. IsFiniteSet(T) /\ Pick(T) \in T
    BY <1>1, <1>2, FS_Subset DEF Pick
  <1>4. SumFunctionOnSet(f, T \ {Pick(T)}) = SumFunctionOnSet(g, T \ {Pick(T)})
    BY <1>1, <1>3
  <1>5. /\ SumFunctionOnSet(f, T) = f[Pick(T)] + SumFunctionOnSet(f, T \ {Pick(T)})
        /\ SumFunctionOnSet(g, T) = g[Pick(T)] + SumFunctionOnSet(g, T \ {Pick(T)})
    BY <1>2, <1>3, SumPick
  <1> QED
    BY <1>1, <1>3, <1>4, <1>5

\* A sum of sums, for the lines of a journal added to the balances of all accounts.
LEMMA SumPlus ==
  ASSUME NEW S, IsFiniteSet(S), NEW f, NEW g, NEW h,
         \A x \in S : f[x] \in Int /\ g[x] \in Int /\ h[x] = f[x] + g[x]
  PROVE  SumFunctionOnSet(h, S) = SumFunctionOnSet(f, S) + SumFunctionOnSet(g, S)
  <1> DEFINE F(T) == SumFunctionOnSet(f, T)
  <1> DEFINE G(T) == SumFunctionOnSet(g, T)
  <1> DEFINE H(T) == SumFunctionOnSet(h, T)
  <1> DEFINE B == {T \in SUBSET S : H(T) # F(T) + G(T)}
  <1> HIDE DEF F, G, H
  <1> SUFFICES ASSUME B # {} PROVE FALSE
    BY DEF F, G, H
  <1>1. PICK T \in B : \A U \in B : U \subseteq T => U = T
    <2>1. B \subseteq SUBSET S
      OBVIOUS
    <2> HIDE DEF B
    <2> QED
      BY <2>1, SmallestSet
  <1>2. T # {}
    <2>1. F({}) = 0 /\ G({}) = 0 /\ H({}) = 0
      BY SumEmpty DEF F, G, H
    <2>2. H(T) # F(T) + G(T) /\ 0 = 0 + 0
      BY <1>1
    <2> QED
      BY <2>1, <2>2, Zenon
  <1> DEFINE p == Pick(T)
  <1> DEFINE U == T \ {p}
  <1>3. IsFiniteSet(T) /\ p \in T /\ U \in SUBSET S /\ IsFiniteSet(U)
    BY <1>1, <1>2, FS_Subset DEF Pick
  <1>4. F(T) = f[p] + F(U) /\ G(T) = g[p] + G(U) /\ H(T) = h[p] + H(U)
    BY <1>2, <1>3, SumPick DEF F, G, H
  <1>5. F(U) \in Int /\ G(U) \in Int
    BY <1>3, SumType DEF F, G
  <1>6. H(U) = F(U) + G(U)
    BY <1>1, <1>3
  <1>7. f[p] \in Int /\ g[p] \in Int /\ h[p] = f[p] + g[p]
    BY <1>1, <1>3
  <1> HIDE DEF p
  <1> QED
    BY <1>1, <1>4, <1>5, <1>6, <1>7

\* A sum of zeros.
LEMMA SumZero ==
  ASSUME NEW S, IsFiniteSet(S), NEW f, \A x \in S : f[x] = 0
  PROVE  SumFunctionOnSet(f, S) = 0
  <1>1. \A x \in S : f[x] \in Int /\ f[x] = f[x] + f[x]
    OBVIOUS
  <1>2. SumFunctionOnSet(f, S) \in Int
    BY <1>1, SumType
  <1>3. SumFunctionOnSet(f, S) = SumFunctionOnSet(f, S) + SumFunctionOnSet(f, S)
    BY <1>1, SumPlus
  <1>4. \A n \in Int : n = n + n => n = 0
    OBVIOUS
  <1> QED
    BY <1>2, <1>3, <1>4, Zenon

\* Without negative values, a larger set has a larger sum.
LEMMA SumNat ==
  ASSUME NEW S, IsFiniteSet(S), NEW f, \A x \in S : f[x] \in Nat
  PROVE  SumFunctionOnSet(f, S) \in Nat
  <1> DEFINE B == {T \in SUBSET S : SumFunctionOnSet(f, T) \notin Nat}
  <1> SUFFICES ASSUME B # {} PROVE FALSE
    BY DEF B
  <1>1. PICK T \in B : \A U \in B : U \subseteq T => U = T
    <2>1. B \subseteq SUBSET S
      OBVIOUS
    <2> HIDE DEF B
    <2> QED
      BY <2>1, SmallestSet
  <1>2. T # {}
    <2>1. SumFunctionOnSet(f, {}) = 0
      BY SumEmpty
    <2>2. SumFunctionOnSet(f, T) \notin Nat /\ 0 \in Nat
      BY <1>1
    <2> QED
      BY <2>1, <2>2, Zenon
  <1>3. IsFiniteSet(T) /\ Pick(T) \in T
    BY <1>1, <1>2, FS_Subset DEF Pick
  <1>4. SumFunctionOnSet(f, T \ {Pick(T)}) \in Nat
    BY <1>1, <1>3
  <1>5. SumFunctionOnSet(f, T) = f[Pick(T)] + SumFunctionOnSet(f, T \ {Pick(T)})
    BY <1>2, <1>3, SumPick
  <1> QED
    BY <1>1, <1>3, <1>4, <1>5

LEMMA SumMonotone ==
  ASSUME NEW S, IsFiniteSet(S), NEW f, \A x \in S : f[x] \in Nat, NEW T \in SUBSET S
  PROVE  SumFunctionOnSet(f, T) <= SumFunctionOnSet(f, S)
  <1> DEFINE Sum(U) == SumFunctionOnSet(f, U)
  <1> DEFINE B == {U \in SUBSET S : T \subseteq U /\ ~ (Sum(T) <= Sum(U))}
  <1> HIDE DEF Sum
  <1> SUFFICES ASSUME B # {} PROVE FALSE
    BY DEF Sum
  <1>1. PICK U \in B : \A V \in B : V \subseteq U => V = U
    <2>1. B \subseteq SUBSET S
      OBVIOUS
    <2> HIDE DEF B
    <2> QED
      BY <2>1, SmallestSet
  <1>2. IsFiniteSet(T) /\ IsFiniteSet(U)
    BY <1>1, FS_Subset
  <1>3. \A V \in SUBSET S : Sum(V) \in Nat
    BY FS_Subset, SumNat DEF Sum
  <1>4. PICK e \in U : e \notin T
    <2>1. Sum(T) <= Sum(T)
      BY <1>3
    <2>2. U # T
      BY <1>1, <2>1
    <2> QED
      BY <1>1, <2>2
  <1>5. Sum(U) = f[e] + Sum(U \ {e})
    <2>1. \A x \in U : f[x] \in Int
      BY <1>1
    <2> QED
      BY <1>2, <1>4, <2>1, SumPeel DEF Sum
  <1>6. Sum(T) <= Sum(U \ {e})
    BY <1>1, <1>4
  <1> QED
    BY <1>1, <1>3, <1>4, <1>5, <1>6

\* A new value at one element.
LEMMA SumUpdate ==
  ASSUME NEW S, IsFiniteSet(S), NEW f, NEW g, NEW e \in S,
         \A x \in S : f[x] \in Int /\ g[x] \in Int,
         \A x \in S \ {e} : f[x] = g[x]
  PROVE  SumFunctionOnSet(g, S) = SumFunctionOnSet(f, S) - f[e] + g[e]
  <1>1. IsFiniteSet(S \ {e})
    BY FS_RemoveElement
  <1>2. /\ SumFunctionOnSet(f, S) = f[e] + SumFunctionOnSet(f, S \ {e})
        /\ SumFunctionOnSet(g, S) = g[e] + SumFunctionOnSet(g, S \ {e})
    BY SumPeel
  <1>3. SumFunctionOnSet(f, S \ {e}) = SumFunctionOnSet(g, S \ {e})
    BY <1>1, SumAgree
  <1>4. SumFunctionOnSet(f, S \ {e}) \in Int
    BY <1>1, SumType
  <1> QED
    BY <1>2, <1>3, <1>4

=============================================================================
