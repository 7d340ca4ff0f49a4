-------------------------------- MODULE Sums --------------------------------
(***************************************************************************)
(* Facts about SumFunctionOnSet, the sum of the values a function has on a *)
(* finite set.  The library defines it by a fold: a function chosen on the *)
(* subsets of the set.  A fact about all finite sets is proved here by way of a *)
(* smallest subset it fails for: strict inclusion is well founded on the   *)
(* subsets of a finite set (FiniteSetTheorems), and taking one element out *)
(* of the smallest one gives a subset the fact holds for.                  *)
(***************************************************************************)
EXTENDS Functions, FiniteSetTheorems, TLAPS

\* The element the fold takes first.
AnElement(s) == CHOOSE x \in s : TRUE

\* g gives every subset of S its sum, the way the fold computes it.
IsSum(g, f, S) ==
  g = [s \in SUBSET S |-> IF s = {} THEN 0 ELSE f[AnElement(s)] + g[s \ {AnElement(s)}]]

\* The function the fold chooses.
TheSum(f, S) == CHOOSE g : IsSum(g, f, S)

\* The sum is what the chosen function gives for the whole set.
LEMMA SumIsChosen ==
  ASSUME NEW f, NEW S
  PROVE  SumFunctionOnSet(f, S) = TheSum(f, S)[S]
BY DEF SumFunctionOnSet, FoldFunctionOnSet, MapThenFoldSet, TheSum, IsSum, AnElement

\* Among sets of subsets of a finite set there is one with no smaller one.
LEMMA SmallestSet ==
  ASSUME NEW S, IsFiniteSet(S), NEW B, B \subseteq SUBSET S, B # {}
  PROVE  \E T \in B : \A U \in SUBSET T : U # T => U \notin B
<1>1. IsWellFoundedOn(StrictSubsetOrdering(S), SUBSET S)
  BY FS_StrictSubsetOrderingWellFounded, FS_FiniteSubsetsOfFinite, Zenon
<1>2. PICK T \in B : \A U \in B : ~(<<U, T>> \in StrictSubsetOrdering(S))
  BY <1>1, WFMin
<1> QED BY <1>2, Zenon DEF StrictSubsetOrdering

\* A set that is not empty has the element the fold takes.
LEMMA AnElementOf == ASSUME NEW s, s # {} PROVE AnElement(s) \in s
BY DEF AnElement

\* Two functions that sum the same values agree where both are defined.
LEMMA SumUnique ==
  ASSUME NEW f, NEW S, IsFiniteSet(S), NEW T \in SUBSET S, NEW g, NEW h,
         IsSum(g, f, S), IsSum(h, f, T)
  PROVE  \A s \in SUBSET T : g[s] = h[s]
<1> DEFINE B == {s \in SUBSET T : g[s] # h[s]}
<1> SUFFICES ASSUME B # {} PROVE FALSE
  OBVIOUS
<1>1. PICK s \in B : \A u \in SUBSET s : u # s => u \notin B
  <2>1. IsFiniteSet(T) /\ B \subseteq SUBSET T
    BY FS_Subset
  <2> HIDE DEF B
  <2> QED BY <2>1, SmallestSet
<1>2. CASE s = {}
  BY <1>2 DEF IsSum
<1>3. CASE s # {}
  <2>1. AnElement(s) \in s
    BY <1>3, AnElementOf
  <2>2. s \ {AnElement(s)} \notin B
    BY <1>1, <2>1
  <2>3. g[s \ {AnElement(s)}] = h[s \ {AnElement(s)}]
    BY <2>2
  <2>4. g[s] = f[AnElement(s)] + g[s \ {AnElement(s)}]
    BY <1>3, Zenon DEF IsSum
  <2>5. h[s] = f[AnElement(s)] + h[s \ {AnElement(s)}]
    BY <1>3, Zenon DEF IsSum
  <2> QED BY <2>3, <2>4, <2>5
<1> QED BY <1>2, <1>3

\* There is such a function, so the chosen one is it.
LEMMA SumExists ==
  ASSUME NEW f, NEW S, IsFiniteSet(S)
  PROVE  IsSum(TheSum(f, S), f, S)
<1> DEFINE B == {T \in SUBSET S : ~\E g : IsSum(g, f, T)}
<1>1. SUFFICES ASSUME B # {} PROVE FALSE
  BY DEF TheSum
<1>2. PICK T \in B : \A U \in SUBSET T : U # T => U \notin B
  <2>1. B \subseteq SUBSET S
    OBVIOUS
  <2> HIDE DEF B
  <2> QED BY <1>1, <2>1, SmallestSet
<1>3. \A U \in SUBSET T : U # T => IsSum(TheSum(f, U), f, U)
  BY <1>2 DEF TheSum
<1> DEFINE c == AnElement(T)
           R == T \ {c}
           g == [s \in SUBSET T |-> IF s = T THEN IF T = {} THEN 0 ELSE f[c] + TheSum(f, R)[R]
                                    ELSE TheSum(f, s)[s]]
<1>4. ASSUME NEW s \in SUBSET T, s # T, s # {}
      PROVE  g[s] = f[AnElement(s)] + g[s \ {AnElement(s)}]
  <2> DEFINE a == AnElement(s)
             r == s \ {a}
  <2>1. a \in s
    BY <1>4, AnElementOf
  <2>2. r \in SUBSET s /\ r \in SUBSET T /\ r # T
    BY <1>4, <2>1
  <2>3. IsSum(TheSum(f, s), f, s) /\ IsSum(TheSum(f, r), f, r)
    BY <1>3, <1>4, <2>2
  <2>4. IsFiniteSet(s)
    BY FS_Subset
  <2>5. TheSum(f, s)[r] = TheSum(f, r)[r]
    BY <2>2, <2>3, <2>4, SumUnique
  <2>6. TheSum(f, s)[s] = f[a] + TheSum(f, s)[r]
    BY <2>3, <1>4, Zenon DEF IsSum
  <2> QED BY <2>5, <2>6, <2>2, <1>4
<1>5. T # {} => g[T] = f[c] + g[R]
  <2>1. T # {} => R \in SUBSET T /\ R # T
    BY AnElementOf
  <2> QED BY <2>1
<1>6. IsSum(g, f, T)
  <2>1. \A s \in SUBSET T : g[s] = IF s = {} THEN 0 ELSE f[AnElement(s)] + g[s \ {AnElement(s)}]
    <3>1. TAKE s \in SUBSET T
    <3>2. CASE s = T
      BY <3>2, <1>5
    <3>3. CASE s # T /\ s # {}
      BY <3>3, <1>4, Zenon
    <3>4. CASE s # T /\ s = {}
      BY <3>4, <1>3, Zenon DEF IsSum
    <3> QED BY <3>2, <3>3, <3>4
  <2> HIDE DEF g
  <2>2. g = [s \in SUBSET T |-> g[s]]
    BY DEF g
  <2> QED BY <2>1, <2>2, Zenon DEF IsSum
<1> QED BY <1>6, <1>2

\* The sum over no element is 0.
LEMMA SumEmpty == ASSUME NEW f PROVE SumFunctionOnSet(f, {}) = 0
<1>1. IsSum(TheSum(f, {}), f, {})
  BY SumExists, FS_EmptySet
<1> QED BY <1>1, SumIsChosen, Zenon DEF IsSum

\* The function chosen for a set gives the sums of its subsets.
LEMMA SumOfPart ==
  ASSUME NEW f, NEW S, IsFiniteSet(S), NEW T \in SUBSET S
  PROVE  TheSum(f, S)[T] = SumFunctionOnSet(f, T)
<1>1. IsFiniteSet(T)
  BY FS_Subset
<1>2. IsSum(TheSum(f, S), f, S) /\ IsSum(TheSum(f, T), f, T)
  BY <1>1, SumExists
<1>3. TheSum(f, S)[T] = TheSum(f, T)[T]
  BY <1>2, SumUnique
<1> QED BY <1>3, SumIsChosen

\* The sum is the first value and the sum of the others.
LEMMA SumOfFirst ==
  ASSUME NEW f, NEW S, IsFiniteSet(S), S # {}
  PROVE  SumFunctionOnSet(f, S) = f[AnElement(S)] + SumFunctionOnSet(f, S \ {AnElement(S)})
<1> DEFINE R == S \ {AnElement(S)}
<1>1. IsSum(TheSum(f, S), f, S)
  BY SumExists
<1>4. TheSum(f, S)[R] = SumFunctionOnSet(f, R) /\ TheSum(f, S)[S] = SumFunctionOnSet(f, S)
  BY SumOfPart
<1>5. TheSum(f, S)[S] = f[AnElement(S)] + TheSum(f, S)[R]
  BY <1>1, Zenon DEF IsSum
<1> QED BY <1>4, <1>5

\* A sum of integers is an integer.
LEMMA SumType ==
  ASSUME NEW f, NEW S, IsFiniteSet(S), \A x \in S : f[x] \in Int
  PROVE  SumFunctionOnSet(f, S) \in Int
<1> DEFINE B == {T \in SUBSET S : SumFunctionOnSet(f, T) \notin Int}
<1>1. SUFFICES ASSUME B # {} PROVE FALSE
  OBVIOUS
<1>2. PICK T \in B : \A U \in SUBSET T : U # T => U \notin B
  <2>1. B \subseteq SUBSET S
    OBVIOUS
  <2> HIDE DEF B
  <2> QED BY <1>1, <2>1, SmallestSet
<1>3. T # {}
  BY SumEmpty
<1>4. AnElement(T) \in T
  BY <1>3, AnElementOf
<1>5. SumFunctionOnSet(f, T \ {AnElement(T)}) \in Int
  BY <1>2, <1>4
<1>6. SumFunctionOnSet(f, T) = f[AnElement(T)] + SumFunctionOnSet(f, T \ {AnElement(T)})
  BY <1>3, SumOfFirst, FS_Subset
<1> QED BY <1>4, <1>5, <1>6

\* Any element may be the one that is taken first.
LEMMA SumTakeOut ==
  ASSUME NEW f, NEW S, IsFiniteSet(S), \A x \in S : f[x] \in Int
  PROVE  \A y \in S : SumFunctionOnSet(f, S) = f[y] + SumFunctionOnSet(f, S \ {y})
<1> DEFINE Out(T, y) == SumFunctionOnSet(f, T) = f[y] + SumFunctionOnSet(f, T \ {y})
           B == {T \in SUBSET S : ~\A y \in T : Out(T, y)}
<1>1. SUFFICES ASSUME B # {} PROVE FALSE
  OBVIOUS
<1>2. PICK T \in B : \A U \in SUBSET T : U # T => U \notin B
  <2>1. B \subseteq SUBSET S
    OBVIOUS
  <2> HIDE DEF B
  <2> QED BY <1>1, <2>1, SmallestSet
<1>3. PICK y \in T : ~Out(T, y)
  BY Zenon
<1> DEFINE c == AnElement(T)
<1>4. c \in T
  BY AnElementOf
<1>5. IsFiniteSet(T)
  BY FS_Subset
<1>6. Out(T, c)
  BY <1>5, SumOfFirst
<1>7. y # c
  BY <1>3, <1>6
<1>8. Out(T \ {c}, y) /\ Out(T \ {y}, c)
  <2>1. T \ {c} \notin B /\ T \ {y} \notin B
    BY <1>2, <1>4
  <2> QED BY <2>1, <1>4, <1>7, Zenon
<1>9. (T \ {c}) \ {y} = (T \ {y}) \ {c}
  OBVIOUS
<1>10. SumFunctionOnSet(f, (T \ {y}) \ {c}) \in Int
  BY <1>5, FS_Subset, SumType
<1>11. f[c] \in Int /\ f[y] \in Int
  BY <1>4
<1>12. Out(T, y)
  <2>1. SumFunctionOnSet(f, T) = f[c] + (f[y] + SumFunctionOnSet(f, (T \ {y}) \ {c}))
    BY <1>6, <1>8, <1>9, Zenon
  <2>2. SumFunctionOnSet(f, T \ {y}) = f[c] + SumFunctionOnSet(f, (T \ {y}) \ {c})
    BY <1>8
  <2> HIDE DEF c
  <2> QED BY <2>1, <2>2, <1>10, <1>11
<1> QED BY <1>3, <1>12

\* One element more adds its value.
LEMMA SumAdd ==
  ASSUME NEW f, NEW S, IsFiniteSet(S), NEW y, y \notin S, \A x \in S \cup {y} : f[x] \in Int
  PROVE  SumFunctionOnSet(f, S \cup {y}) = f[y] + SumFunctionOnSet(f, S)
<1>1. IsFiniteSet(S \cup {y}) /\ (S \cup {y}) \ {y} = S
  BY FS_AddElement
<1> QED BY <1>1, SumTakeOut

\* Sums of the same terms are the same.
LEMMA SumSame ==
  ASSUME NEW f, NEW g, NEW S, IsFiniteSet(S), \A x \in S : f[x] = g[x]
  PROVE  SumFunctionOnSet(f, S) = SumFunctionOnSet(g, S)
<1> DEFINE B == {T \in SUBSET S : SumFunctionOnSet(f, T) # SumFunctionOnSet(g, T)}
<1>1. SUFFICES ASSUME B # {} PROVE FALSE
  OBVIOUS
<1>2. PICK T \in B : \A U \in SUBSET T : U # T => U \notin B
  <2>1. B \subseteq SUBSET S
    OBVIOUS
  <2> HIDE DEF B
  <2> QED BY <1>1, <2>1, SmallestSet
<1>3. T # {}
  BY SumEmpty
<1>4. AnElement(T) \in T /\ IsFiniteSet(T)
  BY <1>3, AnElementOf, FS_Subset
<1>5. T \ {AnElement(T)} \notin B
  BY <1>2, <1>4
<1> QED BY <1>3, <1>4, <1>5, SumOfFirst

\* With terms that are not negative, a sum over fewer elements is not larger.
LEMMA SumGrows ==
  ASSUME NEW f, NEW S, IsFiniteSet(S), NEW T \in SUBSET S, \A x \in S : f[x] \in Nat
  PROVE  /\ SumFunctionOnSet(f, T) \in Nat
         /\ SumFunctionOnSet(f, T) <= SumFunctionOnSet(f, S)
<1>1. ASSUME NEW U \in SUBSET S
      PROVE  SumFunctionOnSet(f, U) \in Nat
  <2> DEFINE B == {V \in SUBSET U : SumFunctionOnSet(f, V) \notin Nat}
  <2>1. SUFFICES ASSUME B # {} PROVE FALSE
    OBVIOUS
  <2>2. PICK V \in B : \A W \in SUBSET V : W # V => W \notin B
    <3>1. B \subseteq SUBSET S
      OBVIOUS
    <3> HIDE DEF B
    <3> QED BY <2>1, <3>1, SmallestSet
  <2>3. V # {}
    BY SumEmpty
  <2>4. AnElement(V) \in V /\ IsFiniteSet(V)
    BY <2>3, AnElementOf, FS_Subset
  <2>5. SumFunctionOnSet(f, V \ {AnElement(V)}) \in Nat
    BY <2>2, <2>4
  <2> QED BY <2>3, <2>4, <2>5, SumOfFirst
<1> DEFINE B == {U \in SUBSET S : T \subseteq U /\ SumFunctionOnSet(f, T) > SumFunctionOnSet(f, U)}
<1>2. ASSUME B # {} PROVE FALSE
  <2>1. PICK U \in B : \A V \in SUBSET U : V # U => V \notin B
    <3>1. B \subseteq SUBSET S
      OBVIOUS
    <3> HIDE DEF B
    <3> QED BY <1>2, <3>1, SmallestSet
  <2>2. SumFunctionOnSet(f, T) \in Nat /\ SumFunctionOnSet(f, U) \in Nat
    BY <1>1
  <2>3. U # T
    BY <2>2
  <2>4. PICK y \in U : y \notin T
    BY <2>3
  <2>5. SumFunctionOnSet(f, U) = f[y] + SumFunctionOnSet(f, U \ {y})
    BY FS_Subset, SumTakeOut
  <2>6. U \ {y} \notin B
    BY <2>1, <2>4
  <2>7. SumFunctionOnSet(f, U \ {y}) \in Nat /\ T \subseteq U \ {y} /\ U \ {y} \in SUBSET S
    BY <1>1, <2>4
  <2>8. SumFunctionOnSet(f, T) <= SumFunctionOnSet(f, U \ {y})
    BY <2>2, <2>6, <2>7
  <2> QED BY <2>2, <2>5, <2>7, <2>8
<1> QED BY <1>1, <1>2

\* A sum is that over the images when the elements are mapped one to one.
LEMMA SumMapped ==
  ASSUME NEW f, NEW g, NEW S, NEW T, IsFiniteSet(S), NEW m \in Bijection(S, T),
         \A x \in S : f[x] \in Int /\ g[m[x]] = f[x]
  PROVE  SumFunctionOnSet(f, S) = SumFunctionOnSet(g, T)
<1> DEFINE Image(U) == {m[x] : x \in U}
           B == {U \in SUBSET S : SumFunctionOnSet(f, U) # SumFunctionOnSet(g, Image(U))}
<1>1. /\ m \in [S -> T]
      /\ \A x, y \in S : m[x] = m[y] => x = y
      /\ Image(S) = T
  BY DEF Bijection, Injection, Surjection, IsInjective
<1>2. SUFFICES ASSUME B # {} PROVE FALSE
  BY <1>1, Zenon
<1>3. PICK U \in B : \A V \in SUBSET U : V # U => V \notin B
  <2>1. B \subseteq SUBSET S
    OBVIOUS
  <2> HIDE DEF B
  <2> QED BY <1>2, <2>1, SmallestSet
<1>4. U # {}
  BY SumEmpty
<1> DEFINE c == AnElement(U)
<1>5. c \in U /\ IsFiniteSet(U)
  BY <1>4, AnElementOf, FS_Subset
<1>6. SumFunctionOnSet(f, U \ {c}) = SumFunctionOnSet(g, Image(U \ {c}))
  BY <1>3, <1>5
<1>7. SumFunctionOnSet(f, U) = f[c] + SumFunctionOnSet(f, U \ {c})
  BY <1>4, <1>5, SumOfFirst
<1>8. IsFiniteSet(Image(U))
  <2>1. IsFiniteSet(T)
    BY FS_Bijection DEF ExistsBijection
  <2>2. Image(U) \in SUBSET T
    BY <1>1
  <2> QED BY <2>1, <2>2, FS_Subset
<1>9. m[c] \in Image(U) /\ Image(U \ {c}) = Image(U) \ {m[c]}
  BY <1>1, <1>5
<1>10. SumFunctionOnSet(g, Image(U)) = g[m[c]] + SumFunctionOnSet(g, Image(U) \ {m[c]})
  <2>1. \A y \in Image(U) : g[y] \in Int
    OBVIOUS
  <2> HIDE DEF Image
  <2> QED BY <1>8, <1>9, <2>1, SumTakeOut
<1> QED BY <1>5, <1>6, <1>7, <1>9, <1>10, Zenon

=============================================================================
