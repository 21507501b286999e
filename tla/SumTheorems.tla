---------------------------- MODULE SumTheorems -----------------------------
(***************************************************************************)
(* Sums over finite sets, as the specifications take them from the         *)
(* community modules: SumFunctionOnSet(f, S) adds up f[x] for the elements *)
(* of S, which it visits in an order nobody chose.  These lemmas say that  *)
(* the order does not matter, what one element contributes, and which      *)
(* changes of the set or the function leave the sum as it is or lower it.  *)
(*                                                                         *)
(* The library defines the sum by recursion over the subsets of S.  That   *)
(* the recursion is well founded is proved first: a nonempty family of     *)
(* subsets of a finite set has a minimal member, so a subset for which a   *)
(* fact fails would have one for which it fails and for which it holds of  *)
(* every smaller subset.                                                   *)
(***************************************************************************)
EXTENDS FiniteSetsExt, FiniteSetTheorems, WellFoundedInduction, TLAPS

\* Induction over the subsets of a finite set: a family of them has a minimal
\* member.
LEMMA MinimalSubset ==
  ASSUME NEW S, IsFiniteSet(S), NEW Family \in SUBSET (SUBSET S), Family # {}
  PROVE  \E T \in Family : \A U \in Family : U \subseteq T => U = T
<1>1. IsWellFoundedOn(StrictSubsetOrdering(S), SUBSET S)
  BY FS_StrictSubsetOrderingWellFounded, FS_FiniteSubsetsOfFinite
<1>2. \E T \in Family : \A U \in Family : <<U, T>> \notin StrictSubsetOrdering(S)
  BY <1>1, WFMin
<1> QED BY <1>2 DEF StrictSubsetOrdering

----------------------------------------------------------------------------
\* The element the library takes first, and the recursion it writes.
First(s) == CHOOSE x \in s : TRUE
Adds(f, g, s) == IF s = {} THEN 0 ELSE f[First(s)] + g[s \ {First(s)}]
Tally(f, S) == CHOOSE g : g = [s \in SUBSET S |-> Adds(f, g, s)]
IsTally(f, g, S) == g = [s \in SUBSET S |-> Adds(f, g, s)]

\* The library's sum is the value of that recursive function at the whole set.
LEMMA SumIsTally ==
  ASSUME NEW f, NEW S
  PROVE  SumFunctionOnSet(f, S) = Tally(f, S)[S]
BY DEF SumFunctionOnSet, FoldFunctionOnSet, MapThenFoldSet, Tally, Adds, First

LEMMA FirstIn == ASSUME NEW s, s # {} PROVE First(s) \in s
BY DEF First

\* Two functions that satisfy the recursion agree on the sets both know.
LEMMA TallyUnique ==
  ASSUME NEW f, NEW S, NEW T, IsFiniteSet(S), T \subseteq S,
         NEW g, IsTally(f, g, S), NEW h, IsTally(f, h, T)
  PROVE  \A s \in SUBSET T : g[s] = h[s]
<1> DEFINE Bad == {s \in SUBSET T : g[s] # h[s]}
<1> SUFFICES ASSUME Bad # {} PROVE FALSE
  OBVIOUS
<1>1. PICK s \in Bad : \A u \in Bad : u \subseteq s => u = s
  <2>1. IsFiniteSet(T) /\ Bad \in SUBSET (SUBSET T)
    BY FS_Subset
  <2> HIDE DEF Bad
  <2> QED BY <2>1, MinimalSubset
<1>2. s \in SUBSET T /\ s \in SUBSET S /\ g[s] # h[s]
  BY <1>1
<1>3. g[s] = Adds(f, g, s) /\ h[s] = Adds(f, h, s)
  BY <1>2 DEF IsTally
<1>4. CASE s = {}
  BY <1>2, <1>3, <1>4 DEF Adds
<1>5. CASE s # {}
  <2>1. First(s) \in s
    BY <1>5, FirstIn
  <2>2. s \ {First(s)} \in SUBSET T /\ s \ {First(s)} \notin Bad
    BY <1>1, <1>2, <2>1
  <2>3. g[s \ {First(s)}] = h[s \ {First(s)}]
    BY <2>2
  <2> QED BY <1>2, <1>3, <1>5, <2>3 DEF Adds
<1> QED BY <1>4, <1>5

\* The recursion over a finite set has a solution.
LEMMA TallyExists ==
  ASSUME NEW f, NEW S, IsFiniteSet(S)
  PROVE  \E g : IsTally(f, g, S)
<1> DEFINE Bad == {T \in SUBSET S : ~ \E g : IsTally(f, g, T)}
<1> SUFFICES ASSUME Bad # {} PROVE FALSE
  OBVIOUS
<1>1. PICK T \in Bad : \A U \in Bad : U \subseteq T => U = T
  <2>1. Bad \in SUBSET (SUBSET S)
    OBVIOUS
  <2> HIDE DEF Bad
  <2> QED BY <2>1, MinimalSubset
<1>2. T \in SUBSET S /\ IsFiniteSet(T)
  BY <1>1, FS_Subset
<1>3. ASSUME NEW U \in SUBSET T, U # T PROVE IsTally(f, Tally(f, U), U)
  <2>1. \E g : IsTally(f, g, U)
    BY <1>1, <1>2, <1>3
  <2>2. PICK g : g = [s \in SUBSET U |-> Adds(f, g, s)]
    BY <2>1 DEF IsTally
  <2>3. Tally(f, U) = [s \in SUBSET U |-> Adds(f, Tally(f, U), s)]
    BY <2>2, Zenon DEF Tally
  <2> QED BY <2>3 DEF IsTally
<1> DEFINE part == [s \in SUBSET T |-> Tally(f, s)[s]]
           g == [s \in SUBSET T |-> IF s # T THEN part[s] ELSE Adds(f, part, T)]
<1>4. ASSUME NEW s \in SUBSET T PROVE g[s] = Adds(f, g, s)
  <2>1. CASE s = T
    <3>1. CASE T = {}
      BY <2>1, <3>1 DEF Adds
    <3>2. CASE T # {}
      <4>1. T \ {First(T)} \in SUBSET T /\ T \ {First(T)} # T
        BY <3>2, FirstIn
      <4>2. g[T \ {First(T)}] = part[T \ {First(T)}]
        BY <4>1
      <4> QED BY <2>1, <3>2, <4>2 DEF Adds
    <3> QED BY <3>1, <3>2
  <2>2. CASE s # T
    <3>1. IsTally(f, Tally(f, s), s)
      BY <1>3, <2>2
    <3>2. g[s] = Adds(f, Tally(f, s), s)
      <4>1. Tally(f, s)[s] = Adds(f, Tally(f, s), s)
        BY <3>1 DEF IsTally
      <4> QED BY <4>1, <2>2
    <3>3. CASE s = {}
      BY <3>2, <3>3 DEF Adds
    <3>4. CASE s # {}
      <4> DEFINE u == s \ {First(s)}
      <4>1. First(s) \in s
        BY <3>4, FirstIn
      <4>2. u \in SUBSET s /\ u \in SUBSET T /\ u # T
        BY <4>1
      <4>3. IsTally(f, Tally(f, u), u)
        BY <1>3, <4>2
      <4>4. IsFiniteSet(s)
        BY <1>2, FS_Subset
      <4>5. Tally(f, s)[u] = Tally(f, u)[u]
        BY <3>1, <4>2, <4>3, <4>4, TallyUnique
      <4>6. g[u] = Tally(f, u)[u]
        BY <4>2
      <4> HIDE DEF g
      <4> QED BY <3>2, <3>4, <4>5, <4>6 DEF Adds
    <3> QED BY <3>3, <3>4
  <2> QED BY <2>1, <2>2
<1>5. IsTally(f, g, T)
  <2>1. g = [s \in SUBSET T |-> g[s]]
    OBVIOUS
  <2> HIDE DEF g
  <2> QED BY <1>4, <2>1 DEF IsTally
<1> QED BY <1>1, <1>5

\* What the library computes: nothing for the empty set, else the first element
\* and the sum of the others.
LEMMA SumUnfolds ==
  ASSUME NEW f, NEW S, IsFiniteSet(S)
  PROVE  SumFunctionOnSet(f, S) =
           IF S = {} THEN 0 ELSE f[First(S)] + SumFunctionOnSet(f, S \ {First(S)})
<1>1. ASSUME NEW T, IsFiniteSet(T) PROVE IsTally(f, Tally(f, T), T)
  <2>1. PICK g : g = [s \in SUBSET T |-> Adds(f, g, s)]
    BY <1>1, TallyExists DEF IsTally
  <2>2. Tally(f, T) = [s \in SUBSET T |-> Adds(f, Tally(f, T), s)]
    BY <2>1, Zenon DEF Tally
  <2> QED BY <2>2 DEF IsTally
<1>2. Tally(f, S)[S] = Adds(f, Tally(f, S), S)
  BY <1>1 DEF IsTally
<1>3. CASE S = {}
  BY <1>2, <1>3, SumIsTally DEF Adds
<1>4. CASE S # {}
  <2> DEFINE u == S \ {First(S)}
  <2>1. u \in SUBSET S /\ IsFiniteSet(u)
    BY FS_RemoveElement
  <2>2. IsTally(f, Tally(f, S), S) /\ IsTally(f, Tally(f, u), u)
    BY <1>1, <2>1
  <2>3. Tally(f, S)[u] = Tally(f, u)[u]
    <3>1. u \subseteq S /\ u \in SUBSET u
      BY <2>1
    <3> HIDE DEF u
    <3> QED BY <2>2, <3>1, TallyUnique
  <2>4. SumFunctionOnSet(f, u) = Tally(f, u)[u] /\ SumFunctionOnSet(f, S) = Tally(f, S)[S]
    BY SumIsTally
  <2> QED BY <1>2, <1>4, <2>3, <2>4 DEF Adds
<1> QED BY <1>3, <1>4

LEMMA SumEmpty ==
  ASSUME NEW f
  PROVE  SumFunctionOnSet(f, {}) = 0
BY SumUnfolds, FS_EmptySet

\* A sum of integers is an integer, and any element may be taken first.
LEMMA SumTakes ==
  ASSUME NEW S, IsFiniteSet(S), NEW f, \A x \in S : f[x] \in Int
  PROVE  /\ SumFunctionOnSet(f, S) \in Int
         /\ \A x \in S : SumFunctionOnSet(f, S) = f[x] + SumFunctionOnSet(f, S \ {x})
<1> DEFINE Sum(s) == SumFunctionOnSet(f, s)
           Good(s) == Sum(s) \in Int /\ \A x \in s : Sum(s) = f[x] + Sum(s \ {x})
           Bad == {s \in SUBSET S : ~Good(s)}
<1> SUFFICES ASSUME Bad # {} PROVE FALSE
  BY DEF Bad
<1>1. PICK s \in Bad : \A u \in Bad : u \subseteq s => u = s
  <2>1. Bad \in SUBSET (SUBSET S)
    OBVIOUS
  <2> HIDE DEF Bad
  <2> QED BY <2>1, MinimalSubset
<1>2. s \in SUBSET S /\ IsFiniteSet(s) /\ ~Good(s)
  BY <1>1, FS_Subset
<1>3. ASSUME NEW u \in SUBSET s, u # s PROVE Good(u)
  BY <1>1, <1>2, <1>3
<1>4. Sum(s) = IF s = {} THEN 0 ELSE f[First(s)] + Sum(s \ {First(s)})
  BY <1>2, SumUnfolds
<1>5. s # {}
  BY <1>2, <1>4
<1> DEFINE c == First(s)
<1>6. c \in s /\ f[c] \in Int
  BY <1>2, <1>5, FirstIn
<1>7. Good(s \ {c})
  BY <1>3, <1>6
<1>8. Sum(s) \in Int
  BY <1>4, <1>5, <1>6, <1>7
<1>9. ASSUME NEW x \in s PROVE Sum(s) = f[x] + Sum(s \ {x})
  <2>1. CASE x = c
    BY <1>4, <1>5, <2>1
  <2>2. CASE x # c
    <3>1. Good(s \ {x}) /\ Good((s \ {c}) \ {x})
      BY <1>3, <1>6
    <3>2. (s \ {x}) \ {c} = (s \ {c}) \ {x} /\ x \in s \ {c} /\ c \in s \ {x}
      BY <1>6, <2>2
    <3>3. Sum(s \ {c}) = f[x] + Sum((s \ {c}) \ {x})
      BY <1>7, <3>2
    <3>4. Sum(s \ {x}) = f[c] + Sum((s \ {c}) \ {x})
      BY <3>1, <3>2
    <3>5. f[x] \in Int /\ Sum((s \ {c}) \ {x}) \in Int
      BY <1>2, <3>1
    <3> HIDE DEF Sum, c
    <3> QED BY <1>4, <1>5, <1>6, <3>3, <3>4, <3>5 DEF c
  <2> QED BY <2>1, <2>2
<1> QED BY <1>2, <1>8, <1>9

\* A sum of naturals is a natural, at least each of its summands.
LEMMA SumNat ==
  ASSUME NEW S, IsFiniteSet(S), NEW f, \A x \in S : f[x] \in Nat
  PROVE  /\ SumFunctionOnSet(f, S) \in Nat
         /\ \A x \in S : f[x] <= SumFunctionOnSet(f, S)
<1> DEFINE Sum(s) == SumFunctionOnSet(f, s)
           Bad == {s \in SUBSET S : ~(Sum(s) \in Nat)}
<1>1. ASSUME Bad # {} PROVE FALSE
  <2>1. PICK s \in Bad : \A u \in Bad : u \subseteq s => u = s
    <3>1. Bad \in SUBSET (SUBSET S)
      OBVIOUS
    <3> HIDE DEF Bad
    <3> QED BY <1>1, <3>1, MinimalSubset
  <2>2. s \in SUBSET S /\ IsFiniteSet(s) /\ ~(Sum(s) \in Nat)
    BY <2>1, FS_Subset
  <2>3. s # {}
    BY <2>2, SumEmpty
  <2>4. PICK x \in s : Sum(s) = f[x] + Sum(s \ {x})
    BY <2>2, <2>3, SumTakes
  <2>5. Sum(s \ {x}) \in Nat
    BY <2>1, <2>2
  <2> HIDE DEF Sum
  <2> QED BY <2>2, <2>4, <2>5
<1>2. ASSUME NEW s \in SUBSET S PROVE Sum(s) \in Nat
  BY <1>1
<1>3. ASSUME NEW x \in S PROVE f[x] <= Sum(S)
  <2>1. Sum(S) = f[x] + Sum(S \ {x})
    BY SumTakes
  <2>2. Sum(S \ {x}) \in Nat
    BY <1>2
  <2> HIDE DEF Sum
  <2> QED BY <2>1, <2>2
<1> QED BY <1>2, <1>3

\* One more element adds what the function gives for it.
LEMMA SumAdd ==
  ASSUME NEW S, IsFiniteSet(S), NEW c, c \notin S,
         NEW f, \A x \in S \cup {c} : f[x] \in Int
  PROVE  SumFunctionOnSet(f, S \cup {c}) = SumFunctionOnSet(f, S) + f[c]
<1>1. IsFiniteSet(S \cup {c}) /\ (S \cup {c}) \ {c} = S
  BY FS_AddElement
<1>2. SumFunctionOnSet(f, S \cup {c}) = f[c] + SumFunctionOnSet(f, (S \cup {c}) \ {c})
  BY <1>1, SumTakes
<1>3. SumFunctionOnSet(f, S) \in Int /\ f[c] \in Int
  BY SumTakes
<1>4. SumFunctionOnSet(f, (S \cup {c}) \ {c}) = SumFunctionOnSet(f, S)
  BY <1>1, Zenon
<1> QED BY <1>2, <1>3, <1>4

\* Only the values on the set count.
LEMMA SumSame ==
  ASSUME NEW S, IsFiniteSet(S), NEW f, NEW g,
         \A x \in S : f[x] = g[x] /\ f[x] \in Int
  PROVE  SumFunctionOnSet(f, S) = SumFunctionOnSet(g, S)
<1> DEFINE F(s) == SumFunctionOnSet(f, s)
           G(s) == SumFunctionOnSet(g, s)
           Bad == {s \in SUBSET S : F(s) # G(s)}
<1> SUFFICES ASSUME Bad # {} PROVE FALSE
  OBVIOUS
<1>1. PICK s \in Bad : \A u \in Bad : u \subseteq s => u = s
  <2>1. Bad \in SUBSET (SUBSET S)
    OBVIOUS
  <2> HIDE DEF Bad
  <2> QED BY <2>1, MinimalSubset
<1>2. s \in SUBSET S /\ IsFiniteSet(s) /\ F(s) # G(s)
  BY <1>1, FS_Subset
<1>3. s # {}
  BY <1>2, SumEmpty
<1>4. PICK x \in s : F(s) = f[x] + F(s \ {x})
  BY <1>2, <1>3, SumTakes
<1>5. G(s) = g[x] + G(s \ {x})
  BY <1>2, SumTakes
<1>6. F(s \ {x}) = G(s \ {x})
  BY <1>1, <1>2
<1> HIDE DEF F, G
<1> QED BY <1>2, <1>4, <1>5, <1>6

\* Nothing but zeros adds up to zero.
LEMMA SumZero ==
  ASSUME NEW S, IsFiniteSet(S), NEW f, \A x \in S : f[x] = 0
  PROVE  SumFunctionOnSet(f, S) = 0
<1> DEFINE F(s) == SumFunctionOnSet(f, s)
           Bad == {s \in SUBSET S : F(s) # 0}
<1> SUFFICES ASSUME Bad # {} PROVE FALSE
  OBVIOUS
<1>1. PICK s \in Bad : \A u \in Bad : u \subseteq s => u = s
  <2>1. Bad \in SUBSET (SUBSET S)
    OBVIOUS
  <2> HIDE DEF Bad
  <2> QED BY <2>1, MinimalSubset
<1>2. s \in SUBSET S /\ IsFiniteSet(s) /\ F(s) # 0
  BY <1>1, FS_Subset
<1>3. s # {}
  BY <1>2, SumEmpty
<1>4. PICK x \in s : F(s) = f[x] + F(s \ {x})
  <2>1. \A x \in s : f[x] \in Int
    BY <1>2
  <2> QED BY <1>2, <1>3, <2>1, SumTakes
<1>5. F(s \ {x}) = 0
  BY <1>1, <1>2
<1> HIDE DEF F
<1> QED BY <1>2, <1>4, <1>5

\* A change at one element changes the sum by as much.
LEMMA SumChange ==
  ASSUME NEW S, IsFiniteSet(S), NEW c \in S, NEW f, NEW g,
         \A x \in S : f[x] \in Int /\ g[x] \in Int,
         \A x \in S : x # c => g[x] = f[x]
  PROVE  SumFunctionOnSet(g, S) = SumFunctionOnSet(f, S) - f[c] + g[c]
<1>1. IsFiniteSet(S \ {c})
  BY FS_RemoveElement
<1>2. SumFunctionOnSet(f, S \ {c}) = SumFunctionOnSet(g, S \ {c})
  BY <1>1, SumSame
<1>3. SumFunctionOnSet(f, S) = f[c] + SumFunctionOnSet(f, S \ {c})
  BY SumTakes
<1>4. SumFunctionOnSet(g, S) = g[c] + SumFunctionOnSet(g, S \ {c})
  BY SumTakes
<1>5. SumFunctionOnSet(f, S \ {c}) \in Int /\ f[c] \in Int /\ g[c] \in Int
  BY <1>1, SumTakes
<1> QED BY <1>2, <1>3, <1>4, <1>5

\* Disjoint sets add up.
LEMMA SumUnion ==
  ASSUME NEW S, IsFiniteSet(S), NEW T, IsFiniteSet(T), S \cap T = {},
         NEW f, \A x \in S \cup T : f[x] \in Int
  PROVE  SumFunctionOnSet(f, S \cup T) = SumFunctionOnSet(f, S) + SumFunctionOnSet(f, T)
<1> DEFINE Sum(s) == SumFunctionOnSet(f, s)
           Bad == {s \in SUBSET T : Sum(S \cup s) # Sum(S) + Sum(s)}
<1> SUFFICES ASSUME Bad # {} PROVE FALSE
  BY DEF Bad
<1>1. PICK s \in Bad : \A u \in Bad : u \subseteq s => u = s
  <2>1. Bad \in SUBSET (SUBSET T)
    OBVIOUS
  <2> HIDE DEF Bad
  <2> QED BY <2>1, MinimalSubset
<1>2. s \in SUBSET T /\ IsFiniteSet(s) /\ IsFiniteSet(S \cup s)
  BY <1>1, FS_Subset, FS_Union
<1>3. Sum(S \cup s) # Sum(S) + Sum(s)
  BY <1>1
<1>4. Sum(S) \in Int
  BY SumTakes
<1>5. s # {}
  <2> SUFFICES ASSUME s = {} PROVE FALSE
    OBVIOUS
  <2>1. S \cup s = S
    OBVIOUS
  <2>2. Sum(s) = 0
    BY SumEmpty
  <2>3. Sum(S \cup s) = Sum(S)
    BY <2>1, Zenon
  <2> HIDE DEF Sum, Bad
  <2> QED BY <1>3, <1>4, <2>2, <2>3
<1>6. PICK x : x \in s
  BY <1>5
<1> DEFINE u == s \ {x}
<1>7. u \notin Bad /\ u \in SUBSET T /\ IsFiniteSet(u)
  BY <1>1, <1>2, <1>6, FS_Subset
<1>8. Sum(S \cup u) = Sum(S) + Sum(u)
  BY <1>7
<1>9. Sum(S \cup s) = f[x] + Sum((S \cup s) \ {x})
  BY <1>2, <1>6, SumTakes
<1>10. (S \cup s) \ {x} = S \cup u
  BY <1>2, <1>6
<1>11. Sum(s) = f[x] + Sum(u)
  BY <1>2, <1>6, SumTakes
<1>12. Sum(u) \in Int /\ f[x] \in Int
  BY <1>2, <1>6, <1>7, SumTakes
<1>13. Sum((S \cup s) \ {x}) = Sum(S \cup u)
  BY <1>10, Zenon
<1> HIDE DEF Sum, u, Bad
<1> QED BY <1>3, <1>4, <1>8, <1>9, <1>11, <1>12, <1>13

\* Fewer summands, none of them negative, add up to no more.
LEMMA SumSubset ==
  ASSUME NEW S, IsFiniteSet(S), NEW T \in SUBSET S,
         NEW f, \A x \in S : f[x] \in Nat
  PROVE  SumFunctionOnSet(f, T) <= SumFunctionOnSet(f, S)
<1>1. IsFiniteSet(T) /\ IsFiniteSet(S \ T) /\ T \cup (S \ T) = S /\ T \cap (S \ T) = {}
  BY FS_Subset, FS_Difference
<1> DEFINE rest == S \ T
<1>2. SumFunctionOnSet(f, T \cup rest) = SumFunctionOnSet(f, T) + SumFunctionOnSet(f, rest)
  BY <1>1, SumUnion
<1>3. SumFunctionOnSet(f, T) \in Nat /\ SumFunctionOnSet(f, rest) \in Nat
  BY <1>1, SumNat
<1>4. SumFunctionOnSet(f, T \cup rest) = SumFunctionOnSet(f, S)
  BY <1>1, Zenon
<1> QED BY <1>2, <1>3, <1>4

\* Renaming the elements of a finite set leaves it finite.
LEMMA RenamedFinite ==
  ASSUME NEW S, IsFiniteSet(S), NEW name
  PROVE  IsFiniteSet({name[x] : x \in S})
<1> DEFINE T == {name[x] : x \in S}
           f == [x \in S |-> name[x]]
<1>1. f \in Surjection(S, T)
  BY DEF Surjection
<1> HIDE DEF f, T
<1>2. IsFiniteSet(T)
  BY <1>1, FS_Surjection
<1> QED BY <1>2 DEF T

\* A set whose elements are renamed, two of them to one name perhaps, each
\* keeping its value, adds up to no more than before.
LEMMA SumRenamed ==
  ASSUME NEW S, IsFiniteSet(S), NEW f, \A x \in S : f[x] \in Nat,
         NEW name, NEW g, \A x \in S : g[name[x]] = f[x]
  PROVE  /\ IsFiniteSet({name[x] : x \in S})
         /\ SumFunctionOnSet(g, {name[x] : x \in S}) <= SumFunctionOnSet(f, S)
<1> DEFINE Image(s) == {name[x] : x \in s}
           Good(s) == /\ IsFiniteSet(Image(s))
                      /\ SumFunctionOnSet(g, Image(s)) <= SumFunctionOnSet(f, s)
           Bad == {s \in SUBSET S : ~Good(s)}
<1> SUFFICES ASSUME Bad # {} PROVE FALSE
  BY DEF Bad
<1>1. PICK s \in Bad : \A u \in Bad : u \subseteq s => u = s
  <2>1. Bad \in SUBSET (SUBSET S)
    OBVIOUS
  <2> HIDE DEF Bad
  <2> QED BY <2>1, MinimalSubset
<1>2. s \in SUBSET S /\ IsFiniteSet(s) /\ ~Good(s)
  BY <1>1, FS_Subset
<1>3. s # {}
  <2>1. Image({}) = {}
    OBVIOUS
  <2>2. Good({})
    BY <2>1, SumEmpty, FS_EmptySet
  <2> HIDE DEF Good
  <2> QED BY <1>2, <2>2
<1>4. PICK c : c \in s
  BY <1>3
<1> DEFINE u == s \ {c}
<1>5. Good(u) /\ u \in SUBSET s /\ IsFiniteSet(u)
  BY <1>1, <1>2, <1>4, FS_Subset
<1>6. Image(s) = Image(u) \cup {name[c]}
  BY <1>4
<1>7. SumFunctionOnSet(f, s) = f[c] + SumFunctionOnSet(f, u)
  BY <1>2, <1>4, SumTakes
<1>8. SumFunctionOnSet(f, u) \in Nat /\ f[c] \in Nat
  BY <1>2, <1>4, <1>5, SumNat
<1>9. IsFiniteSet(Image(s))
  <2> HIDE DEF Image, u
  <2> QED BY <1>5, <1>6, FS_AddElement
<1>10. SumFunctionOnSet(g, Image(s)) <= SumFunctionOnSet(g, Image(u)) + f[c]
       /\ SumFunctionOnSet(g, Image(u)) \in Nat
  <2>1. \A y \in Image(u) \cup {name[c]} : g[y] \in Nat
    BY <1>2, <1>4
  <2>2. SumFunctionOnSet(g, Image(u)) \in Nat
    BY <1>5, <2>1, SumNat
  <2>3. g[name[c]] = f[c]
    BY <1>2, <1>4
  <2>4. CASE name[c] \in Image(u)
    <3>1. Image(s) = Image(u)
      BY <1>6, <2>4
    <3> HIDE DEF Image
    <3> QED BY <1>8, <2>2, <3>1
  <2>5. CASE name[c] \notin Image(u)
    <3> DEFINE I == Image(u)
               d == name[c]
    <3>1. IsFiniteSet(I) /\ d \notin I /\ \A y \in I \cup {d} : g[y] \in Int
      BY <1>5, <2>1, <2>5
    <3> HIDE DEF I, d, Good, Bad
    <3>2. SumFunctionOnSet(g, I \cup {d}) = SumFunctionOnSet(g, I) + g[d]
      BY <3>1, SumAdd
    <3>3. SumFunctionOnSet(g, Image(s)) = SumFunctionOnSet(g, I \cup {d})
      BY <1>6, Zenon DEF I, d
    <3> HIDE DEF Image, u
    <3> QED BY <1>8, <2>2, <2>3, <3>2, <3>3 DEF I, d
  <2> QED BY <2>4, <2>5
<1>11. SumFunctionOnSet(g, Image(u)) <= SumFunctionOnSet(f, u)
  BY <1>5
<1>12. SumFunctionOnSet(g, Image(s)) <= SumFunctionOnSet(f, s)
  <2> HIDE DEF Image, u
  <2>1. SumFunctionOnSet(g, Image(s)) \in Nat
    <3>1. \A y \in Image(s) : g[y] \in Nat
      BY <1>2 DEF Image
    <3> QED BY <1>9, <3>1, SumNat
  <2> QED BY <1>7, <1>8, <1>10, <1>11, <2>1
<1> QED BY <1>2, <1>9, <1>12
=============================================================================
