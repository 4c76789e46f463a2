--------------------------------- MODULE Sums ----------------------------------
(* Sums over finite sets.  SumFunctionOnSet is defined by recursion over the     *)
(* subsets of its index set; the lemmas here say what it computes for every      *)
(* finite set.  The induction runs over a set of subsets, not over a predicate:  *)
(* whatever is false of some subset is false of a least one (WFMin).             *)
EXTENDS Functions, FiniteSetTheorems, TLAPS

--------------------------------------------------------------------------------
(* Induction over the subsets of a finite set.                                  *)

\* What holds of a set as soon as it holds of its proper subsets holds of every
\* subset of a finite set.
LEMMA SubsetInduction ==
    ASSUME NEW S, IsFiniteSet(S), NEW G,
           \A T \in SUBSET S : (\A U \in SUBSET T : U # T => U \in G) => T \in G
    PROVE  SUBSET S \subseteq G
<1> DEFINE Bad == {T \in SUBSET S : T \notin G}
<1>1. SUFFICES ASSUME Bad # {} PROVE FALSE
  OBVIOUS
<1>2. IsWellFoundedOn(StrictSubsetOrdering(S), SUBSET S)
  BY FS_FiniteSubsetsOfFinite, FS_StrictSubsetOrderingWellFounded
<1>3. PICK T \in Bad : \A U \in Bad : <<U, T>> \notin StrictSubsetOrdering(S)
  <2> Bad \subseteq SUBSET S
    OBVIOUS
  <2> HIDE DEF Bad
  <2> QED BY <1>1, <1>2, WFMin
<1>4. ASSUME NEW U \in SUBSET T, U # T PROVE U \in G
  <2>1. <<U, T>> \in StrictSubsetOrdering(S)
    BY <1>3, <1>4 DEF StrictSubsetOrdering
  <2> QED BY <1>3, <2>1
<1> QED BY <1>3, <1>4

\* One element after another.
LEMMA SetInduction ==
    ASSUME NEW S, IsFiniteSet(S), NEW G, {} \in G,
           \A T \in SUBSET S : \A x \in S \ T : T \in G => T \cup {x} \in G
    PROVE  SUBSET S \subseteq G
<1>1. ASSUME NEW T \in SUBSET S, \A U \in SUBSET T : U # T => U \in G
      PROVE  T \in G
  <2>1. CASE T = {}
    BY <2>1
  <2>2. CASE T # {}
    <3>1. PICK x \in T : TRUE
      BY <2>2
    <3>2. T \ {x} \in G
      BY <1>1
    <3>3. T = (T \ {x}) \cup {x} /\ x \in S \ (T \ {x})
      BY <3>1
    <3> QED BY <3>2, <3>3
  <2> QED BY <2>1, <2>2
<1> QED BY <1>1, SubsetInduction

--------------------------------------------------------------------------------
(* The recursion behind SumFunctionOnSet.                                       *)

Pick(s) == CHOOSE x \in s : TRUE

SumOf(g, f, s) == IF s = {} THEN 0 ELSE f[Pick(s)] + g[s \ {Pick(s)}]

\* g is the recursive function on the subsets of S.
IsSum(g, f, S) == g = [s \in SUBSET S |-> SumOf(g, f, s)]

LEMMA SumIsChoice ==
    ASSUME NEW f, NEW S
    PROVE  SumFunctionOnSet(f, S) = (CHOOSE g : IsSum(g, f, S))[S]
BY DEF SumFunctionOnSet, FoldFunctionOnSet, MapThenFoldSet, IsSum, SumOf, Pick

LEMMA PickIn == ASSUME NEW s, s # {} PROVE Pick(s) \in s
BY DEF Pick

\* There is at most one.
LEMMA SumUnique ==
    ASSUME NEW S, IsFiniteSet(S), NEW f, NEW g, NEW h,
           \A s \in SUBSET S : g[s] = SumOf(g, f, s),
           \A s \in SUBSET S : h[s] = SumOf(h, f, s)
    PROVE  \A s \in SUBSET S : g[s] = h[s]
<1> DEFINE G == {T \in SUBSET S : g[T] = h[T]}
<1>1. ASSUME NEW T \in SUBSET S, \A U \in SUBSET T : U # T => U \in G
      PROVE  T \in G
  <2>1. CASE T = {}
    BY <2>1 DEF SumOf
  <2>2. CASE T # {}
    <3>1. Pick(T) \in T
      BY <2>2, PickIn
    <3>2. T \ {Pick(T)} \in G
      BY <1>1, <3>1
    <3> QED BY <2>2, <3>2 DEF SumOf
  <2> QED BY <2>1, <2>2
<1> HIDE DEF G
<1>2. SUBSET S \subseteq G
  BY <1>1, SubsetInduction
<1> QED BY <1>2 DEF G

\* There is one: a function on all subsets but the full one is extended.
LEMMA SumExists ==
    ASSUME NEW S, IsFiniteSet(S), NEW f
    PROVE  \E g : IsSum(g, f, S)
<1> DEFINE Upto(T) == {U \in SUBSET S : Cardinality(U) <= Cardinality(T)}
           Solves(g, D) == g = [s \in D |-> SumOf(g, f, s)]
           G == {T \in SUBSET S : \E g : Solves(g, Upto(T))}
<1>1. {} \in G
  <2>1. Upto({}) = {{}}
    <3>1. ASSUME NEW U \in SUBSET S PROVE Cardinality(U) <= Cardinality({}) <=> U = {}
      BY FS_Subset, FS_EmptySet, FS_CardinalityType
    <3> QED BY <3>1
  <2>2. Solves([s \in {{}} |-> 0], {{}})
    BY DEF SumOf
  <2> QED BY <2>1, <2>2
<1>2. ASSUME NEW T \in SUBSET S, NEW x \in S \ T, T \in G
      PROVE  T \cup {x} \in G
  <2>1. PICK g : Solves(g, Upto(T))
    BY <1>2
  <2> DEFINE h == [s \in Upto(T \cup {x}) |-> SumOf(g, f, s)]
  <2>2. /\ Cardinality(T) \in Nat
        /\ Cardinality(T \cup {x}) = Cardinality(T) + 1
    BY FS_Subset, FS_CardinalityType, FS_AddElement
  <2>3. ASSUME NEW s \in Upto(T) PROVE g[s] = h[s]
    <3>1. s \in Upto(T \cup {x})
      BY <2>2, <2>3, FS_Subset, FS_CardinalityType
    <3> QED BY <2>1, <3>1
  <2>4. ASSUME NEW s \in Upto(T \cup {x}), s # {}
        PROVE  s \ {Pick(s)} \in Upto(T)
    <3>1. Pick(s) \in s
      BY <2>4, PickIn
    <3>2. /\ Cardinality(s) \in Nat
          /\ Cardinality(s \ {Pick(s)}) = Cardinality(s) - 1
      BY <3>1, FS_Subset, FS_CardinalityType, FS_RemoveElement
    <3> QED BY <2>2, <3>2
  <2>5. ASSUME NEW s \in Upto(T \cup {x}) PROVE SumOf(g, f, s) = SumOf(h, f, s)
    <3>1. CASE s = {}
      BY <3>1 DEF SumOf
    <3>2. CASE s # {}
      <4>1. g[s \ {Pick(s)}] = h[s \ {Pick(s)}]
        BY <2>3, <2>4, <3>2
      <4> HIDE DEF h
      <4> QED BY <3>2, <4>1 DEF SumOf
    <3> QED BY <3>1, <3>2
  <2>6. Solves(h, Upto(T \cup {x}))
    BY <2>5
  <2> QED BY <2>6
<1> HIDE DEF G
<1>3. S \in G
  <2>1. SUBSET S \subseteq G
    BY <1>1, <1>2, SetInduction
  <2> QED BY <2>1
<1>4. Upto(S) = SUBSET S
  BY FS_Subset
<1> QED BY <1>3, <1>4 DEF G, IsSum

\* The sum over a subset is the value there of the function on all subsets.
LEMMA SumInside ==
    ASSUME NEW S, IsFiniteSet(S), NEW f, NEW g, IsSum(g, f, S), NEW T \in SUBSET S
    PROVE  SumFunctionOnSet(f, T) = g[T]
<1> DEFINE h == CHOOSE k : IsSum(k, f, T)
<1>1. IsFiniteSet(T)
  BY FS_Subset
<1>2. \E k : IsSum(k, f, T)
  BY <1>1, SumExists
<1>3. IsSum(h, f, T)
  BY <1>2
<1>4. SumFunctionOnSet(f, T) = h[T]
  BY SumIsChoice
<1> HIDE DEF h
<1>5. /\ \A s \in SUBSET T : h[s] = SumOf(h, f, s)
      /\ \A s \in SUBSET T : g[s] = SumOf(g, f, s)
  BY <1>3 DEF IsSum
<1>6. \A s \in SUBSET T : g[s] = h[s]
  BY <1>1, <1>5, SumUnique
<1> QED BY <1>4, <1>6

--------------------------------------------------------------------------------
(* What a sum is.                                                               *)

LEMMA SumEmpty ==
    ASSUME NEW f
    PROVE  SumFunctionOnSet(f, {}) = 0
<1>1. IsFiniteSet({})
  BY FS_EmptySet
<1>2. PICK g : IsSum(g, f, {})
  BY <1>1, SumExists
<1>3. g[{}] = 0
  BY <1>2 DEF IsSum, SumOf
<1> QED BY <1>1, <1>2, <1>3, SumInside

LEMMA SumStep ==
    ASSUME NEW S, IsFiniteSet(S), S # {}, NEW f
    PROVE  SumFunctionOnSet(f, S) = f[Pick(S)] + SumFunctionOnSet(f, S \ {Pick(S)})
<1>1. PICK g : IsSum(g, f, S)
  BY SumExists
<1>2. g[S] = f[Pick(S)] + g[S \ {Pick(S)}]
  BY <1>1 DEF IsSum, SumOf
<1>3. S \in SUBSET S /\ S \ {Pick(S)} \in SUBSET S
  OBVIOUS
<1> QED BY <1>1, <1>2, <1>3, SumInside

\* A sum of naturals is a natural.
LEMMA SumNat ==
    ASSUME NEW S, IsFiniteSet(S), NEW f, \A x \in S : f[x] \in Nat
    PROVE  SumFunctionOnSet(f, S) \in Nat
<1> DEFINE G == {T \in SUBSET S : SumFunctionOnSet(f, T) \in Nat}
<1>1. ASSUME NEW T \in SUBSET S, \A U \in SUBSET T : U # T => U \in G
      PROVE  T \in G
  <2>1. CASE T = {}
    BY <2>1, SumEmpty
  <2>2. CASE T # {}
    <3>1. Pick(T) \in T /\ IsFiniteSet(T)
      BY <2>2, PickIn, FS_Subset
    <3>2. SumFunctionOnSet(f, T \ {Pick(T)}) \in Nat
      BY <1>1, <3>1
    <3>3. f[Pick(T)] \in Nat
      BY <3>1
    <3> QED BY <2>2, <3>1, <3>2, <3>3, SumStep
  <2> QED BY <2>1, <2>2
<1> HIDE DEF G
<1>2. SUBSET S \subseteq G
  BY <1>1, SubsetInduction
<1> QED BY <1>2 DEF G

\* Any element may be taken out first.
LEMMA SumRemove ==
    ASSUME NEW S, IsFiniteSet(S), NEW f, \A x \in S : f[x] \in Nat, NEW x \in S
    PROVE  SumFunctionOnSet(f, S) = f[x] + SumFunctionOnSet(f, S \ {x})
<1> DEFINE sum(T) == SumFunctionOnSet(f, T)
           G == {T \in SUBSET S : \A y \in T : sum(T) = f[y] + sum(T \ {y})}
<1>1. ASSUME NEW T \in SUBSET S PROVE IsFiniteSet(T) /\ sum(T) \in Nat
  BY FS_Subset, SumNat
<1>2. ASSUME NEW T \in SUBSET S, \A U \in SUBSET T : U # T => U \in G, NEW y \in T
      PROVE  sum(T) = f[y] + sum(T \ {y})
  <2> DEFINE p == Pick(T)
  <2>1. p \in T
    BY PickIn
  <2>2. sum(T) = f[p] + sum(T \ {p})
    BY <1>1, SumStep
  <2>3. CASE y = p
    BY <2>2, <2>3
  <2>4. CASE y # p
    <3>1. y \in T \ {p} /\ p \in T \ {y}
      BY <2>1, <2>4
    <3>2. T \ {p} \in G /\ T \ {y} \in G
      BY <1>2, <2>1
    <3>3. sum(T \ {p}) = f[y] + sum((T \ {p}) \ {y})
      BY <3>1, <3>2
    <3>4. sum(T \ {y}) = f[p] + sum((T \ {y}) \ {p})
      BY <3>1, <3>2
    <3>5. (T \ {y}) \ {p} = (T \ {p}) \ {y}
      OBVIOUS
    <3>6. f[p] \in Nat /\ f[y] \in Nat /\ sum((T \ {p}) \ {y}) \in Nat
      BY <1>1, <2>1
    <3> HIDE DEF sum, p
    <3> QED BY <2>2, <3>3, <3>4, <3>5, <3>6
  <2> QED BY <2>3, <2>4
<1>3. ASSUME NEW T \in SUBSET S, \A U \in SUBSET T : U # T => U \in G PROVE T \in G
  BY <1>2, <1>3
<1> HIDE DEF G
<1>4. SUBSET S \subseteq G
  BY <1>3, SubsetInduction
<1> QED BY <1>4 DEF G

LEMMA SumAdd ==
    ASSUME NEW S, IsFiniteSet(S), NEW x, x \notin S, NEW f,
           \A y \in S \cup {x} : f[y] \in Nat
    PROVE  SumFunctionOnSet(f, S \cup {x}) = f[x] + SumFunctionOnSet(f, S)
<1>1. IsFiniteSet(S \cup {x})
  BY FS_AddElement
<1>2. x \in S \cup {x} /\ (S \cup {x}) \ {x} = S
  OBVIOUS
<1>3. SumFunctionOnSet(f, S \cup {x}) = f[x] + SumFunctionOnSet(f, (S \cup {x}) \ {x})
  BY <1>1, <1>2, SumRemove
<1> QED BY <1>2, <1>3

\* Equal terms, equal sums.
LEMMA SumSame ==
    ASSUME NEW S, IsFiniteSet(S), NEW f, NEW g, \A x \in S : f[x] = g[x]
    PROVE  SumFunctionOnSet(f, S) = SumFunctionOnSet(g, S)
<1> DEFINE G == {T \in SUBSET S : SumFunctionOnSet(f, T) = SumFunctionOnSet(g, T)}
<1>1. ASSUME NEW T \in SUBSET S, \A U \in SUBSET T : U # T => U \in G
      PROVE  T \in G
  <2>1. CASE T = {}
    BY <2>1, SumEmpty
  <2>2. CASE T # {}
    <3>1. Pick(T) \in T /\ IsFiniteSet(T)
      BY <2>2, PickIn, FS_Subset
    <3>2. T \ {Pick(T)} \in G
      BY <1>1, <3>1
    <3>3. f[Pick(T)] = g[Pick(T)]
      BY <3>1
    <3> QED BY <2>2, <3>1, <3>2, <3>3, SumStep
  <2> QED BY <2>1, <2>2
<1> HIDE DEF G
<1>2. SUBSET S \subseteq G
  BY <1>1, SubsetInduction
<1> QED BY <1>2 DEF G

\* A sum changes by what one term changes.
LEMMA SumExcept ==
    ASSUME NEW S, IsFiniteSet(S), NEW f, NEW g, NEW x \in S,
           \A y \in S : f[y] \in Nat /\ g[y] \in Nat,
           \A y \in S \ {x} : g[y] = f[y]
    PROVE  SumFunctionOnSet(g, S) = SumFunctionOnSet(f, S) - f[x] + g[x]
<1>1. IsFiniteSet(S \ {x})
  BY FS_RemoveElement
<1>2. SumFunctionOnSet(g, S \ {x}) = SumFunctionOnSet(f, S \ {x})
  BY <1>1, SumSame
<1>3. /\ SumFunctionOnSet(f, S) = f[x] + SumFunctionOnSet(f, S \ {x})
      /\ SumFunctionOnSet(g, S) = g[x] + SumFunctionOnSet(g, S \ {x})
  BY SumRemove
<1>4. SumFunctionOnSet(f, S \ {x}) \in Nat
  BY <1>1, SumNat
<1> QED BY <1>2, <1>3, <1>4

\* A sum of naturals is at least each of its terms.
LEMMA SumTerm ==
    ASSUME NEW S, IsFiniteSet(S), NEW f, \A y \in S : f[y] \in Nat, NEW x \in S
    PROVE  SumFunctionOnSet(f, S) >= f[x]
<1>1. IsFiniteSet(S \ {x})
  BY FS_RemoveElement
<1>2. SumFunctionOnSet(f, S \ {x}) \in Nat
  BY <1>1, SumNat
<1>3. SumFunctionOnSet(f, S) = f[x] + SumFunctionOnSet(f, S \ {x})
  BY SumRemove
<1> QED BY <1>2, <1>3

\* Nothing but zeros sums up to zero.
LEMMA SumZero ==
    ASSUME NEW S, IsFiniteSet(S), NEW f, \A x \in S : f[x] = 0
    PROVE  SumFunctionOnSet(f, S) = 0
<1> DEFINE G == {T \in SUBSET S : SumFunctionOnSet(f, T) = 0}
<1>1. {} \in G
  BY SumEmpty
<1>2. ASSUME NEW T \in SUBSET S, NEW x \in S \ T, T \in G PROVE T \cup {x} \in G
  <2>1. IsFiniteSet(T) /\ \A y \in T \cup {x} : f[y] \in Nat
    BY FS_Subset
  <2>2. SumFunctionOnSet(f, T \cup {x}) = f[x] + SumFunctionOnSet(f, T)
    BY <2>1, SumAdd
  <2> QED BY <1>2, <2>2
<1> HIDE DEF G
<1>3. SUBSET S \subseteq G
  BY <1>1, <1>2, SetInduction
<1> QED BY <1>3 DEF G

\* Greater terms, a greater sum.
LEMMA SumMono ==
    ASSUME NEW S, IsFiniteSet(S), NEW f, NEW g,
           \A x \in S : f[x] \in Nat /\ g[x] \in Nat /\ f[x] <= g[x]
    PROVE  SumFunctionOnSet(f, S) <= SumFunctionOnSet(g, S)
<1> DEFINE sum(h, T) == SumFunctionOnSet(h, T)
           G == {T \in SUBSET S : sum(f, T) <= sum(g, T)}
<1>1. {} \in G
  BY SumEmpty
<1>2. ASSUME NEW T \in SUBSET S, NEW x \in S \ T, T \in G PROVE T \cup {x} \in G
  <2>1. IsFiniteSet(T) /\ \A y \in T \cup {x} : f[y] \in Nat /\ g[y] \in Nat
    BY FS_Subset
  <2>2. sum(f, T \cup {x}) = f[x] + sum(f, T) /\ sum(g, T \cup {x}) = g[x] + sum(g, T)
    BY <2>1, SumAdd
  <2>3. sum(f, T) \in Nat /\ sum(g, T) \in Nat /\ sum(f, T) <= sum(g, T)
    BY <1>2, <2>1, SumNat
  <2>4. f[x] \in Nat /\ g[x] \in Nat /\ f[x] <= g[x]
    OBVIOUS
  <2>5. T \cup {x} \in SUBSET S
    OBVIOUS
  <2> HIDE DEF sum
  <2> QED BY <2>2, <2>3, <2>4, <2>5
<1> HIDE DEF G
<1>3. SUBSET S \subseteq G
  BY <1>1, <1>2, SetInduction
<1> QED BY <1>3 DEF G

\* More terms, a greater sum.
LEMMA SumSubset ==
    ASSUME NEW S, IsFiniteSet(S), NEW f, \A x \in S : f[x] \in Nat, NEW U \in SUBSET S
    PROVE  SumFunctionOnSet(f, U) <= SumFunctionOnSet(f, S)
<1> DEFINE V == S \ U
           sum(T) == SumFunctionOnSet(f, T)
           G == {T \in SUBSET V : sum(U) <= sum(U \cup T)}
<1>1. IsFiniteSet(U) /\ IsFiniteSet(V) /\ sum(U) \in Nat
  BY FS_Subset, SumNat
<1>2. {} \in G
  <2>1. U \cup {} = U
    OBVIOUS
  <2> QED BY <1>1, <2>1
<1>3. ASSUME NEW T \in SUBSET V, NEW x \in V \ T, T \in G PROVE T \cup {x} \in G
  <2>1. IsFiniteSet(U \cup T) /\ \A y \in (U \cup T) \cup {x} : f[y] \in Nat
    BY <1>1, FS_Subset, FS_Union
  <2>2. x \notin U \cup T
    OBVIOUS
  <2>3. sum((U \cup T) \cup {x}) = f[x] + sum(U \cup T)
    BY <2>1, <2>2, SumAdd
  <2>4. sum(U \cup T) \in Nat /\ f[x] \in Nat
    BY <2>1, SumNat
  <2>5. U \cup (T \cup {x}) = (U \cup T) \cup {x} /\ T \cup {x} \in SUBSET V
    OBVIOUS
  <2>6. sum(U) <= sum(U \cup T)
    BY <1>3
  <2>7. sum(U \cup (T \cup {x})) = f[x] + sum(U \cup T)
    BY <2>3, <2>5
  <2>8. sum(U) <= sum(U \cup (T \cup {x}))
    <3> HIDE DEF sum
    <3> QED BY <1>1, <2>4, <2>6, <2>7
  <2> QED BY <2>5, <2>8
<1> HIDE DEF G, V
<1>4. SUBSET V \subseteq G
  BY <1>1, <1>2, <1>3, SetInduction
<1>5. U \cup V = S /\ V \in SUBSET V
  BY DEF V
<1> QED BY <1>4, <1>5 DEF G

\* A sum of terms of at most B each.
LEMMA SumBound ==
    ASSUME NEW S, IsFiniteSet(S), NEW f, NEW B \in Nat,
           \A x \in S : f[x] \in Nat /\ f[x] <= B
    PROVE  SumFunctionOnSet(f, S) <= Cardinality(S) * B
<1> DEFINE sum(T) == SumFunctionOnSet(f, T)
           G == {T \in SUBSET S : sum(T) <= Cardinality(T) * B}
<1>1. {} \in G
  BY SumEmpty, FS_EmptySet
<1>2. ASSUME NEW T \in SUBSET S, NEW x \in S \ T, T \in G PROVE T \cup {x} \in G
  <2>1. IsFiniteSet(T) /\ \A y \in T \cup {x} : f[y] \in Nat
    BY FS_Subset
  <2>2. sum(T \cup {x}) = f[x] + sum(T) /\ sum(T) \in Nat
    BY <2>1, SumAdd, SumNat
  <2>3. Cardinality(T \cup {x}) = Cardinality(T) + 1 /\ Cardinality(T) \in Nat
    BY <2>1, FS_AddElement, FS_CardinalityType
  <2>4. f[x] \in Nat /\ f[x] <= B /\ T \cup {x} \in SUBSET S
    OBVIOUS
  <2>5. PICK n \in Nat : n = Cardinality(T)
    BY <2>3
  <2>6. sum(T) <= n * B /\ (n + 1) * B = n * B + B /\ n * B \in Nat
    BY <1>2, <2>5
  <2>7. sum(T \cup {x}) <= (n + 1) * B
    <3> HIDE DEF sum
    <3> QED BY <2>2, <2>4, <2>6
  <2> QED BY <2>3, <2>4, <2>5, <2>7
<1> HIDE DEF G
<1>3. SUBSET S \subseteq G
  BY <1>1, <1>2, SetInduction
<1> QED BY <1>3 DEF G

\* A sum taken group by group.
LEMMA SumPartition ==
    ASSUME NEW S, IsFiniteSet(S), NEW P, IsFiniteSet(P), NEW f, NEW of,
           \A x \in S : f[x] \in Nat /\ of[x] \in P
    PROVE  SumFunctionOnSet([p \in P |-> SumFunctionOnSet(f, {x \in S : of[x] = p})], P)
             = SumFunctionOnSet(f, S)
<1> DEFINE Group(T, p) == {x \in T : of[x] = p}
           sums(T) == [p \in P |-> SumFunctionOnSet(f, Group(T, p))]
           G == {T \in SUBSET S : SumFunctionOnSet(sums(T), P) = SumFunctionOnSet(f, T)}
<1>1. ASSUME NEW T \in SUBSET S, NEW p \in P PROVE sums(T)[p] = SumFunctionOnSet(f, Group(T, p)) /\ sums(T)[p] \in Nat
  <2>1. IsFiniteSet(Group(T, p)) /\ \A x \in Group(T, p) : f[x] \in Nat
    <3>1. Group(T, p) \subseteq S
      OBVIOUS
    <3> QED BY <3>1, FS_Subset
  <2>2. SumFunctionOnSet(f, Group(T, p)) \in Nat
    <3> HIDE DEF Group
    <3> QED BY <2>1, SumNat
  <2> QED BY <2>2
<1>2. {} \in G
  <2>1. \A p \in P : sums({})[p] = 0
    <3>1. \A p \in P : Group({}, p) = {}
      OBVIOUS
    <3> QED BY <3>1, SumEmpty
  <2>2. SumFunctionOnSet(sums({}), P) = 0
    <3> HIDE DEF sums
    <3> QED BY <2>1, SumZero
  <2> QED BY <2>2, SumEmpty
<1>3. ASSUME NEW T \in SUBSET S, NEW x \in S \ T, T \in G PROVE T \cup {x} \in G
  <2> DEFINE U == T \cup {x}
             o == of[x]
  <2>1. U \in SUBSET S /\ o \in P /\ f[x] \in Nat /\ IsFiniteSet(T) /\ \A y \in U : f[y] \in Nat
    BY FS_Subset
  <2>2. \A p \in P \ {o} : Group(U, p) = Group(T, p)
    OBVIOUS
  <2>3. Group(U, o) = Group(T, o) \cup {x} /\ x \notin Group(T, o)
    OBVIOUS
  <2>4. IsFiniteSet(Group(T, o)) /\ \A y \in Group(T, o) \cup {x} : f[y] \in Nat
    <3>1. Group(T, o) \subseteq S
      OBVIOUS
    <3> QED BY <3>1, FS_Subset
  <2>5. SumFunctionOnSet(f, Group(T, o) \cup {x}) = f[x] + SumFunctionOnSet(f, Group(T, o))
    <3> HIDE DEF Group
    <3> QED BY <2>3, <2>4, SumAdd
  <2>6. sums(U)[o] = f[x] + sums(T)[o]
    <3> HIDE DEF Group
    <3> QED BY <2>1, <2>3, <2>5
  <2>7. \A p \in P \ {o} : sums(U)[p] = sums(T)[p]
    <3> HIDE DEF Group
    <3> QED BY <2>2
  <2>8. \A p \in P : sums(T)[p] \in Nat /\ sums(U)[p] \in Nat
    BY <1>1, <2>1
  <2> HIDE DEF sums, Group
  <2>9. SumFunctionOnSet(sums(U), P) = SumFunctionOnSet(sums(T), P) - sums(T)[o] + sums(U)[o]
    <3> DEFINE a == sums(T)
               b == sums(U)
    <3>1. /\ \A p \in P : a[p] \in Nat /\ b[p] \in Nat
          /\ \A p \in P \ {o} : b[p] = a[p]
          /\ o \in P
      BY <2>1, <2>7, <2>8
    <3> HIDE DEF a, b, o
    <3>2. SumFunctionOnSet(b, P) = SumFunctionOnSet(a, P) - a[o] + b[o]
      BY <3>1, SumExcept
    <3> QED BY <3>2 DEF a, b
  <2>10. SumFunctionOnSet(f, U) = f[x] + SumFunctionOnSet(f, T) /\ SumFunctionOnSet(f, T) \in Nat
    BY <2>1, SumAdd, SumNat
  <2>11. SumFunctionOnSet(sums(T), P) = SumFunctionOnSet(f, T)
    BY <1>3
  <2>12. SumFunctionOnSet(sums(U), P) = SumFunctionOnSet(f, U)
    <3>1. sums(T)[o] \in Nat
      BY <2>1, <2>8
    <3> HIDE DEF U, o
    <3> QED BY <2>1, <2>6, <2>9, <2>10, <2>11, <3>1
  <2> QED BY <2>1, <2>12
<1> HIDE DEF G
<1>4. SUBSET S \subseteq G
  BY <1>2, <1>3, SetInduction
<1> QED BY <1>4 DEF G
================================================================================
