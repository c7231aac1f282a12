-------------------------------- MODULE Sums --------------------------------
(***************************************************************************)
(* Sums over finite sets, as the bytes of Eviction and the lines of Output *)
(* are added up: what the folds of the community modules come to, whatever *)
(* the order in which they take the elements.                              *)
(***************************************************************************)
EXTENDS Integers, FiniteSetsExt, FiniteSetTheorems, WellFoundedInduction, TLAPS

-----------------------------------------------------------------------------
(* Least elements, in the place of induction. *)

\* A set of naturals has a least element.
LEMMA LeastExists ==
  ASSUME NEW S, S \subseteq Nat, S # {}
  PROVE  \E x \in S : \A y \in S : x <= y
<1> DEFINE R == {p \in Nat \X Nat : p[1] < p[2]}
<1>1. PICK x \in S : \A y \in S : <<y, x>> \notin R
  <2> HIDE DEF R
  <2>1. IsWellFoundedOn(R, Nat)
    BY NatLessThanWellFounded DEF R, OpToRel
  <2>2. QED
    BY <2>1, WFMin
<1>2. \A y \in S : ~(y < x)
  BY <1>1
<1>3. QED
  BY <1>2

\* A family of finite sets has one of which it has no proper subset.
LEMMA SmallestExists ==
  ASSUME NEW S, IsFiniteSet(S), NEW F, F \subseteq SUBSET S, F # {}
  PROVE  \E T \in F : \A U \in F : U \subseteq T => U = T
<1> DEFINE R == StrictSubsetOrdering(S)
<1>1. IsWellFoundedOn(R, SUBSET S)
  BY FS_StrictSubsetOrderingWellFounded, FS_FiniteSubsetsOfFinite
<1>2. PICK T \in F : \A U \in F : <<U, T>> \notin R
  <2> HIDE DEF R
  <2>1. QED
    BY <1>1, WFMin
<1>3. QED
  BY <1>2 DEF StrictSubsetOrdering

-----------------------------------------------------------------------------
(* The fold exists and is unique. *)

First(s) == CHOOSE x \in s : TRUE

\* `it` adds up f over each subset of S, one element after the other.
Adds(f, S, it) ==
  it = [s \in SUBSET S |-> IF s = {} THEN 0 ELSE f[First(s)] + it[s \ {First(s)}]]

LEMMA FirstIn ==
  ASSUME NEW s, s # {}
  PROVE  First(s) \in s
BY DEF First

\* What is added up is a number, and the same in a larger set.
LEMMA AddsAgree ==
  ASSUME NEW S, IsFiniteSet(S), NEW f, \A x \in S : f[x] \in Nat,
         NEW T, S \subseteq T, NEW it, Adds(f, S, it), NEW jt, Adds(f, T, jt)
  PROVE  \A s \in SUBSET S : it[s] \in Nat /\ it[s] = jt[s]
<1> DEFINE F == {s \in SUBSET S : ~(it[s] \in Nat /\ it[s] = jt[s])}
<1> SUFFICES ASSUME F # {} PROVE FALSE
  OBVIOUS
<1>1. PICK s \in F : \A u \in F : u \subseteq s => u = s
  <2>1. F \subseteq SUBSET S
    OBVIOUS
  <2> HIDE DEF F
  <2>2. QED
    BY <2>1, SmallestExists
<1>2. /\ it[s] = IF s = {} THEN 0 ELSE f[First(s)] + it[s \ {First(s)}]
      /\ jt[s] = IF s = {} THEN 0 ELSE f[First(s)] + jt[s \ {First(s)}]
  BY DEF Adds
<1>3. s # {}
  BY <1>2
<1>4. First(s) \in s /\ s \subseteq S
  BY <1>3, FirstIn
<1>5. s \ {First(s)} \notin F
  BY <1>1, <1>4
<1>6. it[s \ {First(s)}] \in Nat /\ it[s \ {First(s)}] = jt[s \ {First(s)}]
  BY <1>4, <1>5
<1>7. f[First(s)] \in Nat
  BY <1>4
<1>8. it[s] \in Nat /\ it[s] = jt[s]
  BY <1>2, <1>3, <1>6, <1>7
<1>9. QED
  BY <1>8

\* A finite set can be added up.
LEMMA AddsExists ==
  ASSUME NEW S, IsFiniteSet(S), NEW f, \A x \in S : f[x] \in Nat
  PROVE  \E it : Adds(f, S, it)
<1> DEFINE F == {s \in SUBSET S : ~\E it : Adds(f, s, it)}
           It(s) == CHOOSE it : Adds(f, s, it)
<1> SUFFICES ASSUME F # {} PROVE FALSE
  <2>1. S \in SUBSET S
    OBVIOUS
  <2>2. QED
    BY <2>1
<1>1. PICK T \in F : \A u \in F : u \subseteq T => u = T
  <2>1. F \subseteq SUBSET S
    OBVIOUS
  <2> HIDE DEF F
  <2>2. QED
    BY <2>1, SmallestExists
<1>2. ASSUME NEW s \in SUBSET T, s # T
      PROVE  Adds(f, s, It(s))
  <2>1. s \notin F /\ s \in SUBSET S
    BY <1>1, <1>2
  <2>2. \E it : Adds(f, s, it)
    BY <2>1
  <2>3. QED
    BY <2>2
<1>3. ASSUME NEW s \in SUBSET T, s # T, s # {}
      PROVE  It(s)[s] = f[First(s)] + It(s \ {First(s)})[s \ {First(s)}]
  <2> DEFINE u == s \ {First(s)}
  <2>1. First(s) \in s
    BY <1>3, FirstIn
  <2>2. u \in SUBSET T /\ u # T /\ u \subseteq s /\ s \in SUBSET S
    BY <1>1, <1>3, <2>1
  <2>3. Adds(f, s, It(s)) /\ Adds(f, u, It(u))
    BY <1>2, <1>3, <2>2
  <2>4. IsFiniteSet(u) /\ \A x \in u : f[x] \in Nat
    BY <2>2, FS_Subset
  <2>5. It(u)[u] = It(s)[u]
    <3> HIDE DEF It, u
    <3>1. QED
      BY <2>2, <2>3, <2>4, AddsAgree
  <2>6. It(s)[s] = IF s = {} THEN 0 ELSE f[First(s)] + It(s)[s \ {First(s)}]
    <3> HIDE DEF It
    <3>1. QED
      BY <2>3 DEF Adds
  <2>7. QED
    BY <1>3, <2>5, <2>6
<1> DEFINE g == [s \in SUBSET T |->
                   IF s = {} THEN 0 ELSE f[First(s)] + It(s \ {First(s)})[s \ {First(s)}]]
<1>4. ASSUME NEW s \in SUBSET T, s # {}
      PROVE  g[s \ {First(s)}] = It(s \ {First(s)})[s \ {First(s)}]
  <2> DEFINE u == s \ {First(s)}
  <2>1. First(s) \in s
    BY <1>4, FirstIn
  <2>2. u \in SUBSET T /\ u # T
    BY <2>1
  <2>3. CASE u # {}
    <3>1. It(u)[u] = f[First(u)] + It(u \ {First(u)})[u \ {First(u)}]
      <4> HIDE DEF u, It
      <4>1. QED
        BY <1>3, <2>2, <2>3
    <3>2. QED
      BY <2>2, <2>3, <3>1
  <2>4. CASE u = {}
    <3>1. Adds(f, {}, It({}))
      BY <1>2, <2>2, <2>4
    <3>2. It({})[{}] = 0
      <4> HIDE DEF It
      <4>1. QED
        BY <3>1 DEF Adds
    <3>3. QED
      BY <2>2, <2>4, <3>2
  <2>5. QED
    BY <2>3, <2>4
<1>5. Adds(f, T, g)
  <2>1. \A s \in SUBSET T :
          g[s] = IF s = {} THEN 0 ELSE f[First(s)] + g[s \ {First(s)}]
    <3> HIDE DEF It
    <3>1. \A s \in SUBSET T :
            g[s] = IF s = {} THEN 0 ELSE f[First(s)] + It(s \ {First(s)})[s \ {First(s)}]
      OBVIOUS
    <3> HIDE DEF g
    <3>2. QED
      BY <1>4, <3>1
  <2>2. g = [s \in SUBSET T |-> g[s]]
    OBVIOUS
  <2>3. g = [s \in SUBSET T |-> IF s = {} THEN 0 ELSE f[First(s)] + g[s \ {First(s)}]]
    <3> HIDE DEF g, It
    <3>1. [s \in SUBSET T |-> g[s]] =
            [s \in SUBSET T |-> IF s = {} THEN 0 ELSE f[First(s)] + g[s \ {First(s)}]]
      BY <2>1
    <3>2. QED
      BY <2>2, <3>1, Zenon
  <2>4. QED
    BY <2>3 DEF Adds
<1>6. QED
  BY <1>1, <1>5

-----------------------------------------------------------------------------
(* What the library's sums come to. *)

\* The sum over a set is what adding it up, or any larger set, ends with.
LEMMA SumAdds ==
  ASSUME NEW S, IsFiniteSet(S), NEW f, \A x \in S : f[x] \in Nat
  PROVE  \E it : Adds(f, S, it) /\ \A s \in SUBSET S : SumFunctionOnSet(f, s) = it[s]
<1>1. ASSUME NEW s \in SUBSET S
      PROVE  \E it : Adds(f, s, it) /\ SumFunctionOnSet(f, s) = it[s]
  <2>1. \E it : Adds(f, s, it)
    BY <1>1, FS_Subset, AddsExists
  <2> DEFINE P(it) == it = [u \in SUBSET s |->
                        IF u = {} THEN 0 ELSE f[CHOOSE x \in u : TRUE] + it[u \ {CHOOSE x \in u : TRUE}]]
             it0 == CHOOSE it : P(it)
  <2>2. \A it : Adds(f, s, it) <=> P(it)
    BY DEF Adds, First
  <2>3. SumFunctionOnSet(f, s) = it0[s]
    BY DEF SumFunctionOnSet, FoldFunctionOnSet, MapThenFoldSet
  <2> HIDE DEF P
  <2>4. P(it0)
    BY <2>1, <2>2
  <2>5. QED
    BY <2>2, <2>3, <2>4
<1>2. PICK it : Adds(f, S, it)
  BY AddsExists
<1>3. ASSUME NEW s \in SUBSET S
      PROVE  SumFunctionOnSet(f, s) = it[s]
  <2>1. PICK jt : Adds(f, s, jt) /\ SumFunctionOnSet(f, s) = jt[s]
    BY <1>1
  <2>2. IsFiniteSet(s) /\ \A x \in s : f[x] \in Nat
    BY FS_Subset
  <2>3. QED
    BY <1>2, <2>1, <2>2, AddsAgree
<1>4. QED
  BY <1>2, <1>3

\* The sum of naturals is a natural, and starts with its first element.
LEMMA SumStarts ==
  ASSUME NEW S, IsFiniteSet(S), NEW f, \A x \in S : f[x] \in Nat
  PROVE  /\ SumFunctionOnSet(f, S) \in Nat
         /\ S = {} => SumFunctionOnSet(f, S) = 0
         /\ S # {} => SumFunctionOnSet(f, S) = f[First(S)] + SumFunctionOnSet(f, S \ {First(S)})
<1>1. PICK it : Adds(f, S, it) /\ \A s \in SUBSET S : SumFunctionOnSet(f, s) = it[s]
  BY SumAdds
<1>2. it[S] \in Nat
  BY <1>1, AddsAgree
<1>3. it[S] = IF S = {} THEN 0 ELSE f[First(S)] + it[S \ {First(S)}]
  BY <1>1 DEF Adds
<1>4. S \in SUBSET S /\ S \ {First(S)} \in SUBSET S
  OBVIOUS
<1>5. QED
  BY <1>1, <1>2, <1>3, <1>4

\* Any element may be the first.
LEMMA SumRemove ==
  ASSUME NEW S, IsFiniteSet(S), NEW f, \A x \in S : f[x] \in Nat, NEW e \in S
  PROVE  SumFunctionOnSet(f, S) = f[e] + SumFunctionOnSet(f, S \ {e})
<1> DEFINE Sum(s) == SumFunctionOnSet(f, s)
           F == {s \in SUBSET S : \E x \in s : Sum(s) # f[x] + Sum(s \ {x})}
<1>0. \A s \in SUBSET S : IsFiniteSet(s) /\ \A x \in s : f[x] \in Nat
  BY FS_Subset
<1> HIDE DEF Sum
<1> SUFFICES ASSUME F # {} PROVE FALSE
  <2>1. S \in SUBSET S
    OBVIOUS
  <2>2. QED
    BY <2>1 DEF Sum
<1>1. PICK s \in F : \A u \in F : u \subseteq s => u = s
  <2>1. F \subseteq SUBSET S
    OBVIOUS
  <2> HIDE DEF F
  <2>2. QED
    BY <2>1, SmallestExists
<1>2. PICK x \in s : Sum(s) # f[x] + Sum(s \ {x})
  OBVIOUS
<1>3. s \in SUBSET S /\ First(s) \in s
  BY FirstIn
<1> DEFINE c == First(s)
<1>4. Sum(s) = f[c] + Sum(s \ {c})
  BY <1>0, <1>3, SumStarts DEF Sum
<1>5. x # c
  BY <1>2, <1>4
<1>6. \A u \in SUBSET s : \A y \in u : u # s => Sum(u) = f[y] + Sum(u \ {y})
  BY <1>1, <1>3
<1>7. /\ Sum(s \ {c}) = f[x] + Sum((s \ {c}) \ {x})
      /\ Sum(s \ {x}) = f[c] + Sum((s \ {x}) \ {c})
  BY <1>3, <1>5, <1>6
<1>8. (s \ {c}) \ {x} = (s \ {x}) \ {c}
  OBVIOUS
<1>9. Sum((s \ {x}) \ {c}) \in Nat /\ f[x] \in Nat /\ f[c] \in Nat
  BY <1>0, <1>3, SumStarts DEF Sum
<1>10. QED
  BY <1>2, <1>4, <1>7, <1>8, <1>9

\* Sums of disjoint sets add up.
LEMMA SumUnion ==
  ASSUME NEW S, IsFiniteSet(S), NEW T, IsFiniteSet(T), S \cap T = {},
         NEW f, \A x \in S \cup T : f[x] \in Nat
  PROVE  SumFunctionOnSet(f, S \cup T) = SumFunctionOnSet(f, S) + SumFunctionOnSet(f, T)
<1> DEFINE Sum(s) == SumFunctionOnSet(f, s)
           F == {s \in SUBSET T : Sum(S \cup s) # Sum(S) + Sum(s)}
<1>0. \A s \in SUBSET (S \cup T) : IsFiniteSet(s) /\ (\A x \in s : f[x] \in Nat) /\ Sum(s) \in Nat
  BY FS_Union, FS_Subset, SumStarts
<1>r. \A s \in SUBSET (S \cup T) : \A x \in s : Sum(s) = f[x] + Sum(s \ {x})
  BY <1>0, SumRemove
<1>e. Sum({}) = 0
  BY FS_EmptySet, SumStarts
<1> HIDE DEF Sum
<1> SUFFICES ASSUME F # {} PROVE FALSE
  <2>1. T \in SUBSET T
    OBVIOUS
  <2>2. QED
    BY <2>1 DEF Sum
<1>1. PICK s \in F : \A u \in F : u \subseteq s => u = s
  <2>1. F \subseteq SUBSET T
    OBVIOUS
  <2> HIDE DEF F
  <2>2. QED
    BY <2>1, SmallestExists
<1>2. s # {}
  <2>1. S \cup {} = S /\ Sum(S) \in Nat
    BY <1>0
  <2>2. QED
    BY <1>e, <2>1
<1>3. PICK x \in s : TRUE
  BY <1>2
<1> DEFINE rest == s \ {x}
<1>4. Sum(S \cup rest) = Sum(S) + Sum(rest)
  BY <1>1, <1>3
<1>5. S \cup rest = (S \cup s) \ {x} /\ S \cup s \in SUBSET (S \cup T) /\ s \in SUBSET (S \cup T) /\ x \in S \cup T
  BY <1>3
<1>6. Sum(S \cup s) = f[x] + Sum(S \cup rest) /\ Sum(s) = f[x] + Sum(rest)
  BY <1>r, <1>3, <1>5
<1>7. Sum(S) \in Nat /\ Sum(rest) \in Nat /\ f[x] \in Nat
  BY <1>0, <1>5
<1>8. QED
  BY <1>1, <1>4, <1>6, <1>7

\* A part does not sum up to more than the whole, and the rest makes up for it.
LEMMA SumPart ==
  ASSUME NEW S, IsFiniteSet(S), NEW f, \A x \in S : f[x] \in Nat, NEW T \in SUBSET S
  PROVE  /\ SumFunctionOnSet(f, T) \in Nat /\ SumFunctionOnSet(f, T) <= SumFunctionOnSet(f, S)
         /\ SumFunctionOnSet(f, S \ T) = SumFunctionOnSet(f, S) - SumFunctionOnSet(f, T)
<1>1. IsFiniteSet(T) /\ IsFiniteSet(S \ T) /\ T \cup (S \ T) = S /\ T \cap (S \ T) = {}
  BY FS_Subset, FS_Difference
<1>2. SumFunctionOnSet(f, T) \in Nat /\ SumFunctionOnSet(f, S \ T) \in Nat
  BY <1>1, SumStarts
<1>3. SumFunctionOnSet(f, S) = SumFunctionOnSet(f, T) + SumFunctionOnSet(f, S \ T)
  BY <1>1, SumUnion
<1>4. QED
  BY <1>2, <1>3

\* The sum depends on nothing but what is summed up.
LEMMA SumSame ==
  ASSUME NEW S, IsFiniteSet(S), NEW f, NEW g, \A x \in S : f[x] \in Nat /\ f[x] = g[x]
  PROVE  SumFunctionOnSet(f, S) = SumFunctionOnSet(g, S)
<1>1. PICK it : Adds(f, S, it) /\ \A s \in SUBSET S : SumFunctionOnSet(f, s) = it[s]
  BY SumAdds
<1>2. PICK jt : Adds(g, S, jt) /\ \A s \in SUBSET S : SumFunctionOnSet(g, s) = jt[s]
  BY SumAdds
<1>3. \A s \in SUBSET S : s # {} => f[First(s)] = g[First(s)]
  BY FirstIn
<1>4. Adds(f, S, jt)
  <2>1. [s \in SUBSET S |-> IF s = {} THEN 0 ELSE f[First(s)] + jt[s \ {First(s)}]]
          = [s \in SUBSET S |-> IF s = {} THEN 0 ELSE g[First(s)] + jt[s \ {First(s)}]]
    BY <1>3
  <2>2. QED
    BY <1>2, <2>1 DEF Adds
<1>5. it[S] = jt[S]
  BY <1>1, <1>4, AddsAgree
<1>6. QED
  BY <1>1, <1>2, <1>5

=============================================================================
