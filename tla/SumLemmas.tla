------------------------------ MODULE SumLemmas ------------------------------
(***************************************************************************)
(* Facts about SumFunctionOnSet of the community modules, the sum of f[x]  *)
(* for x in a finite set, that the proofs about ledgers, stocks and        *)
(* payslips rest on, and about recursive functions, that the proof about   *)
(* the walk over a product's rows rests on.                                *)
(*                                                                         *)
(* Induction is stated about sets, of numbers and of subsets: the          *)
(* induction hypothesis is a member of G and not an operator, so that the  *)
(* lemmas can be cited with any G.                                         *)
(***************************************************************************)
EXTENDS Integers, FiniteSets, Functions, FiniteSetTheorems, NaturalsInduction,
        WellFoundedInduction, TLAPS

-----------------------------------------------------------------------------
(* Induction.                                                                *)

\* A set with 0 and the successor of each of its numbers holds every number.
LEMMA NatSetInduction ==
    ASSUME NEW G, 0 \in G, \A n \in Nat : n \in G => n + 1 \in G
    PROVE  Nat \subseteq G
  <1> SUFFICES ASSUME ~(Nat \subseteq G) PROVE FALSE
    OBVIOUS
  <1> DEFINE T == Nat \ G
  <1>1. T \subseteq Nat /\ T # {}
    OBVIOUS
  <1>2. PICK n \in T : \A m \in T : ~(<<m, n>> \in OpToRel(<, Nat))
    <2> HIDE DEF T
    <2> QED BY <1>1, WFMin, NatLessThanWellFounded
  <1>3. n # 0 /\ n \in Nat
    OBVIOUS
  <1>4. n - 1 \in Nat /\ n - 1 < n
    BY <1>3
  <1>5. n - 1 \in G
    BY <1>2, <1>3, <1>4 DEF OpToRel
  <1> QED BY <1>3, <1>4, <1>5

\* A set with 0 that each number up to n enters after the one before it holds 0..n.
LEMMA RangeInduction ==
    ASSUME NEW n \in Nat, NEW G, 0 \in G, \A i \in 1..n : i - 1 \in G => i \in G
    PROVE  0..n \subseteq G
  <1> DEFINE N == {m \in Nat : m <= n => m \in G}
  <1>1. 0 \in N
    OBVIOUS
  <1>2. ASSUME NEW m \in Nat, m \in N PROVE m + 1 \in N
    <2> SUFFICES ASSUME m + 1 <= n PROVE m + 1 \in G
      OBVIOUS
    <2>1. m + 1 \in 1..n /\ (m + 1) - 1 \in G
      BY <1>2
    <2> QED BY <2>1
  <1>3. Nat \subseteq N
    <2> HIDE DEF N
    <2> QED BY <1>1, <1>2, NatSetInduction
  <1>4. \A m \in 0..n : m \in N
    <2> HIDE DEF N
    <2> QED BY <1>3
  <1> QED BY <1>4

\* A set of subsets with {} and every subset one larger than one of its own
\* has all the subsets of a finite set.
LEMMA SubsetInduction ==
    ASSUME NEW S, IsFiniteSet(S), NEW G, {} \in G,
           \A T \in SUBSET S : \A x \in S \ T : T \in G => T \cup {x} \in G
    PROVE  SUBSET S \subseteq G
  <1> DEFINE N == {n \in Nat : \A T \in SUBSET S : Cardinality(T) = n => T \in G}
  <1>1. \A T \in SUBSET S : IsFiniteSet(T) /\ Cardinality(T) \in Nat
    BY FS_Subset, FS_CardinalityType
  <1>2. 0 \in N
    BY <1>1, FS_EmptySet
  <1>3. ASSUME NEW n \in Nat, n \in N PROVE n + 1 \in N
    <2> SUFFICES ASSUME NEW T \in SUBSET S, Cardinality(T) = n + 1 PROVE T \in G
      OBVIOUS
    <2>1. T # {}
      <3>1. n + 1 # 0
        OBVIOUS
      <3> QED BY <3>1, FS_EmptySet
    <2>2. PICK x \in T : TRUE
      BY <2>1
    <2>3. Cardinality(T \ {x}) = n
      <3>1. Cardinality(T \ {x}) = Cardinality(T) - 1
        BY <1>1, FS_RemoveElement
      <3> QED BY <3>1
    <2>4. T \ {x} \in G
      BY <2>3, <1>3
    <2>5. (T \ {x}) \cup {x} \in G
      BY <2>4
    <2>6. (T \ {x}) \cup {x} = T
      OBVIOUS
    <2> QED BY <2>5, <2>6
  <1>4. Nat \subseteq N
    <2> HIDE DEF N
    <2> QED BY <1>2, <1>3, NatSetInduction
  <1> QED BY <1>1, <1>4

-----------------------------------------------------------------------------
(* The recursive function that the sum is defined by.                        *)

Chosen(s) == CHOOSE x \in s : TRUE

\* g sums f over every set of D.
Sums(g, f, D) ==
    g = [s \in D |-> IF s = {} THEN 0 ELSE f[Chosen(s)] + g[s \ {Chosen(s)}]]

SumsSubsets(g, f, S) == Sums(g, f, SUBSET S)

\* The subsets of S with at most n elements.
UpTo(S, n) == {s \in SUBSET S : Cardinality(s) <= n}

\* Removing the chosen element of a set leaves a smaller one.
LEMMA ChosenRemoved ==
    ASSUME NEW S, IsFiniteSet(S), NEW s \in SUBSET S, s # {}
    PROVE  /\ Chosen(s) \in s
           /\ s \ {Chosen(s)} \in SUBSET S
           /\ Cardinality(s \ {Chosen(s)}) = Cardinality(s) - 1
           /\ Cardinality(s) \in Nat
  <1>1. Chosen(s) \in s
    BY DEF Chosen
  <1>2. IsFiniteSet(s)
    BY FS_Subset
  <1> QED BY <1>1, <1>2, FS_RemoveElement, FS_CardinalityType

\* The function exists, for sets of any size.
LEMMA SumsUpToExist ==
    ASSUME NEW f, NEW S, IsFiniteSet(S)
    PROVE  \A n \in Nat : \E g : Sums(g, f, UpTo(S, n))
  <1> DEFINE N == {n \in Nat : \E g : Sums(g, f, UpTo(S, n))}
  <1>1. 0 \in N
    <2>1. \A s \in UpTo(S, 0) : s = {}
      <3> SUFFICES ASSUME NEW s \in SUBSET S, Cardinality(s) <= 0 PROVE s = {}
        BY DEF UpTo
      <3>1. IsFiniteSet(s) /\ Cardinality(s) \in Nat
        BY FS_Subset, FS_CardinalityType
      <3> QED BY <3>1, FS_EmptySet
    <2>2. Sums([s \in UpTo(S, 0) |-> 0], f, UpTo(S, 0))
      BY <2>1 DEF Sums
    <2> QED BY <2>2
  <1>2. ASSUME NEW n \in Nat, n \in N PROVE n + 1 \in N
    <2>1. PICK g : Sums(g, f, UpTo(S, n))
      BY <1>2
    <2> DEFINE h == [s \in UpTo(S, n + 1) |->
                        IF s = {} THEN 0 ELSE f[Chosen(s)] + g[s \ {Chosen(s)}]]
    <2>2. ASSUME NEW s \in UpTo(S, n + 1), s # {}
          PROVE  h[s \ {Chosen(s)}] = g[s \ {Chosen(s)}]
      <3> DEFINE t == s \ {Chosen(s)}
      <3>1. t \in UpTo(S, n) /\ t \in UpTo(S, n + 1)
        BY <2>2, ChosenRemoved DEF UpTo
      <3>2. g[t] = IF t = {} THEN 0 ELSE f[Chosen(t)] + g[t \ {Chosen(t)}]
        <4> HIDE DEF t
        <4> QED BY <2>1, <3>1 DEF Sums
      <3>3. h[t] = IF t = {} THEN 0 ELSE f[Chosen(t)] + g[t \ {Chosen(t)}]
        <4> HIDE DEF t
        <4> QED BY <3>1
      <3> QED BY <3>2, <3>3
    <2>3. h = [s \in UpTo(S, n + 1) |->
                  IF s = {} THEN 0 ELSE f[Chosen(s)] + h[s \ {Chosen(s)}]]
      <3> DEFINE k == [s \in UpTo(S, n + 1) |->
                          IF s = {} THEN 0 ELSE f[Chosen(s)] + h[s \ {Chosen(s)}]]
      <3>1. \A s \in UpTo(S, n + 1) : h[s] = k[s]
        BY <2>2
      <3> QED BY <3>1
    <2>4. Sums(h, f, UpTo(S, n + 1))
      <3> HIDE DEF h
      <3> QED BY <2>3 DEF Sums
    <2> QED BY <2>4
  <1>3. Nat \subseteq N
    <2> HIDE DEF N
    <2> QED BY <1>1, <1>2, NatSetInduction
  <1> QED BY <1>3

\* The sum over S is the value at S of a function that sums over all its subsets.
LEMMA SumsOverSubsets ==
    ASSUME NEW f, NEW S, IsFiniteSet(S)
    PROVE  \E g : SumsSubsets(g, f, S) /\ SumFunctionOnSet(f, S) = g[S]
  <1>1. Cardinality(S) \in Nat /\ UpTo(S, Cardinality(S)) = SUBSET S
    BY FS_CardinalityType, FS_Subset DEF UpTo
  <1>2. \E g : SumsSubsets(g, f, S)
    <2>1. \A n \in Nat : \E g : Sums(g, f, UpTo(S, n))
      BY SumsUpToExist
    <2> QED BY <1>1, <2>1 DEF SumsSubsets
  <1> DEFINE g == CHOOSE g : SumsSubsets(g, f, S)
  <1>3. SumsSubsets(g, f, S)
    BY <1>2
  <1>4. SumFunctionOnSet(f, S) = g[S]
    BY DEF SumFunctionOnSet, FoldFunctionOnSet, MapThenFoldSet, SumsSubsets, Sums, Chosen
  <1> QED BY <1>3, <1>4

\* Two functions that sum f agree wherever both do.
LEMMA SumsAgree ==
    ASSUME NEW f, NEW S, IsFiniteSet(S), NEW T \in SUBSET S,
           NEW g, SumsSubsets(g, f, S), NEW h, SumsSubsets(h, f, T)
    PROVE  \A s \in SUBSET T : g[s] = h[s]
  <1> DEFINE N == {n \in Nat : \A s \in SUBSET T : Cardinality(s) = n => g[s] = h[s]}
  <1>0. IsFiniteSet(T)
    BY FS_Subset
  <1>1. \A s \in SUBSET T :
           /\ g[s] = IF s = {} THEN 0 ELSE f[Chosen(s)] + g[s \ {Chosen(s)}]
           /\ h[s] = IF s = {} THEN 0 ELSE f[Chosen(s)] + h[s \ {Chosen(s)}]
    BY DEF SumsSubsets, Sums
  <1>2. 0 \in N
    <2> SUFFICES ASSUME NEW s \in SUBSET T, Cardinality(s) = 0 PROVE g[s] = h[s]
      OBVIOUS
    <2>1. s = {}
      BY <1>0, FS_Subset, FS_EmptySet
    <2> QED BY <1>1, <2>1
  <1>3. ASSUME NEW n \in Nat, n \in N PROVE n + 1 \in N
    <2> SUFFICES ASSUME NEW s \in SUBSET T, Cardinality(s) = n + 1 PROVE g[s] = h[s]
      OBVIOUS
    <2>1. s # {}
      BY FS_EmptySet
    <2>2. g[s \ {Chosen(s)}] = h[s \ {Chosen(s)}]
      BY <1>0, <2>1, <1>3, ChosenRemoved
    <2> QED BY <1>1, <2>1, <2>2
  <1>4. Nat \subseteq N
    <2> HIDE DEF N
    <2> QED BY <1>2, <1>3, NatSetInduction
  <1>5. \A s \in SUBSET T : Cardinality(s) \in Nat
    BY <1>0, FS_Subset, FS_CardinalityType
  <1> QED BY <1>4, <1>5

-----------------------------------------------------------------------------
(* What a sum is.                                                            *)

\* Nothing sums to zero.
LEMMA SumEmpty == ASSUME NEW f PROVE SumFunctionOnSet(f, {}) = 0
  <1>1. IsFiniteSet({})
    BY FS_EmptySet
  <1>2. PICK g : SumsSubsets(g, f, {}) /\ SumFunctionOnSet(f, {}) = g[{}]
    BY <1>1, SumsOverSubsets
  <1> QED BY <1>2 DEF SumsSubsets, Sums

\* A sum is the chosen summand and the sum of the others.
LEMMA SumChosen ==
    ASSUME NEW f, NEW S, IsFiniteSet(S), S # {}
    PROVE  SumFunctionOnSet(f, S)
              = f[Chosen(S)] + SumFunctionOnSet(f, S \ {Chosen(S)})
  <1> DEFINE T == S \ {Chosen(S)}
  <1>1. PICK g : SumsSubsets(g, f, S) /\ SumFunctionOnSet(f, S) = g[S]
    BY SumsOverSubsets
  <1>2. IsFiniteSet(T) /\ T \in SUBSET S
    BY FS_Subset
  <1>3. PICK h : SumsSubsets(h, f, T) /\ SumFunctionOnSet(f, T) = h[T]
    <2> HIDE DEF T
    <2> QED BY <1>2, SumsOverSubsets
  <1>4. g[T] = h[T]
    <2> HIDE DEF T
    <2>2. \A s \in SUBSET T : g[s] = h[s]
      BY <1>1, <1>2, <1>3, SumsAgree
    <2> QED BY <2>2
  <1>5. g[S] = f[Chosen(S)] + g[T]
    BY <1>1 DEF SumsSubsets, Sums
  <1> QED BY <1>1, <1>3, <1>4, <1>5

\* Integers sum to an integer.
LEMMA SumInt ==
    ASSUME NEW f, NEW S, IsFiniteSet(S), \A x \in S : f[x] \in Int
    PROVE  SumFunctionOnSet(f, S) \in Int
  <1> DEFINE N == {n \in Nat : \A s \in SUBSET S :
                      Cardinality(s) = n => SumFunctionOnSet(f, s) \in Int}
  <1>1. \A s \in SUBSET S : IsFiniteSet(s) /\ Cardinality(s) \in Nat
    BY FS_Subset, FS_CardinalityType
  <1>2. 0 \in N
    <2> SUFFICES ASSUME NEW s \in SUBSET S, Cardinality(s) = 0
                 PROVE  SumFunctionOnSet(f, s) \in Int
      OBVIOUS
    <2>1. s = {}
      BY <1>1, FS_EmptySet
    <2> QED BY <2>1, SumEmpty
  <1>3. ASSUME NEW n \in Nat, n \in N PROVE n + 1 \in N
    <2> SUFFICES ASSUME NEW s \in SUBSET S, Cardinality(s) = n + 1
                 PROVE  SumFunctionOnSet(f, s) \in Int
      OBVIOUS
    <2>1. s # {}
      BY FS_EmptySet
    <2>2. SumFunctionOnSet(f, s \ {Chosen(s)}) \in Int
      BY <2>1, <1>3, ChosenRemoved
    <2>3. f[Chosen(s)] \in Int
      BY <2>1, ChosenRemoved
    <2> QED BY <1>1, <2>1, <2>2, <2>3, SumChosen
  <1>4. Nat \subseteq N
    <2> HIDE DEF N
    <2> QED BY <1>2, <1>3, NatSetInduction
  <1> QED BY <1>1, <1>4

\* A sum is any of its summands and the sum of the others.
LEMMA SumRemove ==
    ASSUME NEW f, NEW S, IsFiniteSet(S), \A x \in S : f[x] \in Int, NEW y \in S
    PROVE  SumFunctionOnSet(f, S) = f[y] + SumFunctionOnSet(f, S \ {y})
  <1> DEFINE Sum(s) == SumFunctionOnSet(f, s)
             N == {n \in Nat : \A s \in SUBSET S : Cardinality(s) = n
                      => \A z \in s : Sum(s) = f[z] + Sum(s \ {z})}
  <1>1. \A s \in SUBSET S : IsFiniteSet(s) /\ Cardinality(s) \in Nat
    BY FS_Subset, FS_CardinalityType
  <1>2. \A s \in SUBSET S : Sum(s) \in Int
    BY <1>1, SumInt
  <1> HIDE DEF Sum
  <1>3. 0 \in N
    BY <1>1, FS_EmptySet
  <1>4. ASSUME NEW n \in Nat, n \in N PROVE n + 1 \in N
    <2> SUFFICES ASSUME NEW s \in SUBSET S, Cardinality(s) = n + 1, NEW z \in s
                 PROVE  Sum(s) = f[z] + Sum(s \ {z})
      OBVIOUS
    <2> DEFINE c == Chosen(s)
               t == s \ {c}
    <2>1. c \in s /\ t \in SUBSET S /\ Cardinality(t) = n
      BY ChosenRemoved
    <2> HIDE DEF c
    <2>2. Sum(s) = f[c] + Sum(t)
      BY <1>1, SumChosen DEF Sum, c
    <2>3. CASE z = c
      BY <2>2, <2>3
    <2>4. CASE z # c
      <3>1. Sum(t) = f[z] + Sum(t \ {z})
        BY <2>1, <2>4, <1>4
      <3>2. c \in s \ {z} /\ Cardinality(s \ {z}) = n /\ s \ {z} \in SUBSET S
        BY <2>1, <2>4, <1>1, FS_RemoveElement
      <3>3. Sum(s \ {z}) = f[c] + Sum((s \ {z}) \ {c})
        BY <3>2, <1>4
      <3>4. (s \ {z}) \ {c} = t \ {z}
        OBVIOUS
      <3>5. f[c] \in Int /\ f[z] \in Int /\ Sum(t \ {z}) \in Int
        BY <1>2, <2>1
      <3>6. Sum(s) = f[c] + (f[z] + Sum(t \ {z}))
        BY <2>2, <3>1
      <3>7. Sum(s \ {z}) = f[c] + Sum(t \ {z})
        BY <3>3, <3>4
      <3> HIDE DEF t
      <3> QED BY <3>5, <3>6, <3>7
    <2> QED BY <2>3, <2>4
  <1>5. Nat \subseteq N
    <2> HIDE DEF N
    <2> QED BY <1>3, <1>4, NatSetInduction
  <1>6. Sum(S) = f[y] + Sum(S \ {y})
    BY <1>1, <1>5
  <1> QED BY <1>6 DEF Sum
\* Adding an element to a set adds its summand.
LEMMA SumAdd ==
    ASSUME NEW f, NEW S, IsFiniteSet(S), NEW y, y \notin S,
           \A x \in S \cup {y} : f[x] \in Int
    PROVE  SumFunctionOnSet(f, S \cup {y}) = SumFunctionOnSet(f, S) + f[y]
  <1> DEFINE T == S \cup {y}
  <1>1. IsFiniteSet(T) /\ y \in T /\ T \ {y} = S
    BY FS_AddElement
  <1>2. \A x \in T : f[x] \in Int
    OBVIOUS
  <1>3. f[y] \in Int /\ SumFunctionOnSet(f, S) \in Int
    BY SumInt
  <1>4. SumFunctionOnSet(f, T) = f[y] + SumFunctionOnSet(f, T \ {y})
    <2> HIDE DEF T
    <2> QED BY <1>1, <1>2, SumRemove
  <1>5. SumFunctionOnSet(f, T) = f[y] + SumFunctionOnSet(f, S)
    BY <1>1, <1>4
  <1> QED BY <1>3, <1>5

\* Equal summands have equal sums.
LEMMA SumEqual ==
    ASSUME NEW f, NEW g, NEW S, IsFiniteSet(S), \A x \in S : f[x] = g[x]
    PROVE  SumFunctionOnSet(f, S) = SumFunctionOnSet(g, S)
  <1> DEFINE N == {n \in Nat : \A s \in SUBSET S : Cardinality(s) = n
                      => SumFunctionOnSet(f, s) = SumFunctionOnSet(g, s)}
  <1>1. \A s \in SUBSET S : IsFiniteSet(s) /\ Cardinality(s) \in Nat
    BY FS_Subset, FS_CardinalityType
  <1>2. 0 \in N
    <2> SUFFICES ASSUME NEW s \in SUBSET S, Cardinality(s) = 0
                 PROVE  SumFunctionOnSet(f, s) = SumFunctionOnSet(g, s)
      OBVIOUS
    <2>1. s = {}
      BY <1>1, FS_EmptySet
    <2> QED BY <2>1, SumEmpty
  <1>3. ASSUME NEW n \in Nat, n \in N PROVE n + 1 \in N
    <2> SUFFICES ASSUME NEW s \in SUBSET S, Cardinality(s) = n + 1
                 PROVE  SumFunctionOnSet(f, s) = SumFunctionOnSet(g, s)
      OBVIOUS
    <2>1. s # {}
      <3>1. n + 1 # 0
        OBVIOUS
      <3> QED BY <3>1, FS_EmptySet
    <2> DEFINE c == Chosen(s)
               t == s \ {c}
    <2>2. c \in s /\ t \in SUBSET S /\ Cardinality(t) = n
      BY <2>1, ChosenRemoved
    <2>3. /\ SumFunctionOnSet(f, s) = f[c] + SumFunctionOnSet(f, t)
          /\ SumFunctionOnSet(g, s) = g[c] + SumFunctionOnSet(g, t)
      BY <1>1, <2>1, SumChosen
    <2> HIDE DEF c, t
    <2>4. SumFunctionOnSet(f, t) = SumFunctionOnSet(g, t) /\ f[c] = g[c]
      BY <1>3, <2>2
    <2> QED BY <2>3, <2>4
  <1>4. Nat \subseteq N
    <2> HIDE DEF N
    <2> QED BY <1>2, <1>3, NatSetInduction
  <1>5. S \in SUBSET S /\ Cardinality(S) \in N
    BY <1>1, <1>4
  <1> QED BY <1>5

\* Where one summand changes, the sum changes as much.
LEMMA SumChange ==
    ASSUME NEW f, NEW g, NEW S, IsFiniteSet(S), NEW y \in S,
           \A x \in S : f[x] \in Int /\ g[x] \in Int,
           \A x \in S \ {y} : f[x] = g[x]
    PROVE  SumFunctionOnSet(g, S) = SumFunctionOnSet(f, S) - f[y] + g[y]
  <1> DEFINE T == S \ {y}
  <1>1. IsFiniteSet(T) /\ T \subseteq S
    BY FS_RemoveElement
  <1>2. SumFunctionOnSet(f, T) = SumFunctionOnSet(g, T)
    BY <1>1, SumEqual
  <1>3. SumFunctionOnSet(f, T) \in Int
    BY <1>1, SumInt
  <1>4. /\ SumFunctionOnSet(f, S) = f[y] + SumFunctionOnSet(f, T)
        /\ SumFunctionOnSet(g, S) = g[y] + SumFunctionOnSet(g, T)
    BY SumRemove
  <1> HIDE DEF T
  <1> QED BY <1>2, <1>3, <1>4

\* The sum of pointwise sums.
LEMMA SumOfSums ==
    ASSUME NEW f, NEW g, NEW h, NEW S, IsFiniteSet(S),
           \A x \in S : f[x] \in Int /\ g[x] \in Int /\ h[x] = f[x] + g[x]
    PROVE  SumFunctionOnSet(h, S) = SumFunctionOnSet(f, S) + SumFunctionOnSet(g, S)
  <1> DEFINE Sf(T) == SumFunctionOnSet(f, T)
             Sg(T) == SumFunctionOnSet(g, T)
             Sh(T) == SumFunctionOnSet(h, T)
             G == {T \in SUBSET S : Sh(T) = Sf(T) + Sg(T)}
  <1>1. \A T \in SUBSET S : IsFiniteSet(T)
    BY FS_Subset
  <1>2. \A T \in SUBSET S : Sf(T) \in Int /\ Sg(T) \in Int
    BY <1>1, SumInt
  <1>3. {} \in G
    BY SumEmpty
  <1>4. ASSUME NEW T \in SUBSET S, NEW x \in S \ T, T \in G
        PROVE  T \cup {x} \in G
    <2>1. /\ Sf(T \cup {x}) = Sf(T) + f[x]
          /\ Sg(T \cup {x}) = Sg(T) + g[x]
          /\ Sh(T \cup {x}) = Sh(T) + h[x]
      BY <1>1, SumAdd
    <2>2. Sh(T) = Sf(T) + Sg(T)
      BY <1>4
    <2>3. Sf(T) \in Int /\ Sg(T) \in Int
      BY <1>2
    <2> HIDE DEF Sf, Sg, Sh
    <2>4. Sh(T \cup {x}) = Sf(T \cup {x}) + Sg(T \cup {x})
      BY <2>1, <2>2, <2>3
    <2> QED BY <2>4
  <1>5. SUBSET S \subseteq G
    <2> HIDE DEF G
    <2> QED BY <1>3, <1>4, SubsetInduction
  <1>6. Sh(S) = Sf(S) + Sg(S)
    BY <1>5
  <1> QED BY <1>6

\* Natural numbers sum to a natural number.
LEMMA SumNat ==
    ASSUME NEW f, NEW S, IsFiniteSet(S), \A x \in S : f[x] \in Nat
    PROVE  SumFunctionOnSet(f, S) \in Nat
  <1> DEFINE Sf(T) == SumFunctionOnSet(f, T)
             G == {T \in SUBSET S : Sf(T) \in Nat}
  <1>1. \A T \in SUBSET S : IsFiniteSet(T)
    BY FS_Subset
  <1>2. {} \in G
    BY SumEmpty
  <1>3. ASSUME NEW T \in SUBSET S, NEW x \in S \ T, T \in G
        PROVE  T \cup {x} \in G
    <2>1. Sf(T \cup {x}) = Sf(T) + f[x]
      BY <1>1, SumAdd
    <2>2. Sf(T) \in Nat
      BY <1>3
    <2> HIDE DEF Sf
    <2> QED BY <2>1, <2>2
  <1>4. SUBSET S \subseteq G
    <2> HIDE DEF G
    <2> QED BY <1>2, <1>3, SubsetInduction
  <1> QED BY <1>4

\* Summands that are all zero sum to zero.
LEMMA SumZero ==
    ASSUME NEW f, NEW S, IsFiniteSet(S), \A x \in S : f[x] = 0
    PROVE  SumFunctionOnSet(f, S) = 0
  <1> DEFINE Sf(T) == SumFunctionOnSet(f, T)
             G == {T \in SUBSET S : Sf(T) = 0}
  <1>1. \A T \in SUBSET S : IsFiniteSet(T)
    BY FS_Subset
  <1>2. {} \in G
    BY SumEmpty
  <1>3. ASSUME NEW T \in SUBSET S, NEW x \in S \ T, T \in G
        PROVE  T \cup {x} \in G
    <2>1. Sf(T \cup {x}) = Sf(T) + f[x]
      BY <1>1, SumAdd
    <2>2. Sf(T) = 0 /\ f[x] = 0
      BY <1>3
    <2> HIDE DEF Sf
    <2> QED BY <2>1, <2>2
  <1>4. SUBSET S \subseteq G
    <2> HIDE DEF G
    <2> QED BY <1>2, <1>3, SubsetInduction
  <1> QED BY <1>4

\* The sum of a set is the sum of a part of it and the sum of the rest.
LEMMA SumSplit ==
    ASSUME NEW f, NEW S, IsFiniteSet(S), NEW T \in SUBSET S, \A x \in S : f[x] \in Int
    PROVE  SumFunctionOnSet(f, S) = SumFunctionOnSet(f, T) + SumFunctionOnSet(f, S \ T)
  <1> DEFINE R == S \ T
             Sf(A) == SumFunctionOnSet(f, A)
             G == {U \in SUBSET R : Sf(T \cup U) = Sf(T) + Sf(U)}
  <1>1. \A A \in SUBSET S : IsFiniteSet(A)
    BY FS_Subset
  <1>2. \A A \in SUBSET S : Sf(A) \in Int
    BY <1>1, SumInt
  <1>3. {} \in G
    <2>1. T \cup {} = T /\ Sf({}) = 0
      BY SumEmpty
    <2>2. Sf(T) \in Int
      BY <1>2
    <2> HIDE DEF Sf
    <2> QED BY <2>1, <2>2
  <1>4. ASSUME NEW U \in SUBSET R, NEW x \in R \ U, U \in G
        PROVE  U \cup {x} \in G
    <2>1. U \in SUBSET S /\ T \cup U \in SUBSET S /\ x \in S /\ x \notin T \cup U /\ x \notin U
      OBVIOUS
    <2>2. Sf(U \cup {x}) = Sf(U) + f[x]
      BY <1>1, <2>1, SumAdd
    <2>3. Sf((T \cup U) \cup {x}) = Sf(T \cup U) + f[x]
      BY <1>1, <2>1, SumAdd
    <2>4. (T \cup U) \cup {x} = T \cup (U \cup {x})
      OBVIOUS
    <2>5. Sf(T \cup U) = Sf(T) + Sf(U)
      BY <1>4
    <2>6. Sf(T) \in Int /\ Sf(U) \in Int /\ f[x] \in Int
      BY <1>2, <2>1
    <2> HIDE DEF Sf
    <2>7. Sf(T \cup (U \cup {x})) = Sf(T \cup U) + f[x]
      BY <2>3, <2>4
    <2>8. Sf(T \cup U) + f[x] = Sf(T) + (Sf(U) + f[x])
      BY <2>5, <2>6
    <2>9. Sf(T \cup (U \cup {x})) = Sf(T) + Sf(U \cup {x})
      BY <2>2, <2>7, <2>8
    <2> QED BY <2>9
  <1>5. SUBSET R \subseteq G
    <2>1. IsFiniteSet(R)
      BY <1>1
    <2> HIDE DEF G, R
    <2> QED BY <1>3, <1>4, <2>1, SubsetInduction
  <1>6. Sf(T \cup R) = Sf(T) + Sf(R)
    <2>1. R \in G
      BY <1>5
    <2> HIDE DEF R
    <2> QED BY <2>1
  <1>7. T \cup R = S
    OBVIOUS
  <1> QED BY <1>6, <1>7

\* With natural summands a part of a set has no larger sum than the set.
LEMMA SumMonotone ==
    ASSUME NEW f, NEW S, IsFiniteSet(S), NEW T \in SUBSET S, \A x \in S : f[x] \in Nat
    PROVE  SumFunctionOnSet(f, T) <= SumFunctionOnSet(f, S)
  <1>1. IsFiniteSet(T) /\ IsFiniteSet(S \ T)
    BY FS_Subset
  <1>2. SumFunctionOnSet(f, T) \in Nat
    BY <1>1, SumNat
  <1>3. SumFunctionOnSet(f, S \ T) \in Nat
    BY <1>1, SumNat
  <1>4. SumFunctionOnSet(f, S) = SumFunctionOnSet(f, T) + SumFunctionOnSet(f, S \ T)
    <2>1. \A x \in S : f[x] \in Int
      OBVIOUS
    <2> QED BY <2>1, SumSplit
  <1> QED BY <1>2, <1>3, <1>4

-----------------------------------------------------------------------------
(* Recursive functions with values in a set that every step stays in.        *)

StaysIn(step, I, D) == \A i \in I, d \in D : step[<<i, d>>] \in D

\* g starts at base and steps through 1..n inside D.
StepsUpTo(g, n, step, base, D) ==
    /\ g \in [0..n -> D]
    /\ g[0] = base
    /\ \A i \in 1..n : g[i] = step[<<i, g[i - 1]>>]

\* A recursion over 0..n whose steps stay in D has a solution in D.
LEMMA RangeRecursion ==
    ASSUME NEW n \in Nat, NEW D, NEW base \in D, NEW step,
           StaysIn(step, 1..n, D)
    PROVE  \E g : StepsUpTo(g, n, step, base, D)
  <1> DEFINE Solves(g, m) == StepsUpTo(g, m, step, base, D)
             N == {m \in Nat : m <= n => \E g : Solves(g, m)}
  <1>1. 0 \in N
    <2>1. Solves([i \in 0..0 |-> base], 0)
      BY DEF StepsUpTo
    <2> QED BY <2>1
  <1>2. ASSUME NEW m \in Nat, m \in N PROVE m + 1 \in N
    <2> SUFFICES ASSUME m + 1 <= n PROVE \E h : Solves(h, m + 1)
      OBVIOUS
    <2>0. m <= n /\ \E g : Solves(g, m)
      BY <1>2
    <2>1. PICK g : Solves(g, m)
      BY <2>0
    <2> DEFINE last == step[<<m + 1, g[m]>>]
               h == [i \in 0..(m + 1) |-> IF i = m + 1 THEN last ELSE g[i]]
    <2>2. last \in D
      <3>1. g[m] \in D /\ m + 1 \in 1..n
        BY <2>0, <2>1 DEF StepsUpTo
      <3> QED BY <3>1 DEF StaysIn
    <2>3. h \in [0..(m + 1) -> D]
      <3> HIDE DEF last
      <3> QED BY <2>1, <2>2 DEF StepsUpTo
    <2>4. h[0] = base
      BY <2>1 DEF StepsUpTo
    <2>5. ASSUME NEW i \in 1..(m + 1) PROVE h[i] = step[<<i, h[i - 1]>>]
      <3>1. CASE i = m + 1
        <4>1. h[i] = last /\ h[i - 1] = g[m]
          BY <3>1
        <4> QED BY <3>1, <4>1
      <3>2. CASE i \in 1..m
        <4>1. h[i] = g[i] /\ h[i - 1] = g[i - 1]
          BY <3>2
        <4> QED BY <2>1, <3>2, <4>1 DEF StepsUpTo
      <3> QED BY <3>1, <3>2
    <2>6. Solves(h, m + 1)
      <3> HIDE DEF h
      <3> QED BY <2>3, <2>4, <2>5 DEF StepsUpTo
    <2> QED BY <2>6
  <1>3. Nat \subseteq N
    <2> HIDE DEF N
    <2> QED BY <1>1, <1>2, NatSetInduction
  <1>4. n \in N
    <2> HIDE DEF N
    <2> QED BY <1>3
  <1> QED BY <1>4

\* Where every step of a recursion over 0..n stays in D, all its values are in D.
LEMMA RangeInvariant ==
    ASSUME NEW n \in Nat, NEW D, NEW g, g[0] \in D,
           \A i \in 1..n : g[i - 1] \in D => g[i] \in D
    PROVE  \A i \in 0..n : g[i] \in D
  <1> DEFINE G == {i \in 0..n : g[i] \in D}
  <1>1. 0 \in G
    OBVIOUS
  <1>2. \A i \in 1..n : i - 1 \in G => i \in G
    OBVIOUS
  <1> HIDE DEF G
  <1>3. 0..n \subseteq G
    BY <1>1, <1>2, RangeInduction
  <1> QED BY <1>3 DEF G

\* g steps from each subset of S without its chosen element to the subset.
StepsOver(g, step, base, S, D) ==
    /\ g \in [SUBSET S -> D]
    /\ g[{}] = base
    /\ \A s \in SUBSET S : s # {} => g[s] = step[<<Chosen(s), g[s \ {Chosen(s)}]>>]

\* The same over the subsets of a finite set.
LEMMA SubsetRecursion ==
    ASSUME NEW S, IsFiniteSet(S), NEW D, NEW base \in D, NEW step,
           StaysIn(step, S, D)
    PROVE  \E g : StepsOver(g, step, base, S, D)
  <1> DEFINE Solves(g, n) ==
                /\ g \in [UpTo(S, n) -> D] /\ g[{}] = base
                /\ \A s \in UpTo(S, n) :
                      s # {} => g[s] = step[<<Chosen(s), g[s \ {Chosen(s)}]>>]
             N == {n \in Nat : \E g : Solves(g, n)}
  <1>0. \A n \in Nat : {} \in UpTo(S, n)
    BY FS_EmptySet DEF UpTo
  <1>1. 0 \in N
    <2>1. \A s \in UpTo(S, 0) : s = {}
      <3> SUFFICES ASSUME NEW s \in SUBSET S, Cardinality(s) <= 0 PROVE s = {}
        BY DEF UpTo
      <3>1. IsFiniteSet(s) /\ Cardinality(s) \in Nat
        BY FS_Subset, FS_CardinalityType
      <3> QED BY <3>1, FS_EmptySet
    <2>2. Solves([s \in UpTo(S, 0) |-> base], 0)
      BY <1>0, <2>1
    <2> QED BY <2>2
  <1>2. ASSUME NEW n \in Nat, n \in N PROVE n + 1 \in N
    <2>1. PICK g : Solves(g, n)
      BY <1>2
    <2>2. \A s \in UpTo(S, n + 1) : s # {} =>
             /\ Chosen(s) \in S
             /\ s \ {Chosen(s)} \in UpTo(S, n) /\ s \ {Chosen(s)} \in UpTo(S, n + 1)
      <3> SUFFICES ASSUME NEW s \in UpTo(S, n + 1), s # {}
                   PROVE  /\ Chosen(s) \in S
                          /\ s \ {Chosen(s)} \in UpTo(S, n) /\ s \ {Chosen(s)} \in UpTo(S, n + 1)
        OBVIOUS
      <3> QED BY ChosenRemoved DEF UpTo
    <2> DEFINE h == [s \in UpTo(S, n + 1) |->
                        IF s = {} THEN base ELSE step[<<Chosen(s), g[s \ {Chosen(s)}]>>]]
    <2>3. h \in [UpTo(S, n + 1) -> D]
      <3>1. ASSUME NEW s \in UpTo(S, n + 1), s # {}
            PROVE  step[<<Chosen(s), g[s \ {Chosen(s)}]>>] \in D
        <4>1. g[s \ {Chosen(s)}] \in D /\ Chosen(s) \in S
          BY <2>1, <2>2, <3>1
        <4> QED BY <4>1 DEF StaysIn
      <3> QED BY <3>1
    <2>4. h[{}] = base
      BY <1>0
    <2>5. \A t \in UpTo(S, n) : t \in UpTo(S, n + 1) => h[t] = g[t]
      BY <2>1
    <2>6. ASSUME NEW s \in UpTo(S, n + 1), s # {}
          PROVE  h[s] = step[<<Chosen(s), h[s \ {Chosen(s)}]>>]
      <3>1. h[s \ {Chosen(s)}] = g[s \ {Chosen(s)}]
        <4> HIDE DEF h
        <4> QED BY <2>2, <2>5, <2>6
      <3>2. h[s] = step[<<Chosen(s), g[s \ {Chosen(s)}]>>]
        BY <2>6
      <3> QED BY <3>1, <3>2
    <2>7. Solves(h, n + 1)
      <3> HIDE DEF h
      <3> QED BY <2>3, <2>4, <2>6
    <2>8. \E k : Solves(k, n + 1)
      <3> HIDE DEF h, Solves
      <3> QED BY <2>7
    <2> HIDE DEF Solves
    <2> QED BY <2>8
  <1>3. Nat \subseteq N
    <2> HIDE DEF N
    <2> QED BY <1>1, <1>2, NatSetInduction
  <1>4. Cardinality(S) \in Nat /\ UpTo(S, Cardinality(S)) = SUBSET S
    BY FS_CardinalityType, FS_Subset DEF UpTo
  <1>5. PICK g : Solves(g, Cardinality(S))
    BY <1>3, <1>4
  <1>6. StepsOver(g, step, base, S, D)
    BY <1>4, <1>5 DEF StepsOver
  <1> QED BY <1>6

LEMMA SubsetInvariant ==
    ASSUME NEW S, IsFiniteSet(S), NEW D, NEW g, g[{}] \in D,
           \A s \in SUBSET S : s # {} /\ g[s \ {Chosen(s)}] \in D => g[s] \in D
    PROVE  \A s \in SUBSET S : g[s] \in D
  <1> DEFINE N == {n \in Nat : \A s \in SUBSET S : Cardinality(s) = n => g[s] \in D}
  <1>1. \A s \in SUBSET S : IsFiniteSet(s) /\ Cardinality(s) \in Nat
    BY FS_Subset, FS_CardinalityType
  <1>2. 0 \in N
    <2> SUFFICES ASSUME NEW s \in SUBSET S, Cardinality(s) = 0 PROVE g[s] \in D
      OBVIOUS
    <2> QED BY <1>1, FS_EmptySet
  <1>3. ASSUME NEW n \in Nat, n \in N PROVE n + 1 \in N
    <2> SUFFICES ASSUME NEW s \in SUBSET S, Cardinality(s) = n + 1 PROVE g[s] \in D
      OBVIOUS
    <2>1. s # {}
      BY <1>1, FS_EmptySet
    <2>2. s \ {Chosen(s)} \in SUBSET S /\ Cardinality(s \ {Chosen(s)}) = n
      BY <2>1, ChosenRemoved
    <2> QED BY <1>3, <2>1, <2>2
  <1>4. Nat \subseteq N
    <2> HIDE DEF N
    <2> QED BY <1>2, <1>3, NatSetInduction
  <1> QED BY <1>1, <1>4
=============================================================================
