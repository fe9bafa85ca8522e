------------------------------ MODULE FiniteSums ------------------------------
(***************************************************************************)
(* Laws of SumFunctionOnSet on finite sets, for the proofs that reckon     *)
(* with bytes: those of an empty set, of one element more or less, of a    *)
(* subset.  A law that needs induction on the set is proved by the         *)
(* smallest of its subsets that breaks it.                                 *)
(***************************************************************************)
EXTENDS Integers, Functions, FiniteSetTheorems, WellFoundedInduction, TLAPS

\* f tabulates the sums of w on the subsets of S, as SumFunctionOnSet defines them.
SumsUp(f, w, S) ==
  f = [s \in SUBSET S |->
         IF s = {} THEN 0 ELSE LET x == CHOOSE x \in s : TRUE IN w[x] + f[s \ {x}]]

\* A set of subsets of a finite set has one that has no other one in it.
LEMMA MinimalSubset ==
  ASSUME NEW S, IsFiniteSet(S), NEW Bad, Bad \subseteq SUBSET S, Bad # {}
  PROVE  \E T \in Bad : \A U \in SUBSET T : U # T => U \notin Bad
<1>1. IsWellFoundedOn(StrictSubsetOrdering(S), SUBSET S)
  BY FS_StrictSubsetOrderingWellFounded, FS_FiniteSubsetsOfFinite
<1>2. PICK T \in Bad : \A U \in Bad : <<U, T>> \notin StrictSubsetOrdering(S)
  BY <1>1, WFMin
<1>3. ASSUME NEW U \in SUBSET T, U # T PROVE U \notin Bad
  BY <1>2, <1>3 DEF StrictSubsetOrdering
<1> QED
  BY <1>2, <1>3

\* What a table says of a subset.
LEMMA TableEntry ==
  ASSUME NEW w, NEW S, NEW f, SumsUp(f, w, S), NEW T \in SUBSET S
  PROVE  /\ T = {} => f[T] = 0
         /\ T # {} => \E x \in T : x = (CHOOSE y \in T : TRUE) /\ f[T] = w[x] + f[T \ {x}]
BY DEF SumsUp

\* Two tables agree where both have an entry.
LEMMA TablesAgree ==
  ASSUME NEW w, NEW S, NEW R, NEW f, NEW g, SumsUp(f, w, S), SumsUp(g, w, R),
         NEW T \in (SUBSET S) \cap (SUBSET R), IsFiniteSet(T)
  PROVE  f[T] = g[T]
<1> DEFINE Bad == {U \in SUBSET T : f[U] # g[U]}
<1> SUFFICES ASSUME Bad # {} PROVE FALSE
  OBVIOUS
<1>1. PICK U \in Bad : \A V \in SUBSET U : V # U => V \notin Bad
  <2>1. Bad \subseteq SUBSET T
    OBVIOUS
  <2> HIDE DEF Bad
  <2> QED
    BY <2>1, MinimalSubset
<1>2. U \in SUBSET S /\ U \in SUBSET R /\ f[U] # g[U]
  OBVIOUS
<1>3. U # {}
  BY <1>2, TableEntry
<1>4. /\ \E x \in U : x = (CHOOSE y \in U : TRUE) /\ f[U] = w[x] + f[U \ {x}]
      /\ \E x \in U : x = (CHOOSE y \in U : TRUE) /\ g[U] = w[x] + g[U \ {x}]
  BY <1>2, <1>3, TableEntry
<1>5. PICK x \in U : f[U] = w[x] + f[U \ {x}] /\ g[U] = w[x] + g[U \ {x}]
  BY <1>4
<1>6. f[U \ {x}] = g[U \ {x}]
  BY <1>1
<1> QED
  BY <1>2, <1>5, <1>6

\* Every finite set has a table.
LEMMA TableExists ==
  ASSUME NEW w, NEW S, IsFiniteSet(S)
  PROVE  \E f : SumsUp(f, w, S)
<1> DEFINE Bad == {T \in SUBSET S : ~ \E f : SumsUp(f, w, T)}
<1> SUFFICES ASSUME Bad # {} PROVE FALSE
  OBVIOUS
<1>1. PICK T \in Bad : \A U \in SUBSET T : U # T => U \notin Bad
  <2>1. Bad \subseteq SUBSET S
    OBVIOUS
  <2> HIDE DEF Bad
  <2> QED
    BY <2>1, MinimalSubset
<1> DEFINE g(U) == CHOOSE h : SumsUp(h, w, U)
           c(U) == CHOOSE x \in U : TRUE
           f == [s \in SUBSET T |-> IF s = {} THEN 0 ELSE w[c(s)] + g(s \ {c(s)})[s \ {c(s)}]]
<1>2. \A s \in SUBSET T : s # {} => c(s) \in s /\ s \ {c(s)} \in SUBSET T /\ s \ {c(s)} # T
  OBVIOUS
<1>3. \A U \in SUBSET T : U # T => SumsUp(g(U), w, U)
  BY <1>1
<1>4. ASSUME NEW s \in SUBSET T, s # {}
      PROVE  g(s \ {c(s)})[s \ {c(s)}] = f[s \ {c(s)}]
  <2> DEFINE U == s \ {c(s)}
  <2>1. U \in SUBSET T /\ U # T /\ SumsUp(g(U), w, U)
    BY <1>2, <1>3, <1>4
  <2>2. CASE U = {}
    BY <2>1, <2>2, TableEntry
  <2>3. CASE U # {}
    <3>1. g(U)[U] = w[c(U)] + g(U)[U \ {c(U)}]
      BY <2>1, <2>3, TableEntry
    <3>2. SumsUp(g(U \ {c(U)}), w, U \ {c(U)}) /\ U \ {c(U)} \in SUBSET U
      BY <1>2, <1>3, <2>1, <2>3
    <3>3. IsFiniteSet(U \ {c(U)})
      BY <2>1, FS_Subset
    <3>4. g(U)[U \ {c(U)}] = g(U \ {c(U)})[U \ {c(U)}]
      <4>1. U \ {c(U)} \in (SUBSET U) \cap (SUBSET (U \ {c(U)}))
        OBVIOUS
      <4> HIDE DEF g, c, U
      <4> QED
        BY <2>1, <3>2, <3>3, <4>1, TablesAgree
    <3>5. f[U] = w[c(U)] + g(U \ {c(U)})[U \ {c(U)}]
      BY <2>1, <2>3
    <3> QED
      BY <3>1, <3>4, <3>5
  <2> QED
    BY <2>2, <2>3
<1>5. f = [s \in SUBSET T |-> IF s = {} THEN 0 ELSE w[c(s)] + f[s \ {c(s)}]]
  <2> DEFINE h == [s \in SUBSET T |-> IF s = {} THEN 0 ELSE w[c(s)] + f[s \ {c(s)}]]
  <2>1. ASSUME NEW s \in SUBSET T PROVE f[s] = h[s]
    <3>1. s = {} => f[s] = 0 /\ h[s] = 0
      OBVIOUS
    <3>2. s # {} => h[s] = w[c(s)] + f[s \ {c(s)}] /\ f[s] = w[c(s)] + g(s \ {c(s)})[s \ {c(s)}]
      BY Zenon
    <3> HIDE DEF f, h, c, g
    <3> QED
      BY <1>4, <3>1, <3>2
  <2> HIDE DEF c, g
  <2> QED
    BY <2>1
<1>6. SumsUp(f, w, T)
  BY <1>5 DEF SumsUp
<1> QED
  BY <1>1, <1>6

\* SumFunctionOnSet looks its sum up in a table.
LEMMA SumIsEntry ==
  ASSUME NEW w, NEW S, IsFiniteSet(S)
  PROVE  \E f : SumsUp(f, w, S) /\ SumFunctionOnSet(w, S) = f[S]
<1>1. SumFunctionOnSet(w, S) = (CHOOSE f : SumsUp(f, w, S))[S]
  BY DEF SumFunctionOnSet, FoldFunctionOnSet, MapThenFoldSet, SumsUp
<1> QED
  BY <1>1, TableExists

\* Every table has the sum that SumFunctionOnSet returns.
LEMMA EntryIsSum ==
  ASSUME NEW w, NEW S, IsFiniteSet(S), NEW f, SumsUp(f, w, S)
  PROVE  f[S] = SumFunctionOnSet(w, S)
<1>1. PICK g : SumsUp(g, w, S) /\ SumFunctionOnSet(w, S) = g[S]
  BY SumIsEntry
<1>2. S \in (SUBSET S) \cap (SUBSET S)
  OBVIOUS
<1> QED
  BY <1>1, <1>2, TablesAgree

\* The sum over nothing.
LEMMA SumEmpty == ASSUME NEW w PROVE SumFunctionOnSet(w, {}) = 0
<1>1. PICK f : SumsUp(f, w, {}) /\ SumFunctionOnSet(w, {}) = f[{}]
  BY SumIsEntry, FS_EmptySet
<1> QED
  BY <1>1, TableEntry

\* One element may be counted first.
LEMMA SumChosen ==
  ASSUME NEW w, NEW S, IsFiniteSet(S), S # {}
  PROVE  \E x \in S : SumFunctionOnSet(w, S) = w[x] + SumFunctionOnSet(w, S \ {x})
<1>1. PICK f : SumsUp(f, w, S) /\ SumFunctionOnSet(w, S) = f[S]
  BY SumIsEntry
<1>2. PICK x \in S : f[S] = w[x] + f[S \ {x}]
  BY <1>1, TableEntry
<1>3. IsFiniteSet(S \ {x})
  BY FS_Subset
<1>4. PICK g : SumsUp(g, w, S \ {x}) /\ SumFunctionOnSet(w, S \ {x}) = g[S \ {x}]
  BY <1>3, SumIsEntry
<1>5. g[S \ {x}] = f[S \ {x}]
  BY <1>1, <1>3, <1>4, TablesAgree
<1> QED
  BY <1>1, <1>2, <1>4, <1>5

\* A sum of natural numbers is one.
LEMMA SumNat ==
  ASSUME NEW w, NEW S, IsFiniteSet(S), \A x \in S : w[x] \in Nat
  PROVE  SumFunctionOnSet(w, S) \in Nat
<1> DEFINE Bad == {T \in SUBSET S : SumFunctionOnSet(w, T) \notin Nat}
<1> SUFFICES ASSUME Bad # {} PROVE FALSE
  BY FS_Subset
<1>1. PICK T \in Bad : \A U \in SUBSET T : U # T => U \notin Bad
  <2>1. Bad \subseteq SUBSET S
    OBVIOUS
  <2> HIDE DEF Bad
  <2> QED
    BY <2>1, MinimalSubset
<1>2. IsFiniteSet(T) /\ T # {}
  <2>1. SumFunctionOnSet(w, {}) \in Nat
    BY SumEmpty
  <2> QED
    BY <2>1, FS_Subset
<1>3. PICK x \in T : SumFunctionOnSet(w, T) = w[x] + SumFunctionOnSet(w, T \ {x})
  BY <1>2, SumChosen
<1>4. SumFunctionOnSet(w, T \ {x}) \in Nat
  BY <1>1
<1> QED
  BY <1>3, <1>4

\* Any element may be counted first.
LEMMA SumRemove ==
  ASSUME NEW w, NEW S, IsFiniteSet(S), \A x \in S : w[x] \in Nat, NEW z \in S
  PROVE  SumFunctionOnSet(w, S) = w[z] + SumFunctionOnSet(w, S \ {z})
<1> DEFINE Good(T) == \A x \in T : SumFunctionOnSet(w, T) = w[x] + SumFunctionOnSet(w, T \ {x})
           Bad == {T \in SUBSET S : ~Good(T)}
<1> SUFFICES ASSUME Bad # {} PROVE FALSE
  OBVIOUS
<1>1. PICK T \in Bad : \A U \in SUBSET T : U # T => U \notin Bad
  <2>1. Bad \subseteq SUBSET S
    OBVIOUS
  <2> HIDE DEF Bad
  <2> QED
    BY <2>1, MinimalSubset
<1>2. IsFiniteSet(T) /\ \A U \in SUBSET T : SumFunctionOnSet(w, U) \in Nat
  BY FS_Subset, SumNat
<1>3. PICK x \in T : SumFunctionOnSet(w, T) # w[x] + SumFunctionOnSet(w, T \ {x})
  OBVIOUS
<1>4. PICK y \in T : SumFunctionOnSet(w, T) = w[y] + SumFunctionOnSet(w, T \ {y})
  BY <1>2, <1>3, SumChosen
<1>5. y # x
  BY <1>3, <1>4
<1>6. Good(T \ {y}) /\ Good(T \ {x})
  BY <1>1
<1>7. SumFunctionOnSet(w, T \ {y}) = w[x] + SumFunctionOnSet(w, (T \ {y}) \ {x})
  BY <1>5, <1>6
<1>8. SumFunctionOnSet(w, T \ {x}) = w[y] + SumFunctionOnSet(w, (T \ {x}) \ {y})
  BY <1>5, <1>6
<1>9. (T \ {y}) \ {x} = (T \ {x}) \ {y}
  OBVIOUS
<1>10. w[x] \in Nat /\ w[y] \in Nat /\ SumFunctionOnSet(w, (T \ {x}) \ {y}) \in Nat
  BY <1>2
<1>11. SumFunctionOnSet(w, T \ {y}) = w[x] + SumFunctionOnSet(w, (T \ {x}) \ {y})
  BY <1>7, <1>9, Zenon
<1>12. ASSUME NEW t, NEW u, NEW v, NEW n \in Nat, NEW i \in Nat, NEW j \in Nat,
              t = j + u, u = i + n, v = j + n
       PROVE  t = i + v
  BY <1>12
<1> HIDE DEF Bad, Good
<1>13. SumFunctionOnSet(w, T) = w[x] + SumFunctionOnSet(w, T \ {x})
  BY <1>4, <1>8, <1>10, <1>11, <1>12
<1> QED
  BY <1>3, <1>13

\* A part of a set sums up to no more than the set.
LEMMA SumMonotone ==
  ASSUME NEW w, NEW S, IsFiniteSet(S), \A x \in S : w[x] \in Nat, NEW R \in SUBSET S
  PROVE  SumFunctionOnSet(w, R) <= SumFunctionOnSet(w, S)
<1> DEFINE Bad == {T \in SUBSET S : R \subseteq T /\
                     ~(SumFunctionOnSet(w, R) <= SumFunctionOnSet(w, T))}
<1> SUFFICES ASSUME Bad # {} PROVE FALSE
  OBVIOUS
<1>1. PICK T \in Bad : \A U \in SUBSET T : U # T => U \notin Bad
  <2>1. Bad \subseteq SUBSET S
    OBVIOUS
  <2> HIDE DEF Bad
  <2> QED
    BY <2>1, MinimalSubset
<1>2. IsFiniteSet(T) /\ \A U \in SUBSET T : SumFunctionOnSet(w, U) \in Nat
  BY FS_Subset, SumNat
<1>3. T # R
  BY <1>2
<1>4. PICK x \in T : x \notin R
  BY <1>3
<1>5. SumFunctionOnSet(w, T) = w[x] + SumFunctionOnSet(w, T \ {x})
  BY <1>2, SumRemove
<1>6. SumFunctionOnSet(w, R) <= SumFunctionOnSet(w, T \ {x})
  BY <1>1, <1>4
<1>7. w[x] \in Nat /\ SumFunctionOnSet(w, T \ {x}) \in Nat /\ SumFunctionOnSet(w, R) \in Nat
  BY <1>2
<1> QED
  BY <1>5, <1>6, <1>7

\* What is summed up counts only where it is summed up.
LEMMA SumSame ==
  ASSUME NEW w, NEW v, NEW S, IsFiniteSet(S), \A x \in S : w[x] = v[x]
  PROVE  SumFunctionOnSet(w, S) = SumFunctionOnSet(v, S)
<1>1. PICK f : SumsUp(f, w, S) /\ SumFunctionOnSet(w, S) = f[S]
  BY SumIsEntry
<1>2. SumsUp(f, v, S)
  <2>1. \A s \in SUBSET S : s # {} => (CHOOSE x \in s : TRUE) \in S
    OBVIOUS
  <2> QED
    BY <1>1, <2>1 DEF SumsUp
<1> QED
  BY <1>1, <1>2, EntryIsSum
===============================================================================
