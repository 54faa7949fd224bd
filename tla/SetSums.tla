------------------------------ MODULE SetSums --------------------------------
(***************************************************************************)
(* Sums over finite sets, for the proofs: what the community modules'      *)
(* MapThenSumSet computes, and how a sum changes with its set.             *)
(*                                                                         *)
(* The provers have no induction rule they can instantiate; every fact     *)
(* here is proved from a counterexample of least cardinality, which        *)
(* exists because the order on the natural numbers is well founded.        *)
(***************************************************************************)
EXTENDS FiniteSetsExt, FiniteSetTheorems, WellFoundedInduction, TLAPS

OneOf(s) == CHOOSE x \in s : TRUE

\* g is the table of the sums of f over the subsets of S.
SumTable(g, f, S) ==
  g = [s \in SUBSET S |-> IF s = {} THEN 0 ELSE f[OneOf(s)] + g[s \ {OneOf(s)}]]

\* The sum of the integers f[x] for x in the finite set S.
Total(f, S) == (CHOOSE g : SumTable(g, f, S))[S]

Agree(f, e, S) == \A x \in S : f[x] = e[x]

\* A set of natural numbers that is not empty has a least element.
LEMMA LeastElement ==
  ASSUME NEW T \in SUBSET Nat, T # {}
  PROVE  \E m \in T : \A k \in T : m <= k
<1>1. \E m \in T : \A k \in T : <<k, m>> \notin OpToRel(<, Nat)
  BY NatLessThanWellFounded, WFMin
<1>2. \A k, m \in T : <<k, m>> \notin OpToRel(<, Nat) => m <= k
  BY DEF OpToRel
<1> QED
  BY <1>1, <1>2

\* A set of finite sets that is not empty has one that is smallest.
LEMMA SmallestSet ==
  ASSUME NEW F, F # {}, \A T \in F : IsFiniteSet(T)
  PROVE  \E T \in F : \A U \in F : Cardinality(T) <= Cardinality(U)
<1> DEFINE sizes == {Cardinality(T) : T \in F}
<1>1. sizes \in SUBSET Nat /\ sizes # {}
  BY FS_CardinalityType
<1>2. PICK m \in sizes : \A k \in sizes : m <= k
  <2> HIDE DEF sizes
  <2> QED BY <1>1, LeastElement
<1>3. PICK T \in F : m = Cardinality(T)
  BY <1>2
<1> QED
  BY <1>2, <1>3

\* OneOf picks a member.
LEMMA AnyIn ==
  ASSUME NEW s, s # {}
  PROVE  OneOf(s) \in s
BY DEF OneOf

\* Two tables agree on every set they have in common, if their functions do.
LEMMA TablesAgree ==
  ASSUME NEW S, NEW T, IsFiniteSet(S), NEW f, NEW e, NEW g, NEW h,
         SumTable(g, f, S), SumTable(h, e, T),
         NEW U, U \subseteq S, U \subseteq T, Agree(f, e, U)
  PROVE  g[U] = h[U]
<1> DEFINE bad == {V \in SUBSET U : g[V] # h[V]}
<1>1. IsFiniteSet(U) /\ \A V \in bad : IsFiniteSet(V)
  BY FS_Subset
<1>2. ASSUME bad # {} PROVE FALSE
  <2>1. PICK V \in bad : \A X \in bad : Cardinality(V) <= Cardinality(X)
    <3> HIDE DEF bad
    <3> QED BY <1>1, <1>2, SmallestSet
  <2>2. V \subseteq S /\ V \subseteq T /\ V \subseteq U
    OBVIOUS
  <2>3. /\ g[V] = IF V = {} THEN 0 ELSE f[OneOf(V)] + g[V \ {OneOf(V)}]
        /\ h[V] = IF V = {} THEN 0 ELSE e[OneOf(V)] + h[V \ {OneOf(V)}]
    BY <2>2 DEF SumTable
  <2>4. V # {}
    BY <2>3
  <2>5. OneOf(V) \in V /\ f[OneOf(V)] = e[OneOf(V)]
    BY <2>2, <2>4, AnyIn DEF Agree
  <2>6. /\ Cardinality(V) \in Nat
        /\ Cardinality(V \ {OneOf(V)}) = Cardinality(V) - 1
    <3>1. IsFiniteSet(V)
      BY <1>1
    <3> HIDE DEF bad
    <3> QED BY <2>5, <3>1, FS_RemoveElement, FS_CardinalityType
  <2>7. V \ {OneOf(V)} \notin bad
    <3>1. ~(Cardinality(V) <= Cardinality(V \ {OneOf(V)}))
      BY <2>6
    <3> HIDE DEF bad
    <3> QED BY <2>1, <3>1
  <2>8. g[V \ {OneOf(V)}] = h[V \ {OneOf(V)}]
    BY <2>2, <2>7
  <2> QED BY <2>1, <2>3, <2>4, <2>5, <2>8
<1> QED
  BY <1>2

\* There is a table: by counting how large the subsets are that it covers.
LEMMA TableExists ==
  ASSUME NEW S, IsFiniteSet(S), NEW f
  PROVE  \E g : SumTable(g, f, S)
<1> DEFINE Upto(n) == {s \in SUBSET S : Cardinality(s) <= n}
           IsTable(g, n) == g = [s \in Upto(n) |-> IF s = {} THEN 0
                                                   ELSE f[OneOf(s)] + g[s \ {OneOf(s)}]]
           bad == {n \in Nat : ~\E g : IsTable(g, n)}
<1>1. \A s \in SUBSET S : IsFiniteSet(s) /\ Cardinality(s) \in Nat
  BY FS_Subset, FS_CardinalityType
<1>2. ASSUME NEW s \in SUBSET S, s # {}
      PROVE  s \ {OneOf(s)} \in SUBSET S /\ Cardinality(s \ {OneOf(s)}) = Cardinality(s) - 1
  BY <1>1, <1>2, AnyIn, FS_RemoveElement
<1>3. 0 \notin bad
  <2> DEFINE z == [s \in Upto(0) |-> 0]
  <2>1. \A s \in Upto(0) : s = {}
    BY <1>1, FS_EmptySet
  <2>2. IsTable(z, 0)
    BY <2>1
  <2> QED BY <2>2
<1>4. ASSUME NEW n \in Nat, n \notin bad PROVE n + 1 \notin bad
  <2>1. PICK g : IsTable(g, n)
    BY <1>4
  <2> DEFINE h == [s \in Upto(n + 1) |-> IF s = {} THEN 0 ELSE f[OneOf(s)] + g[s \ {OneOf(s)}]]
  <2>2. ASSUME NEW s \in Upto(n + 1), s # {}
        PROVE  h[s \ {OneOf(s)}] = g[s \ {OneOf(s)}]
    <3>1. s \in SUBSET S /\ Cardinality(s) <= n + 1
      OBVIOUS
    <3>2. s \ {OneOf(s)} \in Upto(n) /\ s \ {OneOf(s)} \in Upto(n + 1)
      BY <1>1, <1>2, <2>2, <3>1
    <3>3. \A t \in Upto(n) : g[t] = IF t = {} THEN 0 ELSE f[OneOf(t)] + g[t \ {OneOf(t)}]
      BY <2>1
    <3> QED BY <3>2, <3>3
  <2>3. \A s \in Upto(n + 1) : (IF s = {} THEN 0 ELSE f[OneOf(s)] + g[s \ {OneOf(s)}])
                             = (IF s = {} THEN 0 ELSE f[OneOf(s)] + h[s \ {OneOf(s)}])
    BY <2>2
  <2>4. IsTable(h, n + 1)
    BY <2>3
  <2> QED BY <2>4
<1>5. bad = {}
  <2> SUFFICES ASSUME bad # {} PROVE FALSE
    OBVIOUS
  <2>1. PICK m \in bad : \A k \in bad : m <= k
    <3>1. bad \in SUBSET Nat
      OBVIOUS
    <3> HIDE DEF bad
    <3> QED BY <3>1, LeastElement
  <2>2. m \in Nat /\ m # 0
    BY <1>3, <2>1
  <2>3. m - 1 \in Nat /\ m - 1 \notin bad
    <3> HIDE DEF bad
    <3> QED BY <2>1, <2>2
  <2>4. (m - 1) + 1 \notin bad
    <3> HIDE DEF bad
    <3> QED BY <1>4, <2>3
  <2>5. (m - 1) + 1 = m
    BY <2>2
  <2> HIDE DEF bad
  <2> QED BY <2>1, <2>4, <2>5
<1>6. Cardinality(S) \in Nat /\ Upto(Cardinality(S)) = SUBSET S
  BY <1>1, FS_Subset
<1>7. PICK g : IsTable(g, Cardinality(S))
  BY <1>5, <1>6
<1> QED
  BY <1>6, <1>7 DEF SumTable

\* Total is what any table says of the whole set, whatever set the table is for.
LEMMA TotalOfTable ==
  ASSUME NEW S, NEW T, IsFiniteSet(S), NEW f, NEW e, NEW h, SumTable(h, e, T),
         S \subseteq T, Agree(f, e, S)
  PROVE  h[S] = Total(f, S)
<1> DEFINE g == CHOOSE g : SumTable(g, f, S)
<1>1. \E x : SumTable(x, f, S)
  BY TableExists
<1>2. SumTable(g, f, S)
  BY <1>1
<1> HIDE DEF g
<1>3. g[S] = h[S]
  <2>1. SumTable(g, f, S) /\ SumTable(h, e, T) /\ S \subseteq S /\ S \subseteq T /\ Agree(f, e, S)
    BY <1>2
  <2> QED BY <2>1, TablesAgree
<1> QED
  BY <1>3 DEF Total, g

\* Totals depend on the function only through its values on the set.
LEMMA TotalSame ==
  ASSUME NEW S, IsFiniteSet(S), NEW f, NEW e, \A x \in S : f[x] = e[x]
  PROVE  Total(f, S) = Total(e, S)
<1>1. PICK h : SumTable(h, e, S)
  BY TableExists
<1>2. PICK k : SumTable(k, f, S)
  BY TableExists
<1>3. h[S] = Total(e, S)
  BY <1>1, TotalOfTable DEF Agree
<1>4. k[S] = Total(f, S)
  BY <1>2, TotalOfTable DEF Agree
<1>5. k[S] = h[S]
  <2>1. SumTable(h, e, S) /\ SumTable(k, f, S) /\ S \subseteq S /\ Agree(f, e, S)
    BY <1>1, <1>2 DEF Agree
  <2> QED BY <2>1, TablesAgree
<1> QED
  BY <1>3, <1>4, <1>5

\* The total of no elements.
LEMMA TotalEmpty ==
  ASSUME NEW f
  PROVE  Total(f, {}) = 0
<1>1. PICK h : SumTable(h, f, {})
  BY TableExists, FS_EmptySet
<1>2. h[{}] = Total(f, {})
  BY <1>1, TotalOfTable, FS_EmptySet DEF Agree
<1>3. h[{}] = 0
  BY <1>1 DEF SumTable
<1> QED
  BY <1>2, <1>3

\* The equation of the fold, for the element that it takes.
LEMMA TotalStep ==
  ASSUME NEW S, IsFiniteSet(S), NEW f, S # {}
  PROVE  Total(f, S) = f[OneOf(S)] + Total(f, S \ {OneOf(S)})
<1>1. PICK h : SumTable(h, f, S)
  BY TableExists
<1>2. h[S] = Total(f, S)
  BY <1>1, TotalOfTable DEF Agree
<1>3. h[S \ {OneOf(S)}] = Total(f, S \ {OneOf(S)})
  BY <1>1, TotalOfTable, FS_RemoveElement DEF Agree
<1>4. h[S] = f[OneOf(S)] + h[S \ {OneOf(S)}]
  BY <1>1 DEF SumTable
<1> QED
  BY <1>2, <1>3, <1>4

\* Any element may be taken first, and the total is an integer.
LEMMA TotalRemove ==
  ASSUME NEW S, IsFiniteSet(S), NEW f, \A x \in S : f[x] \in Int
  PROVE  /\ Total(f, S) \in Int
         /\ \A x \in S : Total(f, S) = f[x] + Total(f, S \ {x})
<1> DEFINE Good(T) == /\ Total(f, T) \in Int
                      /\ \A x \in T : Total(f, T) = f[x] + Total(f, T \ {x})
           bad == {T \in SUBSET S : ~Good(T)}
<1>1. \A T \in SUBSET S : IsFiniteSet(T)
  BY FS_Subset
<1>2. ASSUME bad # {} PROVE FALSE
  <2>1. PICK T \in bad : \A U \in bad : Cardinality(T) <= Cardinality(U)
    <3>1. \A U \in bad : IsFiniteSet(U)
      BY <1>1
    <3> HIDE DEF bad
    <3> QED BY <1>2, <3>1, SmallestSet
  <2>2. T \in SUBSET S /\ IsFiniteSet(T)
    BY <1>1
  <2>3. ASSUME NEW U \in SUBSET T, U # T PROVE Good(U)
    <3>1. U \in SUBSET S /\ Cardinality(U) <= Cardinality(T) /\ Cardinality(U) # Cardinality(T)
      BY <2>2, <2>3, FS_Subset
    <3>2. Cardinality(U) \in Nat /\ Cardinality(T) \in Nat
      BY <1>1, <2>2, <3>1, FS_CardinalityType
    <3>3. ~(Cardinality(T) <= Cardinality(U))
      BY <3>1, <3>2
    <3>4. U \notin bad
      <4> HIDE DEF bad
      <4> QED BY <2>1, <3>3
    <3> HIDE DEF Good
    <3> QED BY <3>1, <3>4
  <2>4. T # {}
    <3> SUFFICES ASSUME T = {} PROVE FALSE
      OBVIOUS
    <3>1. Good(T)
      BY TotalEmpty
    <3> QED BY <3>1
  <2> DEFINE c == OneOf(T)
  <2>5. c \in T /\ f[c] \in Int /\ Total(f, T) = f[c] + Total(f, T \ {c})
    BY <2>2, <2>4, AnyIn, TotalStep
  <2> HIDE DEF c
  <2>6. Good(T \ {c})
    BY <2>3, <2>5
  <2>7. Total(f, T) \in Int
    BY <2>5, <2>6
  <2>8. ASSUME NEW x \in T PROVE Total(f, T) = f[x] + Total(f, T \ {x})
    <3>1. CASE x = c
      BY <2>5, <3>1
    <3>2. CASE x # c
      <4>1. x \in T \ {c} /\ c \in T \ {x}
        BY <2>5, <3>2
      <4>2. (T \ {c}) \ {x} = (T \ {x}) \ {c}
        OBVIOUS
      <4>3. Good(T \ {x})
        BY <2>3
      <4>4. Total(f, T \ {c}) = f[x] + Total(f, (T \ {c}) \ {x})
        BY <2>6, <4>1
      <4>5. Total(f, T \ {x}) = f[c] + Total(f, (T \ {x}) \ {c})
        BY <4>3, <4>1
      <4>6. Good((T \ {c}) \ {x})
        <5>1. (T \ {c}) \ {x} \in SUBSET T /\ (T \ {c}) \ {x} # T
          BY <4>1
        <5> HIDE DEF Good
        <5> QED BY <2>3, <5>1
      <4>7. f[x] \in Int
        BY <2>2
      <4>8. Total(f, (T \ {c}) \ {x}) \in Int
        BY <4>6
      <4>9. Total(f, T \ {x}) = f[c] + Total(f, (T \ {c}) \ {x})
        BY <4>2, <4>5
      <4> HIDE DEF Good, bad
      <4> QED BY <2>5, <4>4, <4>7, <4>8, <4>9
    <3> QED BY <3>1, <3>2
  <2>9. Good(T)
    BY <2>7, <2>8
  <2> QED BY <2>1, <2>9
<1>3. Good(S)
  BY <1>2
<1> QED
  BY <1>3

\* One element more.
LEMMA TotalAdd ==
  ASSUME NEW S, IsFiniteSet(S), NEW f, NEW x, x \notin S, \A y \in S \cup {x} : f[y] \in Int
  PROVE  Total(f, S \cup {x}) = f[x] + Total(f, S)
<1>1. IsFiniteSet(S \cup {x}) /\ (S \cup {x}) \ {x} = S
  BY FS_AddElement
<1> QED
  BY <1>1, TotalRemove

\* The total of two disjoint sets.
LEMMA TotalUnion ==
  ASSUME NEW S, NEW T, IsFiniteSet(S), IsFiniteSet(T), S \cap T = {}, NEW f,
         \A x \in S \cup T : f[x] \in Int
  PROVE  /\ Total(f, S) \in Int /\ Total(f, T) \in Int
         /\ Total(f, S \cup T) = Total(f, S) + Total(f, T)
<1> DEFINE bad == {U \in SUBSET T : Total(f, S \cup U) # Total(f, S) + Total(f, U)}
<1>1. \A U \in SUBSET T : /\ IsFiniteSet(U) /\ IsFiniteSet(S \cup U)
                          /\ \A x \in U : f[x] \in Int
  BY FS_Subset, FS_Union
<1>2. \A U \in SUBSET T : Total(f, U) \in Int
  BY <1>1, TotalRemove
<1>3. Total(f, S) \in Int
  BY TotalRemove
<1>4. ASSUME bad # {} PROVE FALSE
  <2>1. PICK U \in bad : \A V \in bad : Cardinality(U) <= Cardinality(V)
    <3>1. \A V \in bad : IsFiniteSet(V)
      BY <1>1
    <3> HIDE DEF bad
    <3> QED BY <1>4, <3>1, SmallestSet
  <2>2. U \in SUBSET T /\ IsFiniteSet(U)
    BY <1>1
  <2>3. U # {}
    <3> SUFFICES ASSUME U = {} PROVE FALSE
      OBVIOUS
    <3>1. Total(f, U) = 0 /\ S \cup U = S
      BY TotalEmpty
    <3> QED BY <1>3, <3>1
  <2>4. PICK x \in U : TRUE
    BY <2>3
  <2>5. U \ {x} \in SUBSET T
    BY <2>2
  <2>6. Cardinality(U) \in Nat /\ Cardinality(U \ {x}) = Cardinality(U) - 1
    BY <2>2, <2>4, FS_RemoveElement, FS_CardinalityType
  <2>7. ~(Cardinality(U) <= Cardinality(U \ {x}))
    BY <2>6
  <2>8. U \ {x} \notin bad
    <3> HIDE DEF bad
    <3> QED BY <2>1, <2>7
  <2>9. Total(f, S \cup (U \ {x})) = Total(f, S) + Total(f, U \ {x})
    BY <2>5, <2>8
  <2>10. Total(f, U) = f[x] + Total(f, U \ {x})
    BY <1>1, <2>2, <2>4, TotalRemove
  <2>11. Total(f, S \cup U) = f[x] + Total(f, S \cup (U \ {x}))
    <3>1. x \notin S \cup (U \ {x}) /\ S \cup U = (S \cup (U \ {x})) \cup {x}
      BY <2>2, <2>4
    <3>2. IsFiniteSet(S \cup (U \ {x})) /\ \A y \in (S \cup (U \ {x})) \cup {x} : f[y] \in Int
      BY <1>1, <2>2, <2>4, <2>5
    <3> QED BY <3>1, <3>2, TotalAdd
  <2>12. f[x] \in Int /\ Total(f, U \ {x}) \in Int
    BY <1>2, <2>2, <2>4, <2>5
  <2>13. Total(f, S \cup U) = Total(f, S) + Total(f, U)
    BY <1>3, <2>9, <2>10, <2>11, <2>12
  <2> QED BY <2>1, <2>13
<1> QED
  BY <1>2, <1>3, <1>4

\* What is left of a total when a part of the set is taken away.
LEMMA TotalSubset ==
  ASSUME NEW S, IsFiniteSet(S), NEW T, T \subseteq S, NEW f, \A x \in S : f[x] \in Int
  PROVE  /\ Total(f, T) \in Int /\ Total(f, S \ T) \in Int
         /\ Total(f, S \ T) = Total(f, S) - Total(f, T)
<1>1. IsFiniteSet(T) /\ IsFiniteSet(S \ T) /\ T \cap (S \ T) = {} /\ S = (S \ T) \cup T
  BY FS_Subset
<1>2. /\ Total(f, S \ T) \in Int /\ Total(f, T) \in Int
      /\ Total(f, (S \ T) \cup T) = Total(f, S \ T) + Total(f, T)
  BY <1>1, TotalUnion
<1>3. Total(f, S) = Total(f, S \ T) + Total(f, T)
  BY <1>1, <1>2
<1> QED
  BY <1>2, <1>3

\* A sum of natural numbers is one, and bounds each of its terms.
LEMMA TotalNat ==
  ASSUME NEW S, IsFiniteSet(S), NEW f, \A x \in S : f[x] \in Nat
  PROVE  Total(f, S) \in Nat
<1> DEFINE bad == {U \in SUBSET S : Total(f, U) \notin Nat}
<1>1. \A U \in SUBSET S : IsFiniteSet(U)
  BY FS_Subset
<1>2. ASSUME bad # {} PROVE FALSE
  <2>1. PICK U \in bad : \A V \in bad : Cardinality(U) <= Cardinality(V)
    <3>1. \A V \in bad : IsFiniteSet(V)
      BY <1>1
    <3> HIDE DEF bad
    <3> QED BY <1>2, <3>1, SmallestSet
  <2>2. U \in SUBSET S /\ IsFiniteSet(U) /\ \A x \in U : f[x] \in Int
    BY <1>1
  <2>3. PICK x \in U : TRUE
    BY TotalEmpty
  <2>4. Cardinality(U) \in Nat /\ Cardinality(U \ {x}) = Cardinality(U) - 1
    BY <2>2, <2>3, FS_RemoveElement, FS_CardinalityType
  <2>5. ~(Cardinality(U) <= Cardinality(U \ {x}))
    BY <2>4
  <2>6. U \ {x} \notin bad
    <3> HIDE DEF bad
    <3> QED BY <2>1, <2>5
  <2>7. Total(f, U \ {x}) \in Nat
    BY <2>2, <2>6
  <2>8. Total(f, U) = f[x] + Total(f, U \ {x})
    BY <2>2, <2>3, TotalRemove
  <2> QED BY <2>1, <2>2, <2>3, <2>7, <2>8
<1> QED
  BY <1>2

\* A total over a set is the total over the set it is mapped to one to one.
LEMMA TotalReindex ==
  ASSUME NEW S, IsFiniteSet(S), NEW T, NEW b \in Bijection(S, T), NEW f, NEW e,
         \A x \in S : f[x] \in Int /\ e[b[x]] = f[x]
  PROVE  Total(f, S) = Total(e, T)
<1> DEFINE Im(U) == {b[x] : x \in U}
           bad == {U \in SUBSET S : Total(f, U) # Total(e, Im(U))}
<1>1. /\ b \in [S -> T] /\ \A x, y \in S : b[x] = b[y] => x = y
      /\ \A y \in T : \E x \in S : b[x] = y
  BY DEF Bijection, Injection, Surjection, IsInjective
<1>2. IsFiniteSet(T)
  BY FS_Surjection DEF Bijection
<1>3. \A U \in SUBSET S : IsFiniteSet(U) /\ Im(U) \in SUBSET T /\ IsFiniteSet(Im(U))
  <2>1. \A U \in SUBSET S : Im(U) \in SUBSET T
    BY <1>1
  <2> HIDE DEF Im
  <2> QED BY <1>2, <2>1, FS_Subset
<1>4. ASSUME bad # {} PROVE FALSE
  <2>1. PICK U \in bad : \A V \in bad : Cardinality(U) <= Cardinality(V)
    <3>1. \A V \in bad : IsFiniteSet(V)
      BY <1>3
    <3> HIDE DEF bad
    <3> QED BY <1>4, <3>1, SmallestSet
  <2>2. U \in SUBSET S /\ IsFiniteSet(U)
    BY <1>3
  <2>3. U # {}
    <3> SUFFICES ASSUME U = {} PROVE FALSE
      OBVIOUS
    <3>1. Im(U) = {}
      OBVIOUS
    <3> QED BY <3>1, TotalEmpty
  <2>4. PICK x \in U : TRUE
    BY <2>3
  <2>5. Cardinality(U) \in Nat /\ Cardinality(U \ {x}) = Cardinality(U) - 1
    BY <2>2, <2>4, FS_RemoveElement, FS_CardinalityType
  <2>6. ~(Cardinality(U) <= Cardinality(U \ {x}))
    BY <2>5
  <2>7. U \ {x} \notin bad
    <3> HIDE DEF bad
    <3> QED BY <2>1, <2>6
  <2>8. Total(f, U \ {x}) = Total(e, Im(U \ {x}))
    BY <2>2, <2>7
  <2>9. Im(U \ {x}) = Im(U) \ {b[x]} /\ b[x] \in Im(U)
    BY <1>1, <2>2, <2>4
  <2>10. Total(f, U) = f[x] + Total(f, U \ {x})
    BY <2>2, <2>4, TotalRemove
  <2>11. Total(e, Im(U)) = e[b[x]] + Total(e, Im(U) \ {b[x]})
    <3>1. \A y \in Im(U) : e[y] \in Int
      BY <2>2
    <3>2. IsFiniteSet(Im(U))
      BY <1>3, <2>2
    <3> HIDE DEF Im
    <3> QED BY <2>9, <3>1, <3>2, TotalRemove
  <2>12. e[b[x]] = f[x]
    BY <2>2, <2>4
  <2>13. Total(f, U) = Total(e, Im(U))
    <3> HIDE DEF Im
    <3> QED BY <2>8, <2>9, <2>10, <2>11, <2>12
  <2> QED BY <2>1, <2>13
<1>5. Im(S) = T
  BY <1>1
<1> QED
  BY <1>4, <1>5
=============================================================================
