----------------------------- MODULE SumLemmas -----------------------------
(***************************************************************************)
(* Sums over finite sets: what SumFunctionOnSet of the community modules   *)
(* computes, whatever the order it takes the elements in.                  *)
(*                                                                         *)
(* The induction is the one of the least counterexample: a set of naturals *)
(* that is not empty has a least element, and that element refutes itself. *)
(***************************************************************************)
EXTENDS Integers, FiniteSets, Functions, FiniteSetTheorems, WellFoundedInduction, TLAPS

LEMMA LeastNumber ==
  ASSUME NEW N \in SUBSET Nat, N # {}
  PROVE  \E m \in N : \A k \in N : m <= k
<1> DEFINE R == {s \in Nat \X Nat : s[1] < s[2]}
<1>1. IsWellFoundedOn(R, Nat)
  BY NatLessThanWellFounded DEF OpToRel
<1>2. PICK m \in N : \A k \in N : <<k, m>> \notin R
  <2> HIDE DEF R
  <2> QED  BY <1>1, WFMin
<1>3. \A k \in N : ~(k < m)
  BY <1>2
<1>4. \A k \in N : k \in Int /\ m \in Int
  OBVIOUS
<1> QED  BY <1>3, <1>4

(* The counterexamples to a claim about the finite sets of some size.      *)
LEMMA OneLess ==
  ASSUME NEW s, IsFiniteSet(s), NEW x \in s
  PROVE  /\ IsFiniteSet(s \ {x})
         /\ Cardinality(s) \in Nat /\ Cardinality(s \ {x}) \in Nat
         /\ Cardinality(s \ {x}) = Cardinality(s) - 1
BY FS_RemoveElement, FS_CardinalityType

-----------------------------------------------------------------------------
AnyOf(s) == CHOOSE x \in s : TRUE

(* The sums over the subsets of S of at most n elements, as a table.       *)
Small(S, n) == {s \in SUBSET S : Cardinality(s) <= n}
Sums(g, f, S, n) ==
  g = [s \in Small(S, n) |-> IF s = {} THEN 0 ELSE f[AnyOf(s)] + g[s \ {AnyOf(s)}]]

LEMMA AnyOfIsIn ==
  ASSUME NEW s, s # {}
  PROVE  AnyOf(s) \in s
BY DEF AnyOf

LEMMA SmallerSets ==
  ASSUME NEW S, IsFiniteSet(S), NEW n \in Nat, NEW s \in Small(S, n), s # {}
  PROVE  n # 0 /\ s \ {AnyOf(s)} \in Small(S, n - 1)
<1>1. AnyOf(s) \in s /\ IsFiniteSet(s) /\ s \subseteq S
  BY AnyOfIsIn, FS_Subset DEF Small
<1>2. /\ Cardinality(s) \in Nat /\ Cardinality(s \ {AnyOf(s)}) \in Nat
      /\ Cardinality(s \ {AnyOf(s)}) = Cardinality(s) - 1
  BY <1>1, OneLess
<1>3. Cardinality(s) <= n
  BY DEF Small
<1>4. n # 0 /\ Cardinality(s \ {AnyOf(s)}) <= n - 1
  BY <1>2, <1>3
<1> QED  BY <1>1, <1>4 DEF Small

LEMMA SumsOneMore ==
  ASSUME NEW f, NEW S, IsFiniteSet(S), NEW n \in Nat, n # 0, \E g : Sums(g, f, S, n - 1)
  PROVE  \E g : Sums(g, f, S, n)
<1>1. PICK h : Sums(h, f, S, n - 1)
  OBVIOUS
<1> DEFINE g == [s \in Small(S, n) |-> IF s = {} THEN 0 ELSE f[AnyOf(s)] + h[s \ {AnyOf(s)}]]
<1>2. \A t \in Small(S, n - 1) : t \in Small(S, n) /\ h[t] = g[t]
  <2> TAKE t \in Small(S, n - 1)
  <2>1. IsFiniteSet(t) /\ t \subseteq S /\ Cardinality(t) <= n - 1
    BY FS_Subset DEF Small
  <2>2. Cardinality(t) \in Nat
    BY <2>1, FS_CardinalityType
  <2>3. t \in Small(S, n)
    BY <2>1, <2>2 DEF Small
  <2>4. h[t] = IF t = {} THEN 0 ELSE f[AnyOf(t)] + h[t \ {AnyOf(t)}]
    BY <1>1 DEF Sums
  <2> QED  BY <2>3, <2>4
<1>3. \A s \in Small(S, n) : s # {} => h[s \ {AnyOf(s)}] = g[s \ {AnyOf(s)}]
  BY <1>2, SmallerSets
<1>4. Sums(g, f, S, n)
  BY <1>3 DEF Sums
<1> QED  BY <1>4

LEMMA SumsExist ==
  ASSUME NEW f, NEW S, IsFiniteSet(S), NEW n \in Nat
  PROVE  \E g : Sums(g, f, S, n)
<1> DEFINE Without == {k \in Nat : ~ \E g : Sums(g, f, S, k)}
<1> SUFFICES ASSUME Without # {} PROVE FALSE
  OBVIOUS
<1>1. PICK m \in Without : \A k \in Without : m <= k
  <2> HIDE DEF Without
  <2>1. Without \in SUBSET Nat
    BY DEF Without
  <2> QED  BY <2>1, LeastNumber
<1>2. CASE m = 0
  <2> DEFINE g == [s \in Small(S, 0) |-> 0]
  <2>1. \A s \in Small(S, 0) : s = {}
    BY SmallerSets
  <2>2. Sums(g, f, S, 0)
    BY <2>1 DEF Sums
  <2> QED  BY <1>1, <1>2, <2>2
<1>3. CASE m # 0
  <2>1. m \in Nat /\ m - 1 \in Nat /\ ~(m <= m - 1)
    BY <1>1, <1>3
  <2>2. \E g : Sums(g, f, S, m - 1)
    BY <1>1, <2>1
  <2>3. \E g : Sums(g, f, S, m)
    BY <1>3, <2>1, <2>2, SumsOneMore
  <2> QED  BY <1>1, <2>3
<1> QED  BY <1>2, <1>3

(* The table of all subsets.                                               *)
Tabulates(g, f, S) ==
  g = [s \in SUBSET S |-> IF s = {} THEN 0 ELSE f[AnyOf(s)] + g[s \ {AnyOf(s)}]]

LEMMA SumIsTabulated ==
  ASSUME NEW f, NEW S, IsFiniteSet(S)
  PROVE  \E g : Tabulates(g, f, S) /\ SumFunctionOnSet(f, S) = g[S]
<1> DEFINE h == CHOOSE g : Tabulates(g, f, S)
<1>1. \E g : Tabulates(g, f, S)
  <2>1. Cardinality(S) \in Nat /\ \A s \in SUBSET S : Cardinality(s) <= Cardinality(S)
    BY FS_CardinalityType, FS_Subset
  <2>2. PICK g : Sums(g, f, S, Cardinality(S))
    BY <2>1, SumsExist
  <2>3. Small(S, Cardinality(S)) = SUBSET S
    BY <2>1 DEF Small
  <2> QED  BY <2>2, <2>3 DEF Sums, Tabulates
<1>2. Tabulates(h, f, S)
  BY <1>1
<1>3. SumFunctionOnSet(f, S) = h[S]
  BY DEF SumFunctionOnSet, FoldFunctionOnSet, MapThenFoldSet, Tabulates, AnyOf
<1> QED  BY <1>2, <1>3

LEMMA TableEntry ==
  ASSUME NEW g, NEW f, NEW S, Tabulates(g, f, S), NEW s \in SUBSET S
  PROVE  g[s] = IF s = {} THEN 0 ELSE f[AnyOf(s)] + g[s \ {AnyOf(s)}]
BY DEF Tabulates

(* Two tables agree on what they both sum.                                 *)
LEMMA TablesAgree ==
  ASSUME NEW g, NEW f, NEW S, Tabulates(g, f, S), NEW h, NEW e, NEW T, Tabulates(h, e, T),
         NEW s \in SUBSET S, s \in SUBSET T, IsFiniteSet(s), \A x \in s : f[x] = e[x]
  PROVE  g[s] = h[s]
<1> DEFINE Apart == {k \in Nat : \E r \in SUBSET s : Cardinality(r) = k /\ g[r] # h[r]}
<1>1. \A r \in SUBSET s : IsFiniteSet(r) /\ Cardinality(r) \in Nat
  BY FS_Subset, FS_CardinalityType
<1> SUFFICES ASSUME Apart # {} PROVE FALSE
  BY <1>1
<1>2. PICK m \in Apart : \A k \in Apart : m <= k
  <2> HIDE DEF Apart
  <2>1. Apart \in SUBSET Nat
    BY DEF Apart
  <2> QED  BY <2>1, LeastNumber
<1>3. PICK r \in SUBSET s : Cardinality(r) = m /\ g[r] # h[r]
  BY <1>2
<1> HIDE DEF Apart
<1>4. /\ g[r] = IF r = {} THEN 0 ELSE f[AnyOf(r)] + g[r \ {AnyOf(r)}]
      /\ h[r] = IF r = {} THEN 0 ELSE e[AnyOf(r)] + h[r \ {AnyOf(r)}]
  <2>1. r \in SUBSET S
    BY <1>3
  <2>2. r \in SUBSET T
    BY <1>3
  <2>3. g[r] = IF r = {} THEN 0 ELSE f[AnyOf(r)] + g[r \ {AnyOf(r)}]
    BY ONLY Tabulates(g, f, S), <2>1 DEF Tabulates
  <2>4. h[r] = IF r = {} THEN 0 ELSE e[AnyOf(r)] + h[r \ {AnyOf(r)}]
    BY ONLY Tabulates(h, e, T), <2>2 DEF Tabulates
  <2> QED  BY <2>3, <2>4
<1> USE DEF Apart
<1>5. r # {}
  BY <1>3, <1>4
<1>6. AnyOf(r) \in r /\ AnyOf(r) \in s
  BY <1>3, <1>5, AnyOfIsIn
<1>7. g[r \ {AnyOf(r)}] # h[r \ {AnyOf(r)}]
  BY <1>3, <1>4, <1>5, <1>6
<1>8. /\ r \ {AnyOf(r)} \in SUBSET s /\ Cardinality(r \ {AnyOf(r)}) \in Nat
      /\ Cardinality(r \ {AnyOf(r)}) = m - 1
  BY <1>1, <1>3, <1>6, OneLess
<1>9. m - 1 \in Apart /\ m \in Nat
  BY <1>2, <1>7, <1>8
<1> QED  BY <1>2, <1>9

(* The sum over a subset, from the table of the whole set.                 *)
LEMMA SumOfSubset ==
  ASSUME NEW g, NEW f, NEW S, IsFiniteSet(S), Tabulates(g, f, S), NEW s \in SUBSET S
  PROVE  SumFunctionOnSet(f, s) = g[s]
<1>1. IsFiniteSet(s)
  BY FS_Subset
<1>2. PICK h : Tabulates(h, f, s) /\ SumFunctionOnSet(f, s) = h[s]
  BY <1>1, SumIsTabulated
<1> QED  BY <1>1, <1>2, TablesAgree

LEMMA TableIsOfIntegers ==
  ASSUME NEW g, NEW f, NEW S, IsFiniteSet(S), Tabulates(g, f, S), \A x \in S : f[x] \in Int,
         NEW s \in SUBSET S
  PROVE  g[s] \in Int
<1> DEFINE Bad == {k \in Nat : \E r \in SUBSET S : Cardinality(r) = k /\ g[r] \notin Int}
<1>1. \A r \in SUBSET S : IsFiniteSet(r) /\ Cardinality(r) \in Nat
  BY FS_Subset, FS_CardinalityType
<1> SUFFICES ASSUME Bad # {} PROVE FALSE
  BY <1>1
<1>2. PICK m \in Bad : \A k \in Bad : m <= k
  <2> HIDE DEF Bad
  <2>1. Bad \in SUBSET Nat
    BY DEF Bad
  <2> QED  BY <2>1, LeastNumber
<1>3. PICK r \in SUBSET S : Cardinality(r) = m /\ g[r] \notin Int
  BY <1>2
<1>4. g[r] = IF r = {} THEN 0 ELSE f[AnyOf(r)] + g[r \ {AnyOf(r)}]
  BY <1>3, TableEntry
<1>5. r # {}
  BY <1>3, <1>4
<1>6. AnyOf(r) \in r /\ f[AnyOf(r)] \in Int
  BY <1>3, <1>5, AnyOfIsIn
<1>7. g[r \ {AnyOf(r)}] \notin Int
  BY <1>3, <1>4, <1>5, <1>6
<1>8. /\ r \ {AnyOf(r)} \in SUBSET S /\ Cardinality(r \ {AnyOf(r)}) \in Nat
      /\ Cardinality(r \ {AnyOf(r)}) = m - 1
  BY <1>1, <1>3, <1>6, OneLess
<1>9. m - 1 \in Bad /\ m \in Nat
  BY <1>2, <1>7, <1>8
<1> QED  BY <1>2, <1>9

(* Any element may be taken first.                                         *)
LEMMA TableInAnyOrder ==
  ASSUME NEW g, NEW f, NEW S, IsFiniteSet(S), Tabulates(g, f, S), \A x \in S : f[x] \in Int,
         NEW s \in SUBSET S, NEW y \in s
  PROVE  g[s] = f[y] + g[s \ {y}]
<1> DEFINE Bad == {k \in Nat : \E r \in SUBSET S : \E x \in r :
                     Cardinality(r) = k /\ g[r] # f[x] + g[r \ {x}]}
<1>1. \A r \in SUBSET S : IsFiniteSet(r) /\ Cardinality(r) \in Nat /\ g[r] \in Int
  BY FS_Subset, FS_CardinalityType, TableIsOfIntegers
<1> SUFFICES ASSUME Bad # {} PROVE FALSE
  BY <1>1
<1>2. PICK m \in Bad : \A k \in Bad : m <= k
  <2> HIDE DEF Bad
  <2>1. Bad \in SUBSET Nat
    BY DEF Bad
  <2> QED  BY <2>1, LeastNumber
<1>3. PICK r \in SUBSET S : \E x \in r : Cardinality(r) = m /\ g[r] # f[x] + g[r \ {x}]
  BY <1>2
<1>4. PICK x \in r : Cardinality(r) = m /\ g[r] # f[x] + g[r \ {x}]
  BY <1>3
<1> DEFINE c == AnyOf(r)
<1>5. c \in r
  BY AnyOfIsIn
<1>6. g[r] = f[c] + g[r \ {c}]
  <2>1. r \in SUBSET S /\ r # {}
    BY <1>3, <1>4
  <2>2. g[r] = IF r = {} THEN 0 ELSE f[AnyOf(r)] + g[r \ {AnyOf(r)}]
    BY <2>1, TableEntry
  <2> QED  BY <2>1, <2>2
<1> HIDE DEF c
<1>7. x # c
  BY <1>4, <1>6
<1>8. m - 1 \notin Bad /\ m \in Nat /\ m - 1 \in Nat
  <2>1. m \in Nat /\ Cardinality(r \ {c}) \in Nat /\ Cardinality(r \ {c}) = m - 1
    BY <1>1, <1>3, <1>4, <1>5, OneLess
  <2>2. m - 1 \in Nat /\ ~(m <= m - 1)
    BY <2>1
  <2> QED  BY <1>2, <2>1, <2>2
<1>9. \A y1, y2 \in r : y1 # y2 => g[r \ {y1}] = f[y2] + g[(r \ {y1}) \ {y2}]
  <2> TAKE y1, y2 \in r
  <2> HAVE y1 # y2
  <2>1. r \ {y1} \in SUBSET S /\ y2 \in r \ {y1} /\ Cardinality(r \ {y1}) = m - 1
    BY <1>1, <1>3, <1>4, OneLess
  <2> QED  BY <1>8, <2>1
<1>10. (r \ {c}) \ {x} = (r \ {x}) \ {c} /\ (r \ {c}) \ {x} \in SUBSET S
  BY <1>3
<1>11. /\ g[r \ {c}] = f[x] + g[(r \ {c}) \ {x}]
       /\ g[r \ {x}] = f[c] + g[(r \ {c}) \ {x}]
  BY <1>5, <1>7, <1>9, <1>10
<1>12. f[x] \in Int /\ f[c] \in Int /\ g[(r \ {c}) \ {x}] \in Int
  BY <1>1, <1>3, <1>5, <1>10
<1> QED  BY <1>4, <1>6, <1>11, <1>12

-----------------------------------------------------------------------------
(* What the other modules cite.                                            *)

LEMMA SumOfNone ==
  ASSUME NEW f
  PROVE  SumFunctionOnSet(f, {}) = 0
<1>1. IsFiniteSet({})
  BY FS_EmptySet
<1>2. PICK g : Tabulates(g, f, {}) /\ SumFunctionOnSet(f, {}) = g[{}]
  BY <1>1, SumIsTabulated
<1>3. {} \in SUBSET {}
  OBVIOUS
<1> QED  BY <1>2, <1>3, TableEntry

LEMMA SumIsInt ==
  ASSUME NEW f, NEW S, IsFiniteSet(S), \A x \in S : f[x] \in Int
  PROVE  SumFunctionOnSet(f, S) \in Int
<1>1. PICK g : Tabulates(g, f, S) /\ SumFunctionOnSet(f, S) = g[S]
  BY SumIsTabulated
<1>2. S \in SUBSET S
  OBVIOUS
<1> QED  BY <1>1, <1>2, TableIsOfIntegers

LEMMA SumTakesOne ==
  ASSUME NEW f, NEW S, IsFiniteSet(S), \A x \in S : f[x] \in Int, NEW y \in S
  PROVE  SumFunctionOnSet(f, S) = f[y] + SumFunctionOnSet(f, S \ {y})
<1>1. PICK g : Tabulates(g, f, S) /\ SumFunctionOnSet(f, S) = g[S]
  BY SumIsTabulated
<1>2. S \in SUBSET S /\ S \ {y} \in SUBSET S
  OBVIOUS
<1>3. SumFunctionOnSet(f, S \ {y}) = g[S \ {y}]
  BY <1>1, <1>2, SumOfSubset
<1> QED  BY <1>1, <1>2, <1>3, TableInAnyOrder

(* A sum of zeroes is zero.                                                *)
LEMMA SumOfZeroes ==
  ASSUME NEW f, NEW S, IsFiniteSet(S), \A x \in S : f[x] = 0
  PROVE  SumFunctionOnSet(f, S) = 0
<1> DEFINE Total(r) == SumFunctionOnSet(f, r)
           Bad == {k \in Nat : \E r \in SUBSET S : Cardinality(r) = k /\ Total(r) # 0}
<1>1. \A r \in SUBSET S : IsFiniteSet(r) /\ Cardinality(r) \in Nat
  BY FS_Subset, FS_CardinalityType
<1> SUFFICES ASSUME Bad # {} PROVE FALSE
  BY <1>1
<1>2. PICK m \in Bad : \A k \in Bad : m <= k
  <2> HIDE DEF Bad
  <2>1. Bad \in SUBSET Nat
    BY DEF Bad
  <2> QED  BY <2>1, LeastNumber
<1>3. PICK r \in SUBSET S : Cardinality(r) = m /\ Total(r) # 0
  BY <1>2
<1>4. r # {}
  BY <1>3, SumOfNone
<1>5. PICK y \in r : TRUE
  BY <1>4
<1>6. /\ Cardinality(r \ {y}) \in Nat /\ Cardinality(r \ {y}) = m - 1 /\ m \in Nat
      /\ r \ {y} \in SUBSET S /\ f[y] = 0
  BY <1>1, <1>3, <1>5, OneLess
<1>7. Total(r) = f[y] + Total(r \ {y})
  <2>1. IsFiniteSet(r) /\ \A x \in r : f[x] \in Int
    BY <1>1
  <2> QED  BY <1>5, <2>1, SumTakesOne
<1>8. Total(r \ {y}) # 0
  BY <1>3, <1>6, <1>7
<1>9. m - 1 \in Bad
  BY <1>6, <1>8
<1> QED  BY <1>2, <1>6, <1>9

LEMMA SumOfEquals ==
  ASSUME NEW f, NEW e, NEW S, IsFiniteSet(S), \A x \in S : f[x] = e[x]
  PROVE  SumFunctionOnSet(f, S) = SumFunctionOnSet(e, S)
<1>1. PICK g : Tabulates(g, f, S) /\ SumFunctionOnSet(f, S) = g[S]
  BY SumIsTabulated
<1>2. PICK h : Tabulates(h, e, S) /\ SumFunctionOnSet(e, S) = h[S]
  BY SumIsTabulated
<1>3. S \in SUBSET S
  OBVIOUS
<1>4. g[S] = h[S]
  BY <1>1, <1>2, <1>3, TablesAgree
<1> QED  BY <1>1, <1>2, <1>4

LEMMA SumGetsOne ==
  ASSUME NEW f, NEW S, IsFiniteSet(S), NEW y, y \notin S, \A x \in S \cup {y} : f[x] \in Int
  PROVE  SumFunctionOnSet(f, S \cup {y}) = SumFunctionOnSet(f, S) + f[y]
<1>1. IsFiniteSet(S \cup {y}) /\ (S \cup {y}) \ {y} = S /\ y \in S \cup {y}
  BY FS_AddElement
<1>2. SumFunctionOnSet(f, S \cup {y}) = f[y] + SumFunctionOnSet(f, S)
  <2>1. SumFunctionOnSet(f, S \cup {y}) = f[y] + SumFunctionOnSet(f, (S \cup {y}) \ {y})
    BY <1>1, SumTakesOne
  <2> QED  BY <1>1, <2>1
<1>3. f[y] \in Int /\ SumFunctionOnSet(f, S) \in Int
  <2>1. f[y] \in Int /\ \A x \in S : f[x] \in Int
    OBVIOUS
  <2> QED  BY <2>1, SumIsInt
<1> QED  BY <1>2, <1>3

LEMMA SumOfUnion ==
  ASSUME NEW f, NEW S, NEW T, IsFiniteSet(S), IsFiniteSet(T), S \cap T = {},
         \A x \in S \cup T : f[x] \in Int
  PROVE  SumFunctionOnSet(f, S \cup T) = SumFunctionOnSet(f, S) + SumFunctionOnSet(f, T)
<1> DEFINE Total(r) == SumFunctionOnSet(f, r)
           Bad == {k \in Nat : \E r \in SUBSET T : Cardinality(r) = k /\ Total(S \cup r) # Total(S) + Total(r)}
<1>1. \A r \in SUBSET T : /\ IsFiniteSet(r) /\ Cardinality(r) \in Nat
                         /\ IsFiniteSet(S \cup r) /\ Total(r) \in Int
  <2> TAKE r \in SUBSET T
  <2>1. IsFiniteSet(r) /\ Cardinality(r) \in Nat /\ IsFiniteSet(S \cup r)
    BY FS_Subset, FS_CardinalityType, FS_Union
  <2> QED  BY <2>1, SumIsInt
<1>2. Total(S) \in Int /\ Total({}) = 0
  BY SumIsInt, SumOfNone
<1> SUFFICES ASSUME Bad # {} PROVE FALSE
  BY <1>1
<1> HIDE DEF Total
<1>3. PICK m \in Bad : \A k \in Bad : m <= k
  <2> HIDE DEF Bad
  <2>1. Bad \in SUBSET Nat
    BY DEF Bad
  <2> QED  BY <2>1, LeastNumber
<1>4. PICK r \in SUBSET T : Cardinality(r) = m /\ Total(S \cup r) # Total(S) + Total(r)
  BY <1>3
<1>5. r # {}
  <2> SUFFICES ASSUME r = {} PROVE FALSE
    OBVIOUS
  <2>1. S \cup r = S
    OBVIOUS
  <2>2. Total(S \cup r) = Total(S) /\ Total(r) = 0
    BY <1>2, <2>1
  <2> QED  BY <1>2, <1>4, <2>2
<1>6. PICK x \in r : TRUE
  BY <1>5
<1>7. x \notin S /\ x \in S \cup r /\ (S \cup r) \ {x} = S \cup (r \ {x}) /\ r \ {x} \in SUBSET T
  BY <1>4, <1>6
<1>8. Total(S \cup r) = f[x] + Total(S \cup (r \ {x})) /\ Total(r) = f[x] + Total(r \ {x})
  <2> DEFINE both == S \cup r
  <2>1. /\ IsFiniteSet(both) /\ x \in both /\ \A y \in both : f[y] \in Int
        /\ IsFiniteSet(r) /\ x \in r /\ \A y \in r : f[y] \in Int
    BY <1>1, <1>4, <1>7
  <2> HIDE DEF both
  <2>2. Total(both) = f[x] + Total(both \ {x})
    BY <2>1, SumTakesOne DEF Total
  <2>3. Total(r) = f[x] + Total(r \ {x})
    BY <2>1, SumTakesOne DEF Total
  <2> USE DEF both
  <2> QED  BY <1>7, <2>2, <2>3
<1>9. f[x] \in Int /\ Total(r \ {x}) \in Int
  BY <1>1, <1>4, <1>6, <1>7
<1>10. /\ m \in Nat /\ m - 1 \in Nat /\ Cardinality(r \ {x}) = m - 1 /\ ~(m <= m - 1)
  <2>1. m \in Nat /\ Cardinality(r \ {x}) \in Nat /\ Cardinality(r \ {x}) = m - 1
    BY <1>1, <1>4, <1>6, OneLess
  <2> QED  BY <2>1
<1>11. Total(S \cup (r \ {x})) = Total(S) + Total(r \ {x})
  <2>1. m - 1 \notin Bad
    BY <1>3, <1>10
  <2> QED  BY <1>7, <1>10, <2>1
<1> QED  BY <1>2, <1>4, <1>8, <1>9, <1>11

(* A sum of larger numbers is larger; a sum of naturals is a natural.      *)
LEMMA SumIsMonotone ==
  ASSUME NEW f, NEW e, NEW S, IsFiniteSet(S),
         \A x \in S : f[x] \in Int /\ e[x] \in Int /\ f[x] <= e[x]
  PROVE  SumFunctionOnSet(f, S) <= SumFunctionOnSet(e, S)
<1> DEFINE Less(r) == SumFunctionOnSet(f, r)
           More(r) == SumFunctionOnSet(e, r)
           Bad == {k \in Nat : \E r \in SUBSET S : Cardinality(r) = k /\ ~(Less(r) <= More(r))}
<1>1. \A r \in SUBSET S : IsFiniteSet(r) /\ Cardinality(r) \in Nat /\ Less(r) \in Int /\ More(r) \in Int
  <2> TAKE r \in SUBSET S
  <2>1. IsFiniteSet(r) /\ Cardinality(r) \in Nat
    BY FS_Subset, FS_CardinalityType
  <2> QED  BY <2>1, SumIsInt
<1>2. Less({}) = 0 /\ More({}) = 0
  BY SumOfNone
<1> SUFFICES ASSUME Bad # {} PROVE FALSE
  BY <1>1
<1> HIDE DEF Less, More
<1>3. PICK m \in Bad : \A k \in Bad : m <= k
  <2> HIDE DEF Bad
  <2>1. Bad \in SUBSET Nat
    BY DEF Bad
  <2> QED  BY <2>1, LeastNumber
<1>4. PICK r \in SUBSET S : Cardinality(r) = m /\ ~(Less(r) <= More(r))
  BY <1>3
<1>5. PICK x \in r : TRUE
  BY <1>2, <1>4
<1>6. r \ {x} \in SUBSET S /\ f[x] \in Int /\ e[x] \in Int /\ f[x] <= e[x]
  BY <1>4, <1>5
<1>7. Less(r) = f[x] + Less(r \ {x}) /\ More(r) = e[x] + More(r \ {x})
  <2>1. \A y \in r : f[y] \in Int /\ e[y] \in Int
    BY <1>4
  <2>2. Less(r) = f[x] + Less(r \ {x})
    BY <1>1, <1>5, <2>1, SumTakesOne DEF Less
  <2>3. More(r) = e[x] + More(r \ {x})
    BY <1>1, <1>5, <2>1, SumTakesOne DEF More
  <2> QED  BY <2>2, <2>3
<1>8. /\ m \in Nat /\ m - 1 \in Nat /\ Cardinality(r \ {x}) = m - 1 /\ ~(m <= m - 1)
  <2>1. m \in Nat /\ Cardinality(r \ {x}) \in Nat /\ Cardinality(r \ {x}) = m - 1
    BY <1>1, <1>4, <1>5, OneLess
  <2> QED  BY <2>1
<1>9. Less(r \ {x}) <= More(r \ {x})
  <2>1. m - 1 \notin Bad
    BY <1>3, <1>8
  <2> QED  BY <1>6, <1>8, <2>1
<1>10. Less(r \ {x}) \in Int /\ More(r \ {x}) \in Int
  BY <1>1, <1>6
<1> QED  BY <1>4, <1>6, <1>7, <1>9, <1>10

(* One summand changes.                                                    *)
LEMMA SumChanges ==
  ASSUME NEW f, NEW e, NEW S, IsFiniteSet(S), \A x \in S : f[x] \in Int /\ e[x] \in Int,
         NEW y \in S, \A x \in S \ {y} : e[x] = f[x]
  PROVE  SumFunctionOnSet(e, S) = SumFunctionOnSet(f, S) + (e[y] - f[y])
<1>1. IsFiniteSet(S \ {y})
  BY FS_RemoveElement
<1>2. SumFunctionOnSet(f, S) = f[y] + SumFunctionOnSet(f, S \ {y})
  BY SumTakesOne
<1>3. SumFunctionOnSet(e, S) = e[y] + SumFunctionOnSet(e, S \ {y})
  BY SumTakesOne
<1>4. SumFunctionOnSet(e, S \ {y}) = SumFunctionOnSet(f, S \ {y})
  BY <1>1, SumOfEquals
<1>5. f[y] \in Int /\ e[y] \in Int /\ SumFunctionOnSet(f, S \ {y}) \in Int
  BY <1>1, SumIsInt
<1> QED  BY <1>2, <1>3, <1>4, <1>5

(* A summand joins, the others stay.                                       *)
LEMMA SumJoins ==
  ASSUME NEW f, NEW e, NEW S, IsFiniteSet(S), NEW y, y \notin S, e[y] \in Int,
         \A x \in S : f[x] \in Int /\ e[x] = f[x]
  PROVE  SumFunctionOnSet(e, S \cup {y}) = SumFunctionOnSet(f, S) + e[y]
<1>1. SumFunctionOnSet(e, S \cup {y}) = SumFunctionOnSet(e, S) + e[y]
  <2>1. \A x \in S \cup {y} : e[x] \in Int
    OBVIOUS
  <2> QED  BY <2>1, SumGetsOne
<1>2. SumFunctionOnSet(e, S) = SumFunctionOnSet(f, S)
  BY SumOfEquals
<1> QED  BY <1>1, <1>2

(* The sum over a part is no more than the sum over the whole.             *)
LEMMA SumOfPart ==
  ASSUME NEW f, NEW S, IsFiniteSet(S), \A x \in S : f[x] \in Int /\ 0 <= f[x], NEW T \in SUBSET S
  PROVE  SumFunctionOnSet(f, T) <= SumFunctionOnSet(f, S)
<1> DEFINE R == S \ T
           none == [x \in R |-> 0]
<1>1. /\ IsFiniteSet(T) /\ IsFiniteSet(R) /\ T \cup R = S /\ T \cap R = {}
      /\ \A x \in R : none[x] \in Int /\ f[x] \in Int /\ none[x] <= f[x] /\ none[x] = 0
      /\ \A x \in T : f[x] \in Int
  BY FS_Subset
<1> HIDE DEF R, none
<1>2. SumFunctionOnSet(f, S) = SumFunctionOnSet(f, T) + SumFunctionOnSet(f, R)
  <2>1. SumFunctionOnSet(f, T \cup R) = SumFunctionOnSet(f, T) + SumFunctionOnSet(f, R)
    BY <1>1, SumOfUnion
  <2> QED  BY <1>1, <2>1
<1>3. SumFunctionOnSet(none, R) <= SumFunctionOnSet(f, R) /\ SumFunctionOnSet(none, R) = 0
  BY <1>1, SumIsMonotone, SumOfZeroes
<1>4. SumFunctionOnSet(f, T) \in Int /\ SumFunctionOnSet(f, R) \in Int
  BY <1>1, SumIsInt
<1> QED  BY <1>2, <1>3, <1>4
=============================================================================
