------------------------------ MODULE SetSums ------------------------------
(***************************************************************************)
(* Sums over finite sets, as MapThenSumSet of the community modules        *)
(* computes them: the sum does not depend on the order in which elements   *)
(* are chosen, so it splits off any element and moves with its summands.   *)
(* Induction is over a set of good subsets, by a smallest bad one.         *)
(***************************************************************************)
EXTENDS Integers, FiniteSetsExt, FiniteSetTheorems, WellFoundedInduction, TLAPS

\* The sum of m[x] over the elements x of S.
SumOver(m, S) == LET held(x) == m[x] IN MapThenSumSet(held, S)

Chosen(s) == CHOOSE x \in s : TRUE

\* What the recursive function in MapThenFoldSet computes from itself.
Unfold(m, f, s) == IF s = {} THEN 0 ELSE m[Chosen(s)] + f[s \ {Chosen(s)}]

IsPartialSum(m, D, f) == f = [s \in D |-> Unfold(m, f, s)]

-----------------------------------------------------------------------------
\* Induction without an operator parameter.

LEMMA LeastNumber ==
    ASSUME NEW T, T \subseteq Nat, T # {}
    PROVE  \E x \in T : \A y \in T : x <= y
<1>1. \E x \in T : \A y \in T : ~ (<<y, x>> \in OpToRel(<, Nat))
  BY NatLessThanWellFounded, WFMin
<1>2. \A x, y \in T : <<y, x>> \in OpToRel(<, Nat) <=> y < x
  BY DEF OpToRel
<1>3. \A x, y \in T : ~ (y < x) => x <= y
  OBVIOUS
<1>4. QED
  BY <1>1, <1>2, <1>3

\* A set of numbers that contains n whenever it contains those below is Nat.
LEMMA NumbersByInduction ==
    ASSUME NEW T, 0 \in T, \A n \in Nat : n \in T => n + 1 \in T
    PROVE  Nat \subseteq T
<1> SUFFICES ASSUME Nat \ T # {} PROVE FALSE
  OBVIOUS
<1>1. PICK x \in Nat \ T : \A y \in Nat \ T : x <= y
  BY LeastNumber
<1>2. x # 0 /\ x - 1 \in Nat
  OBVIOUS
<1>3. x - 1 \in T
  BY <1>1, <1>2
<1>4. x \in T
  BY <1>2, <1>3
<1>5. QED
  BY <1>4

\* A family that contains every subset of S whose parts, one element less,
\* it contains, contains S.
LEMMA SubsetsByInduction ==
    ASSUME NEW S, IsFiniteSet(S), NEW Good,
           \A s \in SUBSET S : (\A x \in s : s \ {x} \in Good) => s \in Good
    PROVE  \A s \in SUBSET S : s \in Good
<1> DEFINE Up(n) == \A s \in SUBSET S : Cardinality(s) = n => s \in Good
           T == {n \in Nat : Up(n)}
<1>1. \A s \in SUBSET S : IsFiniteSet(s) /\ Cardinality(s) \in Nat
  BY FS_Subset, FS_CardinalityType
<1>2. Up(0)
  <2> SUFFICES ASSUME NEW s \in SUBSET S, Cardinality(s) = 0 PROVE s \in Good
    OBVIOUS
  <2>1. s = {}
    BY <1>1, FS_EmptySet
  <2>2. QED
    BY <2>1
<1>3. ASSUME NEW n \in Nat, Up(n) PROVE Up(n + 1)
  <2> SUFFICES ASSUME NEW s \in SUBSET S, Cardinality(s) = n + 1 PROVE s \in Good
    OBVIOUS
  <2>1. ASSUME NEW x \in s PROVE s \ {x} \in Good
    <3>1. Cardinality(s \ {x}) = Cardinality(s) - 1
      BY <1>1, FS_RemoveElement
    <3>2. Cardinality(s \ {x}) = n
      BY <3>1
    <3>3. QED
      BY <1>3, <3>2
  <2>2. QED
    BY <2>1
<1>4. 0 \in T /\ \A n \in Nat : n \in T => n + 1 \in T
  BY <1>2, <1>3
<1> HIDE DEF T
<1>5. Nat \subseteq T
  BY <1>4, NumbersByInduction
<1>6. \A n \in Nat : Up(n)
  BY <1>5 DEF T
<1>7. QED
  BY <1>1, <1>6

-----------------------------------------------------------------------------
\* The recursive function exists, and its value is the sum.

LEMMA SumUnfolds ==
    ASSUME NEW m, NEW S
    PROVE  SumOver(m, S) = (CHOOSE f : IsPartialSum(m, SUBSET S, f))[S]
BY DEF SumOver, MapThenSumSet, MapThenFoldSet, IsPartialSum, Unfold, Chosen

LEMMA ChosenIn ==
    ASSUME NEW s, s # {}
    PROVE  Chosen(s) \in s
BY DEF Chosen

LEMMA PartialSumExists ==
    ASSUME NEW m, NEW S, IsFiniteSet(S)
    PROVE  \E f : IsPartialSum(m, SUBSET S, f)
<1> DEFINE Low(n) == {s \in SUBSET S : Cardinality(s) <= n}
           T == {n \in Nat : \E f : IsPartialSum(m, Low(n), f)}
<1>1. \A s \in SUBSET S : IsFiniteSet(s) /\ Cardinality(s) \in Nat
                          /\ Cardinality(s) <= Cardinality(S)
  BY FS_Subset, FS_CardinalityType
<1>2. 0 \in T
  <2>1. \A s \in Low(0) : s = {}
    BY <1>1, FS_EmptySet
  <2>2. IsPartialSum(m, Low(0), [s \in Low(0) |-> 0])
    BY <2>1 DEF IsPartialSum, Unfold
  <2>3. QED
    BY <2>2
<1>3. ASSUME NEW n \in Nat, n \in T PROVE n + 1 \in T
  <2>1. PICK g : IsPartialSum(m, Low(n), g)
    BY <1>3
  <2> DEFINE f == [s \in Low(n + 1) |-> Unfold(m, g, s)]
  <2>2. \A s \in Low(n) : s \in Low(n + 1) /\ f[s] = g[s]
    BY <1>1, <2>1 DEF IsPartialSum
  <2>3. ASSUME NEW s \in Low(n + 1) PROVE Unfold(m, g, s) = Unfold(m, f, s)
    <3>1. CASE s = {}
      BY <3>1 DEF Unfold
    <3>2. CASE s # {}
      <4> DEFINE t == s \ {Chosen(s)}
      <4>1. Chosen(s) \in s /\ s \in SUBSET S /\ Cardinality(s) <= n + 1
        BY <3>2, ChosenIn
      <4>2. Cardinality(t) = Cardinality(s) - 1
        BY <1>1, <4>1, FS_RemoveElement
      <4>3. t \in SUBSET S /\ Cardinality(t) <= n
        BY <1>1, <4>1, <4>2
      <4>4. f[t] = g[t]
        BY <2>2, <4>3
      <4> HIDE DEF f
      <4>5. QED
        BY <3>2, <4>4 DEF Unfold
    <3>3. QED
      BY <3>1, <3>2
  <2>4. IsPartialSum(m, Low(n + 1), f)
    <3>1. f = [s \in Low(n + 1) |-> Unfold(m, g, s)]
      OBVIOUS
    <3> HIDE DEF f
    <3>2. [s \in Low(n + 1) |-> Unfold(m, g, s)] = [s \in Low(n + 1) |-> Unfold(m, f, s)]
      BY <2>3
    <3>3. QED
      BY <3>1, <3>2 DEF IsPartialSum
  <2>5. QED
    BY <2>4
<1> HIDE DEF T
<1>4. Nat \subseteq T
  BY <1>2, <1>3, NumbersByInduction
<1>5. Cardinality(S) \in Nat
  BY FS_CardinalityType
<1>6. PICK f : IsPartialSum(m, Low(Cardinality(S)), f)
  BY <1>4, <1>5 DEF T
<1>7. Low(Cardinality(S)) = SUBSET S
  BY <1>1
<1> HIDE DEF Low
<1>8. QED
  BY <1>6, <1>7

LEMMA PartialSumsAgree ==
    ASSUME NEW m, NEW S, IsFiniteSet(S), NEW R \in SUBSET S, NEW f, NEW g,
           IsPartialSum(m, SUBSET S, f), IsPartialSum(m, SUBSET R, g)
    PROVE  f[R] = g[R]
<1> DEFINE Good == {s \in SUBSET R : f[s] = g[s]}
<1>1. ASSUME NEW s \in SUBSET R, \A x \in s : s \ {x} \in Good
      PROVE  s \in Good
  <2>1. f[s] = Unfold(m, f, s) /\ g[s] = Unfold(m, g, s)
    BY DEF IsPartialSum
  <2>2. Unfold(m, f, s) = Unfold(m, g, s)
    BY <1>1, ChosenIn DEF Unfold
  <2>3. QED
    BY <2>1, <2>2
<1>2. IsFiniteSet(R)
  BY FS_Subset
<1> HIDE DEF Good
<1>3. R \in Good
  BY <1>1, <1>2, SubsetsByInduction
<1>4. QED
  BY <1>3 DEF Good

\* The sum of nothing, and the sum without the chosen element.
LEMMA SumChosen ==
    ASSUME NEW m, NEW S, IsFiniteSet(S)
    PROVE  /\ S = {} => SumOver(m, S) = 0
           /\ S # {} => SumOver(m, S) = m[Chosen(S)] + SumOver(m, S \ {Chosen(S)})
<1> DEFINE F(s) == CHOOSE f : IsPartialSum(m, SUBSET s, f)
           R == S \ {Chosen(S)}
<1>1. IsPartialSum(m, SUBSET S, F(S))
  BY PartialSumExists
<1>2. IsFiniteSet(R) /\ R \in SUBSET S
  BY FS_Subset
<1>3. IsPartialSum(m, SUBSET R, F(R))
  BY <1>2, PartialSumExists
<1>4. SumOver(m, S) = F(S)[S] /\ SumOver(m, R) = F(R)[R]
  BY SumUnfolds
<1> HIDE DEF F
<1>5. F(S)[R] = F(R)[R]
  BY <1>1, <1>2, <1>3, PartialSumsAgree
<1>6. F(S)[S] = Unfold(m, F(S), S)
  BY <1>1 DEF IsPartialSum
<1>7. QED
  BY <1>4, <1>5, <1>6 DEF Unfold

-----------------------------------------------------------------------------
\* What the proofs about money use.

LEMMA SumOfNothing ==
    ASSUME NEW m
    PROVE  SumOver(m, {}) = 0
BY SumChosen, FS_EmptySet

LEMMA SumIsInteger ==
    ASSUME NEW m, NEW S, IsFiniteSet(S), \A x \in S : m[x] \in Int
    PROVE  SumOver(m, S) \in Int
<1> DEFINE Good == {s \in SUBSET S : SumOver(m, s) \in Int}
<1>1. ASSUME NEW s \in SUBSET S, \A x \in s : s \ {x} \in Good PROVE s \in Good
  <2>1. IsFiniteSet(s)
    BY FS_Subset
  <2>2. CASE s = {}
    BY <2>2, SumOfNothing
  <2>3. CASE s # {}
    <3>1. Chosen(s) \in s /\ SumOver(m, s) = m[Chosen(s)] + SumOver(m, s \ {Chosen(s)})
      BY <2>1, <2>3, ChosenIn, SumChosen
    <3>2. SumOver(m, s \ {Chosen(s)}) \in Int /\ m[Chosen(s)] \in Int
      BY <1>1, <3>1
    <3>3. QED
      BY <3>1, <3>2
  <2>4. QED
    BY <2>2, <2>3
<1>2. \A s \in SUBSET S : (\A x \in s : s \ {x} \in Good) => s \in Good
  BY <1>1
<1> HIDE DEF Good
<1>3. \A s \in SUBSET S : s \in Good
  BY <1>2, SubsetsByInduction
<1>4. QED
  BY <1>3 DEF Good

\* Any element can be split off.
LEMMA SumSplits ==
    ASSUME NEW m, NEW S, IsFiniteSet(S), \A x \in S : m[x] \in Int, NEW a \in S
    PROVE  SumOver(m, S) = m[a] + SumOver(m, S \ {a})
<1> DEFINE Good == {s \in SUBSET S :
                      \A y \in s : SumOver(m, s) = m[y] + SumOver(m, s \ {y})}
<1>1. ASSUME NEW s \in SUBSET S, \A x \in s : s \ {x} \in Good PROVE s \in Good
  <2> SUFFICES ASSUME NEW y \in s PROVE SumOver(m, s) = m[y] + SumOver(m, s \ {y})
    OBVIOUS
  <2> DEFINE x == Chosen(s)
  <2>1. IsFiniteSet(s) /\ x \in s
    BY FS_Subset, ChosenIn
  <2>2. SumOver(m, s) = m[x] + SumOver(m, s \ {x})
    BY <2>1, SumChosen
  <2> HIDE DEF x
  <2>3. CASE y = x
    BY <2>2, <2>3
  <2>4. CASE y # x
    <3>1. SumOver(m, s \ {x}) = m[y] + SumOver(m, (s \ {x}) \ {y})
      BY <1>1, <2>1, <2>4
    <3>2. SumOver(m, s \ {y}) = m[x] + SumOver(m, (s \ {y}) \ {x})
      BY <1>1, <2>1, <2>4
    <3>3. SumOver(m, (s \ {x}) \ {y}) = SumOver(m, (s \ {y}) \ {x})
      <4>1. (s \ {x}) \ {y} = (s \ {y}) \ {x}
        OBVIOUS
      <4>2. QED
        BY <4>1
    <3>4. /\ m[x] \in Int /\ m[y] \in Int
          /\ SumOver(m, (s \ {x}) \ {y}) \in Int
      <4>1. IsFiniteSet((s \ {x}) \ {y})
        BY <2>1, FS_Subset
      <4>2. QED
        BY <2>1, <4>1, SumIsInteger
    <3> HIDE DEF Good
    <3>5. QED
      BY <2>2, <3>1, <3>2, <3>3, <3>4
  <2>5. QED
    BY <2>3, <2>4
<1>2. \A s \in SUBSET S : (\A x \in s : s \ {x} \in Good) => s \in Good
  BY <1>1
<1> HIDE DEF Good
<1>3. \A s \in SUBSET S : s \in Good
  BY <1>2, SubsetsByInduction
<1>4. QED
  BY <1>3 DEF Good

LEMMA SumGrows ==
    ASSUME NEW m, NEW S, IsFiniteSet(S), NEW a, a \notin S, \A x \in S \cup {a} : m[x] \in Int
    PROVE  SumOver(m, S \cup {a}) = SumOver(m, S) + m[a]
<1>1. IsFiniteSet(S \cup {a}) /\ (S \cup {a}) \ {a} = S /\ a \in S \cup {a}
  BY FS_AddElement
<1>2. SumOver(m, S \cup {a}) = m[a] + SumOver(m, S)
  BY <1>1, SumSplits
<1>3. SumOver(m, S) \in Int /\ m[a] \in Int
  BY SumIsInteger
<1>4. QED
  BY <1>2, <1>3

LEMMA SumsAgree ==
    ASSUME NEW m, NEW k, NEW S, IsFiniteSet(S), \A x \in S : m[x] = k[x]
    PROVE  SumOver(m, S) = SumOver(k, S)
<1> DEFINE Good == {s \in SUBSET S : SumOver(m, s) = SumOver(k, s)}
<1>1. ASSUME NEW s \in SUBSET S, \A x \in s : s \ {x} \in Good PROVE s \in Good
  <2>1. IsFiniteSet(s)
    BY FS_Subset
  <2>2. CASE s = {}
    BY <2>2, SumOfNothing
  <2>3. CASE s # {}
    <3>1. /\ Chosen(s) \in s
          /\ SumOver(m, s) = m[Chosen(s)] + SumOver(m, s \ {Chosen(s)})
          /\ SumOver(k, s) = k[Chosen(s)] + SumOver(k, s \ {Chosen(s)})
      BY <2>1, <2>3, ChosenIn, SumChosen
    <3>2. SumOver(m, s \ {Chosen(s)}) = SumOver(k, s \ {Chosen(s)})
      BY <1>1, <3>1
    <3>3. QED
      BY <3>1, <3>2
  <2>4. QED
    BY <2>2, <2>3
<1>2. \A s \in SUBSET S : (\A x \in s : s \ {x} \in Good) => s \in Good
  BY <1>1
<1> HIDE DEF Good
<1>3. \A s \in SUBSET S : s \in Good
  BY <1>2, SubsetsByInduction
<1>4. QED
  BY <1>3 DEF Good

\* One summand changes, and the sum with it.
LEMMA SumMoves ==
    ASSUME NEW m, NEW k, NEW S, IsFiniteSet(S), NEW a \in S,
           \A x \in S : m[x] \in Int /\ k[x] \in Int,
           \A x \in S \ {a} : k[x] = m[x]
    PROVE  SumOver(k, S) = SumOver(m, S) + k[a] - m[a]
<1>1. IsFiniteSet(S \ {a})
  BY FS_Subset
<1>2. SumOver(m, S \ {a}) = SumOver(k, S \ {a})
  BY <1>1, SumsAgree
<1>3. /\ SumOver(m, S) = m[a] + SumOver(m, S \ {a})
      /\ SumOver(k, S) = k[a] + SumOver(k, S \ {a})
  BY SumSplits
<1>4. SumOver(m, S \ {a}) \in Int /\ m[a] \in Int /\ k[a] \in Int
  BY <1>1, SumIsInteger
<1>5. QED
  BY <1>2, <1>3, <1>4

-----------------------------------------------------------------------------
\* Groups: the elements with one label each, and their sums.

Labels(label, S) == {label[x] : x \in S}
Labelled(label, S, k) == {x \in S : label[x] = k}
GroupSums(m, label, S) == [k \in Labels(label, S) |-> SumOver(m, Labelled(label, S, k))]

\* One element more: its group grows, or begins with it.
LEMMA GroupGrows ==
    ASSUME NEW m, NEW label, NEW T, IsFiniteSet(T), NEW a, a \notin T,
           \A x \in T \cup {a} : m[x] \in Int, IsFiniteSet(Labels(label, T))
    PROVE  /\ IsFiniteSet(Labels(label, T \cup {a}))
           /\ SumOver(GroupSums(m, label, T \cup {a}), Labels(label, T \cup {a})) =
                SumOver(GroupSums(m, label, T), Labels(label, T)) + m[a]
<1> DEFINE S == T \cup {a}
           L == Labels(label, T)
           k == label[a]
           before == GroupSums(m, label, T)
           after == GroupSums(m, label, S)
<1>1. IsFiniteSet(S) /\ \A x \in S : m[x] \in Int
  BY FS_AddElement
<1>2. Labels(label, S) = L \cup {k} /\ IsFiniteSet(L \cup {k})
  BY FS_AddElement DEF Labels
<1>3. /\ \A j : IsFiniteSet(Labelled(label, T, j)) /\ Labelled(label, T, j) \subseteq T
      /\ \A j : IsFiniteSet(Labelled(label, S, j)) /\ Labelled(label, S, j) \subseteq S
  BY <1>1, FS_Subset DEF Labelled
<1>4. /\ \A j \in L : before[j] = SumOver(m, Labelled(label, T, j)) /\ before[j] \in Int
      /\ \A j \in L \cup {k} : after[j] = SumOver(m, Labelled(label, S, j)) /\ after[j] \in Int
  <2>1. /\ \A j : SumOver(m, Labelled(label, T, j)) \in Int
        /\ \A j : SumOver(m, Labelled(label, S, j)) \in Int
    BY <1>1, <1>3, SumIsInteger
  <2> QED BY <1>2, <2>1 DEF GroupSums
<1>5. \A j \in L \ {k} : after[j] = before[j]
  <2>1. \A j \in L \ {k} : Labelled(label, S, j) = Labelled(label, T, j)
    BY DEF Labelled
  <2> HIDE DEF before, after, S, L, k
  <2> QED BY <1>4, <2>1
<1>6. Labelled(label, S, k) = Labelled(label, T, k) \cup {a} /\ a \notin Labelled(label, T, k)
  BY DEF Labelled
<1>7. SumOver(m, Labelled(label, S, k)) = SumOver(m, Labelled(label, T, k)) + m[a]
  <2>1. \A x \in Labelled(label, T, k) \cup {a} : m[x] \in Int
    BY <1>3
  <2> QED BY <1>3, <1>6, <2>1, SumGrows
<1> HIDE DEF before, after, S, L, k
<1>8. CASE k \in L
  <2>1. L \cup {k} = L
    BY <1>8
  <2>2. after[k] = before[k] + m[a] /\ before[k] \in Int
    BY <1>4, <1>7, <1>8
  <2>3. SumOver(after, L) = SumOver(before, L) + after[k] - before[k]
    <3>1. IsFiniteSet(L)
      BY <1>2, <2>1
    <3>2. \A j \in L : before[j] \in Int /\ after[j] \in Int
      BY <1>4
    <3> QED BY <1>5, <1>8, <3>1, <3>2, SumMoves
  <2>4. SumOver(before, L) \in Int /\ m[a] \in Int
    BY <1>2, <1>4, <2>1, SumIsInteger
  <2>5. SumOver(after, L) = SumOver(before, L) + m[a]
    BY <2>2, <2>3, <2>4
  <2> QED BY <1>2, <2>1, <2>5 DEF before, after, S, L
<1>9. CASE k \notin L
  <2>1. Labelled(label, T, k) = {}
    BY <1>9 DEF Labelled, Labels, L
  <2>2. m[a] \in Int /\ SumOver(m, Labelled(label, T, k)) = 0
    BY <2>1, SumOfNothing
  <2>3. after[k] = m[a]
    BY <1>4, <1>7, <2>2
  <2>4. SumOver(after, L \cup {k}) = SumOver(after, L) + after[k]
    BY <1>2, <1>4, <1>9, FS_Subset, SumGrows
  <2>5. \A j \in L : after[j] = before[j]
    BY <1>5, <1>9
  <2>6. SumOver(after, L) = SumOver(before, L)
    BY <2>5, SumsAgree DEF L
  <2> QED BY <1>2, <2>3, <2>4, <2>6 DEF before, after, S, L
<1> QED BY <1>8, <1>9

\* The sums of the groups add up to the sum of all.
LEMMA SumByGroups ==
    ASSUME NEW m, NEW label, NEW S, IsFiniteSet(S), \A x \in S : m[x] \in Int
    PROVE  /\ IsFiniteSet(Labels(label, S))
           /\ SumOver(GroupSums(m, label, S), Labels(label, S)) = SumOver(m, S)
<1> DEFINE Whole(T) == /\ IsFiniteSet(Labels(label, T))
                       /\ SumOver(GroupSums(m, label, T), Labels(label, T)) = SumOver(m, T)
           Good == {T \in SUBSET S : Whole(T)}
<1>1. ASSUME NEW T \in SUBSET S, \A x \in T : T \ {x} \in Good PROVE T \in Good
  <2>1. CASE T = {}
    <3>1. Labels(label, T) = {}
      BY <2>1 DEF Labels
    <3>2. Whole(T)
      BY <2>1, <3>1, SumOfNothing, FS_EmptySet
    <3> QED BY <3>2
  <2>2. CASE T # {}
    <3>1. PICK a \in T : TRUE
      BY <2>2
    <3> DEFINE R == T \ {a}
    <3>2. IsFiniteSet(T) /\ IsFiniteSet(R) /\ a \notin R /\ T = R \cup {a}
      BY <3>1, FS_Subset
    <3>3. Whole(R)
      BY <1>1, <3>1
    <3>4. SumOver(m, R \cup {a}) = SumOver(m, R) + m[a]
      BY <3>1, <3>2, SumGrows
    <3> HIDE DEF R
    <3>5. \A x \in R \cup {a} : m[x] \in Int
      BY <3>2
    <3>6. Whole(R \cup {a})
      BY <3>2, <3>3, <3>4, <3>5, GroupGrows
    <3>7. Whole(T)
      BY <3>2, <3>6
    <3> QED BY <3>7
  <2> QED BY <2>1, <2>2
<1> HIDE DEF Good
<1>2. \A T \in SUBSET S : T \in Good
  BY <1>1, SubsetsByInduction
<1>3. S \in Good
  BY <1>2
<1> QED BY <1>3 DEF Good

=============================================================================
