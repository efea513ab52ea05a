------------------------------ MODULE FiniteSums ------------------------------
(***************************************************************************)
(* Facts about the sum of a function's values over a finite set, the fold  *)
(* MapThenSumSet that the amounts of the payment modules are written with. *)
(*                                                                         *)
(* The fold is a recursive function over the subsets of the set.  The      *)
(* arguments by induction are made by taking a smallest counterexample in  *)
(* the strict subset ordering, which is well-founded on the subsets of a   *)
(* finite set.                                                             *)
(***************************************************************************)
EXTENDS FiniteSetsExt, FiniteSetTheorems, WellFoundedInduction, TLAPS

\* the sum of f over S, as AmountOf of PaymentOrder takes it of PayAmount
Total(f, S) == MapThenSumSet(LAMBDA x : f[x], S)

\* the element the fold takes first
First(s) == CHOOSE x \in s : TRUE

\* the body of the fold's recursion, on the subsets of S
Unfold(f, S, g) ==
  [s \in SUBSET S |-> IF s = {} THEN 0 ELSE f[First(s)] + g[s \ {First(s)}]]

\* the function that the recursion chooses
Iter(f, S) == CHOOSE g : g = Unfold(f, S, g)

\* the sum over s satisfies the equation the fold is defined by
Unfolds(f, s) ==
  Total(f, s) = IF s = {} THEN 0 ELSE f[First(s)] + Total(f, s \ {First(s)})

-----------------------------------------------------------------------------
(* The fold's defining equation *)

\* The fold is the value at S of the function its recursion chooses.
LEMMA TotalIter ==
  ASSUME NEW f, NEW S
  PROVE  Total(f, S) = Iter(f, S)[S]
  BY DEF Total, MapThenSumSet, MapThenFoldSet, Iter, Unfold, First

\* Any nonempty set of subsets of a finite set has a smallest member.
LEMMA SmallestSubset ==
  ASSUME NEW S, IsFiniteSet(S), NEW T, T \subseteq SUBSET S, T # {}
  PROVE  \E t \in T : \A u \in T : ~(u \subseteq t /\ u # t)
<1>1. IsWellFoundedOn(StrictSubsetOrdering(S), SUBSET S)
  BY FS_FiniteSubsetsOfFinite, FS_StrictSubsetOrderingWellFounded
<1>2. PICK t \in T : \A u \in T : <<u, t>> \notin StrictSubsetOrdering(S)
  BY <1>1, WFMin
<1>3. ASSUME NEW u \in T, u \subseteq t, u # t PROVE FALSE
  BY <1>2, <1>3 DEF StrictSubsetOrdering
<1> QED
  BY <1>2, <1>3

\* The fold takes an element of the set.
LEMMA FirstOf ==
  ASSUME NEW s, s # {}
  PROVE  First(s) \in s
  BY DEF First

\* The recursion has at most one solution.
LEMMA IterUnique ==
  ASSUME NEW f, NEW S, IsFiniteSet(S), NEW g, NEW h,
         g = Unfold(f, S, g), h = Unfold(f, S, h)
  PROVE  g = h
<1> DEFINE Bad == {s \in SUBSET S : g[s] # h[s]}
<1>1. SUFFICES ASSUME Bad # {} PROVE FALSE
  BY DEF Unfold
<1>2. PICK s \in Bad : \A u \in Bad : ~(u \subseteq s /\ u # s)
  <2>1. Bad \subseteq SUBSET S
    OBVIOUS
  <2> HIDE DEF Bad
  <2> QED
    BY <1>1, <2>1, SmallestSubset
<1>3. /\ g[s] = IF s = {} THEN 0 ELSE f[First(s)] + g[s \ {First(s)}]
      /\ h[s] = IF s = {} THEN 0 ELSE f[First(s)] + h[s \ {First(s)}]
  BY DEF Unfold
<1>4. s # {}
  BY <1>3
<1>5. g[s \ {First(s)}] = h[s \ {First(s)}]
  BY <1>2, <1>4, FirstOf
<1> QED
  BY <1>3, <1>4, <1>5

\* The fold satisfies its equation on every finite set.
LEMMA TotalUnfolds ==
  ASSUME NEW f, NEW S, IsFiniteSet(S)
  PROVE  Unfolds(f, S)
<1> DEFINE Bad == {s \in SUBSET S : ~Unfolds(f, s)}
<1>1. SUFFICES ASSUME Bad # {} PROVE FALSE
  OBVIOUS
<1>2. PICK t \in Bad : \A u \in Bad : ~(u \subseteq t /\ u # t)
  <2>1. Bad \subseteq SUBSET S
    OBVIOUS
  <2> HIDE DEF Bad
  <2> QED
    BY <1>1, <2>1, SmallestSubset
<1>3. IsFiniteSet(t)
  BY FS_Subset
<1> DEFINE G == [s \in SUBSET t |-> IF s = {} THEN 0
                                    ELSE f[First(s)] + Total(f, s \ {First(s)})]
<1>4. ASSUME NEW s \in SUBSET t, s # t PROVE G[s] = Total(f, s)
  BY <1>2, <1>4 DEF Unfolds
<1>5. ASSUME NEW s \in SUBSET t, s # {}
      PROVE  G[s \ {First(s)}] = Total(f, s \ {First(s)})
  BY <1>4, <1>5, FirstOf
<1>6. G = Unfold(f, t, G)
  <2> HIDE DEF G
  <2>1. Unfold(f, t, G) = [s \in SUBSET t |-> IF s = {} THEN 0
                                    ELSE f[First(s)] + Total(f, s \ {First(s)})]
    BY <1>5 DEF Unfold
  <2> QED
    BY <2>1 DEF G
<1>7. Iter(f, t) = Unfold(f, t, Iter(f, t))
  BY <1>6 DEF Iter
<1>8. Iter(f, t) = G
  BY <1>3, <1>6, <1>7, IterUnique
<1>9. Total(f, t) = G[t]
  BY <1>8, TotalIter
<1>10. Unfolds(f, t)
  BY <1>9 DEF Unfolds
<1> QED
  BY <1>10

-----------------------------------------------------------------------------
(* What the sum of natural numbers returns *)

\* The sum over no element is 0.
LEMMA TotalEmpty ==
  ASSUME NEW f
  PROVE  Total(f, {}) = 0
  BY TotalUnfolds, FS_EmptySet DEF Unfolds

\* The sum of naturals is a natural.
LEMMA TotalType ==
  ASSUME NEW f, NEW S, IsFiniteSet(S), \A x \in S : f[x] \in Nat
  PROVE  Total(f, S) \in Nat
<1> DEFINE Bad == {s \in SUBSET S : Total(f, s) \notin Nat}
<1>1. SUFFICES ASSUME Bad # {} PROVE FALSE
  OBVIOUS
<1>2. PICK t \in Bad : \A u \in Bad : ~(u \subseteq t /\ u # t)
  <2>1. Bad \subseteq SUBSET S
    OBVIOUS
  <2> HIDE DEF Bad
  <2> QED
    BY <1>1, <2>1, SmallestSubset
<1>3. Unfolds(f, t)
  BY FS_Subset, TotalUnfolds
<1>4. t # {} => First(t) \in t /\ Total(f, t \ {First(t)}) \in Nat
  BY <1>2, FirstOf
<1> QED
  BY <1>3, <1>4 DEF Unfolds

\* The sum does not depend on the element it is unfolded at.
LEMMA TotalTake ==
  ASSUME NEW f, NEW S, IsFiniteSet(S), \A y \in S : f[y] \in Nat, NEW x \in S
  PROVE  Total(f, S) = f[x] + Total(f, S \ {x})
<1> DEFINE Even(s) == \A y \in s : Total(f, s) = f[y] + Total(f, s \ {y})
           Bad == {s \in SUBSET S : ~Even(s)}
<1>1. SUFFICES ASSUME Bad # {} PROVE FALSE
  OBVIOUS
<1>2. PICK t \in Bad : \A u \in Bad : ~(u \subseteq t /\ u # t)
  <2>1. Bad \subseteq SUBSET S
    OBVIOUS
  <2> HIDE DEF Bad
  <2> QED
    BY <1>1, <2>1, SmallestSubset
<1>3. PICK y \in t : Total(f, t) # f[y] + Total(f, t \ {y})
  OBVIOUS
<1> DEFINE c == First(t)
<1>4. c \in t
  BY <1>3, FirstOf
<1>5. Total(f, t) = f[c] + Total(f, t \ {c})
  BY <1>3, FS_Subset, TotalUnfolds DEF Unfolds
<1>6. c # y
  BY <1>3, <1>5
<1>7. Even(t \ {c}) /\ Even(t \ {y})
  BY <1>2, <1>3, <1>4
<1>8. Total(f, t \ {c}) = f[y] + Total(f, (t \ {c}) \ {y})
  BY <1>3, <1>6, <1>7
<1>9. Total(f, t \ {y}) = f[c] + Total(f, (t \ {y}) \ {c})
  BY <1>4, <1>6, <1>7
<1>10. (t \ {c}) \ {y} = (t \ {y}) \ {c}
  OBVIOUS
<1>11. Total(f, (t \ {c}) \ {y}) \in Nat
  <2>1. IsFiniteSet((t \ {c}) \ {y})
    BY FS_Subset
  <2>2. \A z \in (t \ {c}) \ {y} : f[z] \in Nat
    OBVIOUS
  <2> HIDE DEF Bad
  <2> QED
    BY <2>1, <2>2, TotalType
<1>12. f[c] \in Nat /\ f[y] \in Nat
  BY <1>4
<1> HIDE DEF Bad, Even, c
<1> QED
  BY <1>3, <1>5, <1>8, <1>9, <1>10, <1>11, <1>12

\* One element more adds its value.
LEMMA TotalAdd ==
  ASSUME NEW f, NEW S, IsFiniteSet(S), NEW x, x \notin S,
         \A y \in S \cup {x} : f[y] \in Nat
  PROVE  Total(f, S \cup {x}) = Total(f, S) + f[x]
<1>1. IsFiniteSet(S \cup {x})
  BY FS_AddElement
<1>2. (S \cup {x}) \ {x} = S
  OBVIOUS
<1>3. Total(f, S \cup {x}) = f[x] + Total(f, S)
  BY <1>1, <1>2, TotalTake
<1>4. Total(f, S) \in Nat
  BY TotalType
<1> QED
  BY <1>3, <1>4

\* One element more, or the same set again, adds at most its value.
LEMMA TotalAddAtMost ==
  ASSUME NEW f, NEW S, IsFiniteSet(S), NEW x, \A y \in S \cup {x} : f[y] \in Nat
  PROVE  Total(f, S \cup {x}) <= Total(f, S) + f[x]
<1>1. Total(f, S) \in Nat /\ f[x] \in Nat
  BY TotalType
<1>2. CASE x \in S
  <2>1. S \cup {x} = S
    BY <1>2
  <2>2. Total(f, S \cup {x}) = Total(f, S)
    BY <2>1
  <2> QED
    BY <1>1, <2>2
<1>3. CASE x \notin S
  BY <1>1, <1>3, TotalAdd
<1> QED
  BY <1>2, <1>3

\* A part sums up to no more than the whole.
LEMMA TotalMonotone ==
  ASSUME NEW f, NEW S, IsFiniteSet(S), \A y \in S : f[y] \in Nat, NEW T \in SUBSET S
  PROVE  Total(f, T) <= Total(f, S)
<1> DEFINE Bad == {s \in SUBSET S : T \subseteq s /\ ~(Total(f, T) <= Total(f, s))}
<1>1. SUFFICES ASSUME Bad # {} PROVE FALSE
  OBVIOUS
<1>2. PICK t \in Bad : \A u \in Bad : ~(u \subseteq t /\ u # t)
  <2>1. Bad \subseteq SUBSET S
    OBVIOUS
  <2> HIDE DEF Bad
  <2> QED
    BY <1>1, <2>1, SmallestSubset
<1>3. IsFiniteSet(T) /\ IsFiniteSet(t)
  BY FS_Subset
<1>4. Total(f, T) \in Nat /\ Total(f, t) \in Nat
  BY <1>3, TotalType
<1>5. PICK x \in t : x \notin T
  BY <1>4
<1>6. Total(f, T) <= Total(f, t \ {x})
  BY <1>2, <1>5
<1>7. Total(f, t) = f[x] + Total(f, t \ {x})
  BY <1>3, TotalTake
<1>8. Total(f, t \ {x}) \in Nat
  BY <1>3, FS_Subset, TotalType
<1> HIDE DEF Bad
<1> QED
  <2>1. ~(Total(f, T) <= Total(f, t))
    BY DEF Bad
  <2>2. f[x] \in Nat
    BY DEF Bad
  <2> QED
    BY <1>4, <1>6, <1>7, <1>8, <2>1, <2>2

\* Functions that agree on the set have the same sum.
LEMMA TotalAgree ==
  ASSUME NEW f, NEW g, NEW S, IsFiniteSet(S),
         \A x \in S : f[x] \in Nat /\ f[x] = g[x]
  PROVE  Total(f, S) = Total(g, S)
<1> DEFINE Bad == {s \in SUBSET S : Total(f, s) # Total(g, s)}
<1>1. SUFFICES ASSUME Bad # {} PROVE FALSE
  OBVIOUS
<1>2. PICK t \in Bad : \A u \in Bad : ~(u \subseteq t /\ u # t)
  <2>1. Bad \subseteq SUBSET S
    OBVIOUS
  <2> HIDE DEF Bad
  <2> QED
    BY <1>1, <2>1, SmallestSubset
<1>3. Unfolds(f, t) /\ Unfolds(g, t)
  BY FS_Subset, TotalUnfolds
<1>4. t # {} => First(t) \in t /\ Total(f, t \ {First(t)}) = Total(g, t \ {First(t)})
  BY <1>2, FirstOf
<1> QED
  BY <1>3, <1>4 DEF Unfolds

\* Zeros sum up to 0.
LEMMA TotalOfZeros ==
  ASSUME NEW f, NEW S, IsFiniteSet(S), \A x \in S : f[x] = 0
  PROVE  Total(f, S) = 0
<1> DEFINE Bad == {s \in SUBSET S : Total(f, s) # 0}
<1>1. SUFFICES ASSUME Bad # {} PROVE FALSE
  OBVIOUS
<1>2. PICK t \in Bad : \A u \in Bad : ~(u \subseteq t /\ u # t)
  <2>1. Bad \subseteq SUBSET S
    OBVIOUS
  <2> HIDE DEF Bad
  <2> QED
    BY <1>1, <2>1, SmallestSubset
<1>3. Unfolds(f, t)
  BY FS_Subset, TotalUnfolds
<1>4. t # {} => f[First(t)] = 0 /\ Total(f, t \ {First(t)}) = 0
  BY <1>2, FirstOf
<1> QED
  BY <1>3, <1>4 DEF Unfolds

\* Changing the function at one element changes the sum by the difference.
LEMMA TotalChange ==
  ASSUME NEW f, NEW g, NEW S, IsFiniteSet(S), NEW x \in S,
         \A y \in S : f[y] \in Nat /\ g[y] \in Nat,
         \A y \in S \ {x} : f[y] = g[y]
  PROVE  Total(g, S) + f[x] = Total(f, S) + g[x]
<1>1. IsFiniteSet(S \ {x})
  BY FS_RemoveElement
<1>2. Total(f, S) = f[x] + Total(f, S \ {x})
  BY TotalTake
<1>3. Total(g, S) = g[x] + Total(g, S \ {x})
  BY TotalTake
<1>4. Total(f, S \ {x}) = Total(g, S \ {x}) /\ Total(f, S \ {x}) \in Nat
  BY <1>1, TotalAgree, TotalType
<1> QED
  BY <1>2, <1>3, <1>4
=============================================================================
