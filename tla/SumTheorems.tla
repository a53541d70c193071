---------------------------- MODULE SumTheorems ----------------------------
(***************************************************************************)
(* Facts about SumFunctionOnSet, the sum of f[x] over the elements x of a  *)
(* finite set.  The operator is a fold, so each of them is an induction    *)
(* over finite sets; it is carried out as the search for a smallest        *)
(* counterexample, which needs no theorem with an operator parameter.      *)
(***************************************************************************)
EXTENDS Integers, Functions, FiniteSetTheorems, WellFoundedInduction, TLAPS

\* g gives every subset of U the sum of f over it.
SumsOf(g, f, U) ==
  /\ g \in [SUBSET U -> Int]
  /\ g[{}] = 0
  /\ \A s \in SUBSET U : \A x \in s : g[s] = f[x] + g[s \ {x}]

\* Sums over the subsets of U without y give sums over the subsets of U.
LEMMA SumsOfLarger ==
  ASSUME NEW U, NEW f, \A x \in U : f[x] \in Int, NEW y \in U,
         NEW h, SumsOf(h, f, U \ {y})
  PROVE  \E g : SumsOf(g, f, U)
<1>1. PICK due : due = [s \in SUBSET U |-> IF y \in s THEN f[y] ELSE 0]
  OBVIOUS
<1>2. PICK g : g = [s \in SUBSET U |-> h[s \ {y}] + due[s]]
  OBVIOUS
<1>3. ASSUME NEW s \in SUBSET U
      PROVE  s \ {y} \in SUBSET (U \ {y}) /\ h[s \ {y}] \in Int /\ due[s] \in Int
  BY <1>1 DEF SumsOf
<1>4. ASSUME NEW s \in SUBSET U
      PROVE  g[s] = h[s \ {y}] + due[s] /\ g[s] \in Int
  <2>1. g[s] = h[s \ {y}] + due[s]
    BY <1>2
  <2>2. h[s \ {y}] \in Int /\ due[s] \in Int
    BY <1>3
  <2>. QED BY <2>1, <2>2
<1>5. g \in [SUBSET U -> Int]
  BY <1>2, <1>4
<1>6. g[{}] = 0
  <2>1. due[{}] = 0 /\ h[{}] = 0
    BY <1>1 DEF SumsOf
  <2>2. g[{}] = h[{}] + due[{}]
    <3>1. {} \ {y} = {}
      OBVIOUS
    <3>. QED BY <1>4, <3>1
  <2>. QED BY <2>1, <2>2
<1>7. ASSUME NEW s \in SUBSET U, NEW x \in s PROVE g[s] = f[x] + g[s \ {x}]
  <2>1. s \ {x} \in SUBSET U /\ x \in U /\ f[x] \in Int
    OBVIOUS
  <2>2. g[s] = h[s \ {y}] + due[s] /\ g[s \ {x}] = h[(s \ {x}) \ {y}] + due[s \ {x}]
    BY <1>4, <2>1
  <2>3. CASE x = y
    <3>1. (s \ {x}) \ {y} = s \ {y} /\ due[s] = f[x] /\ due[s \ {x}] = 0
      BY <1>1, <2>1, <2>3
    <3>2. h[s \ {y}] \in Int
      BY <1>3
    <3>. QED BY <2>1, <2>2, <3>1, <3>2
  <2>4. CASE x # y
    <3>1. h[(s \ {x}) \ {y}] = h[(s \ {y}) \ {x}] /\ due[s] = due[s \ {x}] /\ x \in s \ {y}
      <4>1. (s \ {x}) \ {y} = (s \ {y}) \ {x}
        OBVIOUS
      <4>. QED BY <1>1, <2>1, <2>4, <4>1
    <3>2. h[s \ {y}] = f[x] + h[(s \ {y}) \ {x}]
      BY <1>3, <3>1 DEF SumsOf
    <3>3. h[(s \ {x}) \ {y}] \in Int /\ due[s] \in Int
      BY <1>3, <2>1
    <3>. QED BY <2>1, <2>2, <3>1, <3>2, <3>3
  <2>. QED BY <2>3, <2>4
<1>. QED BY <1>5, <1>6, <1>7 DEF SumsOf

\* The subsets of a finite set have sums, whatever the order of the summands.
LEMMA SumsExist ==
  ASSUME NEW U, IsFiniteSet(U), NEW f, \A x \in U : f[x] \in Int
  PROVE  \E g : SumsOf(g, f, U)
<1>. SUFFICES ASSUME ~\E g : SumsOf(g, f, U) PROVE FALSE
  OBVIOUS
<1>. DEFINE Without == {s \in SUBSET U : ~\E g : SumsOf(g, f, s)}
<1>1. IsWellFoundedOn(StrictSubsetOrdering(U), SUBSET U)
  BY FS_StrictSubsetOrderingWellFounded, FS_FiniteSubsetsOfFinite
<1>2. Without \subseteq SUBSET U /\ Without # {}
  OBVIOUS
<1>3. PICK s \in Without : \A t \in Without : ~(<<t, s>> \in StrictSubsetOrdering(U))
  BY <1>1, <1>2, WFMin
<1>4. s # {}
  <2>. DEFINE g == [t \in SUBSET {} |-> 0]
  <2>1. SumsOf(g, f, {})
    BY DEF SumsOf
  <2>. QED BY <1>3, <2>1
<1>5. PICK y \in s : TRUE
  BY <1>4
<1>6. s \ {y} \notin Without
  <2>1. s \ {y} # s /\ s \ {y} \subseteq s /\ s \in SUBSET U
    BY <1>3, <1>5
  <2>. QED BY <1>3, <2>1 DEF StrictSubsetOrdering
<1>7. \E h : SumsOf(h, f, s \ {y})
  BY <1>3, <1>6
<1>8. \E g : SumsOf(g, f, s)
  BY <1>3, <1>5, <1>7, SumsOfLarger
<1>. QED BY <1>3, <1>8

\* SumFunctionOnSet adds up f over every subset of a finite set U.
LEMMA SumOnSubsets ==
  ASSUME NEW U, IsFiniteSet(U), NEW f, \A x \in U : f[x] \in Int
  PROVE  \E g : SumsOf(g, f, U) /\ \A s \in SUBSET U : SumFunctionOnSet(f, s) = g[s]
<1>1. PICK g : SumsOf(g, f, U)
  BY SumsExist
<1>2. ASSUME NEW S \in SUBSET U PROVE SumFunctionOnSet(f, S) = g[S]
  <2>. DEFINE body(i, s) == IF s = {} THEN 0
                            ELSE LET x == CHOOSE x \in s : TRUE IN f[x] + i[s \ {x}]
              iter == CHOOSE iter : iter = [s \in SUBSET S |-> body(iter, s)]
              k == [s \in SUBSET S |-> g[s]]
  <2>1. SumFunctionOnSet(f, S) = iter[S]
    BY DEF SumFunctionOnSet, FoldFunctionOnSet, MapThenFoldSet
  <2>2. k = [s \in SUBSET S |-> body(k, s)]
    <3>1. ASSUME NEW s \in SUBSET S PROVE g[s] = body(k, s)
      <4>1. CASE s = {}
        BY <1>1, <4>1 DEF SumsOf
      <4>2. CASE s # {}
        <5>1. PICK x : x = CHOOSE z \in s : TRUE
          OBVIOUS
        <5>2. x \in s
          BY <4>2, <5>1
        <5>3. body(k, s) = f[x] + k[s \ {x}]
          BY <4>2, <5>1
        <5>4. k[s \ {x}] = g[s \ {x}]
          OBVIOUS
        <5>. HIDE DEF k, body
        <5>5. s \in SUBSET U
          OBVIOUS
        <5>. QED BY <1>1, <5>2, <5>3, <5>4, <5>5 DEF SumsOf
      <4>. QED BY <4>1, <4>2
    <3>. HIDE DEF body
    <3>. QED BY <3>1
  <2>3. iter = [s \in SUBSET S |-> body(iter, s)]
    <3>. HIDE DEF body, k
    <3>. QED BY <2>2
  <2>. DEFINE Wrong == {s \in SUBSET S : iter[s] # g[s]}
  <2>4. Wrong = {}
    <3>. SUFFICES ASSUME Wrong # {} PROVE FALSE
      OBVIOUS
    <3>1. IsFiniteSet(S)
      BY FS_Subset
    <3>2. IsWellFoundedOn(StrictSubsetOrdering(S), SUBSET S)
      BY <3>1, FS_StrictSubsetOrderingWellFounded, FS_FiniteSubsetsOfFinite
    <3>3. PICK s \in Wrong : \A t \in Wrong : ~(<<t, s>> \in StrictSubsetOrdering(S))
      <4>1. Wrong \subseteq SUBSET S
        OBVIOUS
      <4>. HIDE DEF Wrong
      <4>. QED BY <3>2, <4>1, WFMin
    <3>. HIDE DEF iter
    <3>4. iter[s] = body(iter, s) /\ s \in SUBSET U
      <4>. HIDE DEF body
      <4>. QED BY <2>3, <3>3
    <3>5. CASE s = {}
      BY <1>1, <3>3, <3>4, <3>5 DEF SumsOf
    <3>6. CASE s # {}
      <4>1. PICK x : x = CHOOSE z \in s : TRUE
        OBVIOUS
      <4>2. x \in s
        BY <3>6, <4>1
      <4>3. iter[s] = f[x] + iter[s \ {x}]
        BY <3>4, <3>6, <4>1
      <4>4. g[s] = f[x] + g[s \ {x}]
        BY <1>1, <3>4, <4>2 DEF SumsOf
      <4>5. s \ {x} \in SUBSET S /\ s \ {x} # s /\ s \ {x} \subseteq s /\ s \in SUBSET S
        BY <3>3, <4>2
      <4>6. iter[s \ {x}] = g[s \ {x}]
        BY <3>3, <4>5 DEF StrictSubsetOrdering
      <4>. QED BY <3>3, <4>3, <4>4, <4>6
    <3>. QED BY <3>5, <3>6
  <2>. HIDE DEF iter
  <2>. QED BY <2>1, <2>4
<1>. QED BY <1>1, <1>2

----------------------------------------------------------------------------
\* The sum of integers over a finite set is an integer, 0 for no summand.
THEOREM SumType ==
  ASSUME NEW U, IsFiniteSet(U), NEW f, \A x \in U : f[x] \in Int
  PROVE  /\ SumFunctionOnSet(f, U) \in Int
         /\ SumFunctionOnSet(f, {}) = 0
<1>1. PICK g : SumsOf(g, f, U) /\ \A s \in SUBSET U : SumFunctionOnSet(f, s) = g[s]
  BY SumOnSubsets
<1>. QED BY <1>1 DEF SumsOf

\* A sum is any one of its summands and the sum of the others.
THEOREM SumRemove ==
  ASSUME NEW U, IsFiniteSet(U), NEW f, \A x \in U : f[x] \in Int, NEW x \in U
  PROVE  SumFunctionOnSet(f, U) = f[x] + SumFunctionOnSet(f, U \ {x})
<1>1. PICK g : SumsOf(g, f, U) /\ \A s \in SUBSET U : SumFunctionOnSet(f, s) = g[s]
  BY SumOnSubsets
<1>. QED BY <1>1 DEF SumsOf

\* Functions that agree on a set have the same sum over it.
THEOREM SumEqual ==
  ASSUME NEW U, IsFiniteSet(U), NEW f, NEW h,
         \A x \in U : f[x] \in Int /\ h[x] = f[x]
  PROVE  SumFunctionOnSet(h, U) = SumFunctionOnSet(f, U)
<1>1. PICK g : SumsOf(g, f, U) /\ \A s \in SUBSET U : SumFunctionOnSet(f, s) = g[s]
  BY SumOnSubsets
<1>2. PICK k : SumsOf(k, h, U) /\ \A s \in SUBSET U : SumFunctionOnSet(h, s) = k[s]
  BY SumOnSubsets
<1>. DEFINE Wrong == {s \in SUBSET U : k[s] # g[s]}
<1>. SUFFICES ASSUME Wrong # {} PROVE FALSE
  BY <1>1, <1>2
<1>3. IsWellFoundedOn(StrictSubsetOrdering(U), SUBSET U)
  BY FS_StrictSubsetOrderingWellFounded, FS_FiniteSubsetsOfFinite
<1>4. PICK s \in Wrong : \A t \in Wrong : ~(<<t, s>> \in StrictSubsetOrdering(U))
  <2>1. Wrong \subseteq SUBSET U
    OBVIOUS
  <2>. HIDE DEF Wrong
  <2>. QED BY <1>3, <2>1, WFMin
<1>5. s # {}
  BY <1>1, <1>2, <1>4 DEF SumsOf
<1>6. PICK x \in s : TRUE
  BY <1>5
<1>7. s \ {x} \in SUBSET U /\ s \ {x} # s /\ s \ {x} \subseteq s /\ s \in SUBSET U
  BY <1>4, <1>6
<1>8. k[s \ {x}] = g[s \ {x}]
  BY <1>4, <1>7 DEF StrictSubsetOrdering
<1>9. k[s] = h[x] + k[s \ {x}] /\ g[s] = f[x] + g[s \ {x}] /\ h[x] = f[x]
  BY <1>1, <1>2, <1>6, <1>7 DEF SumsOf
<1>. QED BY <1>4, <1>8, <1>9

\* One more summand is added to the sum.
THEOREM SumAdd ==
  ASSUME NEW U, IsFiniteSet(U), NEW y, y \notin U, NEW f, \A x \in U \cup {y} : f[x] \in Int
  PROVE  SumFunctionOnSet(f, U \cup {y}) = SumFunctionOnSet(f, U) + f[y]
<1>1. IsFiniteSet(U \cup {y}) /\ (U \cup {y}) \ {y} = U
  BY FS_AddElement
<1>2. SumFunctionOnSet(f, U \cup {y}) = f[y] + SumFunctionOnSet(f, U)
  BY <1>1, SumRemove
<1>3. SumFunctionOnSet(f, U) \in Int /\ f[y] \in Int
  BY SumType
<1>. QED BY <1>2, <1>3

\* What is taken from one summand and given to another leaves the sum alone.
THEOREM SumMoved ==
  ASSUME NEW U, IsFiniteSet(U), NEW f, \A x \in U : f[x] \in Int,
         NEW h, NEW from \in U, NEW to \in U, from # to, NEW m \in Int,
         h[from] = f[from] - m, h[to] = f[to] + m,
         \A x \in U \ {from, to} : h[x] = f[x]
  PROVE  SumFunctionOnSet(h, U) = SumFunctionOnSet(f, U)
<1>1. \A x \in U : h[x] \in Int
  <2>1. h[from] \in Int /\ h[to] \in Int
    OBVIOUS
  <2>. QED BY <2>1
<1>. DEFINE rest == (U \ {from}) \ {to}
<1>2. IsFiniteSet(U \ {from}) /\ IsFiniteSet(rest)
  BY FS_RemoveElement
<1>3. /\ SumFunctionOnSet(f, U) = f[from] + SumFunctionOnSet(f, U \ {from})
      /\ SumFunctionOnSet(h, U) = h[from] + SumFunctionOnSet(h, U \ {from})
  BY <1>1, SumRemove
<1>4. /\ SumFunctionOnSet(f, U \ {from}) = f[to] + SumFunctionOnSet(f, rest)
      /\ SumFunctionOnSet(h, U \ {from}) = h[to] + SumFunctionOnSet(h, rest)
  BY <1>1, <1>2, SumRemove
<1>5. SumFunctionOnSet(h, rest) = SumFunctionOnSet(f, rest)
  BY <1>2, SumEqual
<1>6. SumFunctionOnSet(f, rest) \in Int /\ f[from] \in Int /\ f[to] \in Int
  BY <1>2, SumType
<1>. HIDE DEF rest
<1>. QED BY <1>3, <1>4, <1>5, <1>6
=============================================================================
