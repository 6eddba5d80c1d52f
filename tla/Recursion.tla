------------------------------ MODULE Recursion ------------------------------
(***************************************************************************)
(* Induction over the natural numbers, stated for a set rather than for a  *)
(* predicate, and what follows from it for functions that are defined by   *)
(* recursion.  Nothing here is about the program.                          *)
(***************************************************************************)
EXTENDS Integers, WellFoundedInduction, TLAPS

\* A set of natural numbers has a least one.
LEMMA Least ==
    ASSUME NEW T \in SUBSET Nat, T # {}
    PROVE  \E x \in T : \A y \in T : x <= y
<1> DEFINE R == OpToRel(<, Nat)
<1>1. IsWellFoundedOn(R, Nat)
  BY NatLessThanWellFounded, Zenon
<1> HIDE DEF R
<1>2. PICK x \in T : \A y \in T : ~(<<y, x>> \in R)
  BY <1>1, WFMin
<1>3. \A y \in T : y < x => <<y, x>> \in R
  BY Zenon DEF R, OpToRel
<1>4. \A y \in T : ~(y < x)
  BY <1>2, <1>3, Zenon
<1>5. x \in Nat /\ \A y \in T : y \in Nat
  OBVIOUS
<1>6. \A y \in T : x <= y
  BY <1>4, <1>5
<1> QED BY <1>6

\* A set of numbers with a bound has a greatest one.
LEMMA Greatest ==
    ASSUME NEW N \in Nat, NEW T \in SUBSET (0 .. N), T # {}
    PROVE  \E x \in T : \A y \in T : y <= x
<1> DEFINE U == {u \in Nat : u <= N /\ N - u \in T}
<1>1. \A x \in T : N - x \in U /\ N - (N - x) = x
  OBVIOUS
<1>2. U \in SUBSET Nat /\ U # {}
  BY <1>1
<1>3. PICK u \in U : \A w \in U : u <= w
  BY <1>2, Least
<1>4. N - u \in T /\ u \in Nat
  OBVIOUS
<1>5. ASSUME NEW y \in T
      PROVE  y <= N - u
  <2>1. u <= N - y
    BY <1>1, <1>3
  <2> QED BY <1>4, <2>1
<1> QED BY <1>4, <1>5

\* A set that has 0, and with every number the next, has all of them.
LEMMA Induction ==
    ASSUME NEW S, 0 \in S, \A n \in Nat : n \in S => n + 1 \in S
    PROVE  \A n \in Nat : n \in S
<1> SUFFICES ASSUME Nat \ S # {} PROVE FALSE
  OBVIOUS
<1>1. PICK x \in Nat \ S : \A y \in Nat \ S : x <= y
  BY Least
<1>2. x # 0 /\ x - 1 \in Nat /\ x - 1 \in S
  BY <1>1
<1> QED BY <1>1, <1>2

\* The same up to a bound.
LEMMA BoundedInduction ==
    ASSUME NEW N \in Nat, NEW S, 0 \in S, \A k \in 1 .. N : k - 1 \in S => k \in S
    PROVE  \A k \in 0 .. N : k \in S
<1> DEFINE T == {n \in Nat : n <= N => n \in S}
<1>1. 0 \in T
  OBVIOUS
<1>2. ASSUME NEW n \in Nat, n \in T, n + 1 <= N
      PROVE  n + 1 \in S
  <2>1. PICK k \in 1 .. N : k = n + 1 /\ k - 1 = n
    BY <1>2
  <2> QED BY <1>2, <2>1
<1>3. \A n \in Nat : n \in T => n + 1 \in T
  BY <1>2
<1> HIDE DEF T
<1>4. \A n \in Nat : n \in T
  BY <1>1, <1>3, Induction
<1> QED BY <1>4 DEF T

\* For any base and any steps there is a function that takes them.
Takes(f, n, base, step) ==
    f[0] = base /\ \A k \in 1 .. n : f[k] = step[k][f[k - 1]]

LEMMA FiniteRecursion ==
    ASSUME NEW V, NEW base \in V, NEW N \in Nat, NEW step \in [1 .. N -> [V -> V]]
    PROVE  \E f \in [0 .. N -> V] : Takes(f, N, base, step)
<1> DEFINE S == {n \in Nat : n <= N => \E f \in [0 .. n -> V] : Takes(f, n, base, step)}
<1>1. 0 \in S
  <2>1. [k \in 0 .. 0 |-> base] \in [0 .. 0 -> V]
    OBVIOUS
  <2>2. Takes([k \in 0 .. 0 |-> base], 0, base, step)
    BY DEF Takes
  <2> QED BY <2>1, <2>2
<1>2. ASSUME NEW n \in Nat, n \in S, n + 1 <= N
      PROVE  \E f \in [0 .. n + 1 -> V] : Takes(f, n + 1, base, step)
  <2>1. PICK f \in [0 .. n -> V] : Takes(f, n, base, step)
    BY <1>2
  <2> DEFINE g == [k \in 0 .. n + 1 |-> IF k = n + 1 THEN step[n + 1][f[n]] ELSE f[k]]
  <2>2. g \in [0 .. n + 1 -> V]
    <3>1. step[n + 1][f[n]] \in V
      <4>1. n + 1 \in 1 .. N /\ f[n] \in V
        BY <1>2
      <4> QED BY <4>1
    <3> QED BY <3>1
  <2>3. ASSUME NEW k \in 1 .. n + 1
        PROVE  g[k] = step[k][g[k - 1]]
    <3>1. CASE k = n + 1
      BY <3>1
    <3>2. CASE k # n + 1
      BY <2>1, <3>2 DEF Takes
    <3> QED BY <3>1, <3>2
  <2>4. g[0] = base
    BY <2>1 DEF Takes
  <2>5. Takes(g, n + 1, base, step)
    BY <2>3, <2>4 DEF Takes
  <2> QED BY <2>2, <2>5
<1>3. \A n \in Nat : n \in S => n + 1 \in S
  BY <1>2
<1> HIDE DEF S
<1>4. N \in S
  BY <1>1, <1>3, Induction
<1> QED BY <1>4 DEF S

\* f takes the steps, within V, and nothing else does.
Unfolds(f, V, base, N, step) ==
    /\ f[0] = base
    /\ \A k \in 1 .. N : f[k - 1] \in V /\ f[k] = step[k][f[k - 1]]
    /\ \A g : g[0] = base /\ (\A k \in 1 .. N :
                                g[k - 1] \in V => g[k] = step[k][g[k - 1]])
              => \A k \in 0 .. N : g[k] = f[k]

LEMMA Unfolding ==
    ASSUME NEW V, NEW base \in V, NEW N \in Nat, NEW step \in [1 .. N -> [V -> V]]
    PROVE  \E f \in [0 .. N -> V] : Unfolds(f, V, base, N, step)
<1>1. PICK f \in [0 .. N -> V] : Takes(f, N, base, step)
  BY FiniteRecursion
<1>2. ASSUME NEW k \in 1 .. N
      PROVE  f[k - 1] \in V /\ f[k] = step[k][f[k - 1]]
  BY <1>1 DEF Takes
<1>3. ASSUME NEW g, g[0] = base,
             \A k \in 1 .. N : g[k - 1] \in V => g[k] = step[k][g[k - 1]]
      PROVE  \A k \in 0 .. N : g[k] = f[k]
  <2> DEFINE same == {k \in 0 .. N : g[k] = f[k]}
  <2>1. 0 \in same
    BY <1>1, <1>3 DEF Takes
  <2>2. ASSUME NEW k \in 1 .. N, k - 1 \in same
        PROVE  k \in same
    <3>1. g[k - 1] = f[k - 1] /\ k \in 0 .. N
      BY <2>2
    <3>2. g[k] = step[k][g[k - 1]]
      BY <1>2, <1>3, <3>1
    <3> QED BY <1>2, <3>1, <3>2
  <2> HIDE DEF same
  <2>3. \A k \in 0 .. N : k \in same
    BY <2>1, <2>2, BoundedInduction
  <2> QED BY <2>3 DEF same
<1> QED BY <1>1, <1>2, <1>3 DEF Takes, Unfolds
==============================================================================
