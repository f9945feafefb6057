----------------------------- MODULE Recursion -----------------------------
(***************************************************************************)
(* Induction over the naturals, and that a function defined by recursion   *)
(* over an initial segment of them exists.  The induction is stated for a  *)
(* set, not for a predicate, so that the provers can instantiate it.       *)
(***************************************************************************)
EXTENDS Integers, WellFoundedInduction, TLAPS

\* The order of the naturals as a set of pairs.
Below == {p \in Nat \X Nat : p[1] < p[2]}

\* A set that holds 0 and with every number its successor holds them all.
LEMMA SetInduction ==
  ASSUME NEW S, 0 \in S, \A n \in Nat : n \in S => n + 1 \in S
  PROVE  Nat \subseteq S
<1> DEFINE T == Nat \ S
<1>1. SUFFICES ASSUME T # {} PROVE FALSE
  OBVIOUS
<1>2. PICK n \in T : \A m \in T : ~ (<<m, n>> \in Below)
  <2>1. T \subseteq Nat
    OBVIOUS
  <2>2. IsWellFoundedOn(Below, Nat)
    BY NatLessThanWellFounded DEF OpToRel, Below
  <2> HIDE DEF T
  <2> QED BY <1>1, <2>1, <2>2, WFMin
<1>3. \A m \in T : ~(m < n)
  BY <1>2 DEF Below
<1>4. n # 0 /\ n - 1 \in Nat /\ n - 1 \notin T
  BY <1>3
<1> QED BY <1>4

\* f starts at b and takes step i with the function D[i], n times.
Follows(f, n, V, b, D) ==
    /\ f \in [0..n -> V]
    /\ f[0] = b
    /\ \A i \in 1..n : f[i] = D[i][f[i - 1]]

\* Such an f exists, whatever the steps are.
LEMMA RecursionExists ==
  ASSUME NEW V, NEW b \in V, NEW N \in Nat, NEW D \in [1..N -> [V -> V]]
  PROVE  \E f : Follows(f, N, V, b, D)
<1> DEFINE S == {n \in Nat : n <= N => \E f : Follows(f, n, V, b, D)}
<1>1. 0 \in S
  <2> DEFINE g == [i \in 0..0 |-> b]
  <2>1. Follows(g, 0, V, b, D)
    BY DEF Follows
  <2> QED BY <2>1
<1>2. ASSUME NEW n \in Nat, n \in S
      PROVE  n + 1 \in S
  <2> SUFFICES ASSUME n + 1 <= N
               PROVE  \E f : Follows(f, n + 1, V, b, D)
    OBVIOUS
  <2>1. PICK f : Follows(f, n, V, b, D)
    BY <1>2
  <2> DEFINE g == [i \in 0..(n + 1) |-> IF i = n + 1 THEN D[n + 1][f[n]]
                                                     ELSE f[i]]
  <2>2. /\ D[n + 1] \in [V -> V] /\ f[n] \in V
        /\ f \in [0..n -> V] /\ f[0] = b
        /\ \A i \in 1..n : f[i] = D[i][f[i - 1]]
    BY <2>1 DEF Follows
  <2>3. g \in [0..(n + 1) -> V]
    BY <2>2
  <2>4. \A i \in 1..(n + 1) : g[i] = D[i][g[i - 1]]
    BY <2>2
  <2>5. g[0] = b
    BY <2>2
  <2>6. Follows(g, n + 1, V, b, D)
    BY <2>3, <2>4, <2>5 DEF Follows
  <2> QED BY <2>6
<1> HIDE DEF S
<1>3. N \in S
  BY <1>1, <1>2, SetInduction
<1> QED BY <1>3 DEF S

\* Two such functions agree as far as their steps do.
LEMMA FollowsUnique ==
  ASSUME NEW V, NEW b, NEW N \in Nat, NEW M \in Nat, N <= M,
         NEW D, NEW E, \A i \in 1..N : D[i] = E[i],
         NEW f, NEW g, Follows(f, N, V, b, D), Follows(g, M, V, b, E)
  PROVE  \A i \in 0..N : f[i] = g[i]
<1> DEFINE S == {n \in Nat : n <= N => f[n] = g[n]}
<1>1. /\ f[0] = b /\ \A i \in 1..N : f[i] = D[i][f[i - 1]]
      /\ g[0] = b /\ \A i \in 1..N : g[i] = E[i][g[i - 1]]
  BY DEF Follows
<1>2. 0 \in S
  BY <1>1
<1>3. ASSUME NEW n \in Nat, n \in S
      PROVE  n + 1 \in S
  <2> SUFFICES ASSUME n + 1 <= N
               PROVE  f[n + 1] = g[n + 1]
    OBVIOUS
  <2>1. n + 1 \in 1..N /\ (n + 1) - 1 = n /\ n <= N
    OBVIOUS
  <2>2. f[n] = g[n]
    BY <1>3, <2>1
  <2> QED BY <1>1, <2>1, <2>2
<1>4. Nat \subseteq S
  <2> HIDE DEF S
  <2> QED BY <1>2, <1>3, SetInduction
<1> QED BY <1>4

\* f starts at b and takes every one of n steps with the function D.
Repeats(f, n, V, b, D) ==
    /\ f \in [0..n -> V]
    /\ f[0] = b
    /\ \A i \in 1..n : f[i] = D[f[i - 1]]

\* Such an f exists too.
LEMMA RepeatsExists ==
  ASSUME NEW V, NEW b \in V, NEW N \in Nat, NEW D \in [V -> V]
  PROVE  \E f : Repeats(f, N, V, b, D)
<1> DEFINE E == [i \in 1..N |-> D]
<1>1. E \in [1..N -> [V -> V]] /\ \A i \in 1..N : E[i] = D
  OBVIOUS
<1> HIDE DEF E
<1>2. PICK f : Follows(f, N, V, b, E)
  BY <1>1, RecursionExists, Zenon
<1> QED BY <1>1, <1>2, Zenon DEF Follows, Repeats

\* What holds of the first value and is kept by every step holds of every value.
LEMMA StaysIn ==
  ASSUME NEW V, NEW N \in Nat, NEW f, f[0] \in V,
         \A i \in 1..N : f[i - 1] \in V => f[i] \in V
  PROVE  \A i \in 0..N : f[i] \in V
<1> DEFINE S == {n \in Nat : n <= N => f[n] \in V}
<1>1. 0 \in S
  OBVIOUS
<1>2. ASSUME NEW n \in Nat, n \in S
      PROVE  n + 1 \in S
  <2> SUFFICES ASSUME n + 1 <= N
               PROVE  f[n + 1] \in V
    OBVIOUS
  <2>1. n + 1 \in 1..N /\ (n + 1) - 1 = n /\ n <= N
    OBVIOUS
  <2> QED BY <1>2, <2>1
<1>3. Nat \subseteq S
  <2> HIDE DEF S
  <2> QED BY <1>1, <1>2, SetInduction
<1> QED BY <1>3
=============================================================================
