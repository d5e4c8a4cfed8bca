------------------------------ MODULE Recursion ------------------------------
(***************************************************************************)
(* Induction on numbers and definition by recursion, for sets and          *)
(* functions: the provers cannot instantiate theorems that take an         *)
(* operator.                                                               *)
(***************************************************************************)
EXTENDS Integers, WellFoundedInduction, TLAPS

LEMMA LessThanPairs == \A y, m \in Nat : y < m => <<y, m>> \in OpToRel(<, Nat)
BY DEF OpToRel

(* A set of numbers that is not empty has a least one.                     *)
LEMMA Least ==
  ASSUME NEW Z \in SUBSET Nat, Z # {}
  PROVE  \E m \in Z : \A y \in Z : m <= y
<1>1. PICK m \in Z : \A y \in Z : ~ (<<y, m>> \in OpToRel(<, Nat))
  BY NatLessThanWellFounded, WFMin
<1>2. ASSUME NEW y \in Z PROVE m <= y
  <2>1. m \in Nat /\ y \in Nat /\ ~(y < m)
    BY <1>1, LessThanPairs
  <2> QED
    BY <2>1
<1> QED
  BY <1>2

(* What holds of 0 and goes from n to n + 1 holds up to N.                 *)
LEMMA InductionTo ==
  ASSUME NEW N \in Nat, NEW S, 0 \in S, \A n \in 0..(N - 1) : n \in S => n + 1 \in S
  PROVE  \A n \in 0..N : n \in S
<1> DEFINE Z == {n \in 0..N : n \notin S}
<1>1. ASSUME Z # {} PROVE FALSE
  <2>1. Z \in SUBSET Nat
    OBVIOUS
  <2> HIDE DEF Z
  <2>2. PICK m \in Z : \A y \in Z : m <= y
    BY <1>1, <2>1, Least
  <2>3. m \in 0..N /\ m \notin S
    BY <2>2 DEF Z
  <2>4. m - 1 \in 0..(N - 1) /\ ~(m <= m - 1) /\ m - 1 \in 0..N /\ (m - 1) + 1 = m
    BY <2>3
  <2>5. m - 1 \notin Z
    BY <2>2, <2>4
  <2> QED
    BY <2>3, <2>4, <2>5 DEF Z
<1> QED
  BY <1>1

(* What holds of a number if it holds of all that are less holds of every  *)
(* number.                                                                 *)
LEMMA StrongInduction ==
  ASSUME NEW S, \A n \in Nat : (\A m \in 0..(n - 1) : m \in S) => n \in S
  PROVE  \A n \in Nat : n \in S
<1> DEFINE Z == {n \in Nat : n \notin S}
<1>1. ASSUME Z # {} PROVE FALSE
  <2>1. Z \in SUBSET Nat
    OBVIOUS
  <2> HIDE DEF Z
  <2>2. PICK m \in Z : \A y \in Z : m <= y
    BY <1>1, <2>1, Least
  <2>3. m \in Nat /\ m \notin S
    BY <2>2 DEF Z
  <2>4. ASSUME NEW k \in 0..(m - 1) PROVE k \in S
    <3>1. k \in Nat /\ ~(m <= k)
      BY <2>3
    <3>2. k \notin Z
      BY <2>2, <3>1
    <3> QED
      BY <3>1, <3>2 DEF Z
  <2> QED
    BY <2>3, <2>4
<1> QED
  BY <1>1

(* A function on D is defined by its values on B and, elsewhere, by its    *)
(* value at a place G[d] that is less deep.                                *)
Recursive(f, D, B, v, G, F) ==
  \A d \in D : f[d] = IF d \in B THEN v[d] ELSE F[d][f[G[d]]]

LEMMA RecursionExists ==
  ASSUME NEW D, NEW S, NEW B \in SUBSET D, NEW v \in [B -> S], NEW G \in [D \ B -> D],
         NEW F \in [D \ B -> [S -> S]], NEW N \in Nat, NEW depth \in [D -> 0..N],
         \A d \in D \ B : depth[G[d]] < depth[d]
  PROVE  \E f \in [D -> S] : Recursive(f, D, B, v, G, F)
<1> DEFINE T(n) == {d \in D : depth[d] < n}
           Z == {n \in Nat : \E f \in [T(n) -> S] : Recursive(f, T(n), B, v, G, F)}
<1>1. 0 \in Z
  <2>1. T(0) = {}
    OBVIOUS
  <2>2. [d \in {} |-> v[d]] \in [T(0) -> S] /\ Recursive([d \in {} |-> v[d]], T(0), B, v, G, F)
    BY <2>1 DEF Recursive
  <2> HIDE DEF T
  <2> QED
    BY <2>2
<1>2. ASSUME NEW n \in Nat, n \in Z PROVE n + 1 \in Z
  <2>1. PICK f \in [T(n) -> S] : Recursive(f, T(n), B, v, G, F)
    BY <1>2
  <2> DEFINE g == [d \in T(n + 1) |-> IF d \in T(n) THEN f[d]
                                     ELSE IF d \in B THEN v[d] ELSE F[d][f[G[d]]]]
  <2>2. T(n) \subseteq T(n + 1) /\ T(n + 1) \subseteq D
    OBVIOUS
  <2>3. ASSUME NEW d \in T(n + 1), d \notin B PROVE G[d] \in T(n)
    BY <2>3
  <2> HIDE DEF T
  <2>4. g \in [T(n + 1) -> S]
    BY <2>1, <2>2, <2>3
  <2>5. ASSUME NEW d \in T(n + 1) PROVE g[d] = IF d \in B THEN v[d] ELSE F[d][g[G[d]]]
    <3>1. CASE d \in T(n)
      BY <2>1, <2>2, <2>3, <3>1 DEF Recursive
    <3>2. CASE d \notin T(n)
      BY <2>2, <2>3, <3>2
    <3> QED
      BY <3>1, <3>2
  <2>6. Recursive(g, T(n + 1), B, v, G, F)
    BY <2>5 DEF Recursive
  <2> HIDE DEF g
  <2> QED
    BY <2>4, <2>6
<1>3. N + 1 \in Nat /\ T(N + 1) = D
  OBVIOUS
<1> HIDE DEF Z
<1>4. N + 1 \in Z
  <2>1. \A n \in 0..((N + 1) - 1) : n \in Z => n + 1 \in Z
    BY <1>2
  <2>2. \A n \in 0..(N + 1) : n \in Z
    BY <1>1, <1>3, <2>1, InductionTo
  <2> QED
    BY <2>2
<1> QED
  BY <1>3, <1>4 DEF Z
=============================================================================
