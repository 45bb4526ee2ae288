------------------------------ MODULE Induction ------------------------------
(***************************************************************************)
(* Induction on the natural numbers in a first-order form: over a set of   *)
(* numbers instead of a predicate.  The provers can use a fact about every *)
(* set, where a fact about every operator is beyond them.  The proofs rest *)
(* on the well-foundedness of < alone.                                     *)
(***************************************************************************)
EXTENDS Integers, TLAPS, WellFoundedInduction

(* A set of natural numbers that is not empty has a least element.         *)
LEMMA LeastNumber ==
  ASSUME NEW S \in SUBSET Nat, S # {}
  PROVE  \E x \in S : \A y \in S : x <= y
<1> DEFINE Less == {ss \in Nat \X Nat : ss[1] < ss[2]}
<1>1. IsWellFoundedOn(Less, Nat)
  BY NatLessThanWellFounded, Zenon DEF OpToRel
<1>2. PICK x \in S : \A y \in S : ~ (<<y, x>> \in Less)
  <2> HIDE DEF Less
  <2> QED BY <1>1, WFMin, Zenon
<1>3. \A y \in S : ~(y < x)
  BY <1>2
<1> QED BY <1>3

(* What holds of 0 and of each successor holds of every number.            *)
LEMMA NumberInduction ==
  ASSUME NEW S \in SUBSET Nat, 0 \in S, \A n \in S : n + 1 \in S
  PROVE  S = Nat
<1> SUFFICES ASSUME Nat \ S # {} PROVE FALSE
  OBVIOUS
<1>1. PICK x \in Nat \ S : \A y \in Nat \ S : x <= y
  BY LeastNumber
<1>2. x - 1 \in Nat
  BY <1>1
<1>3. x - 1 \in S
  BY <1>1, <1>2
<1> QED BY <1>1, <1>2, <1>3

(* The same up to a bound.                                                 *)
LEMMA BoundedInduction ==
  ASSUME NEW m \in Nat, NEW S, 0 \in S, \A n \in 0..m - 1 : n \in S => n + 1 \in S
  PROVE  0..m \subseteq S
<1> DEFINE T == {n \in Nat : n <= m => n \in S}
<1>1. T = Nat
  <2>1. 0 \in T /\ T \in SUBSET Nat
    OBVIOUS
  <2>2. \A n \in T : n + 1 \in T
    OBVIOUS
  <2> HIDE DEF T
  <2> QED BY <2>1, <2>2, NumberInduction
<1> QED BY <1>1

(* A function defined by a step from each number to the next exists, and   *)
(* stays in the set the steps stay in.                                     *)
StaysIn(V, m, base, step) == base \in V /\ step \in [1..m -> [V -> V]]
Follows(f, V, m, base, step) ==
  f \in [0..m -> V] /\ f[0] = base /\ \A i \in 1..m : f[i] = step[i][f[i - 1]]

LEMMA RecursionExists ==
  ASSUME NEW m \in Nat, NEW V, NEW base, NEW step, StaysIn(V, m, base, step)
  PROVE  \E f : Follows(f, V, m, base, step)
<1> USE DEF StaysIn, Follows
<1> DEFINE Upto(n) == \E f \in [0..n -> V] :
             f[0] = base /\ \A i \in 1..n : f[i] = step[i][f[i - 1]]
           S == {n \in 0..m : Upto(n)}
<1>1. 0 \in S
  <2> DEFINE f == [i \in 0..0 |-> base]
  <2>1. f \in [0..0 -> V] /\ f[0] = base /\ \A i \in 1..0 : f[i] = step[i][f[i - 1]]
    OBVIOUS
  <2>2. Upto(0)
    <3> HIDE DEF f
    <3> QED BY <2>1
  <2> QED BY <2>2
<1>2. ASSUME NEW n \in 0..m - 1, n \in S PROVE n + 1 \in S
  <2>1. PICK f \in [0..n -> V] : f[0] = base /\ \A i \in 1..n : f[i] = step[i][f[i - 1]]
    BY <1>2
  <2> DEFINE g == [i \in 0..n + 1 |-> IF i = n + 1 THEN step[n + 1][f[n]] ELSE f[i]]
  <2>2. n \in Nat /\ n + 1 \in 1..m /\ f[n] \in V
    OBVIOUS
  <2>3. step[n + 1][f[n]] \in V
    BY <2>2
  <2>4. g \in [0..n + 1 -> V]
    BY <2>2, <2>3
  <2>5. g[0] = base
    BY <2>1, <2>2
  <2>6. \A i \in 1..n + 1 : g[i] = step[i][g[i - 1]]
    <3> TAKE i \in 1..n + 1
    <3>1. CASE i = n + 1
      BY <2>2, <3>1
    <3>2. CASE i # n + 1
      BY <2>1, <2>2, <3>2
    <3> QED BY <3>1, <3>2
  <2>7. Upto(n + 1)
    <3> HIDE DEF g
    <3> QED BY <2>4, <2>5, <2>6
  <2> QED BY <2>2, <2>7
<1>3. m \in S
  <2> HIDE DEF S
  <2>1. 0..m \subseteq S
    BY <1>1, <1>2, BoundedInduction
  <2> QED BY <2>1
<1> QED BY <1>3
-----------------------------------------------------------------------------
(* Recursion along a jump: from x in go the value is that of next[x], which *)
(* is nearer to an end by the measure mu; elsewhere it is out[x].          *)
Jumps(D, go, next, mu, m) ==
  /\ go \in SUBSET D
  /\ next \in [D -> D]
  /\ mu \in [D -> 0..m]
  /\ \A x \in go : mu[next[x]] < mu[x]
Lands(f, D, V, go, next, out) ==
  f \in [D -> V] /\ \A x \in D : f[x] = IF x \in go THEN f[next[x]] ELSE out[x]

LEMMA JumpExists ==
  ASSUME NEW m \in Nat, NEW D, NEW V, NEW go, NEW next, NEW mu, NEW out \in [D -> V],
         Jumps(D, go, next, mu, m)
  PROVE  \E f : Lands(f, D, V, go, next, out)
<1> USE DEF Jumps
<1> DEFINE Value(f, x) == IF x \in go THEN f[next[x]] ELSE out[x]
           Upto(n) == \E f \in [D -> V] : \A x \in D : mu[x] <= n => f[x] = Value(f, x)
           S == {n \in Nat : Upto(n)}
<1>1. 0 \in S
  <2>1. \A x \in D : mu[x] <= 0 => x \notin go
    <3> SUFFICES ASSUME NEW x \in go, mu[x] <= 0 PROVE FALSE
      OBVIOUS
    <3>1. mu[x] \in 0..m /\ mu[next[x]] \in 0..m /\ mu[next[x]] < mu[x]
      OBVIOUS
    <3> QED BY <3>1
  <2>2. Upto(0)
    BY <2>1
  <2> QED BY <2>2
<1>2. ASSUME NEW n \in S PROVE n + 1 \in S
  <2>1. PICK f \in [D -> V] : \A x \in D : mu[x] <= n => f[x] = Value(f, x)
    BY <1>2
  <2> DEFINE g == [x \in D |-> Value(f, x)]
  <2>2. g \in [D -> V]
    <3>1. \A x \in D : Value(f, x) \in V
      BY DEF Jumps
    <3> QED BY <3>1
  <2>3. ASSUME NEW x \in D, mu[x] <= n + 1 PROVE g[x] = Value(g, x)
    <3>1. CASE x \in go
      <4>1. next[x] \in D /\ mu[next[x]] \in 0..m /\ mu[x] \in 0..m /\ mu[next[x]] < mu[x]
        BY <3>1
      <4>2. mu[next[x]] <= n
        BY <1>2, <2>3, <4>1
      <4>3. f[next[x]] = g[next[x]]
        BY <2>1, <4>1, <4>2
      <4> QED BY <3>1, <4>3
    <3>2. CASE x \notin go
      BY <3>2
    <3> QED BY <3>1, <3>2
  <2> HIDE DEF g, Value
  <2>4. Upto(n + 1)
    BY <2>2, <2>3
  <2> QED BY <1>2, <2>4
<1>3. S = Nat
  <2>1. S \in SUBSET Nat
    OBVIOUS
  <2> HIDE DEF S
  <2> QED BY <1>1, <1>2, <2>1, NumberInduction
<1>4. Upto(m)
  BY <1>3
<1>5. PICK f \in [D -> V] : \A x \in D : mu[x] <= m => f[x] = Value(f, x)
  BY <1>4
<1>6. \A x \in D : mu[x] <= m
  <2> SUFFICES ASSUME NEW x \in D PROVE mu[x] <= m
    OBVIOUS
  <2>1. mu[x] \in 0..m
    OBVIOUS
  <2> QED BY <2>1
<1> QED BY <1>5, <1>6 DEF Lands

(* What holds where the jumps end, and is kept against their direction,    *)
(* holds everywhere.                                                       *)
LEMMA JumpInduction ==
  ASSUME NEW m \in Nat, NEW D, NEW go, NEW next, NEW mu, Jumps(D, go, next, mu, m),
         NEW Good, \A x \in D \ go : x \in Good,
         \A x \in go : next[x] \in Good => x \in Good
  PROVE  D \subseteq Good
<1> USE DEF Jumps
<1> DEFINE S == {n \in Nat : \A x \in D : mu[x] <= n => x \in Good}
<1>1. ASSUME NEW x \in D, NEW n \in Nat, mu[x] <= n,
             \A y \in D : mu[y] < n => y \in Good
      PROVE  x \in Good
  <2>1. CASE x \in go
    <3>1. next[x] \in D /\ mu[next[x]] \in 0..m /\ mu[x] \in 0..m /\ mu[next[x]] < mu[x]
      BY <2>1
    <3>2. mu[next[x]] < n
      BY <1>1, <3>1
    <3> QED BY <1>1, <2>1, <3>1, <3>2
  <2>2. CASE x \notin go
    BY <2>2
  <2> QED BY <2>1, <2>2
<1>2. 0 \in S
  <2> SUFFICES ASSUME NEW x \in D, mu[x] <= 0 PROVE x \in Good
    OBVIOUS
  <2>1. \A y \in D : ~(mu[y] < 0)
    <3> SUFFICES ASSUME NEW y \in D PROVE ~(mu[y] < 0)
      OBVIOUS
    <3>1. mu[y] \in 0..m
      OBVIOUS
    <3> QED BY <3>1
  <2> QED BY <1>1, <2>1
<1>3. ASSUME NEW n \in S PROVE n + 1 \in S
  <2>1. n \in Nat /\ \A y \in D : mu[y] <= n => y \in Good
    BY <1>3
  <2>2. \A y \in D : mu[y] < n + 1 => y \in Good
    <3> SUFFICES ASSUME NEW y \in D, mu[y] < n + 1 PROVE y \in Good
      OBVIOUS
    <3>1. mu[y] \in 0..m
      OBVIOUS
    <3>2. mu[y] <= n
      BY <2>1, <3>1
    <3> QED BY <2>1, <3>2
  <2> QED BY <1>1, <2>1, <2>2
<1>4. S = Nat
  <2>1. S \in SUBSET Nat
    OBVIOUS
  <2> HIDE DEF S
  <2> QED BY <1>2, <1>3, <2>1, NumberInduction
<1>5. ASSUME NEW x \in D PROVE x \in Good
  <2>1. mu[x] \in 0..m
    OBVIOUS
  <2>2. mu[x] \in S
    BY <1>4, <2>1
  <2>3. mu[x] <= mu[x]
    BY <2>1
  <2> QED BY <2>2, <2>3
<1> QED BY <1>5
=============================================================================
