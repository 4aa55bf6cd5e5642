-------------------------- MODULE RecursionTheorems --------------------------
(***************************************************************************)
(* Induction on the natural numbers for the proofs of this project, about  *)
(* sets of numbers in place of predicates, and what it says of functions   *)
(* that are defined by recursion along a sequence.                         *)
(***************************************************************************)
EXTENDS Integers, Sequences, WellFoundedInduction, TLAPS

LEMMA LeastNumber ==
    ASSUME NEW T, T \subseteq Nat, T # {}
    PROVE  \E x \in T : \A y \in T : x <= y
<1> DEFINE R == OpToRel(<, Nat)
<1>1. IsWellFoundedOn(R, Nat)
    BY NatLessThanWellFounded
<1>2. \A x, y \in Nat : y < x => <<y, x>> \in R
    BY DEF OpToRel
<1> HIDE DEF R
<1>3. PICK x \in T : \A y \in T : ~(<<y, x>> \in R)
    BY <1>1, WFMin
<1>4. \A y \in T : ~(y < x) /\ x \in Nat /\ y \in Nat
    BY <1>2, <1>3
<1> QED BY <1>3, <1>4

LEMMA Induction ==
    ASSUME NEW S, 0 \in S, \A n \in Nat : n \in S => n + 1 \in S
    PROVE  Nat \subseteq S
<1> SUFFICES ASSUME Nat \ S # {} PROVE FALSE
    OBVIOUS
<1>1. PICK x \in Nat \ S : \A y \in Nat \ S : x <= y
    BY LeastNumber
<1>2. x # 0 /\ x - 1 \in Nat /\ x - 1 \in S
    BY <1>1
<1>3. x \in S
    BY <1>2
<1> QED BY <1>1, <1>3

(* Up to a bound. *)
LEMMA InductionUpTo ==
    ASSUME NEW n \in Nat, NEW S, 0 \in S, \A i \in 1..n : i - 1 \in S => i \in S
    PROVE  0..n \subseteq S
<1> DEFINE T == {k \in Nat : k <= n => k \in S}
<1>1. 0 \in T
    OBVIOUS
<1>2. ASSUME NEW k \in Nat, k \in T PROVE k + 1 \in T
    <2>1. CASE k + 1 <= n
        <3>1. k + 1 \in 1..n /\ (k + 1) - 1 = k /\ k \in S
            BY <1>2, <2>1
        <3> QED BY <3>1
    <2> QED BY <2>1
<1> HIDE DEF T
<1>3. Nat \subseteq T
    BY <1>1, <1>2, Induction
<1> QED BY <1>3 DEF T

LEMMA ValuesBelong ==
    ASSUME NEW n \in Nat, NEW S, NEW f, f[0] \in S, \A i \in 1..n : f[i - 1] \in S => f[i] \in S
    PROVE  \A i \in 0..n : f[i] \in S
<1> DEFINE T == {i \in 0..n : f[i] \in S}
<1>1. 0 \in T
    OBVIOUS
<1>2. ASSUME NEW i \in 1..n, i - 1 \in T PROVE i \in T
    BY <1>2
<1> HIDE DEF T
<1>3. 0..n \subseteq T
    BY <1>1, <1>2, InductionUpTo
<1> QED BY <1>3 DEF T

(* A function that is defined from its value one before exists.            *)
Recursion(f, n, base, next) == f[0] = base /\ \A i \in 1..n : f[i] = next[<<f[i - 1], i>>]

LEMMA RecursionExists ==
    ASSUME NEW n \in Nat, NEW S, NEW base \in S, NEW next \in [S \X (1..n) -> S]
    PROVE  \E f \in [0..n -> S] : Recursion(f, n, base, next)
<1> USE DEF Recursion
<1> DEFINE Good(f, k) == Recursion(f, k, base, next)
           T == {k \in 0..n : \E f \in [0..k -> S] : Good(f, k)}
<1>1. 0 \in T
    <2> DEFINE g == [i \in 0..0 |-> base]
    <2>1. g \in [0..0 -> S] /\ g[0] = base
        OBVIOUS
    <2>2. Good(g, 0)
        BY <2>1
    <2>3. \E f \in [0..0 -> S] : Good(f, 0)
        BY <2>1, <2>2
    <2> QED BY <2>3
<1>2. ASSUME NEW k \in 1..n, k - 1 \in T PROVE k \in T
    <2>1. PICK f \in [0..(k - 1) -> S] : Good(f, k - 1)
        BY <1>2
    <2> DEFINE g == [i \in 0..k |-> IF i = k THEN next[<<f[k - 1], k>>] ELSE f[i]]
    <2>2. k - 1 \in 0..(k - 1) /\ f[k - 1] \in S /\ <<f[k - 1], k>> \in S \X (1..n)
        OBVIOUS
    <2>3. next[<<f[k - 1], k>>] \in S
        BY <2>2
    <2>4. g \in [0..k -> S]
        BY <2>3
    <2>5. \A i \in 0..(k - 1) : g[i] = f[i]
        OBVIOUS
    <2>6. g[k] = next[<<f[k - 1], k>>]
        OBVIOUS
    <2> HIDE DEF g
    <2>7. ASSUME NEW i \in 1..k PROVE g[i] = next[<<g[i - 1], i>>]
        <3>1. CASE i = k
            BY <2>2, <2>5, <2>6, <3>1
        <3>2. CASE i # k
            <4>1. i \in 1..(k - 1) /\ i \in 0..(k - 1) /\ i - 1 \in 0..(k - 1)
                BY <3>2
            <4> QED BY <2>1, <2>5, <4>1
        <3> QED BY <3>1, <3>2
    <2>8. g[0] = base
        BY <2>1, <2>5
    <2> QED BY <2>4, <2>7, <2>8
<1>3. n \in T
    <2> HIDE DEF T
    <2> QED BY <1>1, <1>2, InductionUpTo
<1> QED BY <1>3
=============================================================================
