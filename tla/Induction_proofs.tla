--------------------------- MODULE Induction_proofs ---------------------------
(***************************************************************************)
(* Induction on the naturals, stated of sets instead of predicates: the    *)
(* least element of a set, and the function that iterates a step.  The     *)
(* proofs about recursive functions cite these.                            *)
(***************************************************************************)
EXTENDS Naturals, WellFoundedInduction, TLAPS

(* A set of naturals that is not empty has a least element. *)
LEMMA LeastOfSet ==
    ASSUME NEW T \in SUBSET Nat, T # {}
    PROVE  \E m \in T : \A k \in T : m <= k
<1> DEFINE R == OpToRel(<, Nat)
<1>1. IsWellFoundedOn(R, Nat)
  BY NatLessThanWellFounded
<1>2. \A x, y \in Nat : <<y, x>> \in R <=> y < x
  BY DEF OpToRel
<1> HIDE DEF R
<1>3. PICK m \in T : \A k \in T : ~ (<<k, m>> \in R)
  BY <1>1, WFMin
<1>4. \A k \in T : ~(k < m)
  BY <1>2, <1>3
<1> QED BY <1>4

(* A set that holds 0 and the successor of each of its naturals holds all. *)
LEMMA SetInduction ==
    ASSUME NEW S, 0 \in S, \A n \in Nat : n \in S => n + 1 \in S
    PROVE  Nat \subseteq S
<1> SUFFICES ASSUME Nat \ S # {} PROVE FALSE
  OBVIOUS
<1>1. PICK m \in Nat \ S : \A k \in Nat \ S : m <= k
  BY LeastOfSet
<1>2. m # 0 /\ m - 1 \in Nat /\ m = (m - 1) + 1 /\ ~(m <= m - 1)
  BY <1>1
<1>3. m - 1 \in S
  BY <1>1, <1>2
<1> QED BY <1>1, <1>2, <1>3

(* The first n + 1 values of what starts with a and goes on by h. *)
Prefixes(S, a, h, n) ==
    {g \in [0..n -> S] : g[0] = a /\ \A k \in 0..n : k < n => g[k + 1] = h[g[k]]}

(* Each natural ends a prefix of the iteration. *)
LEMMA PrefixExists ==
    ASSUME NEW S, NEW a \in S, NEW h \in [S -> S], NEW n \in Nat
    PROVE  Prefixes(S, a, h, n) # {}
<1> DEFINE T == {m \in Nat : Prefixes(S, a, h, m) # {}}
<1>1. 0 \in T
  <2>1. [k \in 0..0 |-> a] \in Prefixes(S, a, h, 0)
    BY DEF Prefixes
  <2> QED BY <2>1
<1>2. ASSUME NEW m \in Nat, m \in T PROVE m + 1 \in T
  <2>1. PICK g : g \in Prefixes(S, a, h, m)
    BY <1>2
  <2>2. /\ g \in [0..m -> S] /\ g[0] = a
        /\ \A k \in 0..m : k < m => g[k + 1] = h[g[k]]
    BY <2>1 DEF Prefixes
  <2> DEFINE j == [k \in 0..(m + 1) |-> IF k = m + 1 THEN h[g[m]] ELSE g[k]]
  <2>3. j \in [0..(m + 1) -> S]
    BY <2>2
  <2>4. j[0] = a
    BY <2>2
  <2>5. ASSUME NEW k \in 0..(m + 1), k < m + 1 PROVE j[k + 1] = h[j[k]]
    <3>1. CASE k = m
      BY <3>1
    <3>2. CASE k < m
      BY <2>2, <3>2
    <3> QED BY <2>5, <3>1, <3>2
  <2>6. j \in Prefixes(S, a, h, m + 1)
    BY <2>3, <2>4, <2>5 DEF Prefixes
  <2> QED BY <2>6
<1> HIDE DEF T
<1>3. n \in T
  BY <1>1, <1>2, SetInduction
<1> QED BY <1>3 DEF T

(* A longer prefix goes on where the shorter ends. *)
LEMMA PrefixesAgree ==
    ASSUME NEW S, NEW a \in S, NEW h \in [S -> S], NEW n \in Nat,
           NEW g \in Prefixes(S, a, h, n), NEW j \in Prefixes(S, a, h, n + 1)
    PROVE  g[n] = j[n]
<1> DEFINE T == {k \in Nat : k <= n => g[k] = j[k]}
<1>1. 0 \in T
  BY DEF Prefixes
<1>2. ASSUME NEW k \in Nat, k \in T PROVE k + 1 \in T
  BY <1>2 DEF Prefixes
<1> HIDE DEF T
<1>3. n \in T
  BY <1>1, <1>2, SetInduction
<1> QED BY <1>3 DEF T

(* What starts with a and goes on by h is a function on the naturals. *)
LEMMA IterationExists ==
    ASSUME NEW S, NEW a \in S, NEW h \in [S -> S]
    PROVE  \E f : /\ f \in [Nat -> S]
                  /\ f = [n \in Nat |-> IF n = 0 THEN a ELSE h[f[n - 1]]]
<1> DEFINE G(n) == CHOOSE g : g \in Prefixes(S, a, h, n)
           f == [n \in Nat |-> G(n)[n]]
<1>1. \A n \in Nat : G(n) \in Prefixes(S, a, h, n)
  BY PrefixExists
<1> HIDE DEF G
<1>2. f \in [Nat -> S] /\ f[0] = a
  BY <1>1 DEF Prefixes
<1>3. ASSUME NEW n \in Nat, n # 0 PROVE f[n] = h[f[n - 1]]
  <2>1. n - 1 \in Nat /\ n = (n - 1) + 1 /\ n - 1 \in 0..n /\ n - 1 < n
    BY <1>3
  <2>2. G(n - 1)[n - 1] = G(n)[n - 1]
    BY <1>1, <2>1, PrefixesAgree
  <2>3. G(n)[n] = h[G(n)[n - 1]]
    BY <1>1, <2>1 DEF Prefixes
  <2> QED BY <2>1, <2>2, <2>3
<1>4. f = [n \in Nat |-> IF n = 0 THEN a ELSE h[f[n - 1]]]
  BY <1>2, <1>3
<1> HIDE DEF f
<1> QED BY <1>2, <1>4
===============================================================================
