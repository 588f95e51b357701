----------------------------- MODULE FoldLemmas -----------------------------
(***************************************************************************)
(* Lemmas about the folds of the community modules.                        *)
(*                                                                         *)
(* A fold is CHOOSE of a recursive function, and the library's induction   *)
(* theorems take an operator. Here the function is a bound variable and    *)
(* induction is over a set of numbers (AllNumbers), so that what a fold    *)
(* gives can be proved: that the function exists (FoldExists), and that a  *)
(* fold that adds gives the sums of a sequence (SumIs) or of a set         *)
(* (Additive).                                                             *)
(***************************************************************************)
EXTENDS Integers, FiniteSets, SequencesExt, FiniteSetTheorems, SequenceTheorems,
        WellFoundedInduction, TLAPS

Less == {p \in Nat \X Nat : p[1] < p[2]}

\* A set of numbers that is not empty has a least one.
LEMMA LeastOf ==
    ASSUME NEW T, T \subseteq Nat, T # {}
    PROVE  \E m \in T : \A k \in T : m <= k
<1>1. IsWellFoundedOn(Less, Nat)
  BY NatLessThanWellFounded DEF OpToRel, Less
<1>2. PICK x \in T : \A y \in T : <<y, x>> \notin Less
  BY <1>1, WFMin
<1>3. \A y \in T : ~(y < x)
  BY <1>2 DEF Less
<1>4. \A y \in T : x <= y
  BY <1>3
<1>5. QED
  BY <1>4

\* Induction, for a set of numbers instead of a predicate.
LEMMA AllNumbers ==
    ASSUME NEW S, 0 \in S, \A k \in Nat : k \in S => k + 1 \in S
    PROVE  Nat \subseteq S
<1>1. SUFFICES ASSUME Nat \ S # {} PROVE FALSE
  OBVIOUS
<1>2. PICK m \in Nat \ S : \A k \in Nat \ S : m <= k
  BY <1>1, LeastOf
<1>3. m # 0 /\ m - 1 \in Nat
  BY <1>2
<1>4. m - 1 \in S
  BY <1>2, <1>3
<1>5. (m - 1) + 1 \in S
  BY <1>3, <1>4
<1>6. QED
  BY <1>2, <1>5

LEMMA GreatestIs ==
    ASSUME NEW n \in Nat, NEW t \in SUBSET (1..n), t # {}
    PROVE  Max(t) \in t /\ \A j \in t : j <= Max(t)
<1> DEFINE from == {n - j : j \in t}
<1>1. from \subseteq Nat /\ from # {}
  <2>1. \A j \in t : j \in 1..n
    OBVIOUS
  <2>2. \A j \in 1..n : n - j \in Nat
    OBVIOUS
  <2>3. QED
    BY <2>1, <2>2
<1>2. PICK d \in from : \A k \in from : d <= k
  BY <1>1, LeastOf
<1>3. PICK m \in t : d = n - m
  BY <1>2
<1>4. ASSUME NEW j \in t PROVE m >= j
  <2>1. n - m <= n - j
    BY <1>2, <1>3
  <2>2. m \in 1..n /\ j \in 1..n
    OBVIOUS
  <2>3. QED
    BY <2>1, <2>2
<1>5. \A j \in t : m >= j
  BY <1>4
<1>6. QED
  BY <1>5 DEF Max

LEMMA GreatestOfPrefix ==
    ASSUME NEW n \in Nat, n # 0
    PROVE  Max(1..n) = n /\ (1..n) \ {n} = 1..(n - 1)
<1>1. 1..n # {} /\ n \in 1..n
  OBVIOUS
<1>2. Max(1..n) \in 1..n /\ n <= Max(1..n)
  BY <1>1, GreatestIs
<1>3. QED
  BY <1>2

\* g computes the fold of F from the left over any part of the first n elements of s.
FoldsParts(g, F, b, s, n) ==
    \A t \in SUBSET (1..n) : g[t] = IF t = {} THEN b ELSE F[<<g[t \ {Max(t)}], s[Max(t)]>>]

\* What a fold from the left computes over a sequence: there is a function that does.
LEMMA FoldExists ==
    ASSUME NEW W, NEW E, NEW F \in [W \X E -> W], NEW n \in Nat, NEW s \in [1..n -> E],
           NEW b \in W
    PROVE  \E g \in [SUBSET (1..n) -> W] : FoldsParts(g, F, b, s, n)
<1> DEFINE Folds(g, m) == /\ g \in [SUBSET (1..m) -> W]
                          /\ \A t \in SUBSET (1..m) :
                               g[t] = IF t = {} THEN b ELSE F[<<g[t \ {Max(t)}], s[Max(t)]>>]
           Done(m) == \E g : Folds(g, m)
           S == {m \in Nat : m <= n => Done(m)}
<1>1. Done(0)
  <2>1. SUBSET (1..0) = {{}}
    OBVIOUS
  <2>2. Folds([t \in SUBSET (1..0) |-> b], 0)
    BY <2>1
  <2>3. QED
    BY <2>2
<1>2. ASSUME NEW m \in Nat, m + 1 <= n, Done(m) PROVE Done(m + 1)
  <2>2. PICK g : Folds(g, m)
    BY <1>2
  <2> DEFINE h == [t \in SUBSET (1..(m + 1)) |->
                     IF m + 1 \in t THEN F[<<g[t \ {m + 1}], s[m + 1]>>] ELSE g[t]]
  <2>3. \A t \in SUBSET (1..(m + 1)) : t \ {m + 1} \in SUBSET (1..m)
    <3>1. \A j \in 1..(m + 1) : j # m + 1 => j \in 1..m
      OBVIOUS
    <3>2. QED
      BY <3>1
  <2>3a. /\ DOMAIN h = SUBSET (1..(m + 1))
         /\ \A t \in SUBSET (1..(m + 1)) :
              h[t] = IF m + 1 \in t THEN F[<<g[t \ {m + 1}], s[m + 1]>>] ELSE g[t]
         /\ h = [t \in SUBSET (1..(m + 1)) |-> h[t]]
    OBVIOUS
  <2> HIDE DEF h
  <2>4. \A t \in SUBSET (1..(m + 1)) : g[t \ {m + 1}] \in W
    BY <2>2, <2>3
  <2>5. s[m + 1] \in E
    BY <1>2
  <2>6. \A t \in SUBSET (1..(m + 1)) : h[t] \in W
    <3>1. SUFFICES ASSUME NEW t \in SUBSET (1..(m + 1)) PROVE h[t] \in W
      OBVIOUS
    <3>2. CASE m + 1 \in t
      <4>1. <<g[t \ {m + 1}], s[m + 1]>> \in W \X E
        BY <2>4, <2>5
      <4>2. QED
        BY <2>3a, <3>2, <4>1
    <3>3. CASE m + 1 \notin t
      <4>1. t \ {m + 1} = t
        BY <3>3
      <4>2. QED
        BY <2>4, <2>3a, <3>3, <4>1
    <3>4. QED
      BY <3>2, <3>3
  <2>7. ASSUME NEW t \in SUBSET (1..(m + 1))
        PROVE  h[t] = IF t = {} THEN b ELSE F[<<h[t \ {Max(t)}], s[Max(t)]>>]
    <3>1. CASE m + 1 \in t
      <4>1. Max(t) \in t /\ m + 1 <= Max(t)
        <5>1. m + 1 \in Nat /\ t # {}
          BY <3>1
        <5>2. QED
          BY <3>1, <5>1, GreatestIs
      <4>2. Max(t) = m + 1
        <5>1. Max(t) \in 1..(m + 1)
          BY <4>1
        <5>2. QED
          BY <4>1, <5>1
      <4>3. h[t \ {m + 1}] = g[t \ {m + 1}]
        <5>1. t \ {m + 1} \in SUBSET (1..(m + 1)) /\ m + 1 \notin t \ {m + 1}
          OBVIOUS
        <5>2. QED
          BY <2>3a, <5>1
      <4>4. QED
        BY <2>3a, <3>1, <4>2, <4>3
    <3>2. CASE m + 1 \notin t /\ t # {}
      <4>1. t \in SUBSET (1..m)
        <5>1. t \ {m + 1} = t
          BY <3>2
        <5>2. QED
          BY <2>3, <5>1
      <4>2. Max(t) \in t
        BY <3>2, <4>1, GreatestIs
      <4>3. h[t] = g[t] /\ h[t \ {Max(t)}] = g[t \ {Max(t)}]
        <5>1. t \ {Max(t)} \in SUBSET (1..(m + 1)) /\ m + 1 \notin t \ {Max(t)}
          BY <3>2
        <5>2. QED
          BY <2>3a, <3>2, <5>1
      <4>4. g[t] = F[<<g[t \ {Max(t)}], s[Max(t)]>>]
        BY <2>2, <3>2, <4>1
      <4>5. QED
        BY <3>2, <4>3, <4>4
    <3>3. CASE t = {}
      <4>1. h[t] = g[t] /\ t \in SUBSET (1..m)
        BY <2>3a, <3>3
      <4>2. QED
        BY <2>2, <3>3, <4>1
    <3>4. QED
      BY <3>1, <3>2, <3>3
  <2>8. Folds(h, m + 1)
    BY <2>6, <2>7, <2>3a
  <2>9. QED
    BY <2>8
<1>3. Done(n)
  <2> HIDE DEF Done
  <2>1. \A m \in Nat : m \in S => m + 1 \in S
    BY <1>2
  <2>2. 0 \in S
    BY <1>1
  <2> HIDE DEF S
  <2>3. n \in S
    BY <2>1, <2>2, AllNumbers
  <2>4. QED
    BY <2>3 DEF S
<1>4. QED
  BY <1>3 DEF FoldsParts

-----------------------------------------------------------------------------
(* Sums                                                                    *)

\* The sums of the first numbers of v.
SumsOf(p, v, n) ==
    /\ p \in [0..n -> Nat] /\ p[0] = 0
    /\ \A i \in 1..n : p[i] = p[i - 1] + v[i]

LEMMA SumsExist ==
    ASSUME NEW n \in Nat, NEW v \in [1..n -> Nat]
    PROVE  \E p : SumsOf(p, v, n)
<1> DEFINE F == [q \in Nat \X Nat |-> q[1] + q[2]]
<1>1. 0 \in Nat /\ F \in [Nat \X Nat -> Nat]
  OBVIOUS
<1>2. \E g \in [SUBSET (1..n) -> Nat] : FoldsParts(g, F, 0, v, n)
  <2> HIDE DEF F
  <2>1. QED
    BY <1>1, FoldExists, Zenon
<1>3. PICK g \in [SUBSET (1..n) -> Nat] : FoldsParts(g, F, 0, v, n)
  BY <1>2
<1> DEFINE p == [i \in 0..n |-> g[1..i]]
<1>4. \A i \in 0..n : 1..i \in SUBSET (1..n)
  OBVIOUS
<1>5. p \in [0..n -> Nat]
  BY <1>4
<1>6. p[0] = 0
  <2>1. 1..0 = {} /\ {} \in SUBSET (1..n) /\ p[0] = g[1..0]
    OBVIOUS
  <2>2. g[{}] = 0
    BY <1>3, <2>1 DEF FoldsParts
  <2>3. QED
    BY <2>1, <2>2
<1>7. ASSUME NEW i \in 1..n PROVE p[i] = p[i - 1] + v[i]
  <2>1. /\ i \in Nat /\ i # 0 /\ 1..i # {} /\ i \in 0..n /\ i - 1 \in 0..n
        /\ v[i] \in Nat
    OBVIOUS
  <2>2. Max(1..i) = i /\ (1..i) \ {i} = 1..(i - 1)
    BY <2>1, GreatestOfPrefix
  <2>3. g[1..i] = F[<<g[1..(i - 1)], v[i]>>]
    BY <1>3, <1>4, <2>1, <2>2 DEF FoldsParts
  <2>4. g[1..(i - 1)] \in Nat
    BY <1>4, <2>1
  <2>5. QED
    BY <2>1, <2>3, <2>4
<1>8. QED
  BY <1>5, <1>6, <1>7 DEF SumsOf

\* Sums grow with the numbers.
LEMMA SumsGrow ==
    ASSUME NEW n \in Nat, NEW v \in [1..n -> Nat], NEW p, SumsOf(p, v, n)
    PROVE  \A j \in 0..n : \A i \in 0..j : p[i] <= p[j]
<1> DEFINE S == {j \in Nat : j <= n => \A i \in 0..j : p[i] <= p[j]}
<1>1. 0 \in S
  BY DEF SumsOf
<1>2. ASSUME NEW j \in Nat, j \in S PROVE j + 1 \in S
  <2>1. SUFFICES ASSUME j + 1 <= n, NEW i \in 0..(j + 1) PROVE p[i] <= p[j + 1]
    OBVIOUS
  <2>2. j + 1 \in 1..n /\ v[j + 1] \in Nat /\ j \in 0..n /\ i \in 0..n
    BY <2>1
  <2>3. p[j + 1] = p[j] + v[j + 1] /\ p[j] \in Nat /\ p[i] \in Nat /\ p[j + 1] \in Nat
    <3>1. (j + 1) - 1 = j
      OBVIOUS
    <3>2. QED
      BY <2>2, <3>1 DEF SumsOf
  <2>4. CASE i <= j
    <3>1. p[i] <= p[j]
      BY <1>2, <2>1, <2>4
    <3>2. QED
      BY <2>2, <2>3, <3>1
  <2>5. CASE i = j + 1
    BY <2>3, <2>5
  <2>6. QED
    BY <2>4, <2>5
<1>3. Nat \subseteq S
  <2> HIDE DEF S
  <2>1. QED
    BY <1>1, <1>2, AllNumbers
<1>4. QED
  BY <1>3

\* h adds up the first m numbers of v, one after the other.
AddsUp(h, v, m) ==
    /\ h[{}] = 0
    /\ \A k \in 1..m : h[1..(k - 1)] \in Nat => h[1..k] = h[1..(k - 1)] + v[k]

\* Whatever adds them up gives their sum.
LEMMA SumIs ==
    ASSUME NEW n \in Nat, NEW v \in [1..n -> Nat], NEW p, SumsOf(p, v, n), NEW m \in 0..n,
           NEW h, AddsUp(h, v, m)
    PROVE  h[1..m] = p[m]
<1>0. /\ h[{}] = 0
      /\ \A k \in 1..m : h[1..(k - 1)] \in Nat => h[1..k] = h[1..(k - 1)] + v[k]
  BY DEF AddsUp
<1> DEFINE S == {k \in Nat : k <= m => h[1..k] = p[k]}
<1>1. 0 \in S
  <2>1. 1..0 = {}
    OBVIOUS
  <2>2. QED
    BY <1>0, <2>1 DEF SumsOf
<1>2. ASSUME NEW k \in Nat, k \in S PROVE k + 1 \in S
  <2>1. SUFFICES ASSUME k + 1 <= m PROVE h[1..(k + 1)] = p[k + 1]
    OBVIOUS
  <2>2. k \in 0..n /\ k + 1 \in 1..m /\ (k + 1) - 1 = k /\ k + 1 \in 1..n
    BY <2>1
  <2>3. h[1..k] = p[k] /\ p[k] \in Nat /\ p[k + 1] = p[k] + v[k + 1]
    BY <1>2, <2>1, <2>2 DEF SumsOf
  <2>4. h[1..((k + 1) - 1)] \in Nat
    BY <2>2, <2>3
  <2>5. h[1..(k + 1)] = h[1..((k + 1) - 1)] + v[k + 1]
    BY <1>0, <2>2, <2>4
  <2>6. QED
    BY <2>2, <2>3, <2>5
<1>3. Nat \subseteq S
  <2> HIDE DEF S
  <2>1. QED
    BY <1>1, <1>2, AllNumbers
<1>4. QED
  BY <1>3

-----------------------------------------------------------------------------
(* Sums over a set                                                         *)

\* g weighs the parts of S by what their elements weigh.
Additive(g, w, S) ==
    /\ g \in [SUBSET S -> Nat] /\ g[{}] = 0
    /\ \A t \in SUBSET S : \A x \in t : g[t] = g[t \ {x}] + w[x]

LEMMA AdditiveExists ==
    ASSUME NEW S, IsFiniteSet(S), NEW w, \A x \in S : w[x] \in Nat
    PROVE  \E g : Additive(g, w, S)
<1> DEFINE Upto(g, n) == /\ g \in [SUBSET S -> Nat] /\ g[{}] = 0
                         /\ \A t \in SUBSET S : Cardinality(t) <= n =>
                              \A x \in t : g[t] = g[t \ {x}] + w[x]
           Ns == {n \in Nat : \E g : Upto(g, n)}
<1>1. \A t \in SUBSET S : IsFiniteSet(t) /\ Cardinality(t) \in Nat /\ Cardinality(t) <= Cardinality(S)
  BY FS_Subset, FS_CardinalityType
<1>2. \A t \in SUBSET S : \A x \in t : /\ t \ {x} \in SUBSET S
                                       /\ Cardinality(t \ {x}) = Cardinality(t) - 1
  BY <1>1, FS_RemoveElement
<1>3. \A t \in SUBSET S : Cardinality(t) = 0 <=> t = {}
  BY <1>1, FS_EmptySet
<1>4. 0 \in Ns
  <2> DEFINE g == [t \in SUBSET S |-> 0]
  <2>1. g \in [SUBSET S -> Nat] /\ g[{}] = 0
    OBVIOUS
  <2>2. ASSUME NEW t \in SUBSET S, Cardinality(t) <= 0 PROVE t = {}
    BY <1>1, <1>3, <2>2
  <2>3. Upto(g, 0)
    BY <2>1, <2>2
  <2>4. QED
    BY <2>3
<1>5. ASSUME NEW n \in Nat, n \in Ns PROVE n + 1 \in Ns
  <2>1. PICK g : Upto(g, n)
    BY <1>5
  <2> DEFINE one(t) == CHOOSE x \in t : TRUE
             h == [t \in SUBSET S |-> IF Cardinality(t) = n + 1
                                      THEN g[t \ {one(t)}] + w[one(t)] ELSE g[t]]
  <2>2. ASSUME NEW t \in SUBSET S, Cardinality(t) = n + 1
        PROVE  one(t) \in t
    <3>1. t # {}
      BY <1>3, <2>2
    <3>2. QED
      BY <3>1
  <2> HIDE DEF one
  <2>3. ASSUME NEW t \in SUBSET S PROVE h[t] \in Nat
    <3>1. CASE Cardinality(t) = n + 1
      <4>1. one(t) \in t /\ one(t) \in S /\ t \ {one(t)} \in SUBSET S
        BY <2>2, <3>1
      <4>2. g[t \ {one(t)}] \in Nat /\ w[one(t)] \in Nat
        BY <2>1, <4>1
      <4>3. QED
        BY <3>1, <4>2
    <3>2. CASE Cardinality(t) # n + 1
      BY <2>1, <3>2
    <3>3. QED
      BY <3>1, <3>2
  <2>4. h \in [SUBSET S -> Nat] /\ h[{}] = 0
    <3>1. Cardinality({}) # n + 1
      BY <1>3
    <3>2. h[{}] = g[{}]
      BY <3>1
    <3>3. QED
      BY <2>1, <2>3, <3>2
  <2>5. \A t \in SUBSET S : h[t] = IF Cardinality(t) = n + 1
                                   THEN g[t \ {one(t)}] + w[one(t)] ELSE g[t]
    OBVIOUS
  <2> HIDE DEF h
  <2>6. ASSUME NEW t \in SUBSET S, Cardinality(t) <= n + 1, NEW x \in t
        PROVE  h[t] = h[t \ {x}] + w[x]
    <3>1. /\ Cardinality(t \ {x}) = Cardinality(t) - 1 /\ t \ {x} \in SUBSET S
          /\ Cardinality(t) \in Nat
      BY <1>1, <1>2
    <3>2. h[t \ {x}] = g[t \ {x}]
      <4>1. Cardinality(t \ {x}) # n + 1
        BY <2>6, <3>1
      <4>2. QED
        BY <2>5, <3>1, <4>1
    <3>3. CASE Cardinality(t) # n + 1
      <4>1. Cardinality(t) <= n
        BY <2>6, <3>1, <3>3
      <4>2. g[t] = g[t \ {x}] + w[x] /\ h[t] = g[t]
        BY <2>1, <2>5, <3>3, <4>1
      <4>3. QED
        BY <3>2, <4>2
    <3>4. CASE Cardinality(t) = n + 1
      <4> DEFINE c == one(t)
      <4>1. c \in t /\ h[t] = g[t \ {c}] + w[c]
        BY <2>2, <2>5, <3>4
      <4> HIDE DEF c
      <4>2. CASE c = x
        BY <3>2, <4>1, <4>2
      <4>3. CASE c # x
        <5>1. /\ t \ {c} \in SUBSET S /\ Cardinality(t \ {c}) = Cardinality(t) - 1
              /\ x \in t \ {c} /\ c \in t \ {x}
          BY <1>2, <4>1, <4>3
        <5>2. Cardinality(t \ {c}) <= n /\ Cardinality(t \ {x}) <= n
          BY <3>1, <3>4, <5>1
        <5>3. g[t \ {c}] = g[(t \ {c}) \ {x}] + w[x] /\ g[t \ {x}] = g[(t \ {x}) \ {c}] + w[c]
          BY <2>1, <3>1, <5>1, <5>2
        <5>4. (t \ {c}) \ {x} = (t \ {x}) \ {c} /\ (t \ {c}) \ {x} \in SUBSET S
          OBVIOUS
        <5>5. g[(t \ {c}) \ {x}] \in Nat /\ w[x] \in Nat /\ w[c] \in Nat
          BY <2>1, <4>1, <5>4
        <5>6. g[(t \ {x}) \ {c}] = g[(t \ {c}) \ {x}]
          BY <5>4
        <5>7. \A a, b, d \in Nat : (a + b) + d = (a + d) + b
          OBVIOUS
        <5>8. h[t] = (g[(t \ {c}) \ {x}] + w[x]) + w[c]
              /\ h[t \ {x}] + w[x] = (g[(t \ {c}) \ {x}] + w[c]) + w[x]
          BY <3>2, <4>1, <5>3, <5>6
        <5>9. QED
          BY <5>5, <5>7, <5>8
      <4>4. QED
        BY <4>2, <4>3
    <3>5. QED
      BY <3>3, <3>4
  <2>7. Upto(h, n + 1)
    BY <2>4, <2>6
  <2> HIDE DEF Upto
  <2>8. QED
    BY <2>7
<1> HIDE DEF Ns
<1>6. Cardinality(S) \in Ns
  <2>1. Cardinality(S) \in Nat
    BY FS_CardinalityType
  <2>2. QED
    BY <1>4, <1>5, <2>1, AllNumbers
<1>7. PICK g : Upto(g, Cardinality(S))
  BY <1>6 DEF Ns
<1>8. QED
  BY <1>1, <1>7 DEF Additive
=============================================================================
