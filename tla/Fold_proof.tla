------------------------------ MODULE Fold_proof ------------------------------
(***************************************************************************)
(* Induction over data. What a fold over a sequence and a recursive        *)
(* function over an interval compute, step by step: both are a CHOOSE of a *)
(* function that satisfies an equation, and the lemmas prove that there is *)
(* one. `step` is the body, `c` what else it depends on; a module that     *)
(* needs the lemmas instantiates them with a body of its own.              *)
(***************************************************************************)
EXTENDS Integers

LOCAL INSTANCE WellFoundedInduction

CONSTANT step(_, _, _)

-----------------------------------------------------------------------------
(* Induction from a to b, by a set.                                        *)

LOCAL Less == {ss \in Nat \X Nat : ss[1] < ss[2]}

LEMMA IntervalInduction ==
  ASSUME NEW a \in Int, NEW b \in Int, NEW S, a <= b => a \in S,
         \A i \in a + 1 .. b : i - 1 \in S => i \in S
  PROVE  a .. b \subseteq S
<1> DEFINE T == {n \in Nat : a + n <= b /\ a + n \notin S}
<1>1. SUFFICES ASSUME T # {} PROVE FALSE
  <2>1. ASSUME T = {}, NEW i \in a .. b PROVE i \in S
    <3>1. PICK n \in Nat : i = a + n /\ a + n <= b
      <4>1. i - a \in Nat /\ a + (i - a) = i
        OBVIOUS
      <4> QED
        BY <4>1
    <3>2. n \notin T
      BY <2>1
    <3> QED
      BY <3>1, <3>2
  <2> QED
    BY <2>1
<1>2. IsWellFoundedOn(Less, Nat)
  BY NatLessThanWellFounded DEF OpToRel, Less
<1>3. PICK n \in T : \A k \in T : <<k, n>> \notin Less
  <2>1. T \subseteq Nat
    OBVIOUS
  <2> HIDE DEF T
  <2> QED
    BY <1>1, <1>2, <2>1, WFMin
<1>4. n # 0
  OBVIOUS
<1>5. n - 1 \in Nat /\ <<n - 1, n>> \in Less
  BY <1>4 DEF Less
<1>6. n - 1 \notin T
  BY <1>3, <1>5
<1>7. a + (n - 1) \in S /\ a + n \in a + 1 .. b /\ (a + n) - 1 = a + (n - 1)
  BY <1>4, <1>5, <1>6
<1>8. a + n \in S
  BY <1>7
<1> QED
  BY <1>8

-----------------------------------------------------------------------------
(* Recursive functions over an interval, upwards and downwards. The body   *)
(* may look at any value already computed.                                 *)

Recursive(c, a, b) == CHOOSE f : f = [i \in a .. b |-> step(c, f, i)]

Solves(f, c, a, b) == f = [i \in a .. b |-> step(c, f, i)]

AgreeBelow(g, h, a, i) == \A j \in a .. i - 1 : g[j] = h[j]

AgreeAbove(g, h, i, b) == \A j \in i + 1 .. b : g[j] = h[j]

LEMMA Recursion ==
  ASSUME NEW c, NEW a \in Int, NEW b \in Int,
         \A i \in a .. b : \A g, h :
           AgreeBelow(g, h, a, i) => step(c, g, i) = step(c, h, i)
  PROVE  Solves(Recursive(c, a, b), c, a, b)
<1> DEFINE Solved == {n \in a - 1 .. b : \E g : Solves(g, c, a, n)}
<1>1. ASSUME a - 1 <= b PROVE a - 1 \in Solved
  <2> DEFINE g == [i \in {} |-> i]
  <2>1. a .. a - 1 = {}
    OBVIOUS
  <2>2. Solves(g, c, a, a - 1)
    BY <2>1 DEF Solves
  <2> HIDE DEF g
  <2> QED
    BY <1>1, <2>2
<1>2. ASSUME NEW n \in a .. b, n - 1 \in Solved PROVE n \in Solved
  <2>1. PICK g : Solves(g, c, a, n - 1)
    BY <1>2
  <2> DEFINE h == [i \in a .. n |-> IF i = n THEN step(c, g, n) ELSE g[i]]
  <2>2. \A j \in a .. n - 1 : h[j] = g[j]
    OBVIOUS
  <2>3. ASSUME NEW i \in a .. n PROVE h[i] = step(c, h, i)
    <3>1. AgreeBelow(h, g, a, i)
      BY <2>2 DEF AgreeBelow
    <3>2. step(c, h, i) = step(c, g, i)
      <4> HIDE DEF h
      <4>1. i \in a .. b
        OBVIOUS
      <4> QED
        BY <3>1, <4>1
    <3>3. i # n => i \in a .. n - 1 /\ g[i] = step(c, g, i)
      BY <2>1 DEF Solves
    <3> QED
      BY <3>2, <3>3
  <2>4. Solves(h, c, a, n)
    <3>1. h = [i \in a .. n |-> h[i]]
      OBVIOUS
    <3> HIDE DEF h
    <3> QED
      BY <2>3, <3>1 DEF Solves
  <2> HIDE DEF h
  <2> QED
    BY <2>4
<1>3. a - 1 .. b \subseteq Solved
  <2>1. \A i \in (a - 1) + 1 .. b : i - 1 \in Solved => i \in Solved
    <3> HIDE DEF Solved
    <3> QED
      BY <1>2
  <2> HIDE DEF Solved
  <2> QED
    BY <1>1, <2>1, IntervalInduction
<1>4. \E g : Solves(g, c, a, b)
  <2>1. CASE a - 1 <= b
    <3>1. b \in a - 1 .. b
      BY <2>1
    <3> QED
      BY <1>3, <3>1
  <2>2. CASE ~(a - 1 <= b)
    <3> DEFINE g == [i \in {} |-> i]
    <3>1. a .. b = {}
      BY <2>2
    <3>2. Solves(g, c, a, b)
      BY <3>1 DEF Solves
    <3> HIDE DEF g
    <3> QED
      BY <3>2
  <2> QED
    BY <2>1, <2>2
<1> QED
  BY <1>4 DEF Recursive, Solves

LEMMA RecursionDown ==
  ASSUME NEW c, NEW a \in Int, NEW b \in Int,
         \A i \in a .. b : \A g, h :
           AgreeAbove(g, h, i, b) => step(c, g, i) = step(c, h, i)
  PROVE  Solves(Recursive(c, a, b), c, a, b)
<1> DEFINE Solved == {n \in a .. b + 1 : \E g : Solves(g, c, n, b)}
<1>1. ASSUME a <= b + 1 PROVE b + 1 \in Solved
  <2> DEFINE g == [i \in {} |-> i]
  <2>1. b + 1 .. b = {}
    OBVIOUS
  <2>2. Solves(g, c, b + 1, b)
    BY <2>1 DEF Solves
  <2> HIDE DEF g
  <2> QED
    BY <1>1, <2>2
<1>2. ASSUME NEW n \in a .. b, n + 1 \in Solved PROVE n \in Solved
  <2>1. PICK g : Solves(g, c, n + 1, b)
    BY <1>2
  <2> DEFINE h == [i \in n .. b |-> IF i = n THEN step(c, g, n) ELSE g[i]]
  <2>2. \A j \in n + 1 .. b : h[j] = g[j]
    OBVIOUS
  <2>3. ASSUME NEW i \in n .. b PROVE h[i] = step(c, h, i)
    <3>1. AgreeAbove(h, g, i, b)
      BY <2>2 DEF AgreeAbove
    <3>2. step(c, h, i) = step(c, g, i)
      <4> HIDE DEF h
      <4>1. i \in a .. b
        OBVIOUS
      <4> QED
        BY <3>1, <4>1
    <3>3. i # n => i \in n + 1 .. b /\ g[i] = step(c, g, i)
      BY <2>1 DEF Solves
    <3> QED
      BY <3>2, <3>3
  <2>4. Solves(h, c, n, b)
    <3>1. h = [i \in n .. b |-> h[i]]
      OBVIOUS
    <3> HIDE DEF h
    <3> QED
      BY <2>3, <3>1 DEF Solves
  <2> HIDE DEF h
  <2> QED
    BY <2>4
<1>3. a .. b + 1 \subseteq Solved
  <2> DEFINE Below == {i \in Int : (b + 1) - (i - a) \in Solved}
  <2>1. a <= b + 1 => a \in Below
    BY <1>1
  <2>2. ASSUME NEW i \in a + 1 .. b + 1, i - 1 \in Below PROVE i \in Below
    <3>1. PICK n \in a .. b : n = (b + 1) - (i - a)
      OBVIOUS
    <3>2. n + 1 = (b + 1) - ((i - 1) - a)
      BY <3>1
    <3> HIDE DEF Solved
    <3>3. n \in Solved
      BY <1>2, <2>2, <3>2
    <3> QED
      BY <3>1, <3>3
  <2>3. a .. b + 1 \subseteq Below
    <3>1. b + 1 \in Int
      OBVIOUS
    <3> HIDE DEF Below
    <3> QED
      BY <2>1, <2>2, <3>1, IntervalInduction
  <2>4. ASSUME NEW i \in a .. b + 1 PROVE i \in Solved
    <3>1. PICK n \in a .. b + 1 : n = (b + 1) - (i - a)
      OBVIOUS
    <3>2. (b + 1) - (n - a) = i
      BY <3>1
    <3> HIDE DEF Solved
    <3> QED
      BY <2>3, <3>2
  <2> QED
    BY <2>4
<1>4. \E g : Solves(g, c, a, b)
  <2>1. CASE a <= b + 1
    <3>1. a \in a .. b + 1
      BY <2>1
    <3> QED
      BY <1>3, <3>1
  <2>2. CASE ~(a <= b + 1)
    <3> DEFINE g == [i \in {} |-> i]
    <3>1. a .. b = {}
      BY <2>2
    <3>2. Solves(g, c, a, b)
      BY <3>1 DEF Solves
    <3> HIDE DEF g
    <3> QED
      BY <3>2
  <2> QED
    BY <2>1, <2>2
<1> QED
  BY <1>4 DEF Recursive, Solves

-----------------------------------------------------------------------------
(* Folds over a sequence. FoldLeft takes the last element off, a set of    *)
(* indices at a time: only the sets 1..i matter.                           *)

Max(S) == CHOOSE x \in S : \A y \in S : x >= y

Iter(c, base, s, D) ==
  CHOOSE it : it = [S \in SUBSET D |->
                      IF S = {} THEN base
                      ELSE step(c, it[S \ {Max(S)}], s[Max(S)])]

\* The fold, as FoldLeft defines it.
Fold(c, base, s) == Iter(c, base, s, DOMAIN s)[DOMAIN s]

\* h[i] is the fold of the first i elements.
Runs(h, c, base, s, n) ==
  /\ DOMAIN h = 0 .. n
  /\ h[0] = base
  /\ \A i \in 1 .. n : h[i] = step(c, h[i - 1], s[i])

\* The values of a fold, from the base to the result.
LEMMA FoldSteps ==
  ASSUME NEW c, NEW base, NEW s, NEW n \in Nat, DOMAIN s = 1 .. n
  PROVE  \E h : Runs(h, c, base, s, n) /\ h[n] = Fold(c, base, s)
<1> DEFINE Value(it, S) == IF S = {} THEN base ELSE step(c, it[S \ {Max(S)}], s[Max(S)])
           Folds(it, k) == it = [S \in SUBSET (1 .. k) |-> Value(it, S)]
           Solved == {k \in 0 .. n : \E it : Folds(it, k)}
<1>1. ASSUME NEW k \in Nat, NEW S \in SUBSET (1 .. k), k \in S PROVE Max(S) = k
  <2>1. S \subseteq Int /\ k \in S /\ \A j \in S : k >= j
    BY <1>1
  <2>2. Max(S) \in S /\ \A j \in S : Max(S) >= j
    BY <2>1 DEF Max
  <2> HIDE DEF Max
  <2>3. Max(S) \in Int /\ k >= Max(S) /\ Max(S) >= k
    BY <2>1, <2>2
  <2> QED
    BY <2>3
<1>2. 0 \in Solved
  <2> DEFINE it == [S \in SUBSET (1 .. 0) |-> base]
  <2>1. \A S \in SUBSET (1 .. 0) : S = {}
    OBVIOUS
  <2>2. Folds(it, 0)
    BY <2>1
  <2> HIDE DEF it, Folds
  <2> QED
    BY <2>2
<1>3. ASSUME NEW k \in 1 .. n, k - 1 \in Solved PROVE k \in Solved
  <2>1. PICK it : Folds(it, k - 1)
    BY <1>3
  <2> DEFINE next == [S \in SUBSET (1 .. k) |->
                        IF k \in S THEN step(c, it[S \ {k}], s[k]) ELSE it[S]]
  <2>2. ASSUME NEW S \in SUBSET (1 .. k - 1) PROVE next[S] = it[S]
    <3>1. S \in SUBSET (1 .. k) /\ k \notin S
      OBVIOUS
    <3> QED
      BY <3>1
  <2>3. ASSUME NEW S \in SUBSET (1 .. k) PROVE next[S] = Value(next, S)
    <3>1. CASE k \in S
      <4>1. Max(S) = k
        BY <1>1, <3>1
      <4>2. S \ {k} \in SUBSET (1 .. k - 1)
        OBVIOUS
      <4>3. next[S] = step(c, it[S \ {k}], s[k])
        BY <3>1
      <4>4. next[S \ {k}] = it[S \ {k}]
        BY <2>2, <4>2
      <4> HIDE DEF next
      <4> QED
        BY <3>1, <4>1, <4>3, <4>4
    <3>2. CASE k \notin S
      <4>1. S \in SUBSET (1 .. k - 1) /\ S \ {Max(S)} \in SUBSET (1 .. k - 1)
        <5>1. \A j \in S : j \in 1 .. k - 1
          BY <3>2
        <5> QED
          BY <5>1
      <4>2. it[S] = Value(it, S)
        BY <2>1, <4>1
      <4>3. next[S] = it[S] /\ next[S \ {Max(S)}] = it[S \ {Max(S)}]
        BY <2>2, <4>1
      <4> HIDE DEF next
      <4> QED
        BY <4>2, <4>3
    <3> QED
      BY <3>1, <3>2
  <2>4. next = [S \in SUBSET (1 .. k) |-> next[S]]
    OBVIOUS
  <2> HIDE DEF next
  <2>5. Folds(next, k)
    <3> HIDE DEF Value
    <3> QED
      BY <2>3, <2>4
  <2> HIDE DEF Folds
  <2> QED
    BY <2>5
<1>4. 0 .. n \subseteq Solved
  <2> HIDE DEF Solved
  <2> QED
    BY <1>2, <1>3, IntervalInduction
<1> DEFINE it == Iter(c, base, s, 1 .. n)
           h == [i \in 0 .. n |-> it[1 .. i]]
<1>5. it = [S \in SUBSET (1 .. n) |-> Value(it, S)]
  <2>1. n \in Solved
    <3> HIDE DEF Solved
    <3> QED
      BY <1>4
  <2>2. \E g : Folds(g, n)
    <3> HIDE DEF Folds
    <3> QED
      BY <2>1
  <2> QED
    BY <2>2 DEF Iter
<1>6. h[n] = Fold(c, base, s)
  BY DEF Fold
<1> HIDE DEF it
<1>7. \A S \in SUBSET (1 .. n) : it[S] = Value(it, S)
  <2> HIDE DEF Value
  <2> QED
    BY <1>5
<1>8. h[0] = base
  <2>1. 1 .. 0 = {} /\ {} \in SUBSET (1 .. n)
    OBVIOUS
  <2>2. it[{}] = base
    BY <1>7, <2>1
  <2> QED
    BY <2>1, <2>2
<1>9. ASSUME NEW i \in 1 .. n PROVE h[i] = step(c, h[i - 1], s[i])
  <2>1. /\ 1 .. i \in SUBSET (1 .. n) /\ 1 .. i \in SUBSET (1 .. i) /\ i \in 1 .. i /\ i \in Nat
        /\ (1 .. i) \ {i} = 1 .. i - 1
        /\ i - 1 \in 0 .. n /\ i \in 0 .. n
    OBVIOUS
  <2>2. Max(1 .. i) = i
    BY <1>1, <2>1
  <2>3. it[1 .. i] = step(c, it[(1 .. i) \ {i}], s[i])
    BY <1>7, <2>1, <2>2
  <2>4. h[i] = it[1 .. i] /\ h[i - 1] = it[1 .. i - 1]
    BY <2>1
  <2> HIDE DEF h
  <2> QED
    BY <2>1, <2>3, <2>4
<1>10. DOMAIN h = 0 .. n
  OBVIOUS
<1> HIDE DEF h
<1>11. Runs(h, c, base, s, n)
  BY <1>8, <1>9, <1>10 DEF Runs
<1> QED
  BY <1>6, <1>11

\* What holds of a fold step by step, each step with a set of its own.
LEMMA FoldReaches ==
  ASSUME NEW c, NEW base, NEW s, NEW n \in Nat, DOMAIN s = 1 .. n, NEW T, base \in T[0],
         \A i \in 1 .. n : \A v \in T[i - 1] : step(c, v, s[i]) \in T[i]
  PROVE  Fold(c, base, s) \in T[n]
<1>1. PICK h : Runs(h, c, base, s, n) /\ h[n] = Fold(c, base, s)
  BY FoldSteps
<1> DEFINE R == {i \in 0 .. n : h[i] \in T[i]}
<1>2. 0 \in R
  BY <1>1 DEF Runs
<1>3. ASSUME NEW i \in 1 .. n, i - 1 \in R PROVE i \in R
  <2>1. h[i] = step(c, h[i - 1], s[i])
    BY <1>1 DEF Runs
  <2>2. step(c, h[i - 1], s[i]) \in T[i]
    BY <1>3
  <2> QED
    BY <2>1, <2>2
<1>4. 0 .. n \subseteq R
  <2> HIDE DEF R
  <2> QED
    BY <1>2, <1>3, IntervalInduction
<1> QED
  BY <1>1, <1>4

\* A fold stays in a set that each of its steps stays in.
LEMMA FoldStays ==
  ASSUME NEW c, NEW s, NEW n \in Nat, DOMAIN s = 1 .. n, NEW T, NEW base \in T,
         \A i \in 1 .. n : \A v \in T : step(c, v, s[i]) \in T
  PROVE  Fold(c, base, s) \in T
<1> DEFINE U == [i \in 0 .. n |-> T]
<1>1. U[0] = T /\ U[n] = T /\ \A i \in 1 .. n : U[i - 1] = T /\ U[i] = T
  OBVIOUS
<1> HIDE DEF U
<1>2. base \in U[0] /\ \A i \in 1 .. n : \A v \in U[i - 1] : step(c, v, s[i]) \in U[i]
  BY <1>1
<1>3. Fold(c, base, s) \in U[n]
  BY <1>2, FoldReaches
<1> QED
  BY <1>1, <1>3
===============================================================================
