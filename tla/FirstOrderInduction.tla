----------------------- MODULE FirstOrderInduction -----------------------
(***************************************************************************)
(* Induction, and functions defined by recursion, over sets and functions: *)
(* what is proved of a number is that it is in a set, a step is a          *)
(* function.  The library states these facts over operators.               *)
(***************************************************************************)
EXTENDS Integers, Sequences, WellFoundedInduction, TLAPS

\* Every nonempty set of natural numbers has a least member.
LEMMA LeastNatural ==
  ASSUME NEW T \in SUBSET Nat, T # {}
  PROVE  \E x \in T : \A y \in T : x <= y
<1> DEFINE R == OpToRel(<, Nat)
<1>1. \E x \in T : \A y \in T : ~ (<<y, x>> \in R)
  BY NatLessThanWellFounded, WFMin
<1>2. PICK x \in T : \A y \in T : ~ (<<y, x>> \in R)
  BY <1>1
<1>3. ASSUME NEW y \in T PROVE x <= y
  <2>1. x \in Nat /\ y \in Nat /\ ~ (<<y, x>> \in {ss \in Nat \X Nat : ss[1] < ss[2]})
    BY <1>2 DEF OpToRel
  <2> QED BY <2>1
<1> QED BY <1>3

\* Complete induction, over a set of numbers.
LEMMA CompleteInduction ==
  ASSUME NEW P \in SUBSET Nat, \A n \in Nat : (\A k \in Nat : k < n => k \in P) => n \in P
  PROVE  \A n \in Nat : n \in P
<1>1. SUFFICES ASSUME Nat \ P # {} PROVE FALSE
  OBVIOUS
<1>2. PICK n \in Nat \ P : \A k \in Nat \ P : n <= k
  BY <1>1, LeastNatural
<1>3. ASSUME NEW k \in Nat, k < n PROVE k \in P
  BY <1>2, <1>3
<1> QED BY <1>2, <1>3

\* A function f is defined by recursion: base[i] where i is in B, and
\* step[<<i, f[pred[i]]>>] elsewhere, pred[i] having a smaller measure than i.
Follows(f, B, base, pred, step, i) ==
  f[i] = IF i \in B THEN base[i] ELSE step[<<i, f[pred[i]]>>]

\* Such a function exists: pieces of it for ever larger measures agree with each other.
LEMMA Recursion ==
  ASSUME NEW S, NEW T, NEW B \in SUBSET S, NEW base \in [S -> T], NEW pred \in [S -> S],
         NEW step \in [S \X T -> T], NEW m \in [S -> Nat],
         \A i \in S \ B : m[pred[i]] < m[i]
  PROVE  \E f \in [S -> T] : \A i \in S : Follows(f, B, base, pred, step, i)
<1> DEFINE Upto(f, n) == \A i \in S : m[i] < n => Follows(f, B, base, pred, step, i)
           P == {n \in Nat : \E f \in [S -> T] : Upto(f, n)}
<1>1. \A n \in Nat : n \in P
  <2>1. ASSUME NEW n \in Nat, \A k \in Nat : k < n => k \in P PROVE n \in P
    <3>1. CASE n = 0
      <4>1. Upto(base, n)
        BY <3>1
      <4> QED BY <4>1
    <3>2. CASE n # 0
      <4>1. PICK k \in Nat : n = k + 1
        BY <3>2
      <4>2. PICK f \in [S -> T] : Upto(f, k)
        BY <2>1, <4>1
      <4> DEFINE g == [i \in S |-> IF i \in B THEN base[i] ELSE step[<<i, f[pred[i]]>>]]
      <4>3. g \in [S -> T]
        OBVIOUS
      <4>4. \A i \in S : m[i] < k => g[i] = f[i]
        BY <4>2 DEF Follows
      <4>5. ASSUME NEW i \in S, m[i] < n PROVE Follows(g, B, base, pred, step, i)
        <5>1. CASE i \in B
          BY <5>1 DEF Follows
        <5>2. CASE i \notin B
          <6>1. pred[i] \in S /\ m[pred[i]] \in Nat /\ m[i] \in Nat /\ m[pred[i]] < m[i]
            BY <5>2
          <6>2. m[pred[i]] < k
            BY <4>1, <4>5, <6>1
          <6>3. g[pred[i]] = f[pred[i]]
            BY <4>4, <6>1, <6>2
          <6> QED BY <5>2, <6>3 DEF Follows
        <5> QED BY <5>1, <5>2
      <4> HIDE DEF g
      <4>6. Upto(g, n)
        BY <4>5
      <4> QED BY <4>3, <4>6
    <3> QED BY <3>1, <3>2
  <2>2. P \in SUBSET Nat
    OBVIOUS
  <2> HIDE DEF P
  <2> QED BY <2>1, <2>2, CompleteInduction
<1>2. ASSUME NEW f \in [S -> T], NEW g \in [S -> T], NEW n \in Nat, Upto(f, n), Upto(g, n)
      PROVE  \A i \in S : m[i] < n => f[i] = g[i]
  <2> DEFINE Q == {k \in Nat : \A i \in S : m[i] = k /\ k < n => f[i] = g[i]}
  <2>1. ASSUME NEW k \in Nat, \A l \in Nat : l < k => l \in Q PROVE k \in Q
    <3>1. SUFFICES ASSUME NEW i \in S, m[i] = k, k < n PROVE f[i] = g[i]
      OBVIOUS
    <3>2. Follows(f, B, base, pred, step, i) /\ Follows(g, B, base, pred, step, i)
      BY <1>2, <3>1
    <3>3. i \notin B => f[pred[i]] = g[pred[i]]
      <4>1. SUFFICES ASSUME i \notin B PROVE f[pred[i]] = g[pred[i]]
        OBVIOUS
      <4>2. PICK l \in Nat : l = m[pred[i]] /\ pred[i] \in S /\ l < k
        BY <3>1, <4>1
      <4>3. l < n
        BY <3>1, <4>2
      <4> QED BY <2>1, <4>2, <4>3
    <3> QED BY <3>2, <3>3 DEF Follows
  <2>2. Q \in SUBSET Nat
    OBVIOUS
  <2>3. \A k \in Nat : k \in Q
    <3> HIDE DEF Q
    <3> QED BY <2>1, <2>2, CompleteInduction
  <2> QED BY <2>3
<1> DEFINE F(n) == CHOOSE f \in [S -> T] : Upto(f, n)
<1>3. \A n \in Nat : F(n) \in [S -> T] /\ Upto(F(n), n)
  BY <1>1
<1> DEFINE f == [i \in S |-> F(m[i] + 1)[i]]
<1> HIDE DEF F
<1>4. f \in [S -> T]
  BY <1>3
<1>5. ASSUME NEW i \in S PROVE Follows(f, B, base, pred, step, i)
  <2>1. PICK n \in Nat : n = m[i] + 1 /\ m[i] < n
    OBVIOUS
  <2>2. f[i] = F(n)[i] /\ Follows(F(n), B, base, pred, step, i)
    BY <1>3, <2>1
  <2>3. i \notin B => f[pred[i]] = F(n)[pred[i]]
    <3>1. SUFFICES ASSUME i \notin B PROVE f[pred[i]] = F(n)[pred[i]]
      OBVIOUS
    <3>2. PICK j \in S : j = pred[i] /\ m[j] < m[i]
      BY <3>1
    <3>3. PICK l \in Nat : l = m[j] + 1 /\ m[j] < l /\ l < n
      BY <2>1, <3>2
    <3>4. Upto(F(n), l) /\ Upto(F(l), l)
      BY <1>3, <3>3
    <3>5. PICK a \in [S -> T], b \in [S -> T] : a = F(n) /\ b = F(l) /\ Upto(a, l) /\ Upto(b, l)
      BY <1>3, <3>4
    <3>6. \A x \in S : m[x] < l => a[x] = b[x]
      <4> HIDE DEF Upto
      <4> QED BY <1>2, <3>5
    <3> QED BY <3>2, <3>3, <3>5, <3>6
  <2> QED BY <2>2, <2>3 DEF Follows
<1> HIDE DEF f
<1> QED BY <1>4, <1>5

\* The same with two recursive calls.
TwoFollow(f, B, base, pred1, pred2, step, i) ==
  f[i] = IF i \in B THEN base[i] ELSE step[<<i, f[pred1[i]], f[pred2[i]]>>]

\* Such a function exists: pieces of it for ever larger measures agree with each other.
LEMMA TwoRecursion ==
  ASSUME NEW S, NEW T, NEW B \in SUBSET S, NEW base \in [S -> T], NEW pred1 \in [S -> S], NEW pred2 \in [S -> S],
         NEW step \in [S \X T \X T -> T], NEW m \in [S -> Nat],
         \A i \in S \ B : m[pred1[i]] < m[i] /\ m[pred2[i]] < m[i]
  PROVE  \E f \in [S -> T] : \A i \in S : TwoFollow(f, B, base, pred1, pred2, step, i)
<1> DEFINE Upto(f, n) == \A i \in S : m[i] < n => TwoFollow(f, B, base, pred1, pred2, step, i)
           P == {n \in Nat : \E f \in [S -> T] : Upto(f, n)}
<1>1. \A n \in Nat : n \in P
  <2>1. ASSUME NEW n \in Nat, \A k \in Nat : k < n => k \in P PROVE n \in P
    <3>1. CASE n = 0
      <4>1. Upto(base, n)
        BY <3>1
      <4> QED BY <4>1
    <3>2. CASE n # 0
      <4>1. PICK k \in Nat : n = k + 1
        BY <3>2
      <4>2. PICK f \in [S -> T] : Upto(f, k)
        BY <2>1, <4>1
      <4> DEFINE g == [i \in S |-> IF i \in B THEN base[i] ELSE step[<<i, f[pred1[i]], f[pred2[i]]>>]]
      <4>3. g \in [S -> T]
        OBVIOUS
      <4>4. \A i \in S : m[i] < k => g[i] = f[i]
        BY <4>2 DEF TwoFollow
      <4>5. ASSUME NEW i \in S, m[i] < n PROVE TwoFollow(g, B, base, pred1, pred2, step, i)
        <5>1. CASE i \in B
          BY <5>1 DEF TwoFollow
        <5>2. CASE i \notin B
          <6>1. ASSUME NEW j \in {pred1[i], pred2[i]} PROVE g[j] = f[j]
            <7>1. j \in S /\ m[j] \in Nat /\ m[i] \in Nat /\ m[j] < m[i]
              BY <5>2
            <7>2. m[j] < k
              BY <4>1, <4>5, <7>1
            <7> QED BY <4>4, <7>1, <7>2
          <6>3. g[pred1[i]] = f[pred1[i]] /\ g[pred2[i]] = f[pred2[i]]
            BY <6>1
          <6> QED BY <5>2, <6>3 DEF TwoFollow
        <5> QED BY <5>1, <5>2
      <4> HIDE DEF g
      <4>6. Upto(g, n)
        BY <4>5
      <4> QED BY <4>3, <4>6
    <3> QED BY <3>1, <3>2
  <2>2. P \in SUBSET Nat
    OBVIOUS
  <2> HIDE DEF P
  <2> QED BY <2>1, <2>2, CompleteInduction
<1>2. ASSUME NEW f \in [S -> T], NEW g \in [S -> T], NEW n \in Nat, Upto(f, n), Upto(g, n)
      PROVE  \A i \in S : m[i] < n => f[i] = g[i]
  <2> DEFINE Q == {k \in Nat : \A i \in S : m[i] = k /\ k < n => f[i] = g[i]}
  <2>1. ASSUME NEW k \in Nat, \A l \in Nat : l < k => l \in Q PROVE k \in Q
    <3>1. SUFFICES ASSUME NEW i \in S, m[i] = k, k < n PROVE f[i] = g[i]
      OBVIOUS
    <3>2. TwoFollow(f, B, base, pred1, pred2, step, i) /\ TwoFollow(g, B, base, pred1, pred2, step, i)
      BY <1>2, <3>1
    <3>3. i \notin B => \A j \in {pred1[i], pred2[i]} : f[j] = g[j]
      <4>1. SUFFICES ASSUME i \notin B, NEW j \in {pred1[i], pred2[i]} PROVE f[j] = g[j]
        OBVIOUS
      <4>2. PICK l \in Nat : l = m[j] /\ j \in S /\ l < k
        BY <3>1, <4>1
      <4>3. l < n
        BY <3>1, <4>2
      <4> QED BY <2>1, <4>2, <4>3
    <3> QED BY <3>2, <3>3 DEF TwoFollow
  <2>2. Q \in SUBSET Nat
    OBVIOUS
  <2>3. \A k \in Nat : k \in Q
    <3> HIDE DEF Q
    <3> QED BY <2>1, <2>2, CompleteInduction
  <2> QED BY <2>3
<1> DEFINE F(n) == CHOOSE f \in [S -> T] : Upto(f, n)
<1>3. \A n \in Nat : F(n) \in [S -> T] /\ Upto(F(n), n)
  BY <1>1
<1> DEFINE f == [i \in S |-> F(m[i] + 1)[i]]
<1> HIDE DEF F
<1>4. f \in [S -> T]
  BY <1>3
<1>5. ASSUME NEW i \in S PROVE TwoFollow(f, B, base, pred1, pred2, step, i)
  <2>1. PICK n \in Nat : n = m[i] + 1 /\ m[i] < n
    OBVIOUS
  <2>2. f[i] = F(n)[i] /\ TwoFollow(F(n), B, base, pred1, pred2, step, i)
    BY <1>3, <2>1
  <2>3. i \notin B => \A q \in {pred1[i], pred2[i]} : f[q] = F(n)[q]
    <3>1. SUFFICES ASSUME i \notin B, NEW q \in {pred1[i], pred2[i]} PROVE f[q] = F(n)[q]
      OBVIOUS
    <3>2. PICK j \in S : j = q /\ m[j] < m[i]
      BY <3>1
    <3>3. PICK l \in Nat : l = m[j] + 1 /\ m[j] < l /\ l < n
      BY <2>1, <3>2
    <3>4. Upto(F(n), l) /\ Upto(F(l), l)
      BY <1>3, <3>3
    <3>5. PICK a \in [S -> T], b \in [S -> T] : a = F(n) /\ b = F(l) /\ Upto(a, l) /\ Upto(b, l)
      BY <1>3, <3>4
    <3>6. \A x \in S : m[x] < l => a[x] = b[x]
      <4> HIDE DEF Upto
      <4> QED BY <1>2, <3>5
    <3> QED BY <3>2, <3>3, <3>5, <3>6
  <2> QED BY <2>2, <2>3 DEF TwoFollow
<1> HIDE DEF f
<1> QED BY <1>4, <1>5

\* Recursion and induction along a sequence.
\* A function along a sequence: b before it, and a step for every element.
ListFollows(f, n, b, step) == f[0] = b /\ \A i \in 1 .. n : f[i] = step[<<i, f[i - 1]>>]

LEMMA ListRecursion ==
  ASSUME NEW n \in Nat, NEW T, NEW b \in T, NEW step \in [(1 .. n) \X T -> T]
  PROVE  \E f \in [0 .. n -> T] : ListFollows(f, n, b, step)
<1> DEFINE S == 0 .. n
           base == [i \in S |-> b]
           pred == [i \in S |-> IF i = 0 THEN 0 ELSE i - 1]
           step0 == [p \in S \X T |-> IF p[1] = 0 THEN b ELSE step[<<p[1], p[2]>>]]
           m == [i \in S |-> i]
<1>1. base \in [S -> T] /\ pred \in [S -> S] /\ m \in [S -> Nat] /\ {0} \in SUBSET S
  OBVIOUS
<1>2. step0 \in [S \X T -> T]
  OBVIOUS
<1>3. \A i \in S \ {0} : m[pred[i]] < m[i]
  OBVIOUS
<1>4. \A i \in 1 .. n : i \in S /\ i \notin {0} /\ pred[i] = i - 1 /\ i - 1 \in S
  OBVIOUS
<1>5. \A i \in 1 .. n, t \in T : step0[<<i, t>>] = step[<<i, t>>]
  OBVIOUS
<1>6. 0 \in S /\ base[0] = b
  OBVIOUS
<1> HIDE DEF S, base, pred, step0, m
<1>7. PICK f \in [S -> T] : \A i \in S : Follows(f, {0}, base, pred, step0, i)
  BY <1>1, <1>2, <1>3, Recursion
<1>8. f[0] = b
  BY <1>6, <1>7 DEF Follows
<1>9. ASSUME NEW i \in 1 .. n PROVE f[i] = step[<<i, f[i - 1]>>]
  <2>1. i \in S /\ i \notin {0} /\ pred[i] = i - 1 /\ i - 1 \in S
    BY <1>4
  <2>2. f[i] = step0[<<i, f[i - 1]>>] /\ f[i - 1] \in T
    BY <1>7, <2>1 DEF Follows
  <2> QED BY <1>5, <2>2
<1> QED BY <1>7, <1>8, <1>9 DEF S, ListFollows

LEMMA ListInduction ==
  ASSUME NEW n \in Nat, NEW P \in SUBSET Nat, 0 \in P, \A i \in 1 .. n : i - 1 \in P => i \in P
  PROVE  \A i \in 0 .. n : i \in P
<1> DEFINE Q == {k \in Nat : k <= n => k \in P}
<1>1. ASSUME NEW k \in Nat, \A l \in Nat : l < k => l \in Q PROVE k \in Q
  <2>1. SUFFICES ASSUME k <= n PROVE k \in P
    OBVIOUS
  <2>2. CASE k = 0
    BY <2>2
  <2>3. CASE k # 0
    <3>1. PICK l \in Nat : l = k - 1 /\ l < k /\ l <= n /\ k \in 1 .. n
      BY <2>1, <2>3
    <3>2. l \in P
      BY <1>1, <3>1
    <3> QED BY <3>1, <3>2
  <2> QED BY <2>2, <2>3
<1>2. Q \in SUBSET Nat
  OBVIOUS
<1>3. \A k \in Nat : k \in Q
  <2> HIDE DEF Q
  <2> QED BY <1>1, <1>2, CompleteInduction
<1> QED BY <1>3
=============================================================================
