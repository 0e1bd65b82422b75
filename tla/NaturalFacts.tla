---------------------------- MODULE NaturalFacts ----------------------------
(***************************************************************************)
(* Induction over the natural numbers with sets in the place of predicates *)
(* and what follows from it for the recursive functions of the models and  *)
(* for the sequences they are made of.                                     *)
(***************************************************************************)
EXTENDS Integers, Sequences, SequencesExt, SequenceTheorems, WellFoundedInduction, TLAPS

\* A set of natural numbers that is not empty has a least element.
LEMMA LeastExists ==
  ASSUME NEW S, S \subseteq Nat, S # {}
  PROVE  \E n \in S : \A m \in S : n <= m
<1> DEFINE less == OpToRel(<, Nat)
<1>1. \A m, n \in Nat : m < n => <<m, n>> \in less
  BY DEF OpToRel
<1>2. IsWellFoundedOn(less, Nat)
  BY NatLessThanWellFounded
<1> HIDE DEF less
<1>3. PICK n \in S : \A m \in S : ~(<<m, n>> \in less)
  BY <1>2, WFMin
<1>4. ASSUME NEW m \in S
      PROVE  n <= m
  <2>1. m \in Nat /\ n \in Nat
    OBVIOUS
  <2>2. ~(m < n)
    BY <1>1, <1>3, <2>1, Zenon
  <2> QED BY <2>1, <2>2
<1> QED BY <1>4

\* Induction.
LEMMA Induction ==
  ASSUME NEW S, 0 \in S, \A n \in Nat : n \in S => n + 1 \in S
  PROVE  Nat \subseteq S
<1> SUFFICES ASSUME Nat \ S # {} PROVE FALSE
  OBVIOUS
<1>1. PICK n \in Nat \ S : \A m \in Nat \ S : n <= m
  BY LeastExists
<1>2. n # 0
  OBVIOUS
<1>3. n - 1 \in Nat /\ ~(n <= n - 1)
  BY <1>2
<1>4. n - 1 \in S
  BY <1>1, <1>3
<1>5. (n - 1) + 1 = n
  OBVIOUS
<1> QED BY <1>3, <1>4, <1>5

-----------------------------------------------------------------------------
(* Recursive functions.                                                    *)

\* f is start followed by what the first N steps make of it.
Iterates(f, W, step, start, N) ==
  /\ f \in [0..N -> W] /\ f[0] = start
  /\ \A n \in 1..N : f[n] = step[n][f[n - 1]]

\* Functions can be applied one after the other.
LEMMA Iteration ==
  ASSUME NEW W, NEW N \in Nat, NEW step \in [1..N -> [W -> W]], NEW start \in W
  PROVE  \E f : Iterates(f, W, step, start, N)
<1> DEFINE S == {m \in Nat : m <= N => \E f : Iterates(f, W, step, start, m)}
<1>1. 0 \in S
  <2>1. Iterates([n \in 0..0 |-> start], W, step, start, 0)
    BY DEF Iterates
  <2> QED BY <2>1
<1>2. ASSUME NEW m \in Nat, m \in S
      PROVE  m + 1 \in S
  <2> SUFFICES ASSUME m + 1 <= N PROVE \E f : Iterates(f, W, step, start, m + 1)
    OBVIOUS
  <2>1. PICK f : Iterates(f, W, step, start, m)
    BY <1>2
  <2> DEFINE g == [n \in 0..(m + 1) |-> IF n <= m THEN f[n] ELSE step[m + 1][f[m]]]
  <2>2. g \in [0..(m + 1) -> W] /\ g[0] = start
    BY <2>1 DEF Iterates
  <2>3. ASSUME NEW n \in 1..(m + 1)
        PROVE  g[n] = step[n][g[n - 1]]
    <3>1. n - 1 \in 0..m /\ g[n - 1] = f[n - 1]
      OBVIOUS
    <3>2. CASE n = m + 1
      BY <3>1, <3>2
    <3>3. CASE n \in 1..m
      BY <3>1, <3>3, <2>1 DEF Iterates
    <3> QED BY <3>2, <3>3
  <2> HIDE DEF g
  <2>4. Iterates(g, W, step, start, m + 1)
    BY <2>2, <2>3 DEF Iterates
  <2> QED BY <2>4
<1>3. N \in S
  <2>1. \A m \in Nat : m \in S => m + 1 \in S
    BY <1>2
  <2> HIDE DEF S
  <2> QED BY <1>1, <2>1, Induction
<1> QED BY <1>3

-----------------------------------------------------------------------------
(* Division.                                                               *)

LEMMA Division ==
  ASSUME NEW m \in Nat \ {0}, NEW a \in Nat
  PROVE  /\ a \div m \in Nat /\ a % m \in 0..(m - 1)
         /\ a = m * (a \div m) + (a % m)
<1>1. a \div m \in Nat
  OBVIOUS
<1>2. a % m \in 0..(m - 1)
  OBVIOUS
<1>3. a = m * (a \div m) + (a % m)
  OBVIOUS
<1> QED BY <1>1, <1>2, <1>3

LEMMA MultipleAtLeast ==
  ASSUME NEW m \in Nat \ {0}, NEW x \in Int, x >= 1
  PROVE  m * x >= m
<1>1. m * (x - 1) >= 0
  <2>1. \A u, v \in Nat : u * v \in Nat
    OBVIOUS
  <2>2. x - 1 \in Nat
    OBVIOUS
  <2> QED BY <2>1, <2>2
<1>2. m * (x - 1) = m * x - m
  OBVIOUS
<1> QED BY <1>1, <1>2

\* A quotient and a remainder are the only ones.
LEMMA Quotient ==
  ASSUME NEW m \in Nat \ {0}, NEW q \in Nat, NEW r \in 0..(m - 1)
  PROVE  (m * q + r) \div m = q /\ (m * q + r) % m = r
<1> DEFINE a == m * q + r
           k == a \div m
           t == a % m
<1>1. a \in Nat
  <2>1. m * q \in Nat
    OBVIOUS
  <2> QED BY <2>1
<1>2. k \in Nat /\ t \in 0..(m - 1) /\ a = m * k + t
  <2> HIDE DEF a
  <2> QED BY <1>1, Division
<1>3. m * q + r = m * k + t
  BY <1>2
<1> HIDE DEF a, k, t
<1>4. m * (q - k) = t - r /\ m * (k - q) = r - t
  <2>1. m * (q - k) = m * q - m * k /\ m * (k - q) = m * k - m * q
    BY <1>2
  <2> QED BY <1>2, <1>3, <2>1
<1>5. ~(q - k >= 1)
  <2> SUFFICES ASSUME q - k >= 1 PROVE FALSE
    OBVIOUS
  <2>1. m * (q - k) >= m
    BY <1>2, MultipleAtLeast
  <2> QED BY <1>2, <1>4, <2>1
<1>6. ~(k - q >= 1)
  <2> SUFFICES ASSUME k - q >= 1 PROVE FALSE
    OBVIOUS
  <2>1. m * (k - q) >= m
    BY <1>2, MultipleAtLeast
  <2> QED BY <1>2, <1>4, <2>1
<1>7. k = q
  BY <1>2, <1>5, <1>6
<1>8. t = r
  BY <1>2, <1>3, <1>7
<1> QED BY <1>7, <1>8 DEF a, k, t

\* Sums and differences of multiples are multiples.
LEMMA Multiples ==
  ASSUME NEW m \in Nat \ {0}, NEW a \in Nat, NEW b \in Nat, a % m = 0, b % m = 0
  PROVE  /\ (a + b) % m = 0
         /\ a <= b => (b - a) % m = 0
<1> DEFINE x == a \div m
           y == b \div m
<1>1. x \in Nat /\ y \in Nat /\ a = m * x /\ b = m * y
  BY Division
<1> HIDE DEF x, y
<1>2. (a + b) % m = 0
  <2>1. a + b = m * (x + y) + 0 /\ x + y \in Nat
    BY <1>1
  <2> QED BY <2>1, Quotient, SMTT(30)
<1>3. ASSUME a <= b
      PROVE  (b - a) % m = 0
  <2>1. b - a = m * (y - x) + 0
    BY <1>1
  <2>2. ~(x - y >= 1)
    <3> SUFFICES ASSUME x - y >= 1 PROVE FALSE
      OBVIOUS
    <3>1. m * (x - y) >= m
      BY <1>1, MultipleAtLeast
    <3>2. m * (x - y) = a - b
      BY <1>1
    <3> QED BY <1>3, <3>1, <3>2
  <2>3. y - x \in Nat
    BY <1>1, <2>2
  <2> QED BY <2>1, <2>3, Quotient
<1> QED BY <1>2, <1>3

\* A multiple of a multiple.
LEMMA MultipleOfMultiple ==
  ASSUME NEW m \in Nat \ {0}, NEW n \in Nat \ {0}, NEW a \in Nat, n % m = 0, a % n = 0
  PROVE  a % m = 0
<1> DEFINE x == n \div m
           y == a \div n
<1>1. x \in Nat /\ y \in Nat /\ n = m * x /\ a = n * y
  BY Division
<1> HIDE DEF x, y
<1>2. a = m * (x * y) + 0 /\ x * y \in Nat
  <2>1. x * y \in Nat
    BY <1>1
  <2>2. m * (x * y) \in Nat
    BY <2>1
  <2>3. (m * x) * y = m * (x * y)
    BY <1>1
  <2> QED BY <1>1, <2>1, <2>2, <2>3
<1> QED
  <2>1. 0 \in 0..(m - 1)
    OBVIOUS
  <2>2. (m * (x * y) + 0) % m = 0
    BY <1>2, <2>1, Quotient, Zenon
  <2> QED BY <1>2, <2>2

\* Division by a product.
LEMMA DivisionTwice ==
  ASSUME NEW a \in Nat \ {0}, NEW b \in Nat \ {0}, NEW v \in Nat
  PROVE  b * a \in Nat \ {0} /\ v \div (b * a) = (v \div a) \div b
<1> DEFINE q == v \div a
           r == v % a
           k == q \div b
           t == q % b
<1>1. q \in Nat /\ r \in 0..(a - 1) /\ v = a * q + r
  BY Division
<1> HIDE DEF q, r
<1>2. k \in Nat /\ t \in 0..(b - 1) /\ q = b * k + t
  BY <1>1, Division
<1> HIDE DEF k, t
<1>3. a * t \in Nat /\ b * k \in Nat /\ b * a \in Nat /\ a * b = b * a
  <2>1. \A x, y \in Nat : x * y \in Nat /\ x * y = y * x
    OBVIOUS
  <2>2. t \in Nat
    BY <1>2
  <2> QED BY <1>2, <2>1, <2>2
<1>4. b * a >= a
  BY MultipleAtLeast, <1>3
<1>5. a * t + r \in 0..(b * a - 1)
  <2>1. a * (b - t) >= a
    BY <1>2, MultipleAtLeast
  <2>2. a * (b - t) = a * b - a * t
    BY <1>2
  <2> QED BY <1>1, <1>3, <2>1, <2>2
<1>6. v = (b * a) * k + (a * t + r)
  <2>1. a * (b * k + t) = a * (b * k) + a * t
    BY <1>2, <1>3
  <2>2. a * (b * k) = (b * a) * k
    BY <1>2
  <2>3. a * (b * k) \in Nat
    BY <1>3
  <2> QED BY <1>1, <1>2, <1>3, <2>1, <2>2, <2>3
<1>7. b * a \in Nat \ {0}
  BY <1>3, <1>4
<1> DEFINE m == b * a
           x == a * t + r
<1> HIDE DEF m, x
<1>8. m \in Nat \ {0} /\ x \in 0..(m - 1) /\ v = m * k + x
  BY <1>5, <1>6, <1>7 DEF m, x
<1>9. v \div m = k
  BY <1>2, <1>8, Quotient
<1> QED BY <1>7, <1>9 DEF m, k, q

-----------------------------------------------------------------------------
(* Folds, which take the elements of a sequence from the last to the first. *)

LEMMA MaxIs ==
  ASSUME NEW n \in Nat, NEW s, s \subseteq 1..n
  PROVE  /\ n \in s => Max(s) = n
         /\ s # {} => Max(s) \in s
<1>1. CASE n \in s
  <2>1. n \in s /\ \A y \in s : n >= y
    BY <1>1
  <2>2. ASSUME NEW x \in s, \A y \in s : x >= y
        PROVE  x = n
    BY <1>1, <2>2
  <2> QED BY <1>1, <2>1, <2>2 DEF Max
<1>2. CASE n \notin s /\ s # {}
  <2> DEFINE below == {n - x : x \in s}
  <2>1. below \subseteq Nat /\ below # {}
    BY <1>2
  <2>2. PICK m \in below : \A k \in below : m <= k
    <3> HIDE DEF below
    <3> QED BY <2>1, LeastExists
  <2>3. PICK x \in s : m = n - x
    OBVIOUS
  <2>4. ASSUME NEW y \in s
        PROVE  x >= y
    <3>1. n - y \in below
      OBVIOUS
    <3>2. n - x <= n - y
      BY <2>2, <2>3, <3>1
    <3> QED BY <3>2
  <2> QED BY <1>2, <2>4 DEF Max
<1> QED BY <1>1, <1>2

Folds(f, W, step, base, n) ==
  /\ f \in [SUBSET (1..n) -> W]
  /\ \A s \in SUBSET (1..n) :
       f[s] = IF s = {} THEN base ELSE step[Max(s)][f[s \ {Max(s)}]]

\* There is such a function.
LEMMA FoldExists ==
  ASSUME NEW W, NEW N \in Nat, NEW step \in [1..N -> [W -> W]], NEW base \in W
  PROVE  \E f : Folds(f, W, step, base, N)
<1> DEFINE S == {m \in Nat : m <= N => \E f : Folds(f, W, step, base, m)}
<1>1. 0 \in S
  <2>1. SUBSET (1..0) = {{}}
    OBVIOUS
  <2>2. Folds([s \in SUBSET (1..0) |-> base], W, step, base, 0)
    BY <2>1 DEF Folds
  <2> QED BY <2>2
<1>2. ASSUME NEW m \in Nat, m \in S
      PROVE  m + 1 \in S
  <2> SUFFICES ASSUME m + 1 <= N PROVE \E f : Folds(f, W, step, base, m + 1)
    OBVIOUS
  <2>1. PICK f : Folds(f, W, step, base, m)
    BY <1>2
  <2> DEFINE T == SUBSET (1..(m + 1))
             g == [s \in T |-> IF m + 1 \in s THEN step[m + 1][f[s \ {m + 1}]] ELSE f[s]]
  <2>2. \A s \in T : s \ {m + 1} \in SUBSET (1..m)
    OBVIOUS
  <2>3. m + 1 \in 1..N /\ step[m + 1] \in [W -> W]
    OBVIOUS
  <2>4. g \in [T -> W]
    <3>1. ASSUME NEW s \in T
          PROVE  (IF m + 1 \in s THEN step[m + 1][f[s \ {m + 1}]] ELSE f[s]) \in W
      <4>1. f[s \ {m + 1}] \in W
        BY <2>1, <2>2 DEF Folds
      <4>2. m + 1 \notin s => s = s \ {m + 1}
        OBVIOUS
      <4> QED BY <2>3, <4>1, <4>2
    <3> QED BY <3>1
  <2>5. ASSUME NEW s \in T
        PROVE  g[s] = IF s = {} THEN base ELSE step[Max(s)][g[s \ {Max(s)}]]
    <3>1. CASE m + 1 \in s
      <4>1. Max(s) = m + 1
        <5>1. m + 1 \in Nat /\ s \subseteq 1..(m + 1)
          OBVIOUS
        <5> QED BY <3>1, <5>1, MaxIs, Zenon
      <4>2. s \ {m + 1} \in T /\ g[s \ {m + 1}] = f[s \ {m + 1}]
        OBVIOUS
      <4> QED BY <3>1, <4>1, <4>2
    <3>2. CASE m + 1 \notin s
      <4>1. s \in SUBSET (1..m) /\ g[s] = f[s]
        BY <3>2
      <4>2. s \ {Max(s)} \in T /\ g[s \ {Max(s)}] = f[s \ {Max(s)}]
        BY <3>2
      <4> QED BY <2>1, <4>1, <4>2 DEF Folds
    <3> QED BY <3>1, <3>2
  <2> HIDE DEF g
  <2>6. Folds(g, W, step, base, m + 1)
    BY <2>4, <2>5 DEF Folds
  <2> QED BY <2>6
<1>3. N \in S
  <2>1. \A m \in Nat : m \in S => m + 1 \in S
    BY <1>2
  <2> HIDE DEF S
  <2> QED BY <1>1, <2>1, Induction
<1> QED BY <1>3

\* It goes through the sequence step by step.
LEMMA FoldSteps ==
  ASSUME NEW W, NEW N \in Nat, NEW step \in [1..N -> [W -> W]], NEW base \in W,
         NEW f, Folds(f, W, step, base, N)
  PROVE  Iterates([n \in 0..N |-> f[1..n]], W, step, base, N)
<1> DEFINE g == [n \in 0..N |-> f[1..n]]
<1>1. \A n \in 0..N : 1..n \in SUBSET (1..N)
  OBVIOUS
<1>2. g \in [0..N -> W]
  BY <1>1 DEF Folds
<1>3. g[0] = base
  <2>1. 1..0 = {} /\ 0 \in 0..N
    OBVIOUS
  <2>2. f[{}] = base
    BY DEF Folds
  <2> QED BY <2>1, <2>2
<1>4. ASSUME NEW n \in 1..N
      PROVE  g[n] = step[n][g[n - 1]]
  <2>1. /\ n \in Nat /\ n \in 0..N /\ n - 1 \in 0..N
        /\ n \in 1..n /\ 1..n # {} /\ (1..n) \ {n} = 1..(n - 1)
    OBVIOUS
  <2>2. Max(1..n) = n
    BY <2>1, MaxIs
  <2>3. f[1..n] = step[n][f[1..(n - 1)]]
    BY <1>1, <2>1, <2>2 DEF Folds
  <2> QED BY <2>1, <2>3
<1> QED BY <1>2, <1>3, <1>4 DEF Iterates

-----------------------------------------------------------------------------
(* Sequences.                                                              *)

\* Flattening joins the parts one after the other.
LEMMA FlattenIs ==
  ASSUME NEW T, NEW s, s \in Seq(Seq(T)), NEW joined, joined[0] = <<>>,
         \A n \in 1..Len(s) : joined[n] = joined[n - 1] \o s[n]
  PROVE  FlattenSeq(s) = joined[Len(s)]
<1>1. CASE Len(s) = 0
  <2>1. s = <<>>
    BY <1>1
  <2> QED BY <1>1, <2>1 DEF FlattenSeq
<1>2. CASE Len(s) # 0
  <2> DEFINE N == Len(s)
             body(f) == [i \in 1..N |-> IF i = 1 THEN s[i] ELSE f[i - 1] \o s[i]]
             flat == CHOOSE f : f = body(f)
             f0 == [i \in 1..N |-> joined[i]]
  <2>1. N \in Nat /\ N > 0 /\ 1 \in 1..N
    BY <1>2, LenProperties
  <2>10. s[1] \in Seq(T) /\ joined[1] = s[1]
    <3>1. s[1] \in Seq(T)
      BY <2>1, ElementOfSeq
    <3>2. joined[1] = <<>> \o s[1]
      <4>1. joined[1] = joined[1 - 1] \o s[1]
        BY <2>1, Zenon
      <4>2. 1 - 1 = 0
        OBVIOUS
      <4> QED BY <4>1, <4>2, Zenon
    <3>3. \A t \in Seq(T) : <<>> \o t = t
      OBVIOUS
    <3> QED BY <3>1, <3>2, <3>3
  <2>11. \A i \in 1..N : joined[i] = joined[i - 1] \o s[i]
    OBVIOUS
  <2> HIDE DEF N
  <2>2. f0 = body(f0)
    <3>1. ASSUME NEW i \in 1..N
          PROVE  f0[i] = IF i = 1 THEN s[i] ELSE f0[i - 1] \o s[i]
      <4>1. CASE i = 1
        BY <4>1, <2>10
      <4>2. CASE i # 1
        <5>1. i \in 1..N /\ i - 1 \in 1..N
          BY <4>2, <2>1
        <5> QED BY <4>2, <5>1, <2>11
      <4> QED BY <4>1, <4>2
    <3> QED BY <3>1
  <2>3. FlattenSeq(s) = flat[N]
    BY <1>2 DEF FlattenSeq, N
  <2>4. flat = body(flat)
    <3> HIDE DEF f0, body
    <3> QED BY <2>2
  <2> HIDE DEF flat
  <2>5. \A i \in 1..N : flat[i] = IF i = 1 THEN s[i] ELSE flat[i - 1] \o s[i]
    BY <2>4
  <2> DEFINE S == {n \in Nat : n \in 1..N => flat[n] = joined[n]}
  <2>6. 0 \in S
    BY <2>1
  <2>7. ASSUME NEW n \in Nat, n \in S
        PROVE  n + 1 \in S
    <3> SUFFICES ASSUME n + 1 \in 1..N PROVE flat[n + 1] = joined[n + 1]
      OBVIOUS
    <3>1. CASE n = 0
      BY <3>1, <2>1, <2>5, <2>10
    <3>2. CASE n # 0
      <4>1. n \in 1..N /\ n + 1 # 1 /\ (n + 1) - 1 = n
        BY <3>2, <2>1
      <4>2. flat[n + 1] = flat[n] \o s[n + 1]
        BY <2>5, <4>1
      <4>3. joined[n + 1] = joined[n] \o s[n + 1]
        BY <4>1, <2>11
      <4> QED BY <2>7, <4>1, <4>2, <4>3
    <3> QED BY <3>1, <3>2
  <2>8. N \in S
    <3>1. \A n \in Nat : n \in S => n + 1 \in S
      BY <2>7
    <3> HIDE DEF S
    <3> QED BY <2>1, <2>6, <3>1, Induction
  <2> QED BY <2>1, <2>3, <2>8 DEF N
<1> QED BY <1>1, <1>2

LEMMA FrontProperties ==
  ASSUME NEW T, NEW s \in Seq(T), s # <<>>
  PROVE  /\ Front(s) \in Seq(T) /\ Len(Front(s)) = Len(s) - 1
         /\ \A n \in 1..(Len(s) - 1) : Front(s)[n] = s[n]
<1> DEFINE N == Len(s)
<1>1. N \in Nat \ {0} /\ \A i \in 1..(N - 1) : s[i] \in T
  BY LenProperties, ElementOfSeq, EmptySeq
<1>2. Front(s) = SubSeq(s, 1, N - 1)
  BY DEF Front
<1> HIDE DEF N
<1>3. /\ SubSeq(s, 1, N - 1) \in Seq(T)
      /\ Len(SubSeq(s, 1, N - 1)) = IF 1 <= N - 1 THEN (N - 1) - 1 + 1 ELSE 0
      /\ \A i \in 1..((N - 1) - 1 + 1) : SubSeq(s, 1, N - 1)[i] = s[1 + i - 1]
  BY <1>1, SubSeqProperties
<1>4. Len(SubSeq(s, 1, N - 1)) = N - 1
  BY <1>1, <1>3
<1>5. \A i \in 1..(N - 1) : SubSeq(s, 1, N - 1)[i] = s[i]
  BY <1>1, <1>3
<1> QED BY <1>2, <1>3, <1>4, <1>5 DEF N

LEMMA LastType ==
  ASSUME NEW T, NEW s \in Seq(T), s # <<>>
  PROVE  Last(s) \in T
<1>1. Len(s) \in 1..Len(s)
  BY LenProperties, EmptySeq
<1> QED BY <1>1, ElementOfSeq DEF Last

LEMMA FlattenLast ==
  ASSUME NEW T, NEW s, s \in Seq(Seq(T))
  PROVE  /\ FlattenSeq(s) \in Seq(T)
         /\ s # <<>> => FlattenSeq(s) = FlattenSeq(Front(s)) \o Last(s)
<1> DEFINE N == Len(s)
           W == Seq(T)
           step == [n \in 1..N |-> [t \in W |-> t \o s[n]]]
<1>1. N \in Nat /\ (s # <<>> => N > 0) /\ \A n \in 1..N : s[n] \in W
  BY LenProperties, ElementOfSeq, EmptySeq
<1>2. \A t, u \in W : t \o u \in W
  BY ConcatProperties
<1>3. <<>> \in W /\ s \in Seq(W)
  OBVIOUS
<1> HIDE DEF W, N
<1>4. step \in [1..N -> [W -> W]]
  BY <1>1, <1>2
<1> HIDE DEF step
<1>5. PICK f : Iterates(f, W, step, <<>>, N)
  BY <1>1, <1>3, <1>4, Iteration
<1>6. f \in [0..N -> W] /\ f[0] = <<>>
  BY <1>5 DEF Iterates
<1>7. \A n \in 1..N : f[n] = f[n - 1] \o s[n]
  <2> TAKE n \in 1..N
  <2>1. f[n - 1] \in W
    BY <1>1, <1>6
  <2> QED BY <1>5, <2>1 DEF Iterates, step
<1>8. FlattenSeq(s) = f[N]
  BY <1>3, <1>6, <1>7, FlattenIs DEF N, W
<1>9. ASSUME s # <<>>
      PROVE  FlattenSeq(Front(s)) = f[N - 1]
  <2>1. /\ Front(s) \in Seq(W) /\ Len(Front(s)) = N - 1
        /\ \A n \in 1..(N - 1) : Front(s)[n] = s[n]
    BY <1>1, <1>3, <1>9, FrontProperties DEF N
  <2>2. ASSUME NEW n \in 1..Len(Front(s))
        PROVE  f[n] = f[n - 1] \o Front(s)[n]
    <3>1. n \in 1..N /\ Front(s)[n] = s[n]
      BY <1>1, <1>9, <2>1
    <3> QED BY <3>1, <1>7, Zenon
  <2> QED BY <2>1, <2>2, <1>6, FlattenIs DEF W
<1>10. f[N] \in W
  BY <1>1, <1>6
<1>11. ASSUME s # <<>>
       PROVE  f[N] = f[N - 1] \o s[N]
  <2>1. N \in 1..N
    BY <1>1, <1>11
  <2> QED BY <2>1, <1>7, Zenon
<1> QED BY <1>8, <1>9, <1>10, <1>11 DEF Last, N, W

\* What a joined sequence is made of.
LEMMA Joined ==
  ASSUME NEW T, NEW s \in Seq(T), NEW t \in Seq(T), NEW u, u = s \o t
  PROVE  /\ u \in Seq(T) /\ Len(u) = Len(s) + Len(t)
         /\ \A i \in 1..(Len(s) + Len(t)) : u[i] = IF i <= Len(s) THEN s[i] ELSE t[i - Len(s)]
<1>1. s \o t \in Seq(T) /\ Len(s \o t) = Len(s) + Len(t)
  BY ConcatProperties
<1>2. \A i \in 1..(Len(s) + Len(t)) :
        (s \o t)[i] = IF i <= Len(s) THEN s[i] ELSE t[i - Len(s)]
  BY ConcatProperties
<1> QED BY <1>1, <1>2

\* The front of a beginning is a beginning.
LEMMA SubSeqFront ==
  ASSUME NEW T, NEW s \in Seq(T), NEW n \in 1..Len(s)
  PROVE  /\ SubSeq(s, 1, n) \in Seq(T) /\ SubSeq(s, 1, n) # <<>>
         /\ Front(SubSeq(s, 1, n)) = SubSeq(s, 1, n - 1)
<1>1. n \in Nat \ {0} /\ \A i \in 1..n : s[i] \in T
  <2>1. \A i \in 1..n : i \in 1..Len(s)
    BY LenProperties
  <2> QED BY <2>1, LenProperties, ElementOfSeq
<1> DEFINE u == SubSeq(s, 1, n)
           v == SubSeq(s, 1, n - 1)
<1>2. /\ u \in Seq(T) /\ Len(u) = IF 1 <= n THEN n - 1 + 1 ELSE 0
      /\ \A i \in 1..(n - 1 + 1) : u[i] = s[1 + i - 1]
  BY <1>1, SubSeqProperties
<1>3. Len(u) = n /\ \A i \in 1..n : u[i] = s[i]
  BY <1>1, <1>2
<1>4. u # <<>>
  BY <1>1, <1>3
<1>5. /\ v \in Seq(T) /\ Len(v) = IF 1 <= n - 1 THEN (n - 1) - 1 + 1 ELSE 0
      /\ \A i \in 1..((n - 1) - 1 + 1) : v[i] = s[1 + i - 1]
  <2>1. \A i \in 1..(n - 1) : s[i] \in T
    BY <1>1
  <2> QED BY <1>1, <2>1, SubSeqProperties
<1>6. Len(v) = n - 1 /\ \A i \in 1..(n - 1) : v[i] = s[i]
  BY <1>1, <1>5
<1> HIDE DEF u, v
<1>7. /\ Front(u) \in Seq(T) /\ Len(Front(u)) = n - 1
      /\ \A i \in 1..(n - 1) : Front(u)[i] = u[i]
  BY <1>2, <1>3, <1>4, FrontProperties
<1>8. \A i \in 1..(n - 1) : Front(u)[i] = v[i]
  BY <1>1, <1>3, <1>6, <1>7
<1>9. Front(u) = v
  BY <1>5, <1>6, <1>7, <1>8, SeqEqual
<1> QED BY <1>2, <1>4, <1>9 DEF u, v

\* What begins a sequence begins it still when something is appended.
LEMMA PrefixAppend ==
  ASSUME NEW T, NEW s \in Seq(T), NEW t \in Seq(T), NEW x \in T, IsPrefix(s, t)
  PROVE  IsPrefix(s, Append(t, x))
<1> DEFINE n == Len(s)
           u == Append(t, x)
<1>1. n \in Nat /\ n <= Len(t) /\ SubSeq(s, 1, n) = SubSeq(t, 1, n)
  BY LenProperties DEF IsPrefix
<1>2. /\ u \in Seq(T) /\ Len(u) = Len(t) + 1 /\ Len(t) \in Nat
      /\ \A i \in 1..Len(t) : u[i] = t[i]
  BY AppendProperties, LenProperties
<1>3. /\ \A i \in 1..n : t[i] \in T
      /\ \A i \in 1..n : u[i] = t[i] /\ u[i] \in T
  <2>1. \A i \in 1..n : i \in 1..Len(t)
    BY <1>1, <1>2
  <2> QED BY <1>2, <2>1, ElementOfSeq
<1> HIDE DEF n, u
<1>4. /\ SubSeq(u, 1, n) \in Seq(T) /\ Len(SubSeq(u, 1, n)) = IF 1 <= n THEN n - 1 + 1 ELSE 0
      /\ \A i \in 1..(n - 1 + 1) : SubSeq(u, 1, n)[i] = u[1 + i - 1]
  BY <1>1, <1>3, SubSeqProperties
<1>5. /\ SubSeq(t, 1, n) \in Seq(T) /\ Len(SubSeq(t, 1, n)) = IF 1 <= n THEN n - 1 + 1 ELSE 0
      /\ \A i \in 1..(n - 1 + 1) : SubSeq(t, 1, n)[i] = t[1 + i - 1]
  BY <1>1, <1>3, SubSeqProperties
<1>6. \A i \in 1..n : SubSeq(u, 1, n)[i] = SubSeq(t, 1, n)[i]
  BY <1>1, <1>3, <1>4, <1>5
<1>7. Len(SubSeq(u, 1, n)) = n /\ Len(SubSeq(t, 1, n)) = n
  BY <1>1, <1>4, <1>5
<1>8. SubSeq(u, 1, n) = SubSeq(t, 1, n)
  BY <1>4, <1>5, <1>6, <1>7, SeqEqual
<1> QED BY <1>1, <1>2, <1>8 DEF IsPrefix, n, u
=============================================================================
