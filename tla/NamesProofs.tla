----------------------------- MODULE NamesProofs -----------------------------
(***************************************************************************)
(* What a header keeps of the paths that are set in it.                    *)
(***************************************************************************)
EXTENDS Names, NaturalFacts

-----------------------------------------------------------------------------
(* Sums.                                                                   *)

\* f has the sums of the first numbers of s.
Adds(f, s) ==
  /\ f \in [0..Len(s) -> Int] /\ f[0] = 0
  /\ \A n \in 1..Len(s) : f[n] = f[n - 1] + s[n]

LEMMA SumIs ==
  ASSUME NEW s \in Seq(Int)
  PROVE  \E f : Adds(f, s) /\ Sum(s) = f[Len(s)]
<1> DEFINE N == Len(s)
           T == SUBSET (1..N)
           body(g) == [S \in T |-> IF S = {} THEN 0 ELSE g[S \ {Max(S)}] + s[Max(S)]]
           iter == CHOOSE g : g = body(g)
           step == [i \in 1..N |-> [t \in Int |-> t + s[i]]]
<1>1. N \in Nat /\ DOMAIN s = 1..N /\ (\A i \in 1..N : s[i] \in Int) /\ 0 \in Int
  BY LenProperties, ElementOfSeq
<1>2. Sum(s) = iter[1..N]
  BY <1>1 DEF Sum, FoldLeft, MapThenFoldSet, Max
<1> HIDE DEF N
<1>3. step \in [1..N -> [Int -> Int]]
  BY <1>1
<1>4. \A S \in T : S # {} => Max(S) \in 1..N /\ S \ {Max(S)} \in T
  <2> TAKE S \in T
  <2>1. S \subseteq 1..N
    OBVIOUS
  <2> HAVE S # {}
  <2>2. Max(S) \in S
    BY <1>1, <2>1, MaxIs, Zenon
  <2> QED BY <2>1, <2>2
<1>5. PICK g : Folds(g, Int, step, 0, N)
  <2> HIDE DEF step
  <2> QED BY <1>1, <1>3, FoldExists
<1>6. g = body(g)
  <2>1. ASSUME NEW S \in T
        PROVE  g[S] = IF S = {} THEN 0 ELSE g[S \ {Max(S)}] + s[Max(S)]
    BY <1>4, <1>5 DEF Folds
  <2> QED BY <1>5, <2>1 DEF Folds
<1>7. iter = body(iter)
  <2> HIDE DEF body
  <2> QED BY <1>6
<1> HIDE DEF iter
<1>8. \A S \in T : iter[S] = IF S = {} THEN 0 ELSE iter[S \ {Max(S)}] + s[Max(S)]
  BY <1>7
<1> DEFINE f == [n \in 0..N |-> iter[1..n]]
<1>9. f[0] = 0
  <2>1. 1..0 = {} /\ {} \in T /\ 0 \in 0..N
    BY <1>1
  <2> QED BY <1>8, <2>1
<1>10. ASSUME NEW n \in 1..N
       PROVE  f[n] = f[n - 1] + s[n]
  <2>1. n \in Nat /\ n \in 0..N /\ n - 1 \in 0..N /\ n \in 1..n
    BY <1>1
  <2>4. 1..n \in T
    BY <1>1
  <2>5. (1..n) \ {n} = 1..(n - 1)
    BY <2>1
  <2>2. Max(1..n) = n
    BY <2>1, MaxIs
  <2>3. iter[1..n] = iter[1..(n - 1)] + s[n]
    BY <1>8, <2>1, <2>2, <2>4, <2>5
  <2> QED BY <2>1, <2>3
<1>11. \A n \in 0..N : f[n] \in Int
  <2> DEFINE S == {n \in Nat : n <= N => f[n] \in Int}
  <2>1. 0 \in S
    BY <1>9
  <2>2. ASSUME NEW n \in Nat, n \in S
        PROVE  n + 1 \in S
    <3> SUFFICES ASSUME n + 1 <= N PROVE f[n + 1] \in Int
      OBVIOUS
    <3>1. n + 1 \in 1..N /\ (n + 1) - 1 = n /\ n <= N
      BY <1>1
    <3> HIDE DEF f
    <3> QED BY <1>1, <1>10, <2>2, <3>1
  <2>3. Nat \subseteq S
    <3>1. \A n \in Nat : n \in S => n + 1 \in S
      BY <2>2
    <3> HIDE DEF S
    <3> QED BY <2>1, <3>1, Induction
  <2>4. \A n \in 0..N : n \in S /\ n <= N
    <3> HIDE DEF S
    <3> QED BY <1>1, <2>3
  <2> HIDE DEF f
  <2> QED BY <2>4
<1>12. f \in [0..N -> Int] /\ f[N] = Sum(s)
  <2>1. N \in 0..N
    BY <1>1
  <2>2. f[N] = iter[1..N]
    BY <2>1
  <2>3. f = [n \in 0..N |-> f[n]]
    OBVIOUS
  <2> HIDE DEF f
  <2>4. f \in [0..N -> Int]
    BY <1>11, <2>3
  <2> QED BY <1>2, <2>2, <2>4
<1> HIDE DEF f
<1>13. Adds(f, s)
  BY <1>9, <1>10, <1>12 DEF Adds, N
<1> QED BY <1>12, <1>13 DEF N

\* Two such functions agree as far as their numbers do.
LEMMA AddsAgree ==
  ASSUME NEW s \in Seq(Int), NEW t \in Seq(Int), NEW f, NEW g, Adds(f, s), Adds(g, t),
         NEW n \in 0..Len(s), n <= Len(t), \A i \in 1..n : s[i] = t[i]
  PROVE  f[n] = g[n]
<1> DEFINE S == {m \in Nat : m <= n => f[m] = g[m]}
<1>1. Len(s) \in Nat /\ Len(t) \in Nat /\ n \in Nat /\ n <= Len(s)
  BY LenProperties
<1>2. 0 \in S
  BY DEF Adds
<1>3. ASSUME NEW m \in Nat, m \in S
      PROVE  m + 1 \in S
  <2> SUFFICES ASSUME m + 1 <= n PROVE f[m + 1] = g[m + 1]
    OBVIOUS
  <2>1. /\ m + 1 \in 1..Len(s) /\ m + 1 \in 1..Len(t) /\ m + 1 \in 1..n /\ (m + 1) - 1 = m
        /\ m <= n
    BY <1>1
  <2>2. f[m + 1] = f[m] + s[m + 1] /\ g[m + 1] = g[m] + t[m + 1]
    BY <2>1 DEF Adds
  <2> QED BY <1>3, <2>1, <2>2
<1>4. Nat \subseteq S
  <2>1. \A m \in Nat : m \in S => m + 1 \in S
    BY <1>3
  <2> HIDE DEF S
  <2> QED BY <1>2, <2>1, Induction
<1> QED BY <1>1, <1>4

LEMMA SumOfNone == Sum(<<>>) = 0
<1>1. <<>> \in Seq(Int) /\ Len(<<>>) = 0
  OBVIOUS
<1> QED BY <1>1, SumIs DEF Adds

LEMMA SumLast ==
  ASSUME NEW s \in Seq(Int), NEW x \in Int
  PROVE  Sum(Append(s, x)) = Sum(s) + x
<1> DEFINE t == Append(s, x)
           N == Len(s)
<1>1. /\ t \in Seq(Int) /\ N \in Nat /\ Len(t) = N + 1 /\ t[N + 1] = x
      /\ \A i \in 1..N : s[i] = t[i]
  OBVIOUS
<1> HIDE DEF t, N
<1>2. PICK f : Adds(f, s) /\ Sum(s) = f[N]
  BY SumIs DEF N
<1>3. PICK g : Adds(g, t) /\ Sum(t) = g[N + 1]
  BY <1>1, SumIs
<1>4. f[N] = g[N]
  <2>1. N \in 0..Len(s) /\ N <= Len(t)
    BY <1>1 DEF N
  <2>2. Adds(f, s) /\ Adds(g, t) /\ t \in Seq(Int) /\ \A i \in 1..N : s[i] = t[i]
    BY <1>1, <1>2, <1>3
  <2> HIDE DEF Adds
  <2> QED BY <2>1, <2>2, AddsAgree
<1>5. N + 1 \in 1..Len(t) /\ (N + 1) - 1 = N
  BY <1>1
<1>6. g[N + 1] = g[N] + x
  BY <1>1, <1>3, <1>5 DEF Adds
<1> QED BY <1>2, <1>3, <1>4, <1>6 DEF t

LEMMA SumType ==
  ASSUME NEW s \in Seq(Nat)
  PROVE  Sum(s) \in Nat /\ \A i \in 1..Len(s) : s[i] <= Sum(s)
<1> DEFINE N == Len(s)
<1>1. s \in Seq(Int) /\ N \in Nat /\ \A i \in 1..N : s[i] \in Nat
  OBVIOUS
<1>2. PICK f : Adds(f, s) /\ Sum(s) = f[N]
  BY <1>1, SumIs
<1> HIDE DEF N
<1> DEFINE S == {n \in Nat : n <= N => f[n] \in Nat /\ \A i \in 1..n : s[i] <= f[n]}
<1>3. 0 \in S
  BY <1>2 DEF Adds
<1>4. ASSUME NEW n \in Nat, n \in S
      PROVE  n + 1 \in S
  <2> SUFFICES ASSUME n + 1 <= N
               PROVE  f[n + 1] \in Nat /\ \A i \in 1..(n + 1) : s[i] <= f[n + 1]
    OBVIOUS
  <2>1. n + 1 \in 1..N /\ (n + 1) - 1 = n /\ n <= N
    BY <1>1
  <2>2. f[n + 1] = f[n] + s[n + 1] /\ f[n] \in Nat /\ s[n + 1] \in Nat
    BY <1>1, <1>2, <1>4, <2>1 DEF Adds, N
  <2>3. ASSUME NEW i \in 1..(n + 1)
        PROVE  s[i] <= f[n + 1]
    <3>1. CASE i = n + 1
      BY <2>2, <3>1
    <3>2. CASE i \in 1..n
      <4>1. s[i] <= f[n] /\ s[i] \in Nat
        BY <1>1, <1>4, <2>1, <3>2
      <4> QED BY <2>2, <4>1
    <3> QED BY <3>1, <3>2
  <2> QED BY <2>2, <2>3
<1>5. N \in S
  <2>1. \A n \in Nat : n \in S => n + 1 \in S
    BY <1>4
  <2> HIDE DEF S
  <2> QED BY <1>1, <1>3, <2>1, Induction
<1> QED BY <1>1, <1>2, <1>5 DEF N

\* A set that holds the empty sequence, and with a sequence every longer one, holds them all.
LEMMA Sequences ==
  ASSUME NEW T, NEW G, <<>> \in G, \A s \in Seq(T), e \in T : s \in G => Append(s, e) \in G
  PROVE  Seq(T) \subseteq G
<1> DEFINE S == {n \in Nat : \A s \in Seq(T) : Len(s) = n => s \in G}
<1>1. 0 \in S
  <2>1. \A s \in Seq(T) : Len(s) = 0 => s = <<>>
    BY EmptySeq
  <2> QED BY <2>1
<1>2. ASSUME NEW n \in Nat, n \in S
      PROVE  n + 1 \in S
  <2> SUFFICES ASSUME NEW s \in Seq(T), Len(s) = n + 1 PROVE s \in G
    OBVIOUS
  <2>1. s # <<>>
    BY EmptySeq
  <2>2. PICK t \in Seq(T), e \in T : s = Append(t, e)
    BY <2>1, SequenceEmptyOrAppend
  <2>3. Len(t) + 1 = n + 1 /\ Len(t) \in Nat
    BY <2>2, AppendProperties, LenProperties
  <2>4. t \in G
    BY <1>2, <2>3
  <2> QED BY <2>2, <2>4
<1>3. Nat \subseteq S
  <2>1. \A n \in Nat : n \in S => n + 1 \in S
    BY <1>2
  <2> HIDE DEF S
  <2> QED BY <1>1, <2>1, Induction
<1> QED BY <1>3, LenProperties

-----------------------------------------------------------------------------
(* Components.                                                             *)

LEMMA WithoutNone == Without(<<>>) = <<>>
BY DEF Without, FlattenSeq

\* Components are kept or dropped one by one.
LEMMA WithoutLast ==
  ASSUME NEW T, NEW s \in Seq(T), NEW x \in T
  PROVE  /\ Without(s) \in Seq(T)
         /\ Without(Append(s, x)) = IF IsCur(x) THEN Without(s) ELSE Append(Without(s), x)
<1> DEFINE kept(parts) == [i \in DOMAIN parts |-> IF IsCur(parts[i]) THEN <<>> ELSE <<parts[i]>>]
<1>1. ASSUME NEW t \in Seq(T)
      PROVE  kept(t) \in Seq(Seq(T)) /\ Len(kept(t)) = Len(t) /\ Without(t) = FlattenSeq(kept(t))
  <2>1. Len(t) \in Nat /\ DOMAIN t = 1..Len(t) /\ \A i \in 1..Len(t) : t[i] \in T
    BY LenProperties, ElementOfSeq
  <2>2. \A i \in 1..Len(t) : (IF IsCur(t[i]) THEN <<>> ELSE <<t[i]>>) \in Seq(T)
    BY <2>1
  <2>3. kept(t) \in [1..Len(t) -> Seq(T)]
    BY <2>1, <2>2
  <2>4. kept(t) \in Seq(Seq(T)) /\ Len(kept(t)) = Len(t)
    <3> HIDE DEF kept
    <3> QED BY <2>1, <2>3
  <2> QED BY <2>4 DEF Without
<1> DEFINE u == Append(s, x)
<1>2. /\ u \in Seq(T) /\ Len(u) = Len(s) + 1 /\ u[Len(s) + 1] = x /\ Len(s) \in Nat
      /\ DOMAIN u = 1..(Len(s) + 1) /\ DOMAIN s = 1..Len(s)
      /\ \A i \in 1..Len(s) : u[i] = s[i]
  <2>1. /\ u \in Seq(T) /\ Len(u) = Len(s) + 1 /\ u[Len(s) + 1] = x /\ Len(s) \in Nat
        /\ DOMAIN s = 1..Len(s) /\ \A i \in 1..Len(s) : u[i] = s[i]
    BY AppendProperties, LenProperties
  <2>2. DOMAIN u = 1..Len(u)
    BY <2>1, LenProperties
  <2> QED BY <2>1, <2>2
<1>3. kept(u)[Len(s) + 1] = IF IsCur(x) THEN <<>> ELSE <<x>>
  BY <1>2
<1>4. \A i \in 1..Len(s) : kept(u)[i] = kept(s)[i]
  BY <1>2
<1> HIDE DEF u
<1>5. /\ kept(u) \in Seq(Seq(T)) /\ Len(kept(u)) = Len(s) + 1 /\ Without(u) = FlattenSeq(kept(u))
      /\ kept(s) \in Seq(Seq(T)) /\ Len(kept(s)) = Len(s) /\ Without(s) = FlattenSeq(kept(s))
  BY <1>1, <1>2
<1> HIDE DEF kept
<1>6. kept(u) # <<>>
  BY <1>2, <1>5, EmptySeq
<1>7. Front(kept(u)) = kept(s)
  <2>1. /\ Front(kept(u)) \in Seq(Seq(T)) /\ Len(Front(kept(u))) = Len(s)
        /\ \A i \in 1..Len(s) : Front(kept(u))[i] = kept(s)[i]
    <3>1. Len(kept(u)) - 1 = Len(s)
      BY <1>2, <1>5
    <3> QED BY <1>4, <1>5, <1>6, <3>1, FrontProperties
  <2> QED BY <1>5, <2>1, SeqEqual
<1>8. Last(kept(u)) = IF IsCur(x) THEN <<>> ELSE <<x>>
  BY <1>3, <1>5 DEF Last
<1>9. Without(s) \in Seq(T)
  BY <1>5, FlattenLast
<1>10. Without(u) = Without(s) \o Last(kept(u))
  BY <1>5, <1>6, <1>7, FlattenLast
<1>11. CASE IsCur(x)
  BY <1>8, <1>9, <1>10, <1>11, ConcatEmptySeq DEF u
<1>12. CASE ~IsCur(x)
  BY <1>8, <1>9, <1>10, <1>12, AppendIsConcat DEF u
<1> QED BY <1>9, <1>11, <1>12

LEMMA WithoutTwice ==
  ASSUME NEW T, NEW t \in Seq(T)
  PROVE  Without(t) \in Seq(T) /\ Without(Without(t)) = Without(t)
<1> DEFINE G == {u \in Seq(T) : Without(u) \in Seq(T) /\ Without(Without(u)) = Without(u)}
<1>1. <<>> \in G
  <2>1. <<>> \in Seq(T)
    OBVIOUS
  <2> QED BY <2>1, WithoutNone, Zenon
<1>2. ASSUME NEW u \in Seq(T), NEW e \in T, u \in G
      PROVE  Append(u, e) \in G
  <2>1. Append(u, e) \in Seq(T) /\ Without(u) \in Seq(T) /\ Without(Without(u)) = Without(u)
    BY <1>2, AppendProperties
  <2>2. Without(Append(u, e)) = IF IsCur(e) THEN Without(u) ELSE Append(Without(u), e)
    BY WithoutLast
  <2>3. ~IsCur(e) => Without(Append(Without(u), e)) = Append(Without(u), e)
    BY <2>1, WithoutLast
  <2>4. Append(Without(u), e) \in Seq(T)
    BY <2>1, AppendProperties
  <2> QED BY <2>1, <2>2, <2>3, <2>4
<1>3. Seq(T) \subseteq G
  <2>1. \A u \in Seq(T), e \in T : u \in G => Append(u, e) \in G
    BY <1>2
  <2> HIDE DEF G
  <2> QED BY <1>1, <2>1, Sequences
<1> QED BY <1>3

LEMMA JoinLast ==
  ASSUME NEW T, NEW s \in Seq(T), NEW t \in Seq(T), NEW e \in T
  PROVE  s \o Append(t, e) = Append(s \o t, e)
<1> DEFINE u == <<e>>
<1>1. u \in Seq(T)
  OBVIOUS
<1>2. Append(t, e) = t \o u /\ s \o t \in Seq(T)
  BY AppendIsConcat, ConcatProperties, Zenon
<1>3. Append(s \o t, e) = (s \o t) \o u
  BY <1>2, AppendIsConcat, Zenon
<1> HIDE DEF u
<1>4. (s \o t) \o u = s \o (t \o u)
  BY <1>1, ConcatAssociative
<1> QED BY <1>2, <1>3, <1>4, Zenon

LEMMA WithoutJoin ==
  ASSUME NEW T, NEW s \in Seq(T), NEW t \in Seq(T)
  PROVE  Without(s \o t) = Without(s) \o Without(t)
<1> DEFINE G == {u \in Seq(T) : Without(s \o u) = Without(s) \o Without(u)}
<1>0. Without(s) \in Seq(T)
  BY WithoutTwice
<1>1. <<>> \in G
  BY <1>0, WithoutNone, ConcatEmptySeq
<1>2. ASSUME NEW u \in Seq(T), NEW e \in T, u \in G
      PROVE  Append(u, e) \in G
  <2>1. /\ Append(u, e) \in Seq(T) /\ s \o u \in Seq(T)
        /\ Without(u) \in Seq(T) /\ Without(s \o u) \in Seq(T)
    BY WithoutLast, ConcatProperties, AppendProperties
  <2>2. \A v, w \in Seq(T) : v \o Append(w, e) = Append(v \o w, e)
    BY JoinLast
  <2>3. Without(s \o Append(u, e))
          = IF IsCur(e) THEN Without(s \o u) ELSE Append(Without(s \o u), e)
    BY <2>1, <2>2, WithoutLast
  <2>4. Without(Append(u, e)) = IF IsCur(e) THEN Without(u) ELSE Append(Without(u), e)
    BY WithoutLast
  <2>5. Without(s \o u) = Without(s) \o Without(u)
    BY <1>2
  <2>6. Without(s) \o Append(Without(u), e) = Append(Without(s) \o Without(u), e)
    BY <1>0, <2>1, <2>2
  <2> QED BY <2>1, <2>3, <2>4, <2>5, <2>6
<1>3. Seq(T) \subseteq G
  <2>1. \A u \in Seq(T), e \in T : u \in G => Append(u, e) \in G
    BY <1>2
  <2> HIDE DEF G
  <2> QED BY <1>1, <2>1, Sequences
<1> QED BY <1>3

-----------------------------------------------------------------------------
(* Lengths.                                                                *)

LEMMA SumInt ==
  ASSUME NEW s \in Seq(Int)
  PROVE  Sum(s) \in Int
<1>1. PICK f : Adds(f, s) /\ Sum(s) = f[Len(s)]
  BY SumIs
<1>2. Len(s) \in 0..Len(s)
  BY LenProperties
<1> QED BY <1>1, <1>2 DEF Adds

\* A function on 1..n is a sequence of length n.
LEMMA FunctionIsSequence ==
  ASSUME NEW T, NEW n \in Nat, NEW s \in [1..n -> T]
  PROVE  s \in Seq(T) /\ Len(s) = n
OBVIOUS

LEMMA PathFields ==
  ASSUME NEW path \in Path
  PROVE  /\ path.root \in BOOLEAN /\ path.slash \in BOOLEAN /\ path.parts \in Seq(Part)
         /\ path = [root |-> path.root, parts |-> path.parts, slash |-> path.slash]
         /\ Len(path.parts) \in Nat /\ DOMAIN path.parts = 1..Len(path.parts)
         /\ \A i \in 1..Len(path.parts) :
              /\ path.parts[i] \in Part /\ 1 <= path.parts[i].from
              /\ path.parts[i].from \in Nat /\ path.parts[i].to \in Nat
              /\ path.parts[i].from <= path.parts[i].to
         /\ path.slash => path.parts # <<>>
<1>1. /\ path \in [root : BOOLEAN, parts : Seq(Part), slash : BOOLEAN]
      /\ \A i \in DOMAIN path.parts : 1 <= path.parts[i].from /\ path.parts[i].from <= path.parts[i].to
      /\ path.slash => path.parts # <<>>
  BY DEF Path
<1>2. path.parts \in Seq(Part)
  BY <1>1
<1>3. /\ Len(path.parts) \in Nat /\ DOMAIN path.parts = 1..Len(path.parts)
      /\ \A i \in 1..Len(path.parts) : path.parts[i] \in Part
  BY <1>2, LenProperties, ElementOfSeq
<1>4. \A p \in Part : p.from \in Nat /\ p.to \in Nat
  BY DEF Part
<1> QED BY <1>1, <1>2, <1>3, <1>4

\* How far the first components reach.
LEMMA OffsetType ==
  ASSUME NEW path \in Path, NEW i \in 1..(Len(path.parts) + 1)
  PROVE  /\ Offset(path, i) \in Nat
         /\ path.root => Offset(path, i) >= 1
         /\ i > 1 => Offset(path, i) >= 2
<1> DEFINE s == [j \in 1..(i - 1) |-> path.parts[j].to - path.parts[j].from + 2]
<1>1. \A j \in 1..(i - 1) : j \in 1..Len(path.parts)
  BY PathFields
<1>2. \A j \in 1..(i - 1) : s[j] \in Nat /\ s[j] >= 2
  BY <1>1, PathFields
<1>3. i - 1 \in Nat /\ s \in [1..(i - 1) -> Nat]
  BY <1>2, PathFields
<1>4. Offset(path, i) = Bit(path.root) + Sum(s)
  BY DEF Offset
<1> HIDE DEF s
<1>5. s \in Seq(Nat) /\ Len(s) = i - 1
  BY <1>3, FunctionIsSequence
<1>6. Sum(s) \in Nat /\ \A j \in 1..(i - 1) : s[j] <= Sum(s)
  BY <1>5, SumType
<1>7. i > 1 => Sum(s) >= 2
  <2> HAVE i > 1
  <2>1. 1 \in 1..(i - 1)
    OBVIOUS
  <2>2. s[1] >= 2 /\ s[1] <= Sum(s) /\ s[1] \in Nat
    BY <1>2, <1>6, <2>1
  <2> QED BY <1>6, <2>2
<1>8. Bit(path.root) \in {0, 1} /\ (path.root => Bit(path.root) = 1)
  BY DEF Bit
<1> QED BY <1>4, <1>6, <1>7, <1>8

LEMMA LengthType ==
  ASSUME NEW path \in Path
  PROVE  /\ Length(path) \in Nat
         /\ path.parts = <<>> => Length(path) = Bit(path.root) /\ Length(path) <= 1
<1> DEFINE n == Len(path.parts)
<1>1. n \in Nat /\ (n = 0 <=> path.parts = <<>>) /\ (path.slash => n # 0)
  BY PathFields, EmptySeq
<1>2. Bit(path.slash) \in {0, 1} /\ Bit(path.root) \in {0, 1}
  BY DEF Bit
<1>3. CASE n = 0
  BY <1>1, <1>2, <1>3 DEF Length, Bit
<1>4. CASE n # 0
  <2>1. n + 1 \in 1..(n + 1) /\ n + 1 > 1
    BY <1>1, <1>4
  <2>2. Offset(path, n + 1) \in Nat /\ Offset(path, n + 1) >= 2
    BY <2>1, OffsetType
  <2> QED BY <1>1, <1>2, <1>4, <2>2 DEF Length
<1> QED BY <1>3, <1>4

LEMMA EmptyLength == Length(NoPath) = 0
BY DEF Length, NoPath, Bit

LEMMA TornLength == Length(Torn) = 1
<1> DEFINE part == [name |-> "torn", from |-> 1, to |-> 1]
           s == [j \in 1..(2 - 1) |-> Torn.parts[j].to - Torn.parts[j].from + 2]
<1>1. Torn.parts = <<part>> /\ Torn.root = FALSE /\ Torn.slash = FALSE
  BY DEF Torn
<1>2. s = Append(<<>>, 2)
  <2>1. 1..(2 - 1) = 1..1 /\ \A j \in 1..1 : s[j] = 2
    BY <1>1
  <2>2. s \in Seq(Int) /\ Len(s) = 1
    <3>1. s \in [1..1 -> Int]
      BY <2>1
    <3> HIDE DEF s
    <3> QED BY <3>1, FunctionIsSequence
  <2>3. Append(<<>>, 2) \in Seq(Int) /\ Len(Append(<<>>, 2)) = 1 /\ Append(<<>>, 2)[1] = 2
    OBVIOUS
  <2> HIDE DEF s
  <2>4. \A j \in 1..1 : s[j] = Append(<<>>, 2)[j]
    BY <2>1, <2>3
  <2> QED BY <2>2, <2>3, <2>4, SeqEqual
<1>3. Sum(s) = 2
  <2> HIDE DEF s
  <2>1. <<>> \in Seq(Int) /\ 2 \in Int
    OBVIOUS
  <2>2. Sum(Append(<<>>, 2)) = Sum(<<>>) + 2
    BY <2>1, SumLast
  <2> QED BY <1>2, <2>2, SumOfNone
<1>4. Offset(Torn, 2) = Bit(FALSE) + Sum(s)
  BY <1>1 DEF Offset
<1>5. Len(Torn.parts) = 1
  BY <1>1
<1> HIDE DEF s
<1> QED BY <1>1, <1>3, <1>4, <1>5 DEF Length, Bit

-----------------------------------------------------------------------------
(* What is written of a path.                                              *)

Fields == {"root", "parts", "slash"}

\* Paths that agree but for "." components and the final slash are read alike.
LEMMA CleanIs ==
  ASSUME NEW p, DOMAIN p = Fields, p = [f \in Fields |-> p[f]],
         NEW q, DOMAIN q = Fields, q = [f \in Fields |-> q[f]],
         p.root = q.root, Without(p.parts) = Without(q.parts)
  PROVE  Clean(p) = Clean(q)
<1> DEFINE c(x) == [f \in Fields |-> CASE f = "parts" -> Without(x.parts)
                                       [] f = "slash" -> FALSE
                                       [] f = "root"  -> x.root]
<1>1. ASSUME NEW x, DOMAIN x = Fields
      PROVE  Clean(x) = c(x)
  BY <1>1 DEF Clean, Fields
<1>2. \A f \in Fields : c(p)[f] = c(q)[f]
  BY DEF Fields
<1>3. c(p) = c(q)
  BY <1>2
<1> HIDE DEF c
<1> QED BY <1>1, <1>3

\* Components only drops ".".
LEMMA ComponentsKept ==
  ASSUME NEW T, NEW path, path.parts \in Seq(T)
  PROVE  /\ Components(path) \in Seq(T)
         /\ Without(Components(path)) = Without(path.parts)
<1> DEFINE s == path.parts
<1>1. CASE s # <<>> /\ IsCur(Head(s)) /\ ~path.root
  <2>1. /\ Head(s) \in T /\ Tail(s) \in Seq(T) /\ <<Head(s)>> \in Seq(T)
        /\ s = <<Head(s)>> \o Tail(s)
    <3>1. Head(s) \in T /\ Tail(s) \in Seq(T)
      BY <1>1, HeadTailProperties
    <3>2. 1 \in 1..Len(s) /\ Len(s) \in 1..Len(s)
      BY <1>1, EmptySeq
    <3>3. SubSeq(s, 1, Len(s)) = <<s[1]>> \o SubSeq(s, 1 + 1, Len(s))
      BY <3>2, SubSeqRecursiveFirst
    <3>4. SubSeq(s, 1, Len(s)) = s /\ Tail(s) = SubSeq(s, 2, Len(s))
      BY <1>1, SubSeqFull, TailIsSubSeq
    <3>5. Head(s) = s[1]
      BY <1>1
    <3> QED BY <3>1, <3>3, <3>4, <3>5
  <2> DEFINE first == <<Head(s)>>
  <2>2. Components(path) = first \o Without(Tail(s))
    BY <1>1 DEF Components
  <2>3. Without(first) = <<>>
    <3>1. first = Append(<<>>, Head(s)) /\ <<>> \in Seq(T)
      OBVIOUS
    <3> QED BY <1>1, <2>1, <3>1, WithoutLast, WithoutNone
  <2> HIDE DEF first
  <2>4. first \in Seq(T)
    BY <2>1 DEF first
  <2>5. Without(Tail(s)) \in Seq(T) /\ Without(Without(Tail(s))) = Without(Tail(s))
    BY <2>1, WithoutTwice
  <2>6. Without(Components(path)) = <<>> \o Without(Tail(s))
    <3>1. Without(first \o Without(Tail(s))) = Without(first) \o Without(Without(Tail(s)))
      BY <2>4, <2>5, WithoutJoin
    <3> QED BY <2>2, <2>3, <2>5, <3>1
  <2>7. Without(s) = <<>> \o Without(Tail(s))
    <3>1. s = first \o Tail(s)
      BY <2>1 DEF first
    <3> QED BY <2>1, <2>3, <2>4, <3>1, WithoutJoin
  <2> QED BY <2>2, <2>4, <2>5, <2>6, <2>7, ConcatProperties
<1>2. CASE ~(s # <<>> /\ IsCur(Head(s)) /\ ~path.root)
  <2>1. Components(path) = Without(s)
    BY <1>2 DEF Components
  <2> QED BY <2>1, WithoutTwice
<1> QED BY <1>1, <1>2

LEMMA EmittedKept ==
  ASSUME NEW path, path.parts \in Seq(Part), NEW how
  PROVE  LET e == Emitted(path, how)
         IN  /\ DOMAIN e = Fields /\ e = [f \in Fields |-> e[f]]
             /\ e.root = path.root /\ e.parts \in Seq(Part)
             /\ Without(e.parts) = Without(path.parts)
<1> DEFINE parts == IF how.link \/ Len(Components(path)) + Bit(path.root) = 1
                    THEN Components(path) ELSE Without(Components(path))
           e == [root |-> path.root, parts |-> parts, slash |-> EndsWithSlash(path)]
<1>1. parts \in Seq(Part) /\ Without(parts) = Without(path.parts)
  BY ComponentsKept, WithoutTwice
<1>2. Emitted(path, how) = e
  BY DEF Emitted
<1> HIDE DEF parts
<1>3. DOMAIN e = Fields /\ e = [f \in Fields |-> e[f]] /\ e.root = path.root /\ e.parts = parts
  BY DEF Fields
<1> QED BY <1>1, <1>2, <1>3

LEMMA ParentIs ==
  ASSUME NEW root, NEW parts
  PROVE  [NoPath EXCEPT !.root = root, !.parts = parts]
           = [root |-> root, parts |-> parts, slash |-> FALSE]
<1> DEFINE p == [NoPath EXCEPT !.root = root, !.parts = parts]
           q == [root |-> root, parts |-> parts, slash |-> FALSE]
<1>1. DOMAIN p = Fields /\ p = [f \in Fields |-> p[f]] /\ p.root = root /\ p.parts = parts /\ p.slash = FALSE
  BY DEF NoPath, Fields
<1>2. DOMAIN q = Fields /\ q = [f \in Fields |-> q[f]] /\ q.root = root /\ q.parts = parts /\ q.slash = FALSE
  BY DEF Fields
<1> HIDE DEF p, q
<1>3. \A f \in Fields : p[f] = q[f]
  BY <1>1, <1>2 DEF Fields
<1>4. p = q
  BY <1>1, <1>2, <1>3
<1> QED BY <1>4 DEF p, q

\* The parent of a path that is divided has fewer components than the path.
LEMMA SplitExists ==
  ASSUME NEW path \in Path, path.parts # <<>>
  PROVE  SplitAt(path) \in 0..(Len(path.parts) - 1)
<1> DEFINE n == Len(path.parts)
           Parent(k) == [NoPath EXCEPT !.root = path.root, !.parts = SubSeq(path.parts, 1, k)]
           fits == {k \in 0..(n - 1) : Length(Parent(k)) <= PrefixLen}
           gaps == {n - k : k \in fits}
<1>1. n \in Nat \ {0}
  BY PathFields, EmptySeq
<1>2. \A k \in 0..(n - 1) : Length(Parent(k)) \in Nat
  <2> TAKE k \in 0..(n - 1)
  <2>1. \A i \in 1..k : i \in 1..n /\ path.parts[i] \in Part
    BY <1>1, PathFields
  <2>2. /\ SubSeq(path.parts, 1, k) \in Seq(Part)
        /\ Len(SubSeq(path.parts, 1, k)) = IF 1 <= k THEN k - 1 + 1 ELSE 0
        /\ \A i \in 1..(k - 1 + 1) : SubSeq(path.parts, 1, k)[i] = path.parts[1 + i - 1]
    BY <1>1, <2>1, SubSeqProperties
  <2> DEFINE parts == SubSeq(path.parts, 1, k)
  <2>3. parts \in Seq(Part) /\ Len(parts) = k /\ \A i \in 1..k : parts[i] = path.parts[i]
    BY <1>1, <2>2
  <2> HIDE DEF parts
  <2>4. Parent(k) = [root |-> path.root, parts |-> parts, slash |-> FALSE]
    BY ParentIs DEF parts
  <2>5. \A i \in DOMAIN parts : 1 <= parts[i].from /\ parts[i].from <= parts[i].to
    BY <2>1, <2>3, PathFields, LenProperties
  <2>6. [root |-> path.root, parts |-> parts, slash |-> FALSE] \in Path
    BY <2>3, <2>5, PathFields DEF Path
  <2> QED BY <2>4, <2>6, LengthType
<1>3. 0 \in fits
  <2>1. 0 \in 0..(n - 1)
    BY <1>1
  <2>2. SubSeq(path.parts, 1, 0) = <<>>
    BY SubSeqEmpty
  <2>3. Parent(0) = [root |-> path.root, parts |-> <<>>, slash |-> FALSE]
    BY <2>2, ParentIs
  <2>4. Length(Parent(0)) <= 1
    <3>1. Length([root |-> path.root, parts |-> <<>>, slash |-> FALSE]) = 0 + Bit(path.root)
      BY DEF Length, Bit
    <3>2. Bit(path.root) \in {0, 1}
      BY DEF Bit
    <3> QED BY <2>3, <3>1, <3>2
  <2>5. Length(Parent(0)) \in Nat
    BY <1>2, <2>1
  <2>6. PrefixLen \in Nat /\ 1 <= PrefixLen
    BY LengthAssumption
  <2>7. Length(Parent(0)) <= PrefixLen
    <3> DEFINE x == Length(Parent(0))
    <3>1. x <= 1 /\ x \in Nat
      BY <2>4, <2>5
    <3> HIDE DEF x
    <3>2. x <= PrefixLen
      BY <2>6, <3>1
    <3> QED BY <3>2 DEF x
  <2> QED BY <2>1, <2>7
<1> HIDE DEF Parent
<1>4. gaps \subseteq Nat /\ gaps # {}
  <2>1. \A k \in fits : n - k \in Nat
    BY <1>1
  <2>2. fits # {}
    BY <1>3
  <2> HIDE DEF fits
  <2> QED BY <2>1, <2>2
<1>5. PICK g \in gaps : \A h \in gaps : g <= h
  <2> HIDE DEF gaps
  <2> QED BY <1>4, LeastExists
<1>6. PICK k \in fits : g = n - k
  OBVIOUS
<1>7. ASSUME NEW j \in (k + 1)..(n - 1)
      PROVE  Length(Parent(j)) > PrefixLen
  <2>1. j \in 0..(n - 1) /\ ~(n - k <= n - j)
    BY <1>1, <1>7
  <2>2. j \notin fits
    <3> SUFFICES ASSUME j \in fits PROVE FALSE
      OBVIOUS
    <3>1. n - j \in gaps
      OBVIOUS
    <3> QED BY <1>5, <1>6, <2>1, <3>1
  <2>3. ~(Length(Parent(j)) <= PrefixLen)
    BY <2>1, <2>2
  <2> QED BY <1>2, <2>1, <2>3, LengthAssumption
<1>8. \E m \in 0..(n - 1) : /\ Length(Parent(m)) <= PrefixLen
                            /\ \A j \in (m + 1)..(n - 1) : Length(Parent(j)) > PrefixLen
  BY <1>6, <1>7
<1>9. (CHOOSE m \in 0..(n - 1) : /\ Length(Parent(m)) <= PrefixLen
                                 /\ \A j \in (m + 1)..(n - 1) : Length(Parent(j)) > PrefixLen)
        \in 0..(n - 1)
  BY <1>8
<1> QED BY <1>9 DEF SplitAt, Parent

-----------------------------------------------------------------------------
(* Headers, whatever else is in them.                                      *)

PathTexts == {"name", "prefix", "link"}

\* The text of a header stays within its fields.
TextBounded(h) ==
  /\ PathTexts \subseteq DOMAIN h
  /\ Length(h.name) <= NameLen /\ Length(h.prefix) <= PrefixLen /\ Length(h.link) <= NameLen

\* What setting a text leaves alone.
KeepsRest(h, k) ==
  /\ DOMAIN k = DOMAIN h
  /\ \A f \in DOMAIN h : f \notin PathTexts => k[f] = h[f]

\* A path is stored whole, as far as it was accepted, or not at all: never past its field.
LEMMA StoredFits ==
  ASSUME NEW len \in Nat \ {0}, NEW old, Length(old) <= len, NEW path, NEW how
  PROVE  Length(Stored(old, path, len, how)) <= len
<1>1. Stores(path, len, how) => Length(Emitted(path, how)) <= len
  BY DEF Stores
<1>2. Length(Torn) <= len
  BY TornLength
<1> QED BY <1>1, <1>2 DEF Stored

LEMMA NameStored ==
  ASSUME NEW h, TextBounded(h), NEW name, Length(name) <= NameLen
  PROVE  LET k == [h EXCEPT !.name = name]
         IN  /\ TextBounded(k) /\ KeepsRest(h, k)
             /\ k.name = name /\ k.prefix = h.prefix /\ k.link = h.link
<1> DEFINE k == [h EXCEPT !.name = name]
<1>1. /\ DOMAIN k = DOMAIN h /\ k.name = name /\ k.prefix = h.prefix /\ k.link = h.link
      /\ \A f \in DOMAIN h : f \notin PathTexts => k[f] = h[f]
  BY DEF TextBounded, PathTexts
<1> HIDE DEF k
<1>2. TextBounded(k) /\ KeepsRest(h, k)
  BY <1>1 DEF TextBounded, KeepsRest
<1> QED BY <1>1, <1>2 DEF k

LEMMA PrefixStored ==
  ASSUME NEW h, TextBounded(h), NEW prefix, Length(prefix) <= PrefixLen
  PROVE  LET k == [h EXCEPT !.prefix = prefix]
         IN  /\ TextBounded(k) /\ KeepsRest(h, k)
             /\ k.name = h.name /\ k.prefix = prefix /\ k.link = h.link
<1> DEFINE k == [h EXCEPT !.prefix = prefix]
<1>1. /\ DOMAIN k = DOMAIN h /\ k.name = h.name /\ k.prefix = prefix /\ k.link = h.link
      /\ \A f \in DOMAIN h : f \notin PathTexts => k[f] = h[f]
  BY DEF TextBounded, PathTexts
<1> HIDE DEF k
<1>2. TextBounded(k) /\ KeepsRest(h, k)
  BY <1>1 DEF TextBounded, KeepsRest
<1> QED BY <1>1, <1>2 DEF k

LEMMA LinkStored ==
  ASSUME NEW h, TextBounded(h), NEW link, Length(link) <= NameLen
  PROVE  LET k == [h EXCEPT !.link = link]
         IN  /\ TextBounded(k) /\ KeepsRest(h, k)
             /\ k.name = h.name /\ k.prefix = h.prefix /\ k.link = link
<1> DEFINE k == [h EXCEPT !.link = link]
<1>1. /\ DOMAIN k = DOMAIN h /\ k.name = h.name /\ k.prefix = h.prefix /\ k.link = link
      /\ \A f \in DOMAIN h : f \notin PathTexts => k[f] = h[f]
  BY DEF TextBounded, PathTexts
<1> HIDE DEF k
<1>2. TextBounded(k) /\ KeepsRest(h, k)
  BY <1>1 DEF TextBounded, KeepsRest
<1> QED BY <1>1, <1>2 DEF k

\* One path is another: its root, and its components but ".".
IsPath(p, path) ==
  /\ DOMAIN p = Fields /\ p = [f \in Fields |-> p[f]]
  /\ p.root = path.root /\ Without(p.parts) = Without(path.parts)

\* A path that was accepted can be read.
Reads(h, path) == IsPath(PathOf(h), path)

\* A path that fits the name.
LEMMA NameRead ==
  ASSUME NEW h, TextBounded(h), NEW path \in Path, NEW how
  PROVE  LET k == [h EXCEPT !.name = Stored(@, path, NameLen, how)]
         IN  /\ TextBounded(k) /\ KeepsRest(h, k) /\ k.link = h.link /\ k.prefix = h.prefix
             /\ Stores(path, NameLen, how) => IsPath(k.name, path)
             /\ (Stores(path, NameLen, how) /\ "format" \in DOMAIN h
                  /\ (h.format # "ustar" \/ h.prefix = NoPath))
                  => Reads(k, path)
<1> DEFINE name == Stored(h.name, path, NameLen, how)
           k == [h EXCEPT !.name = name]
<1>1. Length(name) <= NameLen
  BY StoredFits, LengthAssumption DEF TextBounded
<1> HIDE DEF name
<1>2. TextBounded(k) /\ KeepsRest(h, k) /\ k.name = name /\ k.prefix = h.prefix /\ k.link = h.link
  BY <1>1, NameStored
<1> HIDE DEF k
<1>3. ASSUME Stores(path, NameLen, how)
      PROVE  IsPath(name, path)
  <2>1. name = Emitted(path, how)
    BY <1>3 DEF name, Stored
  <2>2. path.parts \in Seq(Part)
    BY PathFields
  <2> QED BY <2>1, <2>2, EmittedKept DEF IsPath
<1>4. ASSUME Stores(path, NameLen, how), "format" \in DOMAIN h, h.format # "ustar" \/ h.prefix = NoPath
      PROVE  Reads(k, path)
  <2>1. k.format = h.format
    BY <1>2, <1>4 DEF KeepsRest, PathTexts
  <2>2. PathOf(k) = name
    BY <1>2, <1>4, <2>1 DEF PathOf
  <2> QED BY <1>3, <1>4, <2>2 DEF Reads
<1> QED BY <1>2, <1>3, <1>4 DEF k, name

\* The parts of a divided path, put together again, are the path.
LEMMA DividedRead ==
  ASSUME NEW h, NEW path \in Path, Length(path) > NameLen, Divided(path), NEW how,
         NEW parent, parent = [root |-> path.root, parts |-> SubSeq(path.parts, 1, SplitAt(path)),
                               slash |-> FALSE],
         Stores(parent, PrefixLen, how), h.format = "ustar", h.prefix = Emitted(parent, how),
         h.name = Emitted(AfterParent(path, SplitAt(path)), how)
  PROVE  Reads(h, path)
<1> DEFINE n == Len(path.parts)
           k == SplitAt(path)
           rest == AfterParent(path, k)
           first == SubSeq(path.parts, 1, k)
           second == SubSeq(path.parts, k + 1, n)
<1>1. path.parts \in Seq(Part) /\ n \in Nat /\ path.root \in BOOLEAN
  BY PathFields
<1>2. path.parts # <<>> /\ n # 0
  <2>1. Length(path) \in Nat /\ NameLen \in Nat /\ NameLen >= 1
    BY LengthType, LengthAssumption
  <2>2. ~(Length(path) <= 1)
    BY <2>1
  <2>3. path.parts # <<>>
    BY <2>2, LengthType
  <2> QED BY <1>1, <2>3, EmptySeq
<1>3. k \in 0..(n - 1)
  BY <1>2, SplitExists
<1> HIDE DEF k
<1>4. first \in Seq(Part)
  <2>1. \A i \in 1..k : i \in 1..n
    BY <1>1, <1>3
  <2>2. \A i \in 1..k : path.parts[i] \in Part
    BY <2>1, <1>1, ElementOfSeq
  <2> QED BY <1>3, <2>2, SubSeqProperties
<1>5. second \in Seq(Part) /\ path.parts = first \o second
  <2>1. 1 \in 1..(n + 1) /\ k \in (1 - 1)..n /\ n \in k..n
    BY <1>1, <1>3
  <2>2. first \o second = SubSeq(path.parts, 1, n)
    BY <1>1, <2>1, ConcatAdjacentSubSeq
  <2>3. \A i \in (k + 1)..n : i \in 1..n
    BY <1>1, <1>3
  <2>4. \A i \in (k + 1)..n : path.parts[i] \in Part
    BY <2>3, <1>1, ElementOfSeq
  <2>5. second \in Seq(Part)
    BY <1>1, <1>3, <2>4, SubSeqProperties
  <2> QED BY <1>1, <2>2, <2>5, SubSeqFull
<1>6. first = SubSeq(path.parts, 1, SplitAt(path)) /\ rest = AfterParent(path, SplitAt(path))
  BY DEF k
<1>7. parent.parts = first /\ parent.root = path.root
  BY <1>6
<1> HIDE DEF first, second
<1> DEFINE e == Emitted(parent, how)
           f == Emitted(rest, how)
<1>8. /\ e.root = path.root /\ e.parts \in Seq(Part) /\ Without(e.parts) = Without(first)
      /\ (path.root \/ e.parts # <<>>)
  <2>1. /\ e.root = parent.root /\ e.parts \in Seq(Part) /\ Without(e.parts) = Without(parent.parts)
    BY <1>4, <1>7, EmittedKept
  <2>2. parent.root \/ e.parts # <<>>
    BY DEF Stores
  <2> QED BY <1>7, <2>1, <2>2
<1>9. k > 0
  <2> SUFFICES ASSUME k = 0 PROVE FALSE
    BY <1>3
  <2>1. ~path.root
    BY DEF Divided, k
  <2>2. first = <<>>
    BY SubSeqEmpty DEF first
  <2>3. Components(parent) = <<>>
    BY <1>7, <2>2, WithoutNone DEF Components
  <2>4. e.parts = <<>>
    BY <2>3, WithoutNone DEF Emitted
  <2> QED BY <1>8, <2>1, <2>4
<1>10. rest.parts = second
  BY <1>9 DEF AfterParent, second
<1> HIDE DEF rest
<1>11. /\ DOMAIN f = Fields /\ f = [x \in Fields |-> f[x]]
       /\ f.parts \in Seq(Part) /\ Without(f.parts) = Without(second)
  BY <1>5, <1>10, EmittedKept
<1>12. h.prefix = e /\ h.name = f
  BY <1>6
<1> HIDE DEF e, f
<1>13. h.prefix # NoPath
  BY <1>8, <1>12 DEF NoPath
<1> DEFINE p == [f EXCEPT !.root = e.root, !.parts = e.parts \o f.parts]
<1>14. PathOf(h) = p
  BY <1>12, <1>13 DEF PathOf
<1>15. /\ DOMAIN p = Fields /\ p = [x \in Fields |-> p[x]]
       /\ p.root = e.root /\ p.parts = e.parts \o f.parts
  BY <1>11 DEF Fields
<1> HIDE DEF p
<1>16. Without(p.parts) = Without(path.parts)
  <2>1. Without(e.parts \o f.parts) = Without(e.parts) \o Without(f.parts)
    BY <1>8, <1>11, WithoutJoin
  <2>2. Without(first \o second) = Without(first) \o Without(second)
    BY <1>4, <1>5, WithoutJoin
  <2> QED BY <1>5, <1>8, <1>11, <1>15, <2>1, <2>2
<1> QED BY <1>8, <1>14, <1>15, <1>16 DEF Reads, IsPath

\* Setting a path keeps what else is in the header, and a path that was accepted is read back:
\* divided in two fields, or in one, with nothing in front of it.
LEMMA SetPathRead ==
  ASSUME NEW h, TextBounded(h), "format" \in DOMAIN h, NEW path \in Path, NEW absolute, NEW cut
  PROVE  LET set == SetPath(h, path, absolute, cut)
         IN  /\ TextBounded(set.header) /\ KeepsRest(h, set.header) /\ set.header.link = h.link
             /\ Length(path) <= NameLen => set.header.prefix = h.prefix
             /\ set.ok /\ Length(path) <= NameLen => IsPath(set.header.name, path)
             /\ (set.ok /\ (h.format = "ustar" => Divided(path))
                  /\ (h.format # "ustar" \/ Length(path) > NameLen \/ h.prefix = NoPath))
                  => Reads(set.header, path)
<1> DEFINE set == SetPath(h, path, absolute, cut)
<1>1. CASE h.format # "ustar"
  <2> DEFINE how == [link |-> FALSE, cut |-> cut, absolute |-> absolute]
  <2>1. /\ set.header = [h EXCEPT !.name = Stored(@, path, NameLen, how)]
        /\ set.ok = Stores(path, NameLen, how)
    BY <1>1 DEF SetPath
  <2> HIDE DEF how, set
  <2> QED BY <1>1, <2>1, NameRead DEF set
<1>2. CASE h.format = "ustar"
  <2> DEFINE how    == [link |-> FALSE, cut |-> FALSE, absolute |-> absolute]
             k      == SplitAt(path)
             parent == [NoPath EXCEPT !.root = path.root, !.parts = SubSeq(path.parts, 1, k)]
             rest   == AfterParent(path, k)
  <2>1. CASE Length(path) <= NameLen
    <3>1. /\ set.header = [h EXCEPT !.name = Stored(@, path, NameLen, how)]
          /\ set.ok = Stores(path, NameLen, how)
      BY <1>2, <2>1 DEF SetPath, UstarSetPath
    <3>2. ~(Length(path) > NameLen)
      BY <2>1, LengthType, LengthAssumption
    <3> HIDE DEF how, set
    <3> QED BY <1>2, <2>1, <3>1, <3>2, NameRead DEF set
  <2>2. CASE ~(Length(path) <= NameLen) /\ ~Stores(parent, PrefixLen, how)
    <3> DEFINE prefix == Stored(h.prefix, parent, PrefixLen, how)
    <3>1. set.header = [h EXCEPT !.prefix = prefix] /\ set.ok = FALSE
      BY <1>2, <2>2 DEF SetPath, UstarSetPath
    <3>2. Length(prefix) <= PrefixLen
      BY StoredFits, LengthAssumption DEF TextBounded
    <3>3. ~(Length(path) <= NameLen)
      BY <2>2
    <3> HIDE DEF set, prefix
    <3> QED BY <3>1, <3>2, <3>3, PrefixStored DEF set
  <2>3. CASE ~(Length(path) <= NameLen) /\ Stores(parent, PrefixLen, how)
    <3> DEFINE prefix == Emitted(parent, how)
               name == Stored(h.name, rest, NameLen, how)
               half == [h EXCEPT !.prefix = prefix]
    <3>1. /\ set.header = [h EXCEPT !.prefix = prefix, !.name = name]
          /\ set.ok = Stores(rest, NameLen, how)
      BY <1>2, <2>3 DEF SetPath, UstarSetPath
    <3>2. Length(prefix) <= PrefixLen
      BY <2>3 DEF Stores
    <3>3. Length(name) <= NameLen
      BY StoredFits, LengthAssumption DEF TextBounded
    <3>4. Stores(rest, NameLen, how) => name = Emitted(rest, how)
      BY DEF Stored
    <3>5. Length(path) > NameLen
      BY <2>3, LengthType, LengthAssumption
    <3>6. parent = [root |-> path.root, parts |-> SubSeq(path.parts, 1, SplitAt(path)),
                    slash |-> FALSE]
      BY ParentIs
    <3> HIDE DEF set, parent, how
    <3>7. prefix = Emitted(parent, how) /\ rest = AfterParent(path, SplitAt(path))
      OBVIOUS
    <3> HIDE DEF prefix, name, rest
    <3>8. set.header = [half EXCEPT !.name = name]
      BY <3>1
    <3>9. /\ TextBounded(half) /\ KeepsRest(h, half) /\ half.name = h.name
          /\ half.prefix = prefix /\ half.link = h.link
      BY <3>2, PrefixStored
    <3> HIDE DEF half
    <3>10. /\ TextBounded(set.header) /\ KeepsRest(half, set.header) /\ set.header.name = name
           /\ set.header.prefix = prefix /\ set.header.link = h.link
      BY <3>3, <3>8, <3>9, NameStored
    <3>11. KeepsRest(h, set.header) /\ set.header.format = h.format
      BY <3>9, <3>10 DEF KeepsRest, PathTexts
    <3>12. ASSUME set.ok, Divided(path)
           PROVE  Reads(set.header, path)
      <4>1. Stores(parent, PrefixLen, how) /\ set.header.format = "ustar"
        BY <1>2, <2>3, <3>11
      <4>2. /\ set.header.prefix = Emitted(parent, how)
            /\ set.header.name = Emitted(AfterParent(path, SplitAt(path)), how)
        BY <3>1, <3>4, <3>7, <3>10, <3>12
      <4> DEFINE header == set.header
      <4>3. /\ header.format = "ustar" /\ header.prefix = Emitted(parent, how)
            /\ header.name = Emitted(AfterParent(path, SplitAt(path)), how)
        BY <4>1, <4>2
      <4> HIDE DEF header
      <4>4. Reads(header, path)
        BY <3>5, <3>6, <3>12, <4>1, <4>3, DividedRead
      <4> QED BY <4>4 DEF header
    <3> QED BY <1>2, <2>3, <3>10, <3>11, <3>12 DEF set
  <2> QED BY <2>1, <2>2, <2>3
<1> QED BY <1>1, <1>2

\* And so is a link target.
LEMMA SetLinkRead ==
  ASSUME NEW h, TextBounded(h), NEW path \in Path
  PROVE  LET set == SetLink(h, path)
         IN  /\ TextBounded(set.header) /\ KeepsRest(h, set.header)
             /\ set.header.name = h.name /\ set.header.prefix = h.prefix
             /\ set.ok => Clean(set.header.link) = Clean(path)
<1> DEFINE how == [link |-> TRUE, cut |-> FALSE, absolute |-> TRUE]
           link == Stored(h.link, path, NameLen, how)
           set == SetLink(h, path)
<1>1. set.header = [h EXCEPT !.link = link] /\ set.ok = Stores(path, NameLen, how)
  BY DEF SetLink
<1>2. Length(link) <= NameLen
  BY StoredFits, LengthAssumption DEF TextBounded
<1>3. Stores(path, NameLen, how) => link = Emitted(path, how)
  BY DEF Stored
<1> HIDE DEF link, how, set
<1>4. /\ TextBounded(set.header) /\ KeepsRest(h, set.header)
      /\ set.header.name = h.name /\ set.header.prefix = h.prefix /\ set.header.link = link
  BY <1>1, <1>2, LinkStored
<1>5. ASSUME set.ok
      PROVE  Clean(link) = Clean(path)
  <2>1. path.parts \in Seq(Part) /\ path = [root |-> path.root, parts |-> path.parts, slash |-> path.slash]
    BY PathFields
  <2>2. DOMAIN path = Fields /\ path = [f \in Fields |-> path[f]]
    BY <2>1 DEF Fields
  <2>3. link = Emitted(path, how)
    BY <1>1, <1>3, <1>5
  <2>4. /\ DOMAIN link = Fields /\ link = [f \in Fields |-> link[f]] /\ link.root = path.root
        /\ Without(link.parts) = Without(path.parts)
    BY <2>1, <2>3, EmittedKept
  <2> QED BY <2>2, <2>4, CleanIs
<1> QED BY <1>4, <1>5 DEF set

\* What is read is the path that was set.
LEMMA ReadsClean ==
  ASSUME NEW p, NEW path \in Path, IsPath(p, path)
  PROVE  Clean(p) = Clean(path)
<1>1. path = [root |-> path.root, parts |-> path.parts, slash |-> path.slash]
  BY PathFields
<1>2. DOMAIN path = Fields /\ path = [f \in Fields |-> path[f]]
  BY <1>1 DEF Fields
<1> QED BY <1>2, CleanIs DEF IsPath
=============================================================================
