---------------------------- MODULE BuilderProofs ----------------------------
(***************************************************************************)
(* What Builder appended stays where it was put, for every size of a       *)
(* block, every file and record, and through every failure of the stream.  *)
(***************************************************************************)
EXTENDS BuilderInvariants, NamesProofs, FiniteSetTheorems

AByte == Nat \X Nat
ByteSeq == Seq(AByte)

-----------------------------------------------------------------------------
(* Sequences of anything.                                                  *)

IsList(s) == Len(s) \in Nat /\ s = [i \in 1..Len(s) |-> s[i]]

LEMMA ListedIs ==
  ASSUME NEW s, IsList(s)
  PROVE  /\ \A S : (\A i \in 1..Len(s) : s[i] \in S) => s \in Seq(S)
         /\ DOMAIN s = 1..Len(s)
<1>1. DOMAIN s = 1..Len(s)
  BY DEF IsList
<1>2. ASSUME NEW S, \A i \in 1..Len(s) : s[i] \in S
      PROVE  s \in Seq(S)
  <2>1. s \in [1..Len(s) -> S]
    BY <1>2 DEF IsList
  <2> QED BY <2>1 DEF IsList
<1> QED BY <1>1, <1>2

LEMMA SeqListed ==
  ASSUME NEW S, NEW s \in Seq(S)
  PROVE  IsList(s)
BY LenProperties DEF IsList

LEMMA ListedJoin ==
  ASSUME NEW s, IsList(s), NEW t, IsList(t)
  PROVE  /\ IsList(s \o t) /\ Len(s \o t) = Len(s) + Len(t)
         /\ \A i \in 1..Len(s) : (s \o t)[i] = s[i]
         /\ \A i \in 1..Len(t) : (s \o t)[Len(s) + i] = t[i]
<1> DEFINE S == {s[i] : i \in 1..Len(s)} \cup {t[i] : i \in 1..Len(t)}
<1>1. s \in Seq(S) /\ t \in Seq(S)
  <2>1. (\A i \in 1..Len(s) : s[i] \in S) /\ (\A i \in 1..Len(t) : t[i] \in S)
    OBVIOUS
  <2> HIDE DEF S
  <2> QED BY <2>1, ListedIs
<1> HIDE DEF S
<1>2. /\ s \o t \in Seq(S) /\ Len(s \o t) = Len(s) + Len(t)
      /\ \A i \in 1..(Len(s) + Len(t)) :
           (s \o t)[i] = IF i <= Len(s) THEN s[i] ELSE t[i - Len(s)]
  BY <1>1, ConcatProperties
<1>3. Len(s) \in Nat /\ Len(t) \in Nat
  BY DEF IsList
<1>4. \A i \in 1..Len(s) : (s \o t)[i] = s[i]
  BY <1>2, <1>3
<1>5. ASSUME NEW i \in 1..Len(t)
      PROVE  (s \o t)[Len(s) + i] = t[i]
  <2>1. Len(s) + i \in 1..(Len(s) + Len(t)) /\ ~(Len(s) + i <= Len(s)) /\ (Len(s) + i) - Len(s) = i
    BY <1>3
  <2> QED BY <1>2, <2>1
<1> QED BY <1>2, <1>4, <1>5, SeqListed

LEMMA ListedAppend ==
  ASSUME NEW s, IsList(s), NEW x
  PROVE  /\ IsList(Append(s, x)) /\ Len(Append(s, x)) = Len(s) + 1
         /\ \A i \in 1..Len(s) : Append(s, x)[i] = s[i]
         /\ Append(s, x)[Len(s) + 1] = x
<1> DEFINE S == {s[i] : i \in 1..Len(s)} \cup {x}
<1>1. s \in Seq(S) /\ x \in S
  <2>1. (\A i \in 1..Len(s) : s[i] \in S) /\ x \in S
    OBVIOUS
  <2> HIDE DEF S
  <2> QED BY <2>1, ListedIs
<1> HIDE DEF S
<1>2. Append(s, x) \in Seq(S)
  BY <1>1, AppendProperties
<1>3. /\ Len(Append(s, x)) = Len(s) + 1 /\ Append(s, x)[Len(s) + 1] = x
      /\ \A i \in 1..Len(s) : Append(s, x)[i] = s[i]
  BY <1>1, AppendProperties
<1> QED BY <1>2, <1>3, SeqListed

LEMMA ListedOne == \A x : IsList(<<x>>) /\ Len(<<x>>) = 1 /\ <<x>>[1] = x
<1> TAKE x
<1>1. <<x>> \in Seq({x})
  OBVIOUS
<1> QED BY <1>1, SeqListed

LEMMA ListedNone == IsList(<<>>) /\ Len(<<>>) = 0
<1>1. <<>> \in Seq(Nat) /\ Len(<<>>) = 0
  OBVIOUS
<1> QED BY <1>1, SeqListed

-----------------------------------------------------------------------------
(* Bytes.                                                                  *)

LEMMA BlockIs == BlockSize \in Nat \ {0} /\ BlockSize \in Nat /\ BlockSize >= 1
BY BlockSizeAssumption

LEMMA UptoIs ==
  ASSUME NEW n \in Nat
  PROVE  Upto(n) \in Seq(Nat) /\ Len(Upto(n)) = n /\ \A i \in 1..n : Upto(n)[i] = i
<1>1. Upto(n) \in [1..n -> Nat]
  BY DEF Upto
<1> QED BY <1>1, FunctionIsSequence DEF Upto

LEMMA ZeroIs ==
  ASSUME NEW n \in Nat
  PROVE  Zero(n) \in ByteSeq /\ Len(Zero(n)) = n
<1>1. Zero(n) \in [1..n -> AByte]
  BY DEF Zero, AByte
<1> QED BY <1>1, FunctionIsSequence DEF ByteSeq

LEMMA HeaderBytesIs ==
  ASSUME NEW h \in Nat
  PROVE  /\ HeaderBytes(h) \in ByteSeq /\ Len(HeaderBytes(h)) = BlockSize
         /\ \A i \in 1..BlockSize : HeaderBytes(h)[i] = <<h, i>>
<1>1. HeaderBytes(h) \in [1..BlockSize -> AByte]
  BY BlockIs DEF HeaderBytes, AByte
<1> QED BY <1>1, BlockIs, FunctionIsSequence DEF HeaderBytes, ByteSeq

LEMMA ContentsIs ==
  ASSUME NEW h \in Nat, NEW data \in Seq(Nat)
  PROVE  /\ Contents(h, data) \in ByteSeq /\ Len(Contents(h, data)) = Len(data)
         /\ \A i \in 1..Len(data) : Contents(h, data)[i] = <<h, BlockSize + data[i]>>
<1>1. DOMAIN data = 1..Len(data) /\ Len(data) \in Nat /\ \A i \in 1..Len(data) : data[i] \in Nat
  BY LenProperties, ElementOfSeq
<1>2. Contents(h, data) \in [1..Len(data) -> AByte]
  <2>1. \A i \in 1..Len(data) : <<h, BlockSize + data[i]>> \in AByte
    BY <1>1, BlockIs DEF AByte
  <2> QED BY <1>1, <2>1 DEF Contents
<1> QED BY <1>1, <1>2, FunctionIsSequence DEF Contents, ByteSeq

\* Padding goes to the end of the block.
LEMMA PadIs ==
  ASSUME NEW n \in Nat
  PROVE  /\ Pad(n) \in ByteSeq /\ Len(Pad(n)) \in Nat
         /\ n + Len(Pad(n)) = Round(n) /\ Round(n) % BlockSize = 0 /\ Round(n) \in Nat
<1> DEFINE q == n \div BlockSize
           r == n % BlockSize
           p == Len(Pad(n))
<1>1. q \in Nat /\ r \in 0..(BlockSize - 1) /\ n = BlockSize * q + r
  BY BlockIs, Division
<1>2. /\ Pad(n) \in ByteSeq
      /\ p = IF r = 0 THEN 0 ELSE BlockSize - r
  <2>1. CASE r = 0
    <3>1. Pad(n) = <<>>
      BY <2>1, BlockIs DEF Pad
    <3> QED BY <2>1, <3>1 DEF ByteSeq
  <2>2. CASE r # 0
    <3>1. Pad(n) = Zero(BlockSize - r) /\ BlockSize - r \in Nat
      BY <1>1, <2>2, BlockIs DEF Pad
    <3> QED BY <2>2, <3>1, ZeroIs
  <2> QED BY <2>1, <2>2
<1> HIDE DEF q, r, p
<1>3. p \in Nat /\ n + p = BlockSize * q + (IF r = 0 THEN 0 ELSE BlockSize)
  <2>1. BlockSize * q \in Nat
    BY <1>1, BlockIs
  <2> QED BY <1>1, <1>2, <2>1, BlockIs
<1>4. (n + BlockSize - 1) \div BlockSize = IF r = 0 THEN q ELSE q + 1
  <2>1. CASE r = 0
    <3>1. n + BlockSize - 1 = BlockSize * q + (BlockSize - 1) /\ BlockSize - 1 \in 0..(BlockSize - 1)
      <4>1. BlockSize * q \in Nat
        BY <1>1, BlockIs
      <4> QED BY <1>1, <2>1, <4>1, BlockIs
    <3> QED BY <1>1, <2>1, <3>1, BlockIs, Quotient
  <2>2. CASE r # 0
    <3>1. n + BlockSize - 1 = BlockSize * (q + 1) + (r - 1) /\ r - 1 \in 0..(BlockSize - 1)
          /\ q + 1 \in Nat
      <4>1. BlockSize * q \in Nat /\ BlockSize * (q + 1) = BlockSize * q + BlockSize
        BY <1>1, BlockIs
      <4> QED BY <1>1, <2>2, <4>1, BlockIs
    <3> QED BY <2>2, <3>1, BlockIs, Quotient
  <2> QED BY <2>1, <2>2
<1> DEFINE t == IF r = 0 THEN q ELSE q + 1
<1>5. Round(n) = t * BlockSize /\ t \in Nat
  BY <1>1, <1>4 DEF Round
<1>6. t * BlockSize = BlockSize * t + 0 /\ BlockSize * t = n + p
  <2>1. BlockSize * (q + 1) = BlockSize * q + BlockSize /\ BlockSize * q \in Nat
    BY <1>1, BlockIs
  <2> QED BY <1>1, <1>3, <2>1, BlockIs
<1> HIDE DEF t
<1>7. Round(n) % BlockSize = 0
  <2>1. 0 \in 0..(BlockSize - 1)
    BY BlockIs
  <2>2. (BlockSize * t + 0) % BlockSize = 0
    BY <1>5, <2>1, BlockIs, Quotient
  <2> QED BY <1>5, <1>6, <2>2
<1> QED BY <1>2, <1>3, <1>5, <1>6, <1>7 DEF p

\* A stream has these bytes at an offset.
HasIn(o, offset, bytes) ==
  offset + Len(bytes) <= Len(o) /\ \A i \in 1..Len(bytes) : o[offset + i] = bytes[i]

\* What is in the parts is in the whole.
LEMMA JoinHas ==
  ASSUME NEW s \in ByteSeq, NEW t \in ByteSeq, NEW u \in ByteSeq
  PROVE  /\ s \o t \in ByteSeq /\ Len(s \o t) = Len(s) + Len(t)
         /\ HasIn(s \o t, 0, s) /\ HasIn(s \o t, Len(s), t)
         /\ \A k \in Nat : HasIn(s, k, u) => HasIn(s \o t, k, u)
         /\ \A k \in Nat : HasIn(t, k, u) => HasIn(s \o t, Len(s) + k, u)
<1> DEFINE w == s \o t
<1>1. /\ w \in ByteSeq /\ Len(w) = Len(s) + Len(t)
      /\ \A i \in 1..(Len(s) + Len(t)) : w[i] = IF i <= Len(s) THEN s[i] ELSE t[i - Len(s)]
  BY ConcatProperties DEF ByteSeq
<1>2. Len(s) \in Nat /\ Len(t) \in Nat /\ Len(u) \in Nat
  BY LenProperties DEF ByteSeq
<1> HIDE DEF w
<1>3. \A k \in Nat : HasIn(s, k, u) => HasIn(w, k, u)
  <2> SUFFICES ASSUME NEW k \in Nat, HasIn(s, k, u) PROVE HasIn(w, k, u)
    OBVIOUS
  <2>1. k + Len(u) <= Len(w)
    BY <1>1, <1>2 DEF HasIn
  <2>2. ASSUME NEW i \in 1..Len(u)
        PROVE  w[k + i] = u[i]
    <3>1. k + i \in 1..(Len(s) + Len(t)) /\ k + i <= Len(s) /\ s[k + i] = u[i]
      BY <1>2 DEF HasIn
    <3> QED BY <1>1, <3>1
  <2> QED BY <2>1, <2>2 DEF HasIn
<1>4. \A k \in Nat : HasIn(t, k, u) => HasIn(w, Len(s) + k, u)
  <2> SUFFICES ASSUME NEW k \in Nat, HasIn(t, k, u) PROVE HasIn(w, Len(s) + k, u)
    OBVIOUS
  <2>1. (Len(s) + k) + Len(u) <= Len(w)
    BY <1>1, <1>2 DEF HasIn
  <2>2. ASSUME NEW i \in 1..Len(u)
        PROVE  w[(Len(s) + k) + i] = u[i]
    <3>1. /\ (Len(s) + k) + i \in 1..(Len(s) + Len(t)) /\ ~((Len(s) + k) + i <= Len(s))
          /\ ((Len(s) + k) + i) - Len(s) = k + i /\ t[k + i] = u[i]
      BY <1>2 DEF HasIn
    <3> QED BY <1>1, <3>1
  <2> QED BY <2>1, <2>2 DEF HasIn
<1>5. HasIn(w, 0, s)
  <2>1. \A i \in 1..Len(s) : 0 + i \in 1..(Len(s) + Len(t)) /\ 0 + i <= Len(s) /\ 0 + i = i
    BY <1>2
  <2> QED BY <1>1, <1>2, <2>1 DEF HasIn
<1>6. HasIn(w, Len(s), t)
  <2>1. \A i \in 1..Len(t) : /\ Len(s) + i \in 1..(Len(s) + Len(t)) /\ ~(Len(s) + i <= Len(s))
                             /\ (Len(s) + i) - Len(s) = i
    BY <1>2
  <2> QED BY <1>1, <1>2, <2>1 DEF HasIn
<1> QED BY <1>1, <1>3, <1>4, <1>5, <1>6 DEF w

Blocks(n) == n \in Nat /\ n % BlockSize = 0

LEMMA BlocksSum ==
  /\ Blocks(0) /\ Blocks(BlockSize)
  /\ \A m, n : Blocks(m) /\ Blocks(n) => Blocks(m + n)
  /\ \A m \in Nat : Blocks(BlockSize * m)
<1>1. Blocks(0) /\ Blocks(BlockSize)
  <2>1. 0 \in 0..(BlockSize - 1) /\ 0 \in Nat /\ 1 \in Nat
    BY BlockIs
  <2>2. (BlockSize * 0 + 0) % BlockSize = 0 /\ (BlockSize * 1 + 0) % BlockSize = 0
    BY <2>1, BlockIs, Quotient
  <2>3. BlockSize * 0 + 0 = 0 /\ BlockSize * 1 + 0 = BlockSize
    BY BlockIs
  <2> QED BY <2>2, <2>3, BlockIs DEF Blocks
<1>2. ASSUME NEW m, NEW n, Blocks(m), Blocks(n)
      PROVE  Blocks(m + n)
  <2>1. m \in Nat /\ n \in Nat /\ m % BlockSize = 0 /\ n % BlockSize = 0
    BY <1>2 DEF Blocks
  <2>2. (m + n) % BlockSize = 0
    BY <2>1, BlockIs, Multiples, Zenon
  <2> QED BY <2>1, <2>2 DEF Blocks
<1>3. ASSUME NEW m \in Nat
      PROVE  Blocks(BlockSize * m)
  <2>1. 0 \in 0..(BlockSize - 1) /\ BlockSize * m \in Nat
    BY BlockIs
  <2>2. (BlockSize * m + 0) % BlockSize = 0
    BY <2>1, BlockIs, Quotient
  <2> QED BY <2>1, <2>2 DEF Blocks
<1> QED BY <1>1, <1>2, <1>3

LEMMA AppendedIs ==
  ASSUME NEW h \in Nat, NEW data \in Seq(Nat)
  PROVE  /\ Appended(h, data) \in ByteSeq /\ Len(Appended(h, data)) = BlockSize + Round(Len(data))
         /\ Blocks(Len(Appended(h, data)))
         /\ HasIn(Appended(h, data), 0, HeaderBytes(h))
         /\ HasIn(Appended(h, data), BlockSize, Contents(h, data))
<1> DEFINE a == HeaderBytes(h)
           b == Contents(h, data)
           c == Pad(Len(data))
<1>1. Len(data) \in Nat
  BY LenProperties
<1>2. /\ a \in ByteSeq /\ Len(a) = BlockSize /\ b \in ByteSeq /\ Len(b) = Len(data)
      /\ c \in ByteSeq /\ Len(c) \in Nat /\ Len(data) + Len(c) = Round(Len(data))
      /\ Blocks(Round(Len(data)))
  BY <1>1, HeaderBytesIs, ContentsIs, PadIs DEF Blocks
<1> HIDE DEF a, b, c
<1>3. Appended(h, data) = (a \o b) \o c
  BY <1>2, ConcatAssociative DEF Appended, a, b, c, ByteSeq
<1>4. /\ a \o b \in ByteSeq /\ Len(a \o b) = BlockSize + Len(data)
      /\ HasIn(a \o b, 0, a) /\ HasIn(a \o b, BlockSize, b)
  BY <1>2, JoinHas
<1>5. /\ (a \o b) \o c \in ByteSeq /\ Len((a \o b) \o c) = (BlockSize + Len(data)) + Len(c)
      /\ HasIn((a \o b) \o c, 0, a) /\ HasIn((a \o b) \o c, BlockSize, b)
  BY <1>2, <1>4, JoinHas, BlockIs
<1>6. Len((a \o b) \o c) = BlockSize + Round(Len(data))
  BY <1>1, <1>2, <1>5, BlockIs
<1> QED BY <1>2, <1>3, <1>5, <1>6, BlocksSum DEF a, b

\* Nothing, or one member that describes the next.
Described(long) == long = <<>> \/ (IsList(long) /\ Len(long) = 1 /\ long[1].size \in Nat)

LEMMA LongIs ==
  ASSUME NEW h \in Nat, NEW long, Described(long)
  PROVE  /\ Long(h, long) \in ByteSeq /\ Blocks(Len(Long(h, long)))
         /\ IsList(long) /\ Len(long) \in Nat
<1>1. CASE long = <<>>
  <2>1. Long(h, long) = <<>>
    BY <1>1 DEF Long
  <2>2. <<>> \in ByteSeq /\ Len(<<>>) = 0
    BY DEF ByteSeq
  <2> QED BY <1>1, <2>1, <2>2, BlocksSum, ListedNone
<1>2. CASE long # <<>>
  <2>1. IsList(long) /\ Len(long) = 1 /\ long[1].size \in Nat
    BY <1>2 DEF Described
  <2>2. Long(h, long) = Appended(h, Upto(long[1].size))
    BY <1>2 DEF Long
  <2>3. Upto(long[1].size) \in Seq(Nat)
    BY <2>1, UptoIs
  <2>4. /\ Appended(h, Upto(long[1].size)) \in ByteSeq
        /\ Blocks(Len(Appended(h, Upto(long[1].size))))
    BY <2>3, AppendedIs
  <2> QED BY <2>1, <2>2, <2>4
<1> QED BY <1>1, <1>2

\* A write changes nothing before the position and has its bytes behind it.
LEMMA WriteIs ==
  ASSUME out \in ByteSeq, at \in 0..Len(out), NEW bytes \in ByteSeq, Write(bytes)
  PROVE  /\ out' \in ByteSeq /\ at' = at + Len(bytes) /\ at' \in 0..Len(out')
         /\ Len(out) <= Len(out')
         /\ \A i \in 1..at : out'[i] = out[i]
         /\ \A i \in 1..Len(bytes) : out'[at + i] = bytes[i]
         /\ at = Len(out) => at' = Len(out')
<1> DEFINE n == IF at + Len(bytes) > Len(out) THEN at + Len(bytes) ELSE Len(out)
<1>1. Len(out) \in Nat /\ at \in Nat /\ Len(bytes) \in Nat /\ at <= Len(out)
  BY LenProperties DEF ByteSeq
<1>2. /\ out' = [i \in 1..n |-> IF i \in (at + 1)..(at + Len(bytes)) THEN bytes[i - at] ELSE out[i]]
      /\ at' = at + Len(bytes)
  BY DEF Write, Put
<1>3. n \in Nat /\ at + Len(bytes) <= n /\ Len(out) <= n /\ (at = Len(out) => n = at + Len(bytes))
  BY <1>1
<1>4. (\A i \in 1..Len(out) : out[i] \in AByte) /\ (\A i \in 1..Len(bytes) : bytes[i] \in AByte)
  BY ElementOfSeq DEF ByteSeq
<1>5. n = at + Len(bytes) \/ n = Len(out)
  OBVIOUS
<1> HIDE DEF n
<1>6. \A i \in 1..n : (IF i \in (at + 1)..(at + Len(bytes)) THEN bytes[i - at] ELSE out[i]) \in AByte
  <2> TAKE i \in 1..n
  <2>1. CASE i \in (at + 1)..(at + Len(bytes))
    <3>1. i - at \in 1..Len(bytes)
      BY <1>1, <2>1
    <3> QED BY <1>4, <2>1, <3>1
  <2>2. CASE i \notin (at + 1)..(at + Len(bytes))
    <3>1. i \in 1..Len(out)
      BY <1>1, <1>3, <1>5, <2>2
    <3> QED BY <1>4, <2>2, <3>1
  <2> QED BY <2>1, <2>2
<1>7. out' \in [1..n -> AByte]
  BY <1>2, <1>6
<1>8. out' \in ByteSeq /\ Len(out') = n
  BY <1>3, <1>7, FunctionIsSequence DEF ByteSeq
<1>9. \A i \in 1..at : out'[i] = out[i]
  <2> TAKE i \in 1..at
  <2>1. i \in 1..n /\ i \notin (at + 1)..(at + Len(bytes))
    BY <1>1, <1>3
  <2> QED BY <1>2, <2>1
<1>10. \A i \in 1..Len(bytes) : out'[at + i] = bytes[i]
  <2> TAKE i \in 1..Len(bytes)
  <2>1. at + i \in 1..n /\ at + i \in (at + 1)..(at + Len(bytes)) /\ (at + i) - at = i
    BY <1>1, <1>3
  <2> QED BY <1>2, <2>1
<1> QED BY <1>1, <1>2, <1>3, <1>8, <1>9, <1>10

-----------------------------------------------------------------------------
(* Entries in a stream.                                                    *)

LiesIn(o, hs, e, start, n) ==
  /\ start % BlockSize = 0
  /\ e.end = start + BlockSize * (n + 1) + Round(Len(e.data))
  /\ \A k \in 0..n : HasIn(o, start + BlockSize * k, HeaderBytes(e.h + k))
  /\ HasIn(o, start + BlockSize * (n + 1), Contents(e.h, e.data))
  /\ hs[e.h].kind = "header" /\ hs[e.h].size = Len(e.data)
  /\ \A k \in 1..n : hs[e.h + k].kind = "extension"

EntryOK(e) == e.end \in Nat /\ e.h \in Nat \ {0} /\ e.data \in Seq(Nat)

EndIn(es, i) == IF i = 0 THEN 0 ELSE es[i].end

\* The entries are one behind the other below a limit, and their headers among the first.
InOrder(o, hs, es, limit, top) ==
  \A i \in 1..Len(es) :
    /\ es[i].end <= limit
    /\ \E n \in 0..Len(hs) :
         /\ es[i].h + n <= top
         /\ \E start \in EndIn(es, i - 1)..es[i].end : LiesIn(o, hs, es[i], start, n)

\* What is kept of a stream that keeps its first bytes.
LEMMA Shifted ==
  ASSUME NEW a \in Nat, NEW m \in Nat, NEW l \in Nat, a + m <= l
  PROVE  \A i \in 1..m : a + i \in 1..l
OBVIOUS

LEMMA HasKept ==
  ASSUME NEW o, NEW q, NEW limit \in Nat, limit <= Len(q), Len(q) \in Nat,
         \A i \in 1..limit : q[i] = o[i],
         NEW offset \in Nat, NEW bytes \in ByteSeq, HasIn(o, offset, bytes),
         offset + Len(bytes) <= limit
  PROVE  HasIn(q, offset, bytes)
<1>1. Len(bytes) \in Nat
  BY LenProperties DEF ByteSeq
<1>2. \A i \in 1..Len(bytes) : offset + i \in 1..limit
  BY <1>1, Shifted, Zenon
<1> QED BY <1>1, <1>2 DEF HasIn

LEMMA LiesKept ==
  ASSUME NEW o, NEW q, NEW limit \in Nat, limit <= Len(q), Len(q) \in Nat,
         \A i \in 1..limit : q[i] = o[i],
         NEW e, EntryOK(e), e.end <= limit, NEW start \in Nat, NEW n \in Nat,
         NEW hs, NEW ks, \A k \in 0..n : ks[e.h + k] = hs[e.h + k],
         LiesIn(o, hs, e, start, n)
  PROVE  LiesIn(q, ks, e, start, n)
<1> DEFINE m == BlockSize * (n + 1)
<1>1. /\ e.end = start + m + Round(Len(e.data)) /\ e.h \in Nat /\ e.data \in Seq(Nat)
      /\ m \in Nat /\ Len(e.data) \in Nat
  <2>1. n + 1 \in Nat
    OBVIOUS
  <2>2. e.end = start + m + Round(Len(e.data)) /\ e.h \in Nat /\ e.data \in Seq(Nat)
    BY DEF EntryOK, LiesIn
  <2>3. m \in Nat
    BY <2>1, BlockIs
  <2> QED BY <2>2, <2>3, LenProperties, Zenon
<1>2. Len(e.data) <= Round(Len(e.data)) /\ Round(Len(e.data)) \in Nat
  <2> DEFINE len == Len(e.data)
             rest == Len(Pad(len))
             long == Round(len)
  <2>1. len \in Nat /\ rest \in Nat /\ len + rest = long /\ long \in Nat
    BY <1>1, PadIs, Zenon
  <2> HIDE DEF len, rest, long
  <2>2. len <= long
    BY <2>1
  <2> QED BY <2>1, <2>2 DEF len, long
<1>3. \A k \in 0..n : BlockSize * k \in Nat /\ BlockSize * k + BlockSize <= m
  <2> TAKE k \in 0..n
  <2>1. BlockSize * k \in Nat /\ BlockSize * (n - k) \in Nat
    <3>1. k \in Nat /\ n - k \in Nat
      OBVIOUS
    <3> QED BY <3>1, BlockIs
  <2>2. m = BlockSize * k + BlockSize * (n - k) + BlockSize
    BY BlockIs
  <2> QED BY <2>1, <2>2, BlockIs
<1> HIDE DEF m
<1>4. ASSUME NEW k \in 0..n
      PROVE  HasIn(q, start + BlockSize * k, HeaderBytes(e.h + k))
  <2> DEFINE bytes == HeaderBytes(e.h + k)
             offset == start + BlockSize * k
  <2>1. bytes \in ByteSeq /\ Len(bytes) = BlockSize
    BY <1>1, HeaderBytesIs
  <2>2. HasIn(o, offset, bytes)
    BY DEF LiesIn
  <2>3. offset \in Nat /\ offset + BlockSize <= limit
    <3>1. \A a, b, r, t, end \in Nat : (end = a + t + r /\ b + BlockSize <= t /\ end <= limit)
                                        => (a + b \in Nat /\ a + b + BlockSize <= limit)
      BY BlockIs
    <3>2. BlockSize * k \in Nat /\ BlockSize * k + BlockSize <= m
      BY <1>3
    <3>3. e.end \in Nat
      BY DEF EntryOK
    <3> QED BY <1>1, <1>2, <3>1, <3>2, <3>3
  <2> HIDE DEF bytes, offset
  <2>4. HasIn(q, offset, bytes)
    BY <2>1, <2>2, <2>3, HasKept
  <2> QED BY <2>4 DEF bytes, offset
<1>5. HasIn(q, start + m, Contents(e.h, e.data))
  <2>1. Contents(e.h, e.data) \in ByteSeq /\ Len(Contents(e.h, e.data)) = Len(e.data)
    BY <1>1, ContentsIs
  <2>2. HasIn(o, start + m, Contents(e.h, e.data))
    BY DEF LiesIn, m
  <2>3. start + m \in Nat /\ start + m + Len(e.data) <= limit
    <3> DEFINE len == Len(e.data)
               long == Round(len)
    <3>1. /\ len \in Nat /\ long \in Nat /\ len <= long /\ m \in Nat
          /\ start + m + long <= limit
      BY <1>1, <1>2
    <3> HIDE DEF len, long, m
    <3>2. start + m \in Nat /\ start + m + len <= limit
      BY <3>1
    <3> QED BY <3>2 DEF len
  <2> QED BY <2>1, <2>2, <2>3, HasKept
<1>6. ks[e.h].kind = "header" /\ ks[e.h].size = Len(e.data)
  <2>1. 0 \in 0..n /\ e.h + 0 = e.h
    BY <1>1
  <2>2. ks[e.h] = hs[e.h]
    BY <2>1
  <2> QED BY <2>2 DEF LiesIn
<1>7. \A k \in 1..n : ks[e.h + k].kind = "extension"
  <2> TAKE k \in 1..n
  <2>1. k \in 0..n
    OBVIOUS
  <2>2. ks[e.h + k] = hs[e.h + k]
    BY <2>1
  <2> QED BY <2>2 DEF LiesIn
<1> QED BY <1>4, <1>5, <1>6, <1>7 DEF LiesIn, m

LEMMA EndType ==
  ASSUME NEW es, IsList(es), \A i \in 1..Len(es) : EntryOK(es[i])
  PROVE  \A i \in 0..Len(es) : EndIn(es, i) \in Nat
<1>1. Len(es) \in Nat
  BY DEF IsList
<1>2. \A i \in 0..Len(es) : i # 0 => i \in 1..Len(es)
  BY <1>1
<1> QED BY <1>2 DEF EndIn, EntryOK

LEMMA OrderKept ==
  ASSUME NEW o, NEW q, NEW limit \in Nat, limit <= Len(q), Len(q) \in Nat,
         \A i \in 1..limit : q[i] = o[i],
         NEW hs, Len(hs) \in Nat, NEW ks, Len(ks) \in Nat, Len(hs) <= Len(ks),
         NEW top \in Int, \A h \in 1..top : ks[h] = hs[h],
         NEW es, IsList(es), \A i \in 1..Len(es) : EntryOK(es[i]),
         InOrder(o, hs, es, limit, top),
         NEW higher \in Nat, limit <= higher, NEW last \in Int, top <= last
  PROVE  InOrder(q, ks, es, higher, last)
<1> SUFFICES ASSUME NEW i \in 1..Len(es)
             PROVE  /\ es[i].end <= higher
                    /\ \E n \in 0..Len(ks) :
                         /\ es[i].h + n <= last
                         /\ \E start \in EndIn(es, i - 1)..es[i].end : LiesIn(q, ks, es[i], start, n)
  BY DEF InOrder
<1> DEFINE e == es[i]
<1>1. /\ e.end <= limit
      /\ \E n \in 0..Len(hs) :
           /\ e.h + n <= top
           /\ \E start \in EndIn(es, i - 1)..e.end : LiesIn(o, hs, e, start, n)
  BY DEF InOrder
<1>2. EntryOK(e) /\ e.end \in Nat /\ e.h \in Nat \ {0}
  BY DEF EntryOK
<1>3. EndIn(es, i - 1) \in Nat
  <2>1. i - 1 \in 0..Len(es)
    BY DEF IsList
  <2> QED BY <2>1, EndType
<1> HIDE DEF e
<1>4. PICK n \in 0..Len(hs) : /\ e.h + n <= top
                              /\ \E start \in EndIn(es, i - 1)..e.end : LiesIn(o, hs, e, start, n)
  BY <1>1
<1>5. PICK start \in EndIn(es, i - 1)..e.end : LiesIn(o, hs, e, start, n)
  BY <1>4
<1>6. start \in Nat /\ n \in Nat /\ n \in 0..Len(ks)
  BY <1>2, <1>3
<1>7. \A k \in 0..n : ks[e.h + k] = hs[e.h + k]
  <2> TAKE k \in 0..n
  <2>1. \A a \in Nat \ {0} : a + n <= top => a + k \in 1..top
    BY <1>6
  <2>2. e.h + k \in 1..top
    BY <1>2, <1>4, <2>1
  <2> QED BY <2>2
<1>8. LiesIn(q, ks, e, start, n)
  BY <1>1, <1>2, <1>5, <1>6, <1>7, LiesKept
<1>9. e.end <= higher /\ e.h + n <= last
  <2>1. \A a, b \in Nat : (a <= limit => a <= higher) /\ (b + n <= top => b + n <= last)
    BY <1>6
  <2>2. e.h \in Nat
    BY <1>2
  <2> QED BY <1>1, <1>2, <1>4, <2>1, <2>2
<1> QED BY <1>5, <1>6, <1>8, <1>9 DEF e

\* One more entry.
LEMMA OrderAdd ==
  ASSUME NEW o, NEW hs, Len(hs) \in Nat, NEW es, IsList(es),
         \A i \in 1..Len(es) : EntryOK(es[i]),
         NEW limit \in Nat, NEW top \in Int, InOrder(o, hs, es, limit, top),
         NEW e, EntryOK(e), e.end <= limit, NEW n \in 0..Len(hs), e.h + n <= top,
         NEW start \in Nat, start <= e.end, \A i \in 1..Len(es) : es[i].end <= start,
         LiesIn(o, hs, e, start, n)
  PROVE  InOrder(o, hs, Append(es, e), limit, top)
<1> DEFINE ds == Append(es, e)
<1>1. /\ IsList(ds) /\ Len(ds) = Len(es) + 1 /\ ds[Len(es) + 1] = e
      /\ \A i \in 1..Len(es) : ds[i] = es[i]
  BY ListedAppend
<1>2. Len(es) \in Nat
  BY DEF IsList
<1> HIDE DEF ds
<1>3. \A i \in 0..Len(es) : EndIn(ds, i) = EndIn(es, i)
  <2> TAKE i \in 0..Len(es)
  <2>1. i = 0 \/ i \in 1..Len(es)
    BY <1>2
  <2> QED BY <1>1, <2>1 DEF EndIn
<1>4. ASSUME NEW i \in 1..Len(es)
      PROVE  /\ ds[i].end <= limit
             /\ \E m \in 0..Len(hs) :
                  /\ ds[i].h + m <= top
                  /\ \E s \in EndIn(ds, i - 1)..ds[i].end : LiesIn(o, hs, ds[i], s, m)
  <2>1. ds[i] = es[i] /\ i - 1 \in 0..Len(es)
    BY <1>1, <1>2
  <2>2. EndIn(ds, i - 1) = EndIn(es, i - 1)
    BY <1>3, <2>1
  <2> QED BY <2>1, <2>2 DEF InOrder
<1>5. start \in EndIn(ds, Len(es))..e.end
  <2>1. EndIn(ds, Len(es)) = EndIn(es, Len(es))
    BY <1>2, <1>3
  <2>2. EndIn(es, Len(es)) <= start
    BY <1>2 DEF EndIn
  <2>3. EndIn(es, Len(es)) \in Nat
    BY <1>2, EndType
  <2> QED BY <2>1, <2>2, <2>3 DEF EntryOK
<1>6. ASSUME NEW i \in 1..Len(ds), i \notin 1..Len(es)
      PROVE  i = Len(es) + 1 /\ i - 1 = Len(es)
  BY <1>1, <1>2, <1>6
<1>7. ASSUME NEW i \in 1..Len(ds)
      PROVE  /\ ds[i].end <= limit
             /\ \E m \in 0..Len(hs) :
                  /\ ds[i].h + m <= top
                  /\ \E s \in EndIn(ds, i - 1)..ds[i].end : LiesIn(o, hs, ds[i], s, m)
  <2>1. CASE i \in 1..Len(es)
    BY <1>4, <2>1
  <2>2. CASE i \notin 1..Len(es)
    <3>1. ds[i] = e /\ i - 1 = Len(es)
      BY <1>1, <1>6, <2>2
    <3> QED BY <1>5, <3>1
  <2> QED BY <2>1, <2>2
<1>8. InOrder(o, hs, ds, limit, top)
  BY <1>7 DEF InOrder
<1> QED BY <1>8 DEF ds

-----------------------------------------------------------------------------
(* The invariant and a call.                                               *)

\* The headers that entries may have.
Top == IF writer = None THEN Len(headers) ELSE writer.h - 1

Stacked(s) ==
  IsList(s) /\ \A i \in 1..Len(s) : s[i].node \in DOMAIN Tree /\ s[i].dest \in Path

LEMMA TypeIs ==
  ASSUME TypeOK
  PROVE  /\ out \in ByteSeq /\ at \in 0..Len(out) /\ Len(out) \in Nat /\ at \in Nat
         /\ IsList(headers) /\ Len(headers) \in Nat
         /\ IsList(entries) /\ \A i \in 1..Len(entries) : EntryOK(entries[i])
         /\ Stacked(stack)
         /\ writer # None => /\ writer.h \in Nat /\ writer.path \in Path /\ writer.written \in Nat
                             /\ writer = [h |-> writer.h, path |-> writer.path,
                                          written |-> writer.written]
<1>1. out \in ByteSeq /\ at \in 0..Len(out) /\ Len(out) \in Nat
  BY LenProperties DEF TypeOK, ByteSeq, AByte
<1>2. IsList(headers) /\ Len(headers) \in Nat /\ IsList(entries) /\ IsList(stack)
  BY DEF TypeOK, IsList
<1>3. DOMAIN entries = 1..Len(entries) /\ DOMAIN stack = 1..Len(stack)
  BY <1>2, ListedIs
<1>4. \A i \in 1..Len(entries) : EntryOK(entries[i])
  BY <1>3 DEF TypeOK, EntryOK
<1>5. Stacked(stack)
  BY <1>2, <1>3 DEF TypeOK, Stacked
<1>6. writer # None => /\ writer.h \in Nat /\ writer.path \in Path /\ writer.written \in Nat
                       /\ writer = [h |-> writer.h, path |-> writer.path,
                                    written |-> writer.written]
  BY DEF TypeOK
<1> QED BY <1>1, <1>2, <1>4, <1>5, <1>6

LEMMA TypeNext ==
  ASSUME out' \in ByteSeq, at' \in 0..Len(out'), IsList(headers'), IsList(entries'),
         \A i \in 1..Len(entries') : EntryOK(entries'[i]),
         Stacked(stack'), finished' \in BOOLEAN, failed' \in BOOLEAN,
         writer' = None \/ writer' \in [h : Nat, path : Path, written : Nat]
  PROVE  TypeOK'
<1>1. DOMAIN entries' = 1..Len(entries') /\ DOMAIN stack' = 1..Len(stack') /\ IsList(stack')
  BY ListedIs DEF Stacked
<1>2. \A i \in DOMAIN entries' : /\ entries'[i].end \in Nat /\ entries'[i].h \in Nat \ {0}
                                 /\ entries'[i].data \in Seq(Nat)
  BY <1>1 DEF EntryOK
<1>3. \A i \in DOMAIN stack' : stack'[i].node \in DOMAIN Tree /\ stack'[i].dest \in Path
  BY <1>1 DEF Stacked
<1>4. /\ Len(headers') \in Nat /\ headers' = [h \in 1..Len(headers') |-> headers'[h]]
      /\ Len(entries') \in Nat /\ entries' = [i \in 1..Len(entries') |-> entries'[i]]
      /\ Len(stack') \in Nat /\ stack' = [i \in 1..Len(stack') |-> stack'[i]]
  BY <1>1 DEF IsList
<1>5. out' \in Seq(Nat \X Nat)
  BY DEF ByteSeq, AByte
<1> QED BY <1>2, <1>3, <1>4, <1>5 DEF TypeOK

LEMMA FrontierIs ==
  ASSUME TypeOK, WriterInv
  PROVE  /\ Frontier \in Nat /\ Frontier <= at /\ Top \in Int /\ Top <= Len(headers)
         /\ writer = None => Frontier = at /\ Top = Len(headers)
         /\ writer # None => Frontier = HeaderAt /\ Top = writer.h - 1
<1>1. CASE writer = None
  BY <1>1, TypeIs DEF Frontier, Top
<1>2. CASE writer # None
  <2>1. /\ writer.h = Len(headers) /\ BlockSize + writer.written <= at
        /\ writer.written \in Nat /\ writer.h \in Nat /\ at \in Nat
    BY <1>2, TypeIs DEF WriterInv
  <2>2. HeaderAt = at - writer.written - BlockSize
    BY DEF HeaderAt
  <2>3. at - writer.written - BlockSize \in Nat /\ at - writer.written - BlockSize <= at
    BY <2>1, BlockIs
  <2> HIDE DEF HeaderAt
  <2> QED BY <1>2, <2>1, <2>2, <2>3 DEF Frontier, Top
<1> QED BY <1>1, <1>2

LEMMA OrderIs ==
  ASSUME TypeOK, WriterInv, Apart
  PROVE  InOrder(out, headers, entries, Frontier, Top)
<1>1. DOMAIN entries = 1..Len(entries) /\ Len(headers) \in Nat /\ Len(entries) \in Nat
  BY TypeIs, ListedIs DEF IsList
<1> SUFFICES ASSUME NEW i \in 1..Len(entries)
             PROVE  /\ entries[i].end <= Frontier
                    /\ \E n \in 0..Len(headers) :
                         /\ entries[i].h + n <= Top
                         /\ \E start \in EndIn(entries, i - 1)..entries[i].end :
                              LiesIn(out, headers, entries[i], start, n)
  BY DEF InOrder
<1>2. i # 0 /\ EndOf(i) = entries[i].end /\ EndOf(i - 1) = EndIn(entries, i - 1)
  BY <1>1 DEF EndOf, EndIn
<1>3. /\ EndOf(i) <= Frontier
      /\ \E n \in 0..Len(headers) :
           /\ Placed(i, n)
           /\ entries[i].h + n <= Len(headers) /\ (writer # None => entries[i].h + n < writer.h)
  BY <1>1 DEF Apart
<1>4. PICK n \in 0..Len(headers) :
           /\ Placed(i, n)
           /\ entries[i].h + n <= Len(headers) /\ (writer # None => entries[i].h + n < writer.h)
  BY <1>3
<1>5. PICK start \in EndIn(entries, i - 1)..entries[i].end : LiesAt(entries[i], start, n)
  BY <1>2, <1>4 DEF Placed
<1>6. LiesIn(out, headers, entries[i], start, n)
  BY <1>5 DEF LiesAt, LiesIn, Has, HasIn
<1>7. entries[i].h + n <= Top
  <2>1. entries[i].h \in Nat /\ n \in Nat
    BY <1>1, TypeIs DEF EntryOK
  <2>2. writer # None => writer.h \in Nat
    BY TypeIs
  <2> QED BY <1>4, <2>1, <2>2 DEF Top
<1> QED BY <1>2, <1>3, <1>5, <1>6, <1>7

LEMMA ApartNext ==
  ASSUME IsList(headers'), IsList(entries'), \A i \in 1..Len(entries') : EntryOK(entries'[i]),
         NEW limit, limit = Frontier', NEW top \in Int, top <= Len(headers'),
         writer' # None => writer'.h \in Int /\ top <= writer'.h - 1,
         InOrder(out', headers', entries', limit, top)
  PROVE  Apart'
<1>1. DOMAIN entries' = 1..Len(entries') /\ Len(headers') \in Nat /\ Len(entries') \in Nat
  BY ListedIs DEF IsList
<1>2. SUFFICES ASSUME NEW i \in 1..Len(entries')
               PROVE  /\ EndOf(i)' <= Frontier'
                      /\ \E n \in 0..Len(headers') :
                           /\ Placed(i, n)'
                           /\ entries'[i].h + n <= Len(headers')
                           /\ writer' # None => entries'[i].h + n < writer'.h
  BY <1>1 DEF Apart
<1>3. i # 0 /\ EndOf(i)' = entries'[i].end /\ EndOf(i - 1)' = EndIn(entries', i - 1)
  BY <1>1 DEF EndOf, EndIn
<1>4. /\ entries'[i].end <= limit
      /\ \E n \in 0..Len(headers') :
           /\ entries'[i].h + n <= top
           /\ \E start \in EndIn(entries', i - 1)..entries'[i].end :
                LiesIn(out', headers', entries'[i], start, n)
  BY DEF InOrder
<1>5. PICK n \in 0..Len(headers') :
        /\ entries'[i].h + n <= top
        /\ \E start \in EndIn(entries', i - 1)..entries'[i].end :
             LiesIn(out', headers', entries'[i], start, n)
  BY <1>4
<1>6. PICK start \in EndIn(entries', i - 1)..entries'[i].end :
        LiesIn(out', headers', entries'[i], start, n)
  BY <1>5
<1>7. LiesAt(entries[i], start, n)'
  BY <1>6 DEF LiesAt, LiesIn, Has, HasIn
<1>8. Placed(i, n)'
  BY <1>3, <1>7 DEF Placed
<1>9. entries'[i].h + n <= Len(headers') /\ (writer' # None => entries'[i].h + n < writer'.h)
  <2>1. entries'[i].h \in Nat /\ n \in Nat
    BY <1>1 DEF EntryOK
  <2> QED BY <1>1, <1>5, <2>1
<1> QED BY <1>3, <1>4, <1>8, <1>9

\* An entry is where the stream ends now.
Lands(e) ==
  /\ EntryOK(e) /\ e.end = at'
  /\ \E n \in 0..Len(headers'), start \in at..at' :
       e.h + n <= Len(headers') /\ LiesIn(out', headers', e, start, n)

\* A call writes behind everything, whole or in part, and appends at most one entry.
LEMMA Forward ==
  ASSUME BuilderInv, writer = None, writer' = None, Stacked(stack'),
         finished' \in BOOLEAN, failed' \in BOOLEAN,
         NEW b \in ByteSeq, Write(b), NEW new, IsList(new), headers' = headers \o new,
         ~failed' => ~failed /\ Blocks(Len(b)),
         entries' = entries \/ \E e : entries' = Append(entries, e) /\ Lands(e)
  PROVE  BuilderInv'
<1>1. TypeOK /\ OnBoundary /\ WriterInv /\ Apart
  BY DEF BuilderInv
<1>2. /\ out \in ByteSeq /\ at \in 0..Len(out) /\ Len(out) \in Nat /\ at \in Nat
      /\ IsList(headers) /\ Len(headers) \in Nat
      /\ IsList(entries) /\ \A i \in 1..Len(entries) : EntryOK(entries[i])
  BY <1>1, TypeIs
<1>3. /\ out' \in ByteSeq /\ at' = at + Len(b) /\ at' \in 0..Len(out') /\ Len(out) <= Len(out')
      /\ \A i \in 1..at : out'[i] = out[i]
      /\ at = Len(out) => at' = Len(out')
  BY <1>2, WriteIs
<1>4. Len(b) \in Nat /\ Len(out') \in Nat /\ at' \in Nat /\ at <= at' /\ at <= Len(out')
  BY <1>2, <1>3, LenProperties DEF ByteSeq
<1>5. /\ IsList(headers') /\ Len(headers') \in Nat /\ Len(headers) <= Len(headers')
      /\ \A h \in 1..Len(headers) : headers'[h] = headers[h]
  <2>1. /\ IsList(headers \o new) /\ Len(headers \o new) = Len(headers) + Len(new)
        /\ \A h \in 1..Len(headers) : (headers \o new)[h] = headers[h]
    BY <1>2, ListedJoin
  <2>2. Len(new) \in Nat
    BY DEF IsList
  <2> QED BY <1>2, <2>1, <2>2
<1>6. InOrder(out, headers, entries, at, Len(headers))
  BY <1>1, OrderIs, FrontierIs
<1>7. InOrder(out', headers', entries, at', Len(headers'))
  <2>1. Len(headers) \in Int /\ Len(headers') \in Int
    BY <1>2, <1>5
  <2> QED BY <1>2, <1>3, <1>4, <1>5, <1>6, <2>1, OrderKept
<1>8. /\ InOrder(out', headers', entries', at', Len(headers')) /\ IsList(entries')
      /\ \A i \in 1..Len(entries') : EntryOK(entries'[i])
  <2>1. CASE entries' = entries
    BY <1>2, <1>7, <2>1
  <2>2. ASSUME NEW e, entries' = Append(entries, e), Lands(e)
        PROVE  /\ InOrder(out', headers', entries', at', Len(headers')) /\ IsList(entries')
               /\ \A i \in 1..Len(entries') : EntryOK(entries'[i])
    <3>1. EntryOK(e) /\ e.end = at'
      BY <2>2 DEF Lands
    <3>2. PICK n \in 0..Len(headers'), start \in at..at' :
            e.h + n <= Len(headers') /\ LiesIn(out', headers', e, start, n)
      BY <2>2 DEF Lands
    <3>3. \A i \in 1..Len(entries) : entries[i].end <= start
      <4>1. \A i \in 1..Len(entries) : entries[i].end <= at /\ entries[i].end \in Nat
        BY <1>2, <1>6 DEF InOrder, EntryOK
      <4> QED BY <1>2, <1>4, <4>1
    <3>4. start \in Nat /\ start <= e.end /\ e.end <= at' /\ Len(headers') \in Int
      BY <1>2, <1>4, <1>5, <3>1
    <3>5. InOrder(out', headers', Append(entries, e), at', Len(headers'))
      BY <1>2, <1>4, <1>5, <1>7, <3>1, <3>2, <3>3, <3>4, OrderAdd
    <3>6. /\ IsList(Append(entries, e)) /\ Len(Append(entries, e)) = Len(entries) + 1
          /\ \A i \in 1..Len(entries) : Append(entries, e)[i] = entries[i]
          /\ Append(entries, e)[Len(entries) + 1] = e
      BY <1>2, ListedAppend
    <3>7. \A i \in 1..Len(entries') : EntryOK(entries'[i])
      <4> TAKE i \in 1..Len(entries')
      <4>1. Len(entries) \in Nat
        BY <1>2 DEF IsList
      <4>2. i \in 1..Len(entries) \/ i = Len(entries) + 1
        BY <2>2, <3>6, <4>1
      <4> QED BY <1>2, <2>2, <3>1, <3>6, <4>2
    <3> QED BY <2>2, <3>5, <3>6, <3>7
  <2> QED BY <2>1, <2>2
<1>9. TypeOK'
  BY <1>3, <1>5, <1>8, TypeNext
<1>10. OnBoundary'
  <2>1. SUFFICES ASSUME ~failed' PROVE at' = Len(out') /\ at' % BlockSize = 0
    BY DEF OnBoundary
  <2>2. at = Len(out) /\ at % BlockSize = 0 /\ Blocks(Len(b))
    BY <1>1, <2>1 DEF OnBoundary
  <2>3. Blocks(at + Len(b))
    BY <1>2, <2>2, BlocksSum DEF Blocks
  <2> QED BY <1>3, <2>2, <2>3 DEF Blocks
<1>11. WriterInv'
  BY DEF WriterInv
<1>12. Apart'
  <2>1. at' = Frontier' /\ Len(headers') \in Int /\ Len(headers') <= Len(headers')
    BY <1>5 DEF Frontier
  <2> QED BY <1>5, <1>8, <2>1, ApartNext
<1> QED BY <1>9, <1>10, <1>11, <1>12 DEF BuilderInv

\* What begins with a write is in the stream behind the position.
LEMMA HasWritten ==
  ASSUME out \in ByteSeq, at \in 0..Len(out), NEW b \in ByteSeq, Write(b),
         NEW d \in Nat, NEW u, Len(u) \in Nat, HasIn(b, d, u)
  PROVE  HasIn(out', at + d, u)
<1>1. /\ out' \in ByteSeq /\ at' = at + Len(b) /\ at' \in 0..Len(out')
      /\ \A i \in 1..Len(b) : out'[at + i] = b[i]
  BY WriteIs
<1>2. at \in Nat /\ Len(b) \in Nat /\ Len(out') \in Nat
  BY <1>1, LenProperties DEF ByteSeq
<1>3. d + Len(u) <= Len(b) /\ \A i \in 1..Len(u) : b[d + i] = u[i]
  BY DEF HasIn
<1>4. (at + d) + Len(u) <= Len(out')
  BY <1>1, <1>2, <1>3
<1>5. ASSUME NEW i \in 1..Len(u)
      PROVE  out'[(at + d) + i] = u[i]
  <2>1. d + i \in 1..Len(b) /\ at + (d + i) = (at + d) + i
    BY <1>2, <1>3
  <2> QED BY <1>1, <1>3, <2>1
<1> QED BY <1>4, <1>5 DEF HasIn

-----------------------------------------------------------------------------
(* Requests.                                                               *)

\* The bytes of a request are an entry, the last of its members, behind the headers there are.
Carries(r, top) ==
  \E j \in 1..Len(r.headers), n \in Nat, d \in Nat :
    /\ j + n <= Len(r.headers) /\ Blocks(d)
    /\ {"h", "data", "end", "pax"} \subseteq DOMAIN r.entry
    /\ r.entry.h = top + j /\ r.entry.data \in Seq(Nat)
    /\ Len(r.bytes) = d + BlockSize * (n + 1) + Round(Len(r.entry.data))
    /\ \A k \in 0..n : HasIn(r.bytes, d + BlockSize * k, HeaderBytes(top + j + k))
    /\ HasIn(r.bytes, d + BlockSize * (n + 1), Contents(top + j, r.entry.data))
    /\ r.headers[j].kind = "header" /\ r.headers[j].size = Len(r.entry.data)
    /\ \A k \in 1..n : r.headers[j + k].kind = "extension"

Sound(r) ==
  /\ r.bytes \in ByteSeq /\ IsList(r.headers) /\ r.ok \in BOOLEAN /\ r.steady \in BOOLEAN
  /\ r.ok /\ r.steady => Carries(r, Len(headers))
  /\ ~r.ok => Blocks(Len(r.bytes))

LEMMA CarriesAsWell ==
  ASSUME NEW e, NEW r, r.bytes = e.bytes, r.headers = e.headers, r.entry = e.entry, NEW top,
         Carries(e, top)
  PROVE  Carries(r, top)
<1> DEFINE b == e.bytes
           hs == e.headers
           i == e.entry
<1>1. PICK j \in 1..Len(hs), n \in Nat, d \in Nat :
    /\ j + n <= Len(hs) /\ Blocks(d)
    /\ {"h", "data", "end", "pax"} \subseteq DOMAIN i
    /\ i.h = top + j /\ i.data \in Seq(Nat)
    /\ Len(b) = d + BlockSize * (n + 1) + Round(Len(i.data))
    /\ \A k \in 0..n : HasIn(b, d + BlockSize * k, HeaderBytes(top + j + k))
    /\ HasIn(b, d + BlockSize * (n + 1), Contents(top + j, i.data))
    /\ hs[j].kind = "header" /\ hs[j].size = Len(i.data)
    /\ \A k \in 1..n : hs[j + k].kind = "extension"
  BY DEF Carries
<1>2. r.bytes = b /\ r.headers = hs /\ r.entry = i
  OBVIOUS
<1> HIDE DEF b, hs, i
<1> QED BY <1>1, <1>2 DEF Carries

LEMMA CarriesBlocks ==
  ASSUME NEW r, NEW top, Carries(r, top)
  PROVE  Blocks(Len(r.bytes))
<1>1. PICK j \in 1..Len(r.headers), n \in Nat, d \in Nat :
        /\ Blocks(d) /\ r.entry.data \in Seq(Nat)
        /\ Len(r.bytes) = d + BlockSize * (n + 1) + Round(Len(r.entry.data))
  BY DEF Carries
<1>2. Blocks(Round(Len(r.entry.data)))
  BY <1>1, LenProperties, PadIs DEF Blocks
<1>3. Blocks(BlockSize * (n + 1))
  <2>1. n + 1 \in Nat
    OBVIOUS
  <2> QED BY <2>1, BlocksSum
<1>4. Blocks(d + BlockSize * (n + 1))
  BY <1>1, <1>3, BlocksSum, Zenon
<1>5. Blocks((d + BlockSize * (n + 1)) + Round(Len(r.entry.data)))
  BY <1>2, <1>4, BlocksSum, Zenon
<1> QED BY <1>1, <1>5

\* What a sound request would be, when it is done, is an entry behind the others.
LEMMA CarriesLands ==
  ASSUME TypeOK, NEW r, r.bytes \in ByteSeq, IsList(r.headers), Carries(r, Len(headers)),
         at % BlockSize = 0, Write(r.bytes), headers' = headers \o r.headers,
         NEW records
  PROVE  Lands([r.entry EXCEPT !.pax = records, !.end = at'])
<1> DEFINE e == [r.entry EXCEPT !.pax = records, !.end = at']
           top == Len(headers)
<1>1. /\ out \in ByteSeq /\ at \in 0..Len(out) /\ at \in Nat /\ IsList(headers) /\ top \in Nat
  BY TypeIs
<1>2. PICK j \in 1..Len(r.headers), n \in Nat, d \in Nat :
    /\ j + n <= Len(r.headers) /\ Blocks(d)
    /\ {"h", "data", "end", "pax"} \subseteq DOMAIN r.entry
    /\ r.entry.h = top + j /\ r.entry.data \in Seq(Nat)
    /\ Len(r.bytes) = d + BlockSize * (n + 1) + Round(Len(r.entry.data))
    /\ \A k \in 0..n : HasIn(r.bytes, d + BlockSize * k, HeaderBytes(top + j + k))
    /\ HasIn(r.bytes, d + BlockSize * (n + 1), Contents(top + j, r.entry.data))
    /\ r.headers[j].kind = "header" /\ r.headers[j].size = Len(r.entry.data)
    /\ \A k \in 1..n : r.headers[j + k].kind = "extension"
  BY DEF Carries
<1>3. e.h = top + j /\ e.data = r.entry.data /\ e.end = at'
  BY <1>2
<1> HIDE DEF e
<1>4. /\ out' \in ByteSeq /\ at' = at + Len(r.bytes) /\ at' \in 0..Len(out')
      /\ Len(r.bytes) \in Nat
  BY <1>1, WriteIs, LenProperties DEF ByteSeq
<1>5. /\ Len(headers') = top + Len(r.headers) /\ Len(r.headers) \in Nat
      /\ \A i \in 1..Len(r.headers) : headers'[top + i] = r.headers[i]
  <2>1. /\ Len(headers \o r.headers) = Len(headers) + Len(r.headers)
        /\ \A i \in 1..Len(r.headers) : (headers \o r.headers)[Len(headers) + i] = r.headers[i]
    BY <1>1, ListedJoin
  <2>2. Len(r.headers) \in Nat
    BY DEF IsList
  <2> QED BY <2>1, <2>2
<1>6. Round(Len(r.entry.data)) \in Nat /\ BlockSize * (n + 1) \in Nat
  <2>1. n + 1 \in Nat
    OBVIOUS
  <2>2. Len(r.entry.data) \in Nat
    BY <1>2, LenProperties
  <2>3. Round(Len(r.entry.data)) \in Nat
    BY <2>2, PadIs
  <2> QED BY <2>1, <2>3, BlockIs
<1>7. EntryOK(e)
  <2> HIDE DEF top
  <2>1. \A a \in Nat : a + j \in Nat \ {0}
    OBVIOUS
  <2>2. \A a, b \in Nat : a + b \in Nat
    OBVIOUS
  <2>3. e.h \in Nat \ {0}
    BY <1>1, <1>3, <2>1, Zenon
  <2>4. e.end \in Nat
    BY <1>1, <1>3, <1>4, <2>2, Zenon
  <2>5. e.data \in Seq(Nat)
    BY <1>2, <1>3, Zenon
  <2> QED BY <2>3, <2>4, <2>5, Zenon DEF EntryOK
<1> DEFINE start == at + d
<1>8. start \in Nat /\ start % BlockSize = 0 /\ start \in at..at'
  <2>1. Blocks(at + d)
    BY <1>1, <1>2, BlocksSum DEF Blocks
  <2>2. d <= Len(r.bytes)
    <3>1. \A a, b \in Nat : d <= d + a + b
      OBVIOUS
    <3> QED BY <1>2, <1>6, <3>1
  <2> QED BY <1>1, <1>2, <1>4, <2>1, <2>2 DEF Blocks
<1>9. n \in 0..Len(headers') /\ e.h + n <= Len(headers')
  <2> DEFINE len == Len(r.headers)
  <2>1. len \in Nat /\ j \in Nat /\ n \in Nat /\ top \in Nat /\ j + n <= len
    BY <1>1, <1>2, <1>5
  <2>2. Len(headers') = top + len /\ e.h = top + j
    BY <1>3, <1>5
  <2> HIDE DEF len, top
  <2>3. n \in 0..(top + len) /\ top + j + n <= top + len
    BY <2>1
  <2> QED BY <2>2, <2>3
<1>10. e.end = start + BlockSize * (n + 1) + Round(Len(e.data))
  <2> DEFINE m == BlockSize * (n + 1)
             t == Round(Len(r.entry.data))
  <2>2. Len(r.bytes) = d + m + t /\ e.end = at + Len(r.bytes)
    BY <1>2, <1>3, <1>4
  <2>3. Round(Len(e.data)) = t
    BY <1>3
  <2> HIDE DEF m, t
  <2>4. at + (d + m + t) = start + m + t
    BY <1>1, <1>6 DEF m, t
  <2> QED BY <2>2, <2>3, <2>4 DEF m
<1>11. \A k \in 0..n : HasIn(out', start + BlockSize * k, HeaderBytes(e.h + k))
  <2> TAKE k \in 0..n
  <2> DEFINE u == HeaderBytes(e.h + k)
             offset == d + BlockSize * k
  <2>1. HasIn(r.bytes, offset, u)
    BY <1>2, <1>3
  <2>2. Len(u) \in Nat
    <3>1. e.h + k \in Nat
      BY <1>1, <1>2, <1>3
    <3> QED BY <3>1, HeaderBytesIs, BlockIs
  <2>3. BlockSize * k \in Nat
    BY BlockIs
  <2>4. offset \in Nat /\ at + offset = start + BlockSize * k
    <3>1. \A a, x \in Nat : d + x \in Nat /\ a + (d + x) = a + d + x
      OBVIOUS
    <3> QED BY <1>1, <2>3, <3>1
  <2> HIDE DEF u, offset, start
  <2>5. HasIn(out', at + offset, u)
    BY <1>1, <2>1, <2>2, <2>4, HasWritten
  <2> QED BY <2>4, <2>5 DEF u
<1>12. HasIn(out', start + BlockSize * (n + 1), Contents(e.h, e.data))
  <2> DEFINE u == Contents(e.h, e.data)
             offset == d + BlockSize * (n + 1)
  <2>1. HasIn(r.bytes, offset, u)
    BY <1>2, <1>3
  <2>2. Len(u) \in Nat
    BY <1>1, <1>2, <1>3, ContentsIs, LenProperties
  <2>4. offset \in Nat /\ at + offset = start + BlockSize * (n + 1)
    <3>1. \A a, x \in Nat : d + x \in Nat /\ a + (d + x) = a + d + x
      OBVIOUS
    <3> QED BY <1>1, <1>6, <3>1
  <2> HIDE DEF u, offset, start
  <2>5. HasIn(out', at + offset, u)
    BY <1>1, <2>1, <2>2, <2>4, HasWritten
  <2> QED BY <2>4, <2>5 DEF u
<1>13. headers'[e.h].kind = "header" /\ headers'[e.h].size = Len(e.data)
  BY <1>2, <1>3, <1>5
<1>14. \A k \in 1..n : headers'[e.h + k].kind = "extension"
  <2> TAKE k \in 1..n
  <2>1. j + k \in 1..Len(r.headers) /\ e.h + k = top + (j + k)
    BY <1>1, <1>2, <1>3, <1>5
  <2> QED BY <1>2, <1>5, <2>1
<1>15. LiesIn(out', headers', e, start, n)
  BY <1>8, <1>10, <1>11, <1>12, <1>13, <1>14 DEF LiesIn
<1>16. Lands(e)
  BY <1>3, <1>7, <1>8, <1>9, <1>15 DEF Lands
<1> QED BY <1>16 DEF e

\* A write that fails is a shorter write.
LEMMA PartWritten ==
  ASSUME NEW b \in ByteSeq, Breaks(b)
  PROVE  \E c \in ByteSeq : Write(c)
<1>1. PICK n \in Cuts : n < Len(b) /\ Write(SubSeq(b, 1, n))
  BY DEF Breaks
<1>2. SubSeq(b, 1, n) \in ByteSeq
  <2>1. n \in Nat
    BY ClientAssumption
  <2>2. \A i \in 1..n : i \in 1..Len(b)
    BY <1>1, <2>1, LenProperties DEF ByteSeq
  <2>3. \A i \in 1..n : b[i] \in AByte
    BY <2>2, ElementOfSeq DEF ByteSeq
  <2> QED BY <2>1, <2>3, SubSeqProperties DEF ByteSeq
<1> QED BY <1>1, <1>2

\* A call with a sound request, however it ends.
LEMMA Performed ==
  ASSUME BuilderInv, writer = None, writer' = None, Stacked(stack'), UNCHANGED finished,
         NEW r, Sound(r), headers' = headers \o r.headers,
         Done(r) \/ Fails(r) \/ Refused(r)
  PROVE  BuilderInv'
<1>1. /\ TypeOK /\ OnBoundary /\ finished' \in BOOLEAN /\ failed \in BOOLEAN
      /\ r.bytes \in ByteSeq /\ IsList(r.headers) /\ r.ok \in BOOLEAN /\ r.steady \in BOOLEAN
  BY DEF BuilderInv, TypeOK, Sound
<1>2. CASE Done(r)
  <2>1. /\ r.ok /\ Write(r.bytes) /\ failed' = (failed \/ ~r.steady)
        /\ entries' = IF failed' \/ finished THEN entries
                      ELSE Append(entries, [r.entry EXCEPT !.pax = pax, !.end = at'])
    BY <1>2 DEF Done
  <2>2. failed' \in BOOLEAN /\ (~failed' => ~failed /\ r.steady)
    BY <1>1, <2>1
  <2>3. ~failed' => ~failed /\ Blocks(Len(r.bytes))
    BY <2>1, <2>2, CarriesBlocks DEF Sound
  <2>4. entries' = entries \/ \E e : entries' = Append(entries, e) /\ Lands(e)
    <3>1. CASE failed' \/ finished
      BY <2>1, <3>1
    <3>2. CASE ~(failed' \/ finished)
      <4> DEFINE e == [r.entry EXCEPT !.pax = pax, !.end = at']
      <4>1. Carries(r, Len(headers)) /\ at % BlockSize = 0
        BY <1>1, <2>1, <2>2, <3>2 DEF Sound, OnBoundary
      <4>2. Lands(e)
        BY <1>1, <2>1, <4>1, CarriesLands
      <4>3. entries' = Append(entries, e)
        BY <2>1, <3>2
      <4> HIDE DEF e
      <4> QED BY <4>2, <4>3
    <3> QED BY <3>1, <3>2
  <2> QED BY <1>1, <2>1, <2>2, <2>3, <2>4, Forward
<1>3. CASE Fails(r)
  <2>1. PICK c \in ByteSeq : Write(c)
    BY <1>1, <1>3, PartWritten DEF Fails
  <2>2. failed' = TRUE /\ entries' = entries
    BY <1>3 DEF Fails
  <2> QED BY <1>1, <2>1, <2>2, Forward
<1>4. CASE Refused(r)
  <2>1. ~r.ok /\ Write(r.bytes) /\ entries' = entries /\ failed' = failed
    BY <1>4 DEF Refused
  <2>2. Blocks(Len(r.bytes))
    BY <2>1 DEF Sound
  <2> QED BY <1>1, <2>1, <2>2, Forward
<1> QED BY <1>2, <1>3, <1>4

-----------------------------------------------------------------------------
(* Headers that are prepared.                                              *)

\* Nothing but names and formats was set.
Fresh(header) ==
  header.kind = "other" /\ header.size = 0 /\ {"kind", "size", "type"} \subseteq DOMAIN header

LEMMA NewIsFresh == \A format : Fresh(New(format))
BY DEF New, Fresh

LEMMA NameFresh ==
  ASSUME NEW h, Fresh(h), NEW v
  PROVE  Fresh([h EXCEPT !.name = v])
BY DEF Fresh

LEMMA PrefixFresh ==
  ASSUME NEW h, Fresh(h), NEW v
  PROVE  Fresh([h EXCEPT !.prefix = v])
BY DEF Fresh

LEMMA LinkFresh ==
  ASSUME NEW h, Fresh(h), NEW v
  PROVE  Fresh([h EXCEPT !.link = v])
BY DEF Fresh

LEMMA TypeFresh ==
  ASSUME NEW h, Fresh(h), NEW v
  PROVE  Fresh([h EXCEPT !.type = v])
BY DEF Fresh

LEMMA BothFresh ==
  ASSUME NEW h, Fresh(h), NEW v, NEW w
  PROVE  Fresh([h EXCEPT !.prefix = v, !.name = w])
BY DEF Fresh

LEMMA SetPathFresh ==
  ASSUME NEW h, Fresh(h), NEW path, NEW absolute, NEW cut
  PROVE  Fresh(SetPath(h, path, absolute, cut).header)
<1>1. CASE h.format # "ustar"
  <2> DEFINE how == [link |-> FALSE, cut |-> cut, absolute |-> absolute]
             v   == Stored(h.name, path, NameLen, how)
  <2>1. SetPath(h, path, absolute, cut).header = [h EXCEPT !.name = v]
    BY <1>1 DEF SetPath
  <2> HIDE DEF v
  <2>2. Fresh([h EXCEPT !.name = v])
    BY NameFresh
  <2> QED BY <2>1, <2>2
<1>2. CASE h.format = "ustar"
  <2> DEFINE how    == [link |-> FALSE, cut |-> FALSE, absolute |-> absolute]
             k      == SplitAt(path)
             parent == [NoPath EXCEPT !.root = path.root, !.parts = SubSeq(path.parts, 1, k)]
             rest   == AfterParent(path, k)
             set    == UstarSetPath(h, path, absolute)
             u      == Stored(h.name, path, NameLen, how)
             v      == Stored(h.prefix, parent, PrefixLen, how)
             w      == Emitted(parent, how)
             x      == Stored(h.name, rest, NameLen, how)
  <2>1. SetPath(h, path, absolute, cut) = set
    BY <1>2 DEF SetPath
  <2>2. \/ set.header = [h EXCEPT !.name = u]
        \/ set.header = [h EXCEPT !.prefix = v]
        \/ set.header = [h EXCEPT !.prefix = w, !.name = x]
    <3>1. CASE Length(path) <= NameLen
      BY <3>1 DEF UstarSetPath
    <3>2. CASE ~(Length(path) <= NameLen) /\ ~Stores(parent, PrefixLen, how)
      BY <3>2 DEF UstarSetPath
    <3>3. CASE ~(Length(path) <= NameLen) /\ Stores(parent, PrefixLen, how)
      BY <3>3 DEF UstarSetPath
    <3> QED BY <3>1, <3>2, <3>3
  <2> HIDE DEF how, k, parent, rest, set, u, v, w, x
  <2>3. /\ Fresh([h EXCEPT !.name = u]) /\ Fresh([h EXCEPT !.prefix = v])
        /\ Fresh([h EXCEPT !.prefix = w, !.name = x])
    BY NameFresh, PrefixFresh, BothFresh
  <2>4. Fresh(set.header)
    BY <2>2, <2>3
  <2> QED BY <2>1, <2>4
<1> QED BY <1>1, <1>2

LEMMA SetLinkFresh ==
  ASSUME NEW h, Fresh(h), NEW path
  PROVE  Fresh(SetLink(h, path).header)
<1> DEFINE how == [link |-> TRUE, cut |-> FALSE, absolute |-> TRUE]
           v   == Stored(h.link, path, NameLen, how)
<1>1. SetLink(h, path).header = [h EXCEPT !.link = v]
  BY DEF SetLink
<1> HIDE DEF v
<1>2. Fresh([h EXCEPT !.link = v])
  BY LinkFresh
<1> QED BY <1>1, <1>2

LEMMA DescribingIs ==
  ASSUME NEW type, NEW path \in Path
  PROVE  Described(<<Describing(type, path)>>)
<1>1. Length(path) + 1 \in Nat
  BY LengthType
<1>2. Describing(type, path).size = Length(path) + 1
  BY DEF Describing, Seal, New
<1> QED BY <1>1, <1>2, ListedOne DEF Described

Prepared(p) == Fresh(p.header) /\ Described(p.long)

LEMMA PreparePathIs ==
  ASSUME NEW h, Fresh(h), NEW path \in Path
  PROVE  Prepared(PreparePath(h, path))
<1> DEFINE set == SetPath(h, path, options.absolute, FALSE)
           cut == SetPath(set.header, Cut(path, NameLen), options.absolute, TRUE)
           p   == PreparePath(h, path)
<1>1. Fresh(set.header)
  BY SetPathFresh
<1>2. Fresh(cut.header)
  <2> HIDE DEF set
  <2> QED BY <1>1, SetPathFresh
<1>3. Described(<<>>) /\ Described(<<Describing("longname", path)>>)
  BY DescribingIs DEF Described
<1>4. /\ p.header \in {set.header, h, cut.header}
      /\ p.long \in {<<>>, <<Describing("longname", path)>>}
  <2>1. p = IF set.ok THEN [ok |-> TRUE, header |-> set.header, long |-> <<>>]
            ELSE IF Length(path) < NameLen THEN [ok |-> FALSE, header |-> h, long |-> <<>>]
            ELSE IF cut.ok
            THEN [ok |-> TRUE, header |-> cut.header, long |-> <<Describing("longname", path)>>]
            ELSE [ok |-> FALSE, header |-> h, long |-> <<>>]
    BY DEF PreparePath
  <2> HIDE DEF set, cut, p
  <2> QED BY <2>1
<1> HIDE DEF set, cut, p
<1>5. Prepared(p)
  BY <1>1, <1>2, <1>3, <1>4 DEF Prepared
<1> QED BY <1>5 DEF p

LEMMA PrepareLinkIs ==
  ASSUME NEW h, Fresh(h), NEW target \in Path
  PROVE  Prepared(PrepareLink(h, target))
<1> DEFINE set == SetLink(h, target)
           l   == PrepareLink(h, target)
<1>1. Fresh(set.header)
  BY SetLinkFresh
<1>2. Described(<<>>) /\ Described(<<Describing("longlink", target)>>)
  BY DescribingIs DEF Described
<1>3. /\ l.header = set.header
      /\ l.long \in {<<>>, <<Describing("longlink", target)>>}
  <2>1. l = IF set.ok THEN [ok |-> TRUE, header |-> set.header, long |-> <<>>]
            ELSE IF Length(target) < NameLen
            THEN [ok |-> FALSE, header |-> set.header, long |-> <<>>]
            ELSE [ok |-> TRUE, header |-> set.header, long |-> <<Describing("longlink", target)>>]
    BY DEF PrepareLink
  <2> HIDE DEF set, l
  <2> QED BY <2>1
<1> HIDE DEF set, l
<1>4. Prepared(l)
  BY <1>1, <1>2, <1>3 DEF Prepared
<1> QED BY <1>4 DEF l

-----------------------------------------------------------------------------
(* What calls request.                                                     *)

\* The bytes of members that describe an entry, and of the entry.
LEMMA BehindIs ==
  ASSUME NEW h \in Nat, NEW long, Described(long), NEW tail \in ByteSeq
  PROVE  LET b == Long(h, long) \o tail
         IN  /\ b \in ByteSeq /\ Len(b) = Len(Long(h, long)) + Len(tail)
             /\ \A k \in Nat, u \in ByteSeq :
                  HasIn(tail, k, u) => HasIn(b, Len(Long(h, long)) + k, u)
<1>1. Long(h, long) \in ByteSeq
  BY LongIs
<1> QED BY <1>1, JoinHas

LEMMA ExpectedIs ==
  ASSUME NEW h, NEW header, NEW path, NEW target, NEW size, NEW data
  PROVE  LET e == Expected(h, header, path, target, size, data)
         IN  /\ {"h", "data", "end", "pax"} \subseteq DOMAIN e
             /\ e.h = h /\ e.data = data
BY DEF Expected

LEMMA SealIs ==
  ASSUME NEW header, "kind" \in DOMAIN header
  PROVE  /\ Seal(header).kind = "header"
         /\ "size" \in DOMAIN header => Seal(header).size = header.size
BY DEF Seal

LEMMA EntryIs ==
  ASSUME IsList(headers), NEW path, NEW target, NEW p, Described(p.long),
         NEW l, Described(l.long), NEW header, {"kind", "size"} \subseteq DOMAIN header,
         NEW data \in Nat
  PROVE  LET e == Entry(path, target, p, l, header, data)
         IN  /\ e.ok = TRUE /\ e.bytes \in ByteSeq /\ IsList(e.headers)
             /\ header.size = data => Carries(e, Len(headers))
<1> DEFINE top == Len(headers)
           a   == Long(top + 1, p.long)
           b   == Long(top + Len(p.long) + 1, l.long)
           j   == Len(p.long) + Len(l.long) + 1
           c   == Appended(top + j, Upto(data))
           e   == Entry(path, target, p, l, header, data)
           g   == Seal(header)
<1>1. /\ top \in Nat /\ IsList(p.long) /\ IsList(l.long)
      /\ Len(p.long) \in Nat /\ Len(l.long) \in Nat
      /\ a \in ByteSeq /\ Blocks(Len(a)) /\ b \in ByteSeq /\ Blocks(Len(b))
  <2>1. top \in Nat
    BY DEF IsList
  <2>2. IsList(p.long) /\ IsList(l.long) /\ Len(p.long) \in Nat /\ Len(l.long) \in Nat
    <3>1. 0 \in Nat
      OBVIOUS
    <3> QED BY <3>1, LongIs
  <2>3. top + 1 \in Nat /\ top + Len(p.long) + 1 \in Nat
    BY <2>1, <2>2
  <2>4. a \in ByteSeq /\ Blocks(Len(a))
    BY <2>3, LongIs
  <2>5. b \in ByteSeq /\ Blocks(Len(b))
    BY <2>3, LongIs
  <2> QED BY <2>1, <2>2, <2>4, <2>5
<1> HIDE DEF top, a, b, c, e, g
<1>2. /\ top + j \in Nat /\ j \in Nat /\ j >= 1 /\ top + Len(p.long) + Len(l.long) + 1 = top + j
      /\ Upto(data) \in Seq(Nat) /\ Len(Upto(data)) = data
  <2> DEFINE m == Len(p.long)
             n == Len(l.long)
  <2>1. m \in Nat /\ n \in Nat /\ top \in Nat /\ j = m + n + 1
    BY <1>1
  <2> HIDE DEF m, n, j
  <2>2. top + j \in Nat /\ j \in Nat /\ j >= 1 /\ top + m + n + 1 = top + j
    BY <2>1
  <2> QED BY <2>2, UptoIs DEF m, n
<1>3. /\ c \in ByteSeq /\ Len(c) = BlockSize + Round(data)
      /\ HasIn(c, 0, HeaderBytes(top + j)) /\ HasIn(c, BlockSize, Contents(top + j, Upto(data)))
  BY <1>2, AppendedIs DEF c
<1>4. /\ e.ok = TRUE /\ e.bytes = (a \o b) \o c
      /\ e.headers = (p.long \o l.long) \o <<g>>
      /\ e.entry = Expected(top + j, header, path, target, data, Upto(data))
  <2> HIDE DEF j
  <2> QED BY <1>2 DEF Entry, top, a, b, c, e, g
<1>5. /\ {"h", "data", "end", "pax"} \subseteq DOMAIN e.entry
      /\ e.entry.h = top + j /\ e.entry.data = Upto(data)
  <2> HIDE DEF j
  <2> DEFINE x == Expected(top + j, header, path, target, data, Upto(data))
  <2>1. {"h", "data", "end", "pax"} \subseteq DOMAIN x /\ x.h = top + j /\ x.data = Upto(data)
    BY ExpectedIs
  <2> HIDE DEF x
  <2>2. e.entry = x
    BY <1>4 DEF x
  <2> QED BY <2>1, <2>2
<1> DEFINE d == Len(a) + Len(b)
<1> HIDE DEF j
<1>6. /\ e.bytes \in ByteSeq /\ Blocks(d) /\ d \in Nat /\ Len(e.bytes) = d + Len(c)
      /\ \A k \in Nat, u \in ByteSeq : HasIn(c, k, u) => HasIn(e.bytes, d + k, u)
  <2>1. a \o b \in ByteSeq /\ Len(a \o b) = d
    BY <1>1, JoinHas
  <2>2. Blocks(d) /\ d \in Nat
    BY <1>1, BlocksSum DEF Blocks
  <2> HIDE DEF d
  <2>3. e.bytes \in ByteSeq /\ Len(e.bytes) = d + Len(c)
    BY <1>3, <1>4, <2>1, JoinHas
  <2>4. ASSUME NEW k \in Nat, NEW u \in ByteSeq, HasIn(c, k, u)
        PROVE  HasIn(e.bytes, d + k, u)
    <3> DEFINE s == a \o b
    <3>1. s \in ByteSeq /\ Len(s) = d
      BY <2>1
    <3> HIDE DEF s
    <3>2. HasIn(s \o c, Len(s) + k, u)
      BY <1>3, <2>4, <3>1, JoinHas
    <3> QED BY <1>4, <3>1, <3>2 DEF s
  <2> QED BY <2>2, <2>3, <2>4
<1>7. /\ IsList(e.headers) /\ Len(e.headers) = j /\ e.headers[j] = g
  <2>1. /\ IsList(p.long \o l.long) /\ Len(p.long \o l.long) = Len(p.long) + Len(l.long)
    BY <1>1, ListedJoin
  <2> DEFINE s == p.long \o l.long
             t == <<g>>
  <2>2. IsList(t) /\ Len(t) = 1 /\ t[1] = g /\ 1 \in 1..Len(t)
    BY ListedOne
  <2> HIDE DEF s, t
  <2>3. IsList(s) /\ Len(s) = Len(p.long) + Len(l.long)
    BY <2>1 DEF s
  <2>4. /\ IsList(s \o t) /\ Len(s \o t) = Len(s) + Len(t)
        /\ \A i \in 1..Len(t) : (s \o t)[Len(s) + i] = t[i]
    <3>1. IsList(s) /\ IsList(t)
      BY <2>2, <2>3
    <3> QED BY <3>1, ListedJoin
  <2>5. IsList(s \o t) /\ Len(s \o t) = Len(s) + 1 /\ (s \o t)[Len(s) + 1] = g
    BY <2>2, <2>4
  <2>6. Len(s) + 1 = j
    BY <2>3 DEF j
  <2> QED BY <1>4, <2>5, <2>6 DEF s, t
<1>8. ASSUME header.size = data
      PROVE  Carries(e, top)
  <2>1. g.kind = "header" /\ g.size = Len(Upto(data))
    BY <1>2, <1>8, SealIs DEF g
  <2>2. /\ HeaderBytes(top + j) \in ByteSeq /\ Contents(top + j, Upto(data)) \in ByteSeq
    BY <1>2, HeaderBytesIs, ContentsIs
  <2>3. /\ HasIn(e.bytes, d + 0, HeaderBytes(top + j))
        /\ HasIn(e.bytes, d + BlockSize, Contents(top + j, Upto(data)))
    BY <1>3, <1>6, <2>2, BlockIs
  <2>4. \A k \in 0..0 : HasIn(e.bytes, d + BlockSize * k, HeaderBytes(top + j + k))
    <3> TAKE k \in 0..0
    <3>1. k = 0 /\ BlockSize * k = 0 /\ top + j + k = top + j
      BY <1>2, BlockIs
    <3> QED BY <2>3, <3>1
  <2>5. HasIn(e.bytes, d + BlockSize * (0 + 1), Contents(top + j, e.entry.data))
    <3>1. BlockSize * (0 + 1) = BlockSize
      BY BlockIs
    <3> QED BY <1>5, <2>3, <3>1
  <2>6. Len(e.bytes) = d + BlockSize * (0 + 1) + Round(Len(e.entry.data))
    <3>1. BlockSize * (0 + 1) = BlockSize
      BY BlockIs
    <3>2. Round(data) \in Nat
      BY PadIs
    <3> QED BY <1>2, <1>3, <1>5, <1>6, <3>1, <3>2, BlockIs
  <2>7. j \in 1..Len(e.headers) /\ j + 0 <= Len(e.headers) /\ 0 \in Nat
    BY <1>2, <1>7
  <2>8. \A k \in 1..0 : e.headers[j + k].kind = "extension"
    OBVIOUS
  <2> HIDE DEF j, d
  <2> QED BY <1>2, <1>5, <1>6, <1>7, <2>1, <2>4, <2>5, <2>6, <2>7, <2>8 DEF Carries
<1> QED BY <1>4, <1>6, <1>7, <1>8 DEF e, top

LEMMA EntrySound ==
  ASSUME IsList(headers), NEW path, NEW target, NEW p, Described(p.long),
         NEW l, Described(l.long), NEW header, {"kind", "size"} \subseteq DOMAIN header,
         NEW data \in Nat, header.size = data
  PROVE  Sound(Entry(path, target, p, l, header, data))
<1> DEFINE e == Entry(path, target, p, l, header, data)
<1>1. e.steady = TRUE
  BY DEF Entry
<1>2. e.ok = TRUE /\ e.bytes \in ByteSeq /\ IsList(e.headers) /\ Carries(e, Len(headers))
  BY EntryIs
<1> HIDE DEF e
<1>3. Sound(e)
  BY <1>1, <1>2 DEF Sound
<1> QED BY <1>3 DEF e

LEMMA RefusalSound ==
  ASSUME IsList(headers), NEW long, Described(long)
  PROVE  Sound(Refusal(Long(Len(headers) + 1, long), long))
<1> DEFINE b == Long(Len(headers) + 1, long)
<1>1. Len(headers) + 1 \in Nat
  BY DEF IsList
<1>2. b \in ByteSeq /\ Blocks(Len(b)) /\ IsList(long)
  BY <1>1, LongIs
<1> HIDE DEF b
<1>3. Sound(Refusal(b, long))
  BY <1>2 DEF Sound, Refusal
<1> QED BY <1>3 DEF b

LEMMA NothingSound == Sound(Nothing)
<1>1. <<>> \in ByteSeq /\ Blocks(Len(<<>>)) /\ IsList(<<>>)
  BY ListedNone, BlocksSum DEF ByteSeq
<1> QED BY <1>1 DEF Sound, Nothing, Refusal

LEMMA NoPathIs == NoPath \in Path
<1>1. <<>> \in Seq(Part) /\ DOMAIN <<>> = {}
  OBVIOUS
<1>2. NoPath \in [root : BOOLEAN, parts : Seq(Part), slash : BOOLEAN]
  BY <1>1 DEF NoPath
<1>3. NoPath.parts = <<>> /\ NoPath.slash = FALSE
  BY DEF NoPath
<1>4. \A i \in DOMAIN NoPath.parts :
        1 <= NoPath.parts[i].from /\ NoPath.parts[i].from <= NoPath.parts[i].to
  BY <1>1, <1>3
<1>5. NoPath.slash => NoPath.parts # <<>>
  BY <1>3
<1> QED BY <1>2, <1>4, <1>5 DEF Path

LEMMA NoLinkIs ==
  ASSUME NEW header, Fresh(header)
  PROVE  Prepared(NoLink(header))
BY DEF Prepared, NoLink, Described

LEMMA LinkSound ==
  ASSUME IsList(headers), NEW type, NEW path, NEW target \in Path, NEW p, Prepared(p)
  PROVE  Sound(LinkEntry(type, path, target, p))
<1> DEFINE l == IF type = "symlink" THEN PrepareLink(p.header, target) ELSE NoLink(p.header)
           header == [l.header EXCEPT !.type = type]
<1>1. Fresh(p.header) /\ Described(p.long)
  BY DEF Prepared
<1>2. Prepared(l)
  <2>1. Prepared(PrepareLink(p.header, target)) /\ Prepared(NoLink(p.header))
    BY <1>1, PrepareLinkIs, NoLinkIs
  <2> QED BY <2>1
<1>3. LinkEntry(type, path, target, p)
        = IF ~p.ok THEN Nothing
          ELSE IF ~l.ok THEN Refusal(Long(Len(headers) + 1, p.long), p.long)
          ELSE Entry(path, target, p, l, header, 0)
  BY DEF LinkEntry
<1> HIDE DEF l
<1>4. {"kind", "size"} \subseteq DOMAIN header /\ header.size = 0 /\ Described(l.long) /\ 0 \in Nat
  <2>1. Fresh(l.header) /\ Described(l.long)
    BY <1>2 DEF Prepared
  <2>2. Fresh(header)
    BY <2>1, TypeFresh
  <2> QED BY <2>1, <2>2 DEF Fresh
<1> HIDE DEF header
<1>5. Sound(Entry(path, target, p, l, header, 0))
  BY <1>1, <1>4, EntrySound
<1>6. Sound(Refusal(Long(Len(headers) + 1, p.long), p.long))
  BY <1>1, RefusalSound
<1> QED BY <1>3, <1>5, <1>6, NothingSound

LEMMA FsSound ==
  ASSUME IsList(headers), NEW type, NEW path \in Path, NEW target \in Path
  PROVE  Sound(AppendFs(type, path, target))
<1>1. Prepared(PreparePath(New("gnu"), path))
  BY NewIsFresh, PreparePathIs
<1> QED BY <1>1, LinkSound DEF AppendFs

LEMMA SpecialSound ==
  ASSUME IsList(headers), NEW kind, NEW path \in Path
  PROVE  Sound(AppendSpecial(kind, path))
<1>1. Prepared(PreparePath(New("gnu"), path))
  BY NewIsFresh, PreparePathIs
<1>2. Sound(LinkEntry(kind, path, NoPath, PreparePath(New("gnu"), path)))
  BY <1>1, LinkSound, NoPathIs
<1> QED BY <1>2, NothingSound DEF AppendSpecial

-----------------------------------------------------------------------------
(* Sequences that are joined.                                              *)

LEMMA FlattenNone == FlattenSeq(<<>>) = <<>>
<1> DEFINE joined == [n \in {0} |-> <<>>]
<1>1. <<>> \in Seq(Seq(Nat)) /\ Len(<<>>) = 0 /\ joined[0] = <<>>
  OBVIOUS
<1>2. \A n \in 1..0 : joined[n] = joined[n - 1] \o <<>>[n]
  OBVIOUS
<1> HIDE DEF joined
<1>3. FlattenSeq(<<>>) = joined[0]
  <2>1. \A n \in 1..Len(<<>>) : joined[n] = joined[n - 1] \o <<>>[n]
    BY <1>1, <1>2
  <2>2. FlattenSeq(<<>>) = joined[Len(<<>>)]
    BY <1>1, <2>1, FlattenIs
  <2> QED BY <1>1, <2>2
<1> QED BY <1>1, <1>3

LEMMA FlattenAppend ==
  ASSUME NEW T, NEW s \in Seq(Seq(T)), NEW x \in Seq(T)
  PROVE  /\ FlattenSeq(s) \in Seq(T)
         /\ FlattenSeq(Append(s, x)) = FlattenSeq(s) \o x
<1> DEFINE u == Append(s, x)
<1>1. /\ u \in Seq(Seq(T)) /\ Len(u) = Len(s) + 1 /\ u[Len(s) + 1] = x /\ Len(s) \in Nat
      /\ \A i \in 1..Len(s) : u[i] = s[i]
  BY AppendProperties, LenProperties
<1> HIDE DEF u
<1>2. u # <<>>
  BY <1>1, EmptySeq
<1>3. Front(u) = s
  <2>1. Len(u) - 1 = Len(s)
    BY <1>1
  <2>2. /\ Front(u) \in Seq(Seq(T)) /\ Len(Front(u)) = Len(s)
        /\ \A i \in 1..Len(s) : Front(u)[i] = s[i]
    BY <1>1, <1>2, <2>1, FrontProperties
  <2> QED BY <2>2, SeqEqual
<1>4. Last(u) = x
  BY <1>1 DEF Last
<1>5. FlattenSeq(s) \in Seq(T) /\ FlattenSeq(u) = FlattenSeq(Front(u)) \o Last(u)
  BY <1>1, <1>2, FlattenLast
<1> QED BY <1>3, <1>4, <1>5 DEF u

\* Blocks that are joined are where their numbers say.
LEMMA FlattenBlocks ==
  ASSUME NEW s \in Seq({b \in ByteSeq : Len(b) = BlockSize})
  PROVE  /\ FlattenSeq(s) \in ByteSeq /\ Len(FlattenSeq(s)) = BlockSize * Len(s)
         /\ \A k \in 1..Len(s) : HasIn(FlattenSeq(s), BlockSize * (k - 1), s[k])
<1> DEFINE T == {b \in ByteSeq : Len(b) = BlockSize}
           good(t) == /\ FlattenSeq(t) \in ByteSeq /\ Len(FlattenSeq(t)) = BlockSize * Len(t)
                      /\ \A k \in 1..Len(t) : HasIn(FlattenSeq(t), BlockSize * (k - 1), t[k])
           G == {t \in Seq(T) : good(t)}
<1>1. <<>> \in G
  <2>1. <<>> \in Seq(T) /\ <<>> \in ByteSeq /\ Len(<<>>) = 0 /\ BlockSize * 0 = 0
    BY BlockIs DEF ByteSeq
  <2>2. \A k \in 1..0 : HasIn(<<>>, BlockSize * (k - 1), <<>>[k])
    OBVIOUS
  <2> QED BY <2>1, <2>2, FlattenNone
<1>2. ASSUME NEW t \in Seq(T), NEW b \in T, t \in G
      PROVE  Append(t, b) \in G
  <2> DEFINE u == Append(t, b)
             f == FlattenSeq(t)
  <2>1. /\ u \in Seq(T) /\ Len(u) = Len(t) + 1 /\ u[Len(t) + 1] = b /\ Len(t) \in Nat
        /\ \A i \in 1..Len(t) : u[i] = t[i] /\ t[i] \in T
    <3> HIDE DEF T
    <3> QED BY AppendProperties, LenProperties, ElementOfSeq
  <2>2. /\ f \in ByteSeq /\ Len(f) = BlockSize * Len(t) /\ b \in ByteSeq /\ Len(b) = BlockSize
        /\ \A k \in 1..Len(t) : HasIn(f, BlockSize * (k - 1), t[k])
    BY <1>2
  <2>3. FlattenSeq(u) = f \o b
    <3>1. t \in Seq(Seq(AByte)) /\ b \in Seq(AByte)
      <4>1. \A i \in 1..Len(t) : t[i] \in ByteSeq
        BY <2>1
      <4>2. IsList(t)
        <5> HIDE DEF T
        <5> QED BY SeqListed
      <4>3. t \in Seq(ByteSeq)
        BY <4>1, <4>2, ListedIs
      <4> QED BY <2>2, <4>3 DEF ByteSeq
    <3> QED BY <3>1, FlattenAppend
  <2> HIDE DEF u, f
  <2>4. /\ f \o b \in ByteSeq /\ Len(f \o b) = Len(f) + Len(b) /\ HasIn(f \o b, Len(f), b)
        /\ \A k \in Nat : \A v \in ByteSeq : HasIn(f, k, v) => HasIn(f \o b, k, v)
    BY <2>2, JoinHas
  <2>5. Len(f \o b) = BlockSize * Len(u)
    <3>1. BlockSize * (Len(t) + 1) = BlockSize * Len(t) + BlockSize
      BY <2>1, BlockIs
    <3> QED BY <2>1, <2>2, <2>4, <3>1
  <2>6. ASSUME NEW k \in 1..Len(u)
        PROVE  HasIn(f \o b, BlockSize * (k - 1), u[k])
    <3>1. CASE k \in 1..Len(t)
      <4>1. k - 1 \in Nat /\ u[k] = t[k] /\ t[k] \in ByteSeq
        BY <2>1, <3>1
      <4>2. BlockSize * (k - 1) \in Nat
        BY <4>1, BlockIs
      <4>3. HasIn(f, BlockSize * (k - 1), t[k])
        BY <2>2, <3>1
      <4> QED BY <2>4, <4>1, <4>2, <4>3
    <3>2. CASE k \notin 1..Len(t)
      <4>1. k = Len(t) + 1 /\ k - 1 = Len(t) /\ u[k] = b
        BY <2>1, <3>2
      <4> QED BY <2>2, <2>4, <4>1
    <3> QED BY <3>1, <3>2
  <2> QED BY <2>1, <2>3, <2>4, <2>5, <2>6 DEF u
<1>3. \A t \in Seq(T), b \in T : t \in G => Append(t, b) \in G
  BY <1>2
<1>4. Seq(T) \subseteq G
  <2> HIDE DEF T, G
  <2> QED BY <1>1, <1>3, Sequences
<1> QED BY <1>4

\* What is joined is as long as its parts.
LEMMA FlattenLength ==
  ASSUME NEW s \in Seq(Seq(Nat))
  PROVE  /\ FlattenSeq(s) \in Seq(Nat)
         /\ Len(FlattenSeq(s)) = Sum([i \in 1..Len(s) |-> Len(s[i])])
<1> DEFINE T == Seq(Nat)
           lens(t) == [i \in 1..Len(t) |-> Len(t[i])]
           good(t) == FlattenSeq(t) \in Seq(Nat) /\ Len(FlattenSeq(t)) = Sum(lens(t))
           G == {t \in Seq(T) : good(t)}
<1>1. <<>> \in G
  <2>1. <<>> \in Seq(T) /\ <<>> \in Seq(Nat) /\ Len(<<>>) = 0
    OBVIOUS
  <2>2. lens(<<>>) = <<>>
    <3>1. lens(<<>>) \in [1..0 -> Nat] /\ 0 \in Nat
      BY <2>1
    <3> HIDE DEF lens
    <3>2. lens(<<>>) \in Seq(Nat) /\ Len(lens(<<>>)) = 0
      BY <3>1, FunctionIsSequence
    <3> QED BY <3>2, EmptySeq
  <2> HIDE DEF lens
  <2> QED BY <2>1, <2>2, FlattenNone, SumOfNone
<1>2. ASSUME NEW t \in Seq(T), NEW b \in T, t \in G
      PROVE  Append(t, b) \in G
  <2> DEFINE u == Append(t, b)
             f == FlattenSeq(t)
  <2>1. /\ u \in Seq(T) /\ Len(u) = Len(t) + 1 /\ u[Len(t) + 1] = b /\ Len(t) \in Nat
        /\ \A i \in 1..Len(t) : u[i] = t[i] /\ t[i] \in T
    BY AppendProperties, LenProperties, ElementOfSeq
  <2>2. f \in Seq(Nat) /\ Len(f) = Sum(lens(t)) /\ Len(b) \in Nat
    BY <1>2, LenProperties
  <2>3. FlattenSeq(u) = f \o b
    BY FlattenAppend
  <2>4. lens(t) \in Seq(Nat) /\ Len(lens(t)) = Len(t)
    <3>1. lens(t) \in [1..Len(t) -> Nat]
      BY <2>1, LenProperties
    <3> HIDE DEF lens
    <3> QED BY <2>1, <3>1, FunctionIsSequence
  <2>5. lens(u) \in Seq(Nat) /\ Len(lens(u)) = Len(t) + 1
    <3>1. \A i \in 1..(Len(t) + 1) : u[i] \in T
      BY <2>1, ElementOfSeq
    <3>2. \A i \in 1..(Len(t) + 1) : Len(u[i]) \in Nat
      BY <3>1, LenProperties
    <3>3. lens(u) \in [1..(Len(t) + 1) -> Nat]
      <4> HIDE DEF u
      <4> QED BY <2>1, <3>2
    <3>4. Len(t) + 1 \in Nat
      BY <2>1
    <3> HIDE DEF lens, u
    <3> QED BY <3>3, <3>4, FunctionIsSequence
  <2>6. lens(u) = Append(lens(t), Len(b))
    <3> DEFINE a == Append(lens(t), Len(b))
    <3>1. /\ a \in Seq(Nat) /\ Len(a) = Len(t) + 1 /\ a[Len(t) + 1] = Len(b)
          /\ \A i \in 1..Len(t) : a[i] = lens(t)[i]
      <4> DEFINE g == lens(t)
      <4>1. g \in Seq(Nat) /\ Len(g) = Len(t) /\ Len(b) \in Nat
        BY <2>2, <2>4
      <4> HIDE DEF g
      <4>2. /\ Append(g, Len(b)) \in Seq(Nat) /\ Len(Append(g, Len(b))) = Len(g) + 1
            /\ Append(g, Len(b))[Len(g) + 1] = Len(b)
            /\ \A i \in 1..Len(g) : Append(g, Len(b))[i] = g[i]
        BY <4>1, AppendProperties
      <4> QED BY <4>1, <4>2 DEF g
    <3>2. \A i \in 1..Len(t) : lens(u)[i] = lens(t)[i]
      <4> HIDE DEF u
      <4> QED BY <2>1
    <3>3. lens(u)[Len(t) + 1] = Len(b)
      <4> HIDE DEF u
      <4> QED BY <2>1
    <3> HIDE DEF a, lens, u
    <3>4. \A i \in 1..(Len(t) + 1) : i \in 1..Len(t) \/ i = Len(t) + 1
      BY <2>1
    <3>5. \A i \in 1..Len(a) : lens(u)[i] = a[i]
      BY <3>1, <3>2, <3>3, <3>4
    <3>6. lens(u) = a
      BY <2>5, <3>1, <3>5, SeqEqual
    <3> QED BY <3>6 DEF a
  <2>7. Sum(lens(u)) = Sum(lens(t)) + Len(b)
    <3>1. lens(t) \in Seq(Int) /\ Len(b) \in Int
      BY <2>2, <2>4
    <3> HIDE DEF lens, u
    <3> QED BY <2>6, <3>1, SumLast
  <2>8. f \o b \in Seq(Nat) /\ Len(f \o b) = Len(f) + Len(b)
    BY <2>2, ConcatProperties
  <2> HIDE DEF u, f, lens
  <2> QED BY <2>1, <2>2, <2>3, <2>7, <2>8 DEF u
<1>3. \A t \in Seq(T), b \in T : t \in G => Append(t, b) \in G
  BY <1>2
<1>4. Seq(T) \subseteq G
  <2> HIDE DEF T, G
  <2> QED BY <1>1, <1>3, Sequences
<1> QED BY <1>4

\* A function on the numbers up to one is a sequence of anything.
LEMMA ListIs ==
  ASSUME NEW N \in Nat, NEW f, f = [k \in 1..N |-> f[k]]
  PROVE  IsList(f) /\ Len(f) = N
<1> DEFINE T == {f[k] : k \in 1..N}
<1>1. f \in [1..N -> T]
  <2>1. \A k \in 1..N : f[k] \in T
    OBVIOUS
  <2> HIDE DEF T
  <2> QED BY <2>1
<1> HIDE DEF T
<1>2. f \in Seq(T) /\ Len(f) = N
  BY <1>1, FunctionIsSequence
<1> QED BY <1>2, SeqListed

LEMMA MinOfTwo ==
  ASSUME NEW a \in Int, NEW b \in Int
  PROVE  Min({a, b}) = (IF a <= b THEN a ELSE b) /\ Max({a, b}) = (IF a <= b THEN b ELSE a)
<1>1. PICK m \in {a, b} : \A y \in {a, b} : m <= y
  <2>1. CASE a <= b
    BY <2>1
  <2>2. CASE ~(a <= b)
    BY <2>2
  <2> QED BY <2>1, <2>2
<1>2. Min({a, b}) \in {a, b} /\ \A y \in {a, b} : Min({a, b}) <= y
  BY <1>1 DEF Min
<1>3. PICK n \in {a, b} : \A y \in {a, b} : n >= y
  <2>1. CASE a <= b
    BY <2>1
  <2>2. CASE ~(a <= b)
    BY <2>2
  <2> QED BY <2>1, <2>2
<1>4. Max({a, b}) \in {a, b} /\ \A y \in {a, b} : Max({a, b}) >= y
  BY <1>3 DEF Max
<1> DEFINE x == Min({a, b})
           y == Max({a, b})
<1> HIDE DEF x, y
<1>5. x \in {a, b} /\ x <= a /\ x <= b /\ y \in {a, b} /\ y >= a /\ y >= b
  BY <1>2, <1>4 DEF x, y
<1>6. x = (IF a <= b THEN a ELSE b) /\ y = (IF a <= b THEN b ELSE a)
  BY <1>5
<1> QED BY <1>6 DEF x, y

-----------------------------------------------------------------------------
(* Files.                                                                  *)

SlotNat == [offset : Nat, length : Nat]

\* A slot is read as far as the file goes, whole when the file is as long as it was.
LEMMA PieceIs ==
  ASSUME NEW slot \in SlotNat, NEW left \in Nat
  PROVE  /\ Piece(slot, left) \in Seq(Nat)
         /\ slot.offset + slot.length <= left => Len(Piece(slot, left)) = slot.length
<1> DEFINE a == slot.offset
           b == slot.length
           m == Max({left, a})
           n == Min({a + b, m}) - a
<1>1. a \in Nat /\ b \in Nat
  BY DEF SlotNat
<1> HIDE DEF a, b
<1>2. m = (IF left <= a THEN a ELSE left) /\ m \in Nat
  <2>1. left \in Int /\ a \in Int
    BY <1>1
  <2>2. m = (IF left <= a THEN a ELSE left)
    BY <2>1, MinOfTwo
  <2> HIDE DEF m
  <2> QED BY <1>1, <2>2
<1> HIDE DEF m
<1>3. n = (IF a + b <= m THEN a + b ELSE m) - a
  <2>1. a + b \in Int /\ m \in Int
    BY <1>1, <1>2
  <2> QED BY <2>1, MinOfTwo
<1> HIDE DEF n
<1>4. n \in Nat /\ (a + b <= left => n = b)
  BY <1>1, <1>2, <1>3
<1>5. Piece(slot, left) = [i \in 1..n |-> a + i]
  BY DEF Piece, n, m, a, b
<1>6. [i \in 1..n |-> a + i] \in [1..n -> Nat]
  BY <1>1, <1>4
<1>7. Piece(slot, left) \in Seq(Nat) /\ Len(Piece(slot, left)) = n
  BY <1>4, <1>5, <1>6, FunctionIsSequence
<1> QED BY <1>4, <1>7 DEF a, b

LEMMA FileIs ==
  ASSUME NEW object, IsFile(object)
  PROVE  /\ object.slots \in Seq(SlotNat) /\ Len(object.slots) \in Nat
         /\ DOMAIN object.slots = 1..Len(object.slots)
         /\ \A i \in 1..Len(object.slots) :
              object.slots[i] \in SlotNat
              /\ object.slots[i].offset + object.slots[i].length <= object.len
         /\ object.len \in Nat /\ object.left \in Nat /\ object.link \in Path
<1>1. object.slots \in Seq(SlotNat)
  BY DEF IsFile, SlotNat
<1> QED BY <1>1, LenProperties, ElementOfSeq DEF IsFile

\* The data of a sparse file is as long as its header says, if the file did not shrink.
LEMMA DataIs ==
  ASSUME NEW object, IsFile(object)
  PROVE  LET s    == object.slots
             data == FlattenSeq([i \in DOMAIN s |-> Piece(s[i], object.left)])
             size == Sum([i \in DOMAIN s |-> s[i].length])
         IN  /\ data \in Seq(Nat) /\ size \in Nat
             /\ object.left = object.len => Len(data) = size
<1> DEFINE s    == object.slots
           N    == Len(s)
           left == object.left
           p    == [i \in DOMAIN s |-> Piece(s[i], left)]
           l    == [i \in DOMAIN s |-> s[i].length]
           g    == [i \in 1..Len(p) |-> Len(p[i])]
<1>1. /\ DOMAIN s = 1..N /\ N \in Nat /\ \A i \in 1..N : s[i] \in SlotNat
      /\ object.left \in Nat /\ left \in Nat
      /\ \A i \in 1..N : s[i].offset + s[i].length <= object.len
  BY FileIs
<1> HIDE DEF s, N, left
<1>2. p \in [1..N -> Seq(Nat)]
  BY <1>1, PieceIs
<1>3. l \in [1..N -> Nat]
  <2>1. \A i \in 1..N : s[i].length \in Nat
    BY <1>1 DEF SlotNat
  <2> QED BY <1>1, <2>1
<1>4. \A i \in 1..N : p[i] = Piece(s[i], left) /\ l[i] = s[i].length
  BY <1>1
<1> HIDE DEF p, l
<1>5. p \in Seq(Seq(Nat)) /\ Len(p) = N /\ l \in Seq(Nat) /\ Len(l) = N
  BY <1>1, <1>2, <1>3, FunctionIsSequence
<1>6. FlattenSeq(p) \in Seq(Nat) /\ Len(FlattenSeq(p)) = Sum(g)
  BY <1>5, FlattenLength
<1>7. Sum(l) \in Nat
  BY <1>5, SumType
<1>8. ASSUME object.left = object.len
      PROVE  Len(FlattenSeq(p)) = Sum(l)
  <2>1. \A i \in 1..N : Len(p[i]) = l[i]
    <3> TAKE i \in 1..N
    <3>1. s[i] \in SlotNat /\ s[i].offset + s[i].length <= left
      BY <1>1, <1>8 DEF left
    <3> QED BY <1>1, <1>4, <3>1, PieceIs
  <2>2. g = l
    <3>1. g = [i \in 1..N |-> Len(p[i])] /\ l = [i \in 1..N |-> l[i]]
      BY <1>3, <1>5
    <3> HIDE DEF g
    <3> QED BY <2>1, <3>1
  <2> HIDE DEF g
  <2> QED BY <1>6, <2>2
<1> QED BY <1>6, <1>7, <1>8 DEF p, l, s, left

\* Extension blocks are blocks of their own kind.
LEMMA ExtensionsIs ==
  ASSUME NEW slots \in Seq(SlotNat)
  PROVE  /\ IsList(Extensions(slots))
         /\ DOMAIN Extensions(slots) = 1..Len(Extensions(slots))
         /\ \A k \in 1..Len(Extensions(slots)) : Extensions(slots)[k].kind = "extension"
<1> DEFINE rest == SubSeq(slots, InHeader + 1, Len(slots))
           N    == (Len(rest) + InExtension - 1) \div InExtension
           ext(k) == [New("old") EXCEPT
                        !.kind = "extension",
                        !.map = SubSeq(rest, (k - 1) * InExtension + 1,
                                       Min({k * InExtension, Len(rest)})),
                        !.extended = k * InExtension < Len(rest)]
           e    == Extensions(slots)
<1>1. N \in Nat
  <2>1. Len(slots) \in Nat /\ InHeader \in Nat /\ InExtension \in Nat \ {0}
    BY LenProperties, ClientAssumption
  <2>2. rest \in Seq(SlotNat)
    <3>1. \A i \in (InHeader + 1)..Len(slots) : i \in 1..Len(slots)
      BY <2>1
    <3>2. \A i \in (InHeader + 1)..Len(slots) : slots[i] \in SlotNat
      BY <3>1, ElementOfSeq
    <3> QED BY <2>1, <3>2, SubSeqProperties
  <2> HIDE DEF rest
  <2>3. Len(rest) \in Nat
    BY <2>2, LenProperties
  <2>4. Len(rest) + InExtension - 1 \in Nat
    BY <2>1, <2>3
  <2> QED BY <2>1, <2>4, Division
<1>2. e = [k \in 1..N |-> ext(k)]
  BY DEF Extensions
<1>3. \A k \in 1..N : ext(k).kind = "extension"
  <2> TAKE k \in 1..N
  <2> DEFINE u == SubSeq(rest, (k - 1) * InExtension + 1, Min({k * InExtension, Len(rest)}))
             v == k * InExtension < Len(rest)
  <2>1. ext(k) = [New("old") EXCEPT !.kind = "extension", !.map = u, !.extended = v]
    OBVIOUS
  <2> HIDE DEF u, v, ext
  <2> QED BY <2>1 DEF New
<1> HIDE DEF N, ext
<1>4. e = [k \in 1..N |-> e[k]] /\ \A k \in 1..N : e[k] = ext(k)
  <2> HIDE DEF e
  <2> QED BY <1>2
<1> HIDE DEF e
<1>5. IsList(e) /\ Len(e) = N
  BY <1>1, <1>4, ListIs
<1>6. DOMAIN e = 1..Len(e)
  BY <1>5, ListedIs
<1> QED BY <1>3, <1>4, <1>5, <1>6 DEF e

LEMMA SparseHeaderIs ==
  ASSUME NEW header, Fresh(header), NEW slots
  PROVE  LET head == Seal(SparseHeader(header, slots))
         IN  /\ head.kind = "header"
             /\ head.size = Sum([i \in DOMAIN slots |-> slots[i].length])
<1> DEFINE size == Sum([i \in DOMAIN slots |-> slots[i].length])
           a    == Last(slots).offset + Last(slots).length
           b    == SubSeq(slots, 1, Min({InHeader, Len(slots)}))
           c    == Len(slots) > InHeader
           g    == SparseHeader(header, slots)
<1>1. g = [header EXCEPT !.type = "sparse", !.size = size, !.real = a, !.map = b, !.extended = c]
  BY DEF SparseHeader
<1> HIDE DEF size, a, b, c, g
<1>2. {"kind", "size"} \subseteq DOMAIN header
  BY DEF Fresh
<1>3. DOMAIN g = DOMAIN header /\ g.size = size
  BY <1>1, <1>2
<1>4. Seal(g).kind = "header" /\ Seal(g).size = size
  BY <1>2, <1>3, SealIs
<1> QED BY <1>4 DEF g, size

\* A sparse file: its header, the extension blocks, what is between the holes.
LEMMA SparseSound ==
  ASSUME IsList(headers), NEW object, IsFile(object), NEW path, NEW p, Prepared(p),
         NEW r,
         LET h    == Len(headers) + Len(p.long) + 1
             ext  == Extensions(object.slots)
             data == FlattenSeq([i \in DOMAIN object.slots |-> Piece(object.slots[i], object.left)])
             head == Seal(SparseHeader(p.header, object.slots))
         IN  r = [ok |-> TRUE, steady |-> object.left = object.len,
                  bytes   |-> Long(Len(headers) + 1, p.long) \o HeaderBytes(h)
                              \o FlattenSeq([k \in DOMAIN ext |-> HeaderBytes(h + k)])
                              \o Contents(h, data) \o Pad(head.size),
                  headers |-> p.long \o <<head>> \o ext,
                  entry   |-> Expected(h, head, path, NoPath, object.len, data)]
  PROVE  Sound(r)
<1> DEFINE top  == Len(headers)
           h    == top + Len(p.long) + 1
           ext  == Extensions(object.slots)
           data == FlattenSeq([i \in DOMAIN object.slots |-> Piece(object.slots[i], object.left)])
           head == Seal(SparseHeader(p.header, object.slots))
           j    == Len(p.long) + 1
           n    == Len(ext)
           a    == Long(top + 1, p.long)
           b    == HeaderBytes(h)
           s    == [k \in DOMAIN ext |-> HeaderBytes(h + k)]
           c    == FlattenSeq(s)
           d    == Contents(h, data)
           e    == Pad(head.size)
           f    == Len(a)
<1>1. /\ r.ok = TRUE /\ r.steady = (object.left = object.len)
      /\ r.bytes = (((a \o b) \o c) \o d) \o e /\ r.headers = (p.long \o <<head>>) \o ext
      /\ r.entry = Expected(h, head, path, NoPath, object.len, data)
  OBVIOUS
<1> HIDE DEF a, b, c, d, e, head, data, ext, s
<1>2. /\ data \in Seq(Nat) /\ head.kind = "header" /\ head.size \in Nat
      /\ object.left = object.len => Len(data) = head.size
  <2>1. Fresh(p.header)
    BY DEF Prepared
  <2>2. head.kind = "header" /\ head.size = Sum([i \in DOMAIN object.slots |-> object.slots[i].length])
    BY <2>1, SparseHeaderIs DEF head
  <2> QED BY <2>2, DataIs DEF data
<1>3. /\ IsList(ext) /\ DOMAIN ext = 1..n /\ n \in Nat
      /\ \A k \in 1..n : ext[k].kind = "extension"
  <2>1. object.slots \in Seq(SlotNat)
    BY FileIs
  <2>2. /\ IsList(ext) /\ DOMAIN ext = 1..n
        /\ \A k \in 1..n : ext[k].kind = "extension"
    BY <2>1, ExtensionsIs DEF ext
  <2> QED BY <2>2 DEF IsList
<1>4. top \in Nat /\ Described(p.long)
  BY DEF IsList, Prepared
<1>5. IsList(p.long) /\ Len(p.long) \in Nat
  <2>1. 0 \in Nat
    OBVIOUS
  <2> QED BY <1>4, <2>1, LongIs
<1>6. h \in Nat /\ j \in Nat /\ j >= 1 /\ h = top + j
  BY <1>4, <1>5
<1> HIDE DEF h, j, n, top
<1>7. a \in ByteSeq /\ Blocks(f) /\ f \in Nat
  <2>1. top + 1 \in Nat
    BY <1>4
  <2> QED BY <1>4, <2>1, LongIs DEF a, Blocks
<1>8. b \in ByteSeq /\ Len(b) = BlockSize
  BY <1>6, HeaderBytesIs DEF b
<1>9. /\ c \in ByteSeq /\ Len(c) = BlockSize * n
      /\ \A k \in 1..n : HasIn(c, BlockSize * (k - 1), HeaderBytes(h + k))
  <2> DEFINE T == {x \in ByteSeq : Len(x) = BlockSize}
  <2>1. s \in [1..n -> T]
    <3>1. \A k \in 1..n : h + k \in Nat
      BY <1>6
    <3>2. \A k \in 1..n : HeaderBytes(h + k) \in T
      BY <3>1, HeaderBytesIs
    <3> HIDE DEF T
    <3> QED BY <1>3, <3>2 DEF s
  <2>2. s \in Seq(T) /\ Len(s) = n
    <3> HIDE DEF T
    <3> QED BY <1>3, <2>1, FunctionIsSequence
  <2>3. \A k \in 1..n : s[k] = HeaderBytes(h + k)
    BY <1>3 DEF s
  <2>4. /\ FlattenSeq(s) \in ByteSeq /\ Len(FlattenSeq(s)) = BlockSize * Len(s)
        /\ \A k \in 1..Len(s) : HasIn(FlattenSeq(s), BlockSize * (k - 1), s[k])
    BY <2>2, FlattenBlocks
  <2> QED BY <2>2, <2>3, <2>4 DEF c
<1>10. d \in ByteSeq /\ Len(d) = Len(data) /\ Len(data) \in Nat
  BY <1>2, <1>6, ContentsIs, LenProperties DEF d
<1>11. e \in ByteSeq /\ Len(e) \in Nat /\ head.size + Len(e) = Round(head.size)
  BY <1>2, PadIs DEF e
<1> HIDE DEF f
<1> DEFINE ab   == a \o b
           abc  == ab \o c
           abcd == abc \o d
           x    == abcd \o e
<1>12. /\ ab \in ByteSeq /\ Len(ab) = f + BlockSize /\ HasIn(ab, f, b)
  BY <1>7, <1>8, JoinHas DEF f
<1> HIDE DEF ab
<1>13. /\ abc \in ByteSeq /\ Len(abc) = Len(ab) + Len(c) /\ HasIn(abc, f, b)
       /\ \A k \in Nat, u \in ByteSeq : HasIn(c, k, u) => HasIn(abc, Len(ab) + k, u)
  <2>1. /\ ab \o c \in ByteSeq /\ Len(ab \o c) = Len(ab) + Len(c)
        /\ \A u \in ByteSeq : \A k \in Nat : /\ HasIn(ab, k, u) => HasIn(ab \o c, k, u)
                                             /\ HasIn(c, k, u) => HasIn(ab \o c, Len(ab) + k, u)
    BY <1>9, <1>12, JoinHas
  <2> QED BY <1>7, <1>8, <1>12, <2>1
<1> HIDE DEF abc
<1>14. /\ abcd \in ByteSeq /\ Len(abcd) = Len(abc) + Len(data) /\ HasIn(abcd, Len(abc), d)
       /\ \A k \in Nat, u \in ByteSeq : HasIn(abc, k, u) => HasIn(abcd, k, u)
  BY <1>10, <1>13, JoinHas
<1> HIDE DEF abcd
<1>15. /\ x \in ByteSeq /\ Len(x) = Len(abcd) + Len(e)
       /\ \A k \in Nat, u \in ByteSeq : HasIn(abcd, k, u) => HasIn(x, k, u)
  BY <1>11, <1>14, JoinHas
<1> HIDE DEF x
<1>16. r.bytes = x
  BY <1>1 DEF x, abcd, abc, ab
<1>17. /\ IsList(r.headers) /\ Len(r.headers) = j + n /\ r.headers[j] = head
       /\ \A k \in 1..n : r.headers[j + k] = ext[k]
  <2> DEFINE t == <<head>>
             u == p.long \o t
  <2>1. IsList(t) /\ Len(t) = 1 /\ t[1] = head /\ 1 \in 1..Len(t)
    BY ListedOne
  <2> HIDE DEF t
  <2>2. /\ IsList(u) /\ Len(u) = Len(p.long) + Len(t)
        /\ \A i \in 1..Len(t) : u[Len(p.long) + i] = t[i]
    <3>1. IsList(p.long) /\ IsList(t)
      BY <1>5, <2>1
    <3> QED BY <3>1, ListedJoin
  <2> HIDE DEF u
  <2>3. IsList(u) /\ Len(u) = j /\ u[j] = head
    BY <2>1, <2>2 DEF j
  <2>4. /\ IsList(u \o ext) /\ Len(u \o ext) = Len(u) + Len(ext)
        /\ \A i \in 1..Len(u) : (u \o ext)[i] = u[i]
        /\ \A i \in 1..Len(ext) : (u \o ext)[Len(u) + i] = ext[i]
    <3>1. IsList(u) /\ IsList(ext)
      BY <1>3, <2>3
    <3> QED BY <3>1, ListedJoin
  <2>5. r.headers = u \o ext
    BY <1>1 DEF u, t
  <2>6. j \in 1..Len(u)
    BY <1>6, <2>3
  <2> QED BY <2>3, <2>4, <2>5, <2>6 DEF n
<1>18. /\ {"h", "data", "end", "pax"} \subseteq DOMAIN r.entry
       /\ r.entry.h = top + j /\ r.entry.data = data
  <2> DEFINE g == Expected(h, head, path, NoPath, object.len, data)
  <2>1. {"h", "data", "end", "pax"} \subseteq DOMAIN g /\ g.h = h /\ g.data = data
    BY ExpectedIs
  <2> HIDE DEF g
  <2>2. r.entry = g
    BY <1>1 DEF g
  <2> QED BY <1>6, <2>1, <2>2
<1>19. ASSUME object.left = object.len
       PROVE  Carries(r, top)
  <2>1. BlockSize * (n + 1) = BlockSize + BlockSize * n /\ BlockSize * n \in Nat
    BY <1>3, BlockIs
  <2>2. Len(abc) = f + BlockSize * (n + 1) /\ Len(abc) \in Nat
    <3> DEFINE z == BlockSize * n
    <3>1. Len(abc) = (f + BlockSize) + z /\ BlockSize * (n + 1) = BlockSize + z /\ z \in Nat
      BY <1>9, <1>12, <1>13, <2>1
    <3> HIDE DEF z
    <3> QED BY <1>7, <3>1, BlockIs
  <2>3. Len(r.bytes) = f + BlockSize * (n + 1) + Round(Len(r.entry.data))
    <3>1. Len(x) = (Len(abc) + Len(data)) + Len(e) /\ Len(data) + Len(e) = Round(Len(data))
      BY <1>2, <1>11, <1>14, <1>15, <1>19
    <3>2. Len(x) = Len(abc) + Round(Len(data))
      BY <1>10, <1>11, <2>2, <3>1
    <3> QED BY <1>16, <1>18, <2>2, <3>2
  <2>4. \A k \in 0..n : HasIn(r.bytes, f + BlockSize * k, HeaderBytes(top + j + k))
    <3> TAKE k \in 0..n
    <3>1. CASE k = 0
      <4>1. HasIn(x, f, b)
        BY <1>7, <1>8, <1>13, <1>14, <1>15
      <4>2. f + BlockSize * k = f /\ top + j + k = h
        BY <1>4, <1>6, <1>7, <3>1, BlockIs
      <4> QED BY <1>16, <4>1, <4>2 DEF b
    <3>2. CASE k # 0
      <4> DEFINE i == k - 1
                 u == HeaderBytes(h + k)
      <4>1. k \in 1..n /\ k \in Nat /\ i \in Nat /\ h + k \in Nat /\ h + k = top + j + k
        BY <1>3, <1>4, <1>6, <3>2
      <4>2. BlockSize * i \in Nat /\ BlockSize * k = BlockSize + BlockSize * i
        <5>1. BlockSize * i \in Nat
          BY <4>1, BlockIs
        <5>2. k = i + 1
          BY <4>1
        <5>3. BlockSize * (i + 1) = BlockSize * i + BlockSize
          <6> HIDE DEF i
          <6> QED BY <4>1, BlockIs
        <5> HIDE DEF i
        <5>4. BlockSize * k = BlockSize * i + BlockSize
          BY <5>2, <5>3
        <5> QED BY <5>1, <5>4, BlockIs
      <4>3. HasIn(c, BlockSize * i, u) /\ u \in ByteSeq
        BY <1>9, <4>1, HeaderBytesIs
      <4> DEFINE y == BlockSize * i
      <4>4. y \in Nat /\ HasIn(c, y, u) /\ Len(ab) + y = f + BlockSize * k /\ Len(ab) + y \in Nat
        <5> HIDE DEF i, u
        <5>1. \A v \in Nat : (f + BlockSize) + v = f + (BlockSize + v) /\ (f + BlockSize) + v \in Nat
          BY <1>7, BlockIs
        <5> QED BY <1>12, <4>2, <4>3, <5>1
      <4> HIDE DEF y, u
      <4>5. HasIn(abc, Len(ab) + y, u)
        BY <1>13, <4>3, <4>4
      <4>6. HasIn(x, Len(ab) + y, u)
        BY <1>14, <1>15, <4>3, <4>4, <4>5
      <4> QED BY <1>16, <4>1, <4>4, <4>6 DEF u
    <3> QED BY <3>1, <3>2
  <2>5. HasIn(r.bytes, f + BlockSize * (n + 1), Contents(top + j, r.entry.data))
    <3>1. HasIn(x, Len(abc), d)
      BY <1>10, <1>14, <1>15, <2>2
    <3>2. d = Contents(top + j, r.entry.data)
      BY <1>6, <1>18 DEF d
    <3> QED BY <1>16, <2>2, <3>1, <3>2
  <2>6. j \in 1..Len(r.headers) /\ j + n <= Len(r.headers)
    <3>1. j \in 1..(j + n) /\ j + n <= j + n
      BY <1>3, <1>6
    <3> QED BY <1>17, <3>1
  <2>7. r.headers[j].kind = "header" /\ r.headers[j].size = Len(r.entry.data)
    BY <1>2, <1>17, <1>18, <1>19
  <2>8. \A k \in 1..n : r.headers[j + k].kind = "extension"
    BY <1>3, <1>17
  <2> QED BY <1>2, <1>3, <1>7, <1>18, <2>3, <2>4, <2>5, <2>6, <2>7, <2>8 DEF Carries
<1> QED BY <1>1, <1>15, <1>16, <1>17, <1>19 DEF Sound, top

LEMMA PlainSound ==
  ASSUME IsList(headers), NEW object, IsFile(object), NEW path, NEW p, Prepared(p)
  PROVE  LET plain == [p.header EXCEPT !.size = object.len]
         IN  Sound([Entry(path, NoPath, p, NoLink(plain), plain, object.left)
                      EXCEPT !.steady = object.left = object.len])
<1> DEFINE plain == [p.header EXCEPT !.size = object.len]
           l     == NoLink(plain)
           e     == Entry(path, NoPath, p, l, plain, object.left)
           r     == [e EXCEPT !.steady = object.left = object.len]
<1>1. {"kind", "size"} \subseteq DOMAIN plain /\ plain.size = object.len
  BY DEF Prepared, Fresh
<1> HIDE DEF plain
<1>2. Described(l.long) /\ Described(p.long)
  BY DEF NoLink, Described, Prepared
<1> HIDE DEF l
<1>3. object.left \in Nat /\ object.len \in Nat
  BY FileIs
<1>4. /\ e.ok = TRUE /\ e.bytes \in ByteSeq /\ IsList(e.headers)
      /\ object.len = object.left => Carries(e, Len(headers))
  BY <1>1, <1>2, <1>3, EntryIs
<1>5. DOMAIN e = {"ok", "steady", "bytes", "headers", "entry"}
  BY DEF Entry
<1> HIDE DEF e
<1>6. /\ r.ok = e.ok /\ r.bytes = e.bytes /\ r.headers = e.headers /\ r.entry = e.entry
      /\ r.steady = (object.left = object.len)
  BY <1>5
<1> HIDE DEF r
<1>7. Carries(e, Len(headers)) => Carries(r, Len(headers))
  BY <1>6, CarriesAsWell
<1>8. Sound(r)
  BY <1>4, <1>6, <1>7 DEF Sound
<1> QED BY <1>8 DEF r, e, l, plain

LEMMA FileSound ==
  ASSUME IsList(headers), NEW object, IsFile(object), NEW path, NEW p, Prepared(p)
  PROVE  Sound(AppendFile(object, path, p))
<1> DEFINE h     == Len(headers) + Len(p.long) + 1
           ext   == Extensions(object.slots)
           data  == FlattenSeq([i \in DOMAIN object.slots |-> Piece(object.slots[i], object.left)])
           head  == Seal(SparseHeader(p.header, object.slots))
           plain == [p.header EXCEPT !.size = object.len]
           r     == [ok |-> TRUE, steady |-> object.left = object.len,
                     bytes   |-> Long(Len(headers) + 1, p.long) \o HeaderBytes(h)
                                 \o FlattenSeq([k \in DOMAIN ext |-> HeaderBytes(h + k)])
                                 \o Contents(h, data) \o Pad(head.size),
                     headers |-> p.long \o <<head>> \o ext,
                     entry   |-> Expected(h, head, path, NoPath, object.len, data)]
           refused == Refusal(Long(Len(headers) + 1, p.long), p.long)
           whole   == [Entry(path, NoPath, p, NoLink(plain), plain, object.left)
                         EXCEPT !.steady = object.left = object.len]
           request == AppendFile(object, path, p)
<1>1. request \in {Nothing, refused, r, whole}
  <2>1. request = IF ~p.ok THEN Nothing
                  ELSE IF options.sparse /\ object.scan = "fails" THEN refused
                  ELSE IF options.sparse /\ object.slots # <<>> THEN r
                  ELSE whole
    BY DEF AppendFile
  <2> HIDE DEF request, refused, r, whole
  <2> QED BY <2>1
<1>2. Sound(r)
  BY SparseSound
<1>3. Sound(whole)
  BY PlainSound
<1>4. Sound(refused)
  BY RefusalSound DEF Prepared
<1> HIDE DEF request, refused, r, whole
<1>5. Sound(request)
  BY <1>1, <1>2, <1>3, <1>4, NothingSound
<1> QED BY <1>5 DEF request

LEMMA ObjectSound ==
  ASSUME IsList(headers), NEW object, IsFile(object), NEW path \in Path, NEW name \in Path
  PROVE  Sound(AppendObject(object, path, name))
<1>1. Prepared(PreparePath(New("gnu"), name))
  BY NewIsFresh, PreparePathIs
<1>2. Sound(AppendFile(object, name, PreparePath(New("gnu"), name)))
  BY <1>1, FileSound
<1>3. Sound(AppendFs("dir", name, NoPath)) /\ Sound(AppendFs("symlink", name, object.link))
  BY FsSound, NoPathIs, FileIs
<1>4. Sound(AppendSpecial(KindOf(object), path))
  BY SpecialSound
<1> DEFINE k == KindOf(object)
<1>5. AppendObject(object, path, name)
        \in {Nothing, AppendFile(object, name, PreparePath(New("gnu"), name)),
             AppendFs("dir", name, NoPath), AppendFs("symlink", name, object.link),
             AppendSpecial(KindOf(object), path)}
  <2>1. CASE k = "missing"
    BY <2>1 DEF AppendObject
  <2>2. CASE k = "file"
    BY <2>2 DEF AppendObject
  <2>3. CASE k = "dir"
    BY <2>3 DEF AppendObject
  <2>4. CASE k = "symlink"
    BY <2>4 DEF AppendObject
  <2>5. CASE k \notin {"missing", "file", "dir", "symlink"}
    BY <2>5 DEF AppendObject
  <2> QED BY <2>1, <2>2, <2>3, <2>4, <2>5
<1> QED BY <1>2, <1>3, <1>4, <1>5, NothingSound

-----------------------------------------------------------------------------
(* Pax records.                                                            *)

LEMMA PowerStep ==
  Power[0] = 1 /\ \A k \in Nat : Power[k + 1] = Base * Power[k] /\ Power[k] \in Nat
<1> DEFINE body(g) == [k \in Nat |-> IF k = 0 THEN 1 ELSE Base * g[k - 1]]
           grows(f, n) == /\ f \in [0..n -> Nat] /\ f[0] = 1
                          /\ \A i \in 1..n : f[i] = Base * f[i - 1]
           upto(n) == CHOOSE f : grows(f, n)
           g == [k \in Nat |-> upto(k)[k]]
<1>1. Base \in Nat
  BY LengthsAssumption
<1>2. ASSUME NEW n \in Nat
      PROVE  \E f : grows(f, n)
  <2> DEFINE step == [i \in 1..n |-> [t \in Nat |-> Base * t]]
  <2>1. step \in [1..n -> [Nat -> Nat]]
    BY <1>1
  <2>2. PICK f : Iterates(f, Nat, step, 1, n)
    <3>1. 1 \in Nat
      OBVIOUS
    <3> HIDE DEF step
    <3> QED BY <2>1, <3>1, Iteration
  <2>3. f \in [0..n -> Nat] /\ f[0] = 1
    BY <2>2 DEF Iterates
  <2>4. \A i \in 1..n : f[i] = Base * f[i - 1]
    <3>1. \A i \in 1..n : i - 1 \in 0..n /\ f[i - 1] \in Nat
      BY <2>3
    <3> QED BY <2>2, <3>1 DEF Iterates
  <2> QED BY <2>3, <2>4
<1>3. ASSUME NEW n \in Nat, NEW m \in Nat, NEW e, NEW f, grows(e, n), grows(f, m)
      PROVE  \A k \in Nat : k <= n /\ k <= m => e[k] = f[k]
  <2> DEFINE S == {k \in Nat : k <= n /\ k <= m => e[k] = f[k]}
  <2>1. 0 \in S
    BY <1>3
  <2>2. ASSUME NEW k \in Nat, k \in S
        PROVE  k + 1 \in S
    <3> SUFFICES ASSUME k + 1 <= n, k + 1 <= m PROVE e[k + 1] = f[k + 1]
      OBVIOUS
    <3>1. k + 1 \in 1..n /\ k + 1 \in 1..m /\ (k + 1) - 1 = k /\ k <= n /\ k <= m
      OBVIOUS
    <3> QED BY <1>3, <2>2, <3>1
  <2>3. \A k \in Nat : k \in S => k + 1 \in S
    BY <2>2
  <2>4. Nat \subseteq S
    <3> HIDE DEF S
    <3> QED BY <2>1, <2>3, Induction
  <2> QED BY <2>4
<1>4. \A n \in Nat : grows(upto(n), n)
  <2> TAKE n \in Nat
  <2>1. \E f : grows(f, n)
    BY <1>2
  <2> HIDE DEF grows
  <2> QED BY <2>1
<1>5. g[0] = 1 /\ \A k \in Nat : g[k] \in Nat /\ g[k + 1] = Base * g[k]
  <2>1. g[0] = 1
    BY <1>4
  <2>2. ASSUME NEW k \in Nat
        PROVE  g[k] \in Nat /\ g[k + 1] = Base * g[k]
    <3>1. k + 1 \in Nat /\ k <= k + 1 /\ k \in 0..k /\ k + 1 \in 1..(k + 1) /\ (k + 1) - 1 = k
      OBVIOUS
    <3>2. grows(upto(k), k) /\ grows(upto(k + 1), k + 1)
      BY <1>4, <3>1
    <3>3. upto(k)[k] = upto(k + 1)[k]
      <4> HIDE DEF grows, upto
      <4> QED BY <1>3, <3>1, <3>2
    <3>4. upto(k)[k] \in Nat /\ upto(k + 1)[k + 1] = Base * upto(k + 1)[k]
      <4> HIDE DEF upto
      <4> QED BY <3>1, <3>2
    <3> HIDE DEF upto, grows
    <3> QED BY <3>1, <3>3, <3>4
  <2> QED BY <2>1, <2>2
<1> HIDE DEF upto, grows
<1>6. g = body(g)
  <2>1. g = [k \in Nat |-> g[k]]
    OBVIOUS
  <2> HIDE DEF g
  <2>2. \A k \in Nat : g[k] = IF k = 0 THEN 1 ELSE Base * g[k - 1]
    <3> TAKE k \in Nat
    <3>1. CASE k = 0
      BY <1>5, <3>1
    <3>2. CASE k # 0
      <4>1. k - 1 \in Nat /\ (k - 1) + 1 = k
        BY <3>2
      <4> QED BY <1>5, <3>2, <4>1
    <3> QED BY <3>1, <3>2
  <2> QED BY <2>1, <2>2
<1> HIDE DEF g
<1> DEFINE P == Power
<1>7. P = body(P)
  <2>1. P = CHOOSE h : h = body(h)
    BY DEF Power
  <2> HIDE DEF body, P
  <2> QED BY <1>6, <2>1
<1> HIDE DEF P
<1> DEFINE S == {k \in Nat : P[k] = g[k]}
<1>8. 0 \in S
  BY <1>5, <1>7
<1>9. \A k \in Nat : P[k + 1] = Base * P[k]
  <2> TAKE k \in Nat
  <2>1. k + 1 \in Nat /\ k + 1 # 0 /\ (k + 1) - 1 = k
    OBVIOUS
  <2> QED BY <1>7, <2>1
<1>10. \A k \in Nat : k \in S => k + 1 \in S
  BY <1>5, <1>9
<1>11. Nat \subseteq S
  <2> HIDE DEF S
  <2> QED BY <1>8, <1>10, Induction
<1>12. P[0] = 1
  BY <1>5, <1>11
<1> QED BY <1>5, <1>9, <1>11, <1>12 DEF P

\* A power is large enough.
LEMMA PowerIs == \A k \in Nat : k >= 1 => Power[k] \in Nat /\ Power[k] >= 2 * k
<1> DEFINE S == {k \in Nat : k >= 1 => Power[k] >= 2 * k}
<1>1. 0 \in S
  OBVIOUS
<1>2. ASSUME NEW k \in Nat, k \in S
      PROVE  k + 1 \in S
  <2> DEFINE p == Power[k]
  <2>1. Power[k + 1] = Base * p /\ p \in Nat /\ (k = 0 => p = 1) /\ (k >= 1 => p >= 2 * k)
    BY <1>2, PowerStep
  <2> HIDE DEF p
  <2>2. Base * p >= 2 * p
    <3>1. Base \in Nat /\ Base - 2 \in Nat
      BY LengthsAssumption
    <3>2. (Base - 2) * p \in Nat
      BY <2>1, <3>1
    <3>3. Base * p = (Base - 2) * p + 2 * p
      BY <2>1, <3>1
    <3> QED BY <2>1, <3>2, <3>3
  <2>3. Base * p \in Nat
    BY <2>1, LengthsAssumption
  <2>4. 2 * p >= 2 * (k + 1)
    BY <2>1
  <2>5. Base * p >= 2 * (k + 1)
    <3> DEFINE q == Base * p
    <3>1. q \in Nat /\ q >= 2 * p
      BY <2>2, <2>3
    <3> HIDE DEF q
    <3>2. q >= 2 * (k + 1)
      BY <2>1, <2>4, <3>1
    <3> QED BY <3>2 DEF q
  <2> QED BY <2>1, <2>5
<1>3. \A k \in Nat : k \in S => k + 1 \in S
  BY <1>2
<1>4. Nat \subseteq S
  <2> HIDE DEF S
  <2> QED BY <1>1, <1>3, Induction
<1> QED BY <1>4, PowerStep

\* The loop of append_pax_extensions ends.
LEMMA RecordLengthIs ==
  ASSUME NEW record \in Record
  PROVE  RecordLength(record) \in Nat
<1> DEFINE rest == 3 + KeyLen[record.key] + Sum(record.value) + Len(record.value) - 1
           S == {k \in 1..(rest + 1) : rest + k < Power[k]}
           fits(k) == rest + k < Power[k] /\ \A j \in 1..(k - 1) : rest + j >= Power[j]
<1>1. rest \in Nat
  <2>1. KeyLen[record.key] \in Nat
    BY LengthsAssumption DEF Record
  <2>2. Sum(record.value) \in Nat /\ Len(record.value) \in Nat
    BY SumType, LenProperties DEF Record
  <2>3. \A a, b, c \in Nat : 3 + a + b + c - 1 \in Nat
    OBVIOUS
  <2> QED BY <2>1, <2>2, <2>3, Zenon
<1>2. RecordLength(record) = rest + CHOOSE k \in 1..(rest + 1) : fits(k)
  BY DEF RecordLength
<1> HIDE DEF rest
<1>3. \A k \in 1..(rest + 1) : Power[k] \in Nat
  BY <1>1, PowerIs
<1>4. rest + 1 \in S
  <2>1. rest + 1 \in Nat /\ rest + 1 >= 1
    BY <1>1
  <2>2. Power[rest + 1] \in Nat /\ Power[rest + 1] >= 2 * (rest + 1)
    BY <2>1, PowerIs
  <2>3. rest + (rest + 1) < Power[rest + 1]
    BY <1>1, <2>2
  <2> QED BY <2>1, <2>3
<1>5. PICK k \in S : \A m \in S : k <= m
  <2>1. S \subseteq Nat /\ S # {}
    BY <1>4
  <2> HIDE DEF S
  <2> QED BY <2>1, LeastExists
<1>6. fits(k)
  <2>1. \A j \in 1..(k - 1) : j \in 1..(rest + 1) /\ ~(k <= j)
    BY <1>1, <1>5
  <2>2. \A j \in 1..(k - 1) : rest + j >= Power[j]
    <3> TAKE j \in 1..(k - 1)
    <3>1. j \notin S /\ j \in 1..(rest + 1)
      BY <1>5, <2>1
    <3>2. ~(rest + j < Power[j]) /\ Power[j] \in Nat
      BY <1>3, <3>1
    <3> QED BY <1>1, <3>2
  <2> QED BY <1>5, <2>2
<1>7. (CHOOSE i \in 1..(rest + 1) : fits(i)) \in 1..(rest + 1)
  <2>1. k \in 1..(rest + 1)
    BY <1>5
  <2> HIDE DEF fits, S
  <2> QED BY <1>6, <2>1
<1> HIDE DEF fits
<1> QED BY <1>1, <1>2, <1>7

LEMMA DigitsIs ==
  ASSUME NEW n \in Nat
  PROVE  Digits(n) \in Nat
<1> DEFINE S == {k \in 1..(n + 1) : n < Power[k]}
           fits(k) == n < Power[k] /\ \A j \in 1..(k - 1) : n >= Power[j]
<1>1. \A k \in 1..(n + 1) : Power[k] \in Nat
  BY PowerIs
<1>2. n + 1 \in S
  <2>1. Power[n + 1] \in Nat /\ Power[n + 1] >= 2 * (n + 1)
    BY PowerIs
  <2>2. n < Power[n + 1]
    BY <2>1
  <2> QED BY <2>2
<1>3. PICK k \in S : \A m \in S : k <= m
  <2>1. S \subseteq Nat /\ S # {}
    BY <1>2
  <2> HIDE DEF S
  <2> QED BY <2>1, LeastExists
<1>4. fits(k)
  <2>1. \A j \in 1..(k - 1) : j \in 1..(n + 1) /\ ~(k <= j)
    BY <1>3
  <2>2. \A j \in 1..(k - 1) : n >= Power[j]
    <3> TAKE j \in 1..(k - 1)
    <3>1. j \notin S /\ j \in 1..(n + 1)
      BY <1>3, <2>1
    <3>2. ~(n < Power[j]) /\ Power[j] \in Nat
      BY <1>1, <3>1
    <3> QED BY <3>2
  <2> QED BY <1>3, <2>2
<1>5. (CHOOSE i \in 1..(n + 1) : fits(i)) \in 1..(n + 1)
  <2>1. k \in 1..(n + 1)
    BY <1>3
  <2> HIDE DEF fits, S
  <2> QED BY <1>4, <2>1
<1>6. Digits(n) = CHOOSE i \in 1..(n + 1) : fits(i)
  BY DEF Digits
<1> HIDE DEF fits
<1> QED BY <1>5, <1>6

LEMMA FormatIs ==
  ASSUME NEW records \in Seq(Record)
  PROVE  DataLength(Format(records)) \in Nat
<1> DEFINE T == [len : Nat, reported : Nat, record : Record]
           s == [i \in DOMAIN records |-> LinesOf(records[i])]
           lines == Format(records)
           l == [i \in DOMAIN lines |-> lines[i].len + 1]
<1>1. ASSUME NEW record \in Record
      PROVE  LinesOf(record) \in Seq(T)
  <2> DEFINE v == record.value
             d == Digits(RecordLength(record))
             r == RecordLength(record)
             k == KeyLen[record.key]
  <2>1. d \in Nat /\ r \in Nat
    BY RecordLengthIs, DigitsIs
  <2>2. k \in Nat
    BY LengthsAssumption DEF Record
  <2>3. DOMAIN v = 1..Len(v) /\ Len(v) \in Nat /\ \A i \in 1..Len(v) : v[i] \in Nat
    BY LenProperties, ElementOfSeq DEF Record
  <2>4. LinesOf(record)
          = [i \in DOMAIN v |->
               IF i = 1 THEN [len |-> d + 2 + k + v[1], reported |-> r, record |-> record]
               ELSE [len |-> v[i], reported |-> 0, record |-> record]]
    BY DEF LinesOf
  <2> HIDE DEF v, d, r, k
  <2>5. \A i \in 1..Len(v) :
          (IF i = 1 THEN [len |-> d + 2 + k + v[1], reported |-> r, record |-> record]
           ELSE [len |-> v[i], reported |-> 0, record |-> record]) \in T
    <3> TAKE i \in 1..Len(v)
    <3>1. CASE i = 1
      BY <2>1, <2>2, <2>3, <3>1
    <3>2. CASE i # 1
      BY <2>3, <3>2
    <3> QED BY <3>1, <3>2
  <2> HIDE DEF T
  <2>6. LinesOf(record) \in [1..Len(v) -> T]
    BY <2>3, <2>4, <2>5
  <2> QED BY <2>3, <2>6, FunctionIsSequence
<1>2. s \in Seq(Seq(T))
  <2>1. /\ DOMAIN records = 1..Len(records) /\ Len(records) \in Nat
        /\ \A i \in 1..Len(records) : records[i] \in Record
    BY LenProperties, ElementOfSeq
  <2> HIDE DEF T
  <2>2. s \in [1..Len(records) -> Seq(T)]
    BY <1>1, <2>1
  <2> HIDE DEF s
  <2> QED BY <2>1, <2>2, FunctionIsSequence
<1>3. lines \in Seq(T)
  <2>1. lines = FlattenSeq(s)
    BY DEF Format
  <2> HIDE DEF T, s, lines
  <2> QED BY <1>2, <2>1, FlattenLast
<1> HIDE DEF lines
<1>4. l \in Seq(Nat)
  <2>1. /\ DOMAIN lines = 1..Len(lines) /\ Len(lines) \in Nat
        /\ \A i \in 1..Len(lines) : lines[i] \in T
    <3> HIDE DEF T
    <3> QED BY <1>3, LenProperties, ElementOfSeq
  <2>2. l \in [1..Len(lines) -> Nat]
    BY <2>1
  <2> HIDE DEF l
  <2> QED BY <2>1, <2>2, FunctionIsSequence
<1>5. Sum(l) \in Nat
  <2> HIDE DEF l
  <2> QED BY <1>4, SumType
<1> QED BY <1>5 DEF DataLength, lines

-----------------------------------------------------------------------------
(* The steps.                                                              *)

LEMMA ListedConcat ==
  ASSUME NEW s, IsList(s), NEW x
  PROVE  Append(s, x) = s \o <<x>>
<1> DEFINE S == {s[i] : i \in 1..Len(s)} \cup {x}
<1>1. (\A i \in 1..Len(s) : s[i] \in S) /\ x \in S
  OBVIOUS
<1> HIDE DEF S
<1>2. s \in Seq(S)
  BY <1>1, ListedIs
<1> QED BY <1>1, <1>2, AppendIsConcat

\* A step that changes nothing but the stack.
LEMMA Stays ==
  ASSUME BuilderInv, UNCHANGED <<out, at, headers, entries, failed, writer, finished>>,
         Stacked(stack'), writer # None => stack' = stack
  PROVE  BuilderInv'
<1>1. TypeOK /\ OnBoundary /\ WriterInv /\ Apart
  BY DEF BuilderInv
<1>2. TypeOK'
  <2>1. out \in ByteSeq /\ at \in 0..Len(out) /\ IsList(headers) /\ IsList(entries)
        /\ \A i \in 1..Len(entries) : EntryOK(entries[i])
    BY <1>1, TypeIs
  <2>2. /\ finished \in BOOLEAN /\ failed \in BOOLEAN
        /\ writer = None \/ writer \in [h : Nat, path : Path, written : Nat]
    BY <1>1 DEF TypeOK
  <2> QED BY <2>1, <2>2, TypeNext
<1>3. OnBoundary'
  BY <1>1 DEF OnBoundary
<1>4. WriterInv'
  BY <1>1 DEF WriterInv, HeaderAt, Has
<1>5. Apart'
  <2>1. /\ IsList(headers') /\ IsList(entries') /\ \A i \in 1..Len(entries') : EntryOK(entries'[i])
    BY <1>1, TypeIs
  <2>2. Frontier = Frontier'
    BY DEF Frontier, HeaderAt
  <2>3. InOrder(out', headers', entries', Frontier, Top)
    BY <1>1, OrderIs
  <2>4. Top \in Int /\ Top <= Len(headers')
    BY <1>1, FrontierIs
  <2>5. writer' # None => writer'.h \in Int /\ Top <= writer'.h - 1
    BY <1>1, TypeIs DEF Top
  <2> HIDE DEF Top
  <2> QED BY <2>1, <2>2, <2>3, <2>4, <2>5, ApartNext
<1> QED BY <1>2, <1>3, <1>4, <1>5 DEF BuilderInv

LEMMA OpenIs ==
  ASSUME BuilderInv, Open
  PROVE  writer = None /\ Stacked(stack) /\ IsList(headers)
BY TypeIs DEF BuilderInv, Open

\* A call that is one request.
LEMMA Performs ==
  ASSUME BuilderInv, Open, UNCHANGED <<writer, stack>>, Idle, NEW r, Sound(r), Perform(r)
  PROVE  BuilderInv'
<1>1. writer = None /\ Stacked(stack)
  BY OpenIs
<1>2. writer' = None /\ Stacked(stack') /\ finished' = finished
  BY <1>1 DEF Idle
<1>3. headers' = headers \o r.headers /\ (Done(r) \/ Fails(r) \/ Refused(r))
  BY DEF Perform
<1> QED BY <1>1, <1>2, <1>3, Performed

\* What clients append.
LEMMA ClientIs ==
  /\ \A a \in Appends : a.path \in Path /\ a.target \in Path /\ a.size \in Nat
  /\ \A records \in RecordLists : records \in Seq(Record)
  /\ \A f \in Files : IsFile(f.object) /\ f.path \in Path /\ f.name \in Path
  /\ Roots \subseteq Path /\ Chunks \subseteq Nat /\ Cuts \subseteq Nat
BY ClientAssumption

LEMMA SizedIs ==
  ASSUME NEW header, Fresh(header), NEW size \in Nat
  PROVE  LET h == [header EXCEPT !.size = size]
         IN  {"kind", "size"} \subseteq DOMAIN h /\ h.size = size
BY DEF Fresh

LEMMA AppendWholeKeeps ==
  ASSUME BuilderInv, NEW a \in Appends, AppendWhole(a)
  PROVE  BuilderInv'
<1> DEFINE set == SetPath(New(a.format), a.path, options.absolute, FALSE)
           header == [set.header EXCEPT !.size = a.size]
           p == NoLink(set.header)
           r == Entry(a.path, NoPath, p, p, header, a.size)
<1>1. Open /\ UNCHANGED <<writer, stack>> /\ Idle /\ Perform(r)
  BY DEF AppendWhole, Call
<1>2. Fresh(set.header)
  BY NewIsFresh, SetPathFresh
<1> HIDE DEF set
<1>3. Described(p.long)
  BY <1>2, NoLinkIs DEF Prepared
<1>4. {"kind", "size"} \subseteq DOMAIN header /\ header.size = a.size /\ a.size \in Nat
  BY <1>2, SizedIs, ClientIs
<1> HIDE DEF p, header
<1>5. Sound(r)
  BY <1>1, <1>3, <1>4, OpenIs, EntrySound
<1> HIDE DEF r
<1> QED BY <1>1, <1>5, Performs

LEMMA AppendDataKeeps ==
  ASSUME BuilderInv, NEW a \in Appends, AppendData(a)
  PROVE  BuilderInv'
<1> DEFINE p == PreparePath(New(a.format), a.path)
           header == [p.header EXCEPT !.size = a.size]
           l == NoLink(p.header)
           e == Entry(a.path, NoPath, p, l, header, a.size)
           r == IF ~p.ok THEN Nothing ELSE e
<1>1. Open /\ UNCHANGED <<writer, stack>> /\ Idle /\ Perform(r)
  BY DEF AppendData, Call
<1>2. Prepared(p)
  BY NewIsFresh, PreparePathIs, ClientIs
<1> HIDE DEF p
<1>3. Described(p.long) /\ Described(l.long)
  BY <1>2, NoLinkIs DEF Prepared
<1>4. {"kind", "size"} \subseteq DOMAIN header /\ header.size = a.size /\ a.size \in Nat
  BY <1>2, SizedIs, ClientIs DEF Prepared
<1> HIDE DEF l, header
<1>5. Sound(e)
  BY <1>1, <1>3, <1>4, OpenIs, EntrySound
<1>6. Sound(r)
  <2> HIDE DEF e
  <2> QED BY <1>5, NothingSound
<1> HIDE DEF r
<1> QED BY <1>1, <1>6, Performs

LEMMA AppendLinkKeeps ==
  ASSUME BuilderInv, NEW a \in Appends, AppendLink(a)
  PROVE  BuilderInv'
<1> DEFINE p == PreparePath(New(a.format), a.path)
           r == LinkEntry("symlink", a.path, a.target, p)
<1>1. Open /\ UNCHANGED <<writer, stack>> /\ Idle /\ Perform(r)
  BY DEF AppendLink, Call
<1>2. Prepared(p) /\ a.target \in Path
  BY NewIsFresh, PreparePathIs, ClientIs
<1> HIDE DEF p
<1>3. Sound(r)
  BY <1>1, <1>2, OpenIs, LinkSound
<1> HIDE DEF r
<1> QED BY <1>1, <1>3, Performs

LEMMA AppendPathKeeps ==
  ASSUME BuilderInv, NEW f \in Files, AppendPath(f)
  PROVE  BuilderInv'
<1> DEFINE r == AppendObject(f.object, f.path, f.name)
<1>1. Open /\ UNCHANGED <<writer, stack>> /\ Idle /\ Perform(r)
  BY DEF AppendPath, Call
<1>2. Sound(r)
  BY <1>1, OpenIs, ObjectSound, ClientIs
<1> HIDE DEF r
<1> QED BY <1>1, <1>2, Performs

LEMMA AppendPaxKeeps ==
  ASSUME BuilderInv, NEW records \in RecordLists, AppendPax(records)
  PROVE  BuilderInv'
<1> DEFINE lines  == Format(records)
           header == Seal([New("ustar") EXCEPT !.type = "pax", !.size = DataLength(lines),
                                               !.lines = lines])
           bytes  == Appended(Len(headers) + 1, Upto(header.size))
<1>1. /\ Open /\ UNCHANGED <<writer, stack, entries>> /\ Idle
      /\ IF records = <<>> THEN UNCHANGED <<out, at, headers, pax, failed>>
         ELSE /\ headers' = Append(headers, header)
              /\ \/ Write(bytes) /\ pax' = records /\ UNCHANGED failed
                 \/ /\ Breaks(bytes)
                    /\ failed' = TRUE /\ UNCHANGED pax
  BY DEF AppendPax, Call
<1>2. header.size \in Nat
  <2>1. DataLength(lines) \in Nat
    BY ClientIs, FormatIs
  <2> DEFINE n == DataLength(lines)
  <2> HIDE DEF n, lines
  <2>2. header.size = n
    BY DEF Seal, New, n
  <2> QED BY <2>1, <2>2 DEF n
<1> HIDE DEF header
<1>3. bytes \in ByteSeq /\ Blocks(Len(bytes))
  <2>1. Len(headers) + 1 \in Nat
    BY <1>1, OpenIs DEF IsList
  <2> QED BY <1>2, <2>1, UptoIs, AppendedIs
<1> HIDE DEF bytes
<1>4. /\ writer = None /\ writer' = None /\ Stacked(stack') /\ entries' = entries
      /\ finished' \in BOOLEAN /\ failed \in BOOLEAN /\ IsList(headers)
  BY <1>1, OpenIs DEF Idle, BuilderInv, TypeOK
<1>5. CASE records = <<>>
  BY <1>1, <1>4, <1>5, Stays DEF Idle
<1>6. CASE records # <<>>
  <2>1. headers' = headers \o <<header>> /\ IsList(<<header>>)
    BY <1>1, <1>4, <1>6, ListedConcat, ListedOne
  <2>2. CASE Write(bytes) /\ failed' = failed
    BY <1>3, <1>4, <2>1, <2>2, Forward
  <2>3. CASE Breaks(bytes) /\ failed' = TRUE
    <3>1. PICK c \in ByteSeq : Write(c)
      BY <1>3, <2>3, PartWritten
    <3> QED BY <1>4, <2>1, <2>3, <3>1, Forward
  <2> QED BY <1>1, <1>6, <2>2, <2>3
<1> QED BY <1>5, <1>6

-----------------------------------------------------------------------------
(* Directories.                                                            *)

LEMMA RootIs ==
  ASSUME NEW path \in Path
  PROVE  [path EXCEPT !.slash = path.parts # <<>>] \in Path
<1> DEFINE q == [path EXCEPT !.slash = path.parts # <<>>]
<1>1. /\ path \in [root : BOOLEAN, parts : Seq(Part), slash : BOOLEAN]
      /\ \A i \in DOMAIN path.parts :
           1 <= path.parts[i].from /\ path.parts[i].from <= path.parts[i].to
  BY DEF Path
<1>2. /\ q \in [root : BOOLEAN, parts : Seq(Part), slash : BOOLEAN]
      /\ q.parts = path.parts /\ q.slash = (path.parts # <<>>)
  BY <1>1
<1> HIDE DEF q
<1>3. q \in Path
  BY <1>1, <1>2 DEF Path
<1> QED BY <1>3 DEF q

LEMMA ChildIs ==
  ASSUME NEW path \in Path, NEW part \in Part, 1 <= part.from, part.from <= part.to
  PROVE  [path EXCEPT !.parts = Append(@, part), !.slash = FALSE] \in Path
<1> DEFINE q == [path EXCEPT !.parts = Append(@, part), !.slash = FALSE]
           s == path.parts
           t == Append(s, part)
<1>1. /\ path \in [root : BOOLEAN, parts : Seq(Part), slash : BOOLEAN]
      /\ s \in Seq(Part)
      /\ \A i \in DOMAIN s : 1 <= s[i].from /\ s[i].from <= s[i].to
  BY DEF Path
<1>2. t \in Seq(Part) /\ DOMAIN t = 1..(Len(s) + 1)
      /\ t[Len(s) + 1] = part /\ \A i \in 1..Len(s) : t[i] = s[i]
  <2>1. /\ t \in Seq(Part) /\ Len(t) = Len(s) + 1
        /\ t[Len(s) + 1] = part /\ \A i \in 1..Len(s) : t[i] = s[i]
    BY <1>1, AppendProperties
  <2> HIDE DEF t
  <2>2. DOMAIN t = 1..Len(t)
    BY <2>1, LenProperties
  <2> QED BY <2>1, <2>2
<1>3. Len(s) \in Nat /\ DOMAIN s = 1..Len(s)
  BY <1>1, LenProperties
<1> HIDE DEF t
<1>4. \A i \in DOMAIN t : 1 <= t[i].from /\ t[i].from <= t[i].to
  <2> TAKE i \in DOMAIN t
  <2>1. i \in 1..Len(s) \/ i = Len(s) + 1
    BY <1>2, <1>3
  <2>2. CASE i \in 1..Len(s)
    BY <1>1, <1>2, <1>3, <2>2
  <2>3. CASE i = Len(s) + 1
    BY <1>2, <2>3
  <2> QED BY <2>1, <2>2, <2>3
<1>5. /\ q \in [root : BOOLEAN, parts : Seq(Part), slash : BOOLEAN]
      /\ q.parts = t /\ q.slash = FALSE
  BY <1>1, <1>2 DEF t
<1> HIDE DEF q
<1>6. q \in Path
  BY <1>4, <1>5 DEF Path
<1> QED BY <1>6 DEF q

LEMMA TopIs ==
  ASSUME Stacked(stack), stack # <<>>
  PROVE  /\ Last(stack).node \in DOMAIN Tree /\ Last(stack).dest \in Path
         /\ Stacked(Front(stack))
<1> DEFINE S == {stack[i] : i \in 1..Len(stack)}
           front == Front(stack)
<1>1. IsList(stack) /\ \A i \in 1..Len(stack) : stack[i].node \in DOMAIN Tree /\ stack[i].dest \in Path
  BY DEF Stacked
<1>2. \A i \in 1..Len(stack) : stack[i] \in S
  OBVIOUS
<1>3. \A x \in S : x.node \in DOMAIN Tree /\ x.dest \in Path
  BY <1>1
<1> HIDE DEF S
<1>4. stack \in Seq(S)
  BY <1>1, <1>2, ListedIs
<1>5. Last(stack) \in S /\ front \in Seq(S)
  BY <1>4, LastType, FrontProperties
<1> HIDE DEF front
<1>6. IsList(front) /\ \A i \in 1..Len(front) : front[i] \in S
  BY <1>5, SeqListed, ElementOfSeq
<1>7. Stacked(front)
  BY <1>3, <1>6 DEF Stacked
<1> QED BY <1>3, <1>5, <1>7 DEF front

LEMMA StackedJoin ==
  ASSUME NEW s, Stacked(s), NEW t, Stacked(t)
  PROVE  Stacked(s \o t)
<1> DEFINE w == s \o t
<1>1. IsList(s) /\ IsList(t)
  BY DEF Stacked
<1>2. /\ IsList(w) /\ Len(w) = Len(s) + Len(t)
      /\ \A i \in 1..Len(s) : w[i] = s[i]
      /\ \A i \in 1..Len(t) : w[Len(s) + i] = t[i]
  BY <1>1, ListedJoin
<1> HIDE DEF w
<1>3. ASSUME NEW i \in 1..Len(w)
      PROVE  w[i].node \in DOMAIN Tree /\ w[i].dest \in Path
  <2>1. Len(s) \in Nat /\ Len(t) \in Nat
    BY <1>1 DEF IsList
  <2>2. CASE i \in 1..Len(s)
    BY <1>2, <2>2 DEF Stacked
  <2>3. CASE i \notin 1..Len(s)
    <3>1. i - Len(s) \in 1..Len(t) /\ Len(s) + (i - Len(s)) = i
      BY <1>2, <2>1, <2>3
    <3>2. w[i] = t[i - Len(s)]
      BY <1>2, <3>1
    <3> QED BY <3>1, <3>2 DEF Stacked
  <2> QED BY <2>2, <2>3
<1>4. Stacked(w)
  BY <1>2, <1>3 DEF Stacked
<1> QED BY <1>4 DEF w

\* What is found in a directory.
LEMMA FoundIs ==
  ASSUME Stacked(stack), stack # <<>>, NEW C, C \subseteq DOMAIN Tree, IsFiniteSet(C),
         NEW order \in SetToSeqs(C),
         NEW dest \in Path,
         stack' = Front(stack)
                    \o [i \in DOMAIN order |->
                          [node |-> order[i],
                           dest |-> [dest EXCEPT !.parts = Append(@, Tree[order[i]].part),
                                                 !.slash = FALSE]]]
  PROVE  Stacked(stack')
<1> DEFINE N == Cardinality(C)
           child(n) == [node |-> n,
                        dest |-> [dest EXCEPT !.parts = Append(@, Tree[n].part), !.slash = FALSE]]
           front == Front(stack)
           found == [i \in DOMAIN order |-> child(order[i])]
<1>1. N \in Nat /\ order \in [1..N -> C]
  BY FS_CardinalityType DEF SetToSeqs
<1>2. \A n \in DOMAIN Tree : child(n).node = n /\ child(n).dest \in Path
  <2> TAKE n \in DOMAIN Tree
  <2>1. Tree[n].part \in Part /\ 1 <= Tree[n].part.from /\ Tree[n].part.from <= Tree[n].part.to
    BY TreeAssumption
  <2> DEFINE part == Tree[n].part
             d == [dest EXCEPT !.parts = Append(@, part), !.slash = FALSE]
  <2>2. d \in Path
    <3> HIDE DEF part
    <3>1. part \in Part /\ 1 <= part.from /\ part.from <= part.to
      BY <2>1 DEF part
    <3> QED BY <3>1, ChildIs
  <2> DEFINE c == [node |-> n, dest |-> d]
  <2>3. c.node = n /\ c.dest = d
    OBVIOUS
  <2>4. c = child(n)
    OBVIOUS
  <2> HIDE DEF d, c
  <2>5. c.node = n /\ c.dest \in Path
    BY <2>2, <2>3
  <2> QED BY <2>4, <2>5
<1> HIDE DEF child, N
<1>3. /\ found = [i \in 1..N |-> found[i]]
      /\ \A i \in 1..N : found[i].node \in DOMAIN Tree /\ found[i].dest \in Path
  BY <1>1, <1>2
<1>4. stack' = front \o found
  BY DEF child
<1> HIDE DEF found, front
<1>5. IsList(found) /\ Len(found) = N
  BY <1>1, <1>3, ListIs
<1>6. Stacked(front) /\ IsList(front)
  BY TopIs DEF front, Stacked
<1>7. Stacked(found)
  <2>1. \A i \in 1..Len(found) : found[i].node \in DOMAIN Tree /\ found[i].dest \in Path
    BY <1>3, <1>5
  <2> QED BY <1>5, <2>1 DEF Stacked
<1> QED BY <1>4, <1>6, <1>7, StackedJoin

LEMMA StackedOne ==
  ASSUME NEW n \in DOMAIN Tree, NEW dest \in Path
  PROVE  Stacked(<<[node |-> n, dest |-> dest]>>) /\ Stacked(<<>>)
<1> DEFINE x == [node |-> n, dest |-> dest]
<1>1. IsList(<<x>>) /\ Len(<<x>>) = 1 /\ <<x>>[1] = x /\ x.node = n /\ x.dest = dest
  BY ListedOne
<1>2. IsList(<<>>) /\ Len(<<>>) = 0
  BY ListedNone
<1>3. Stacked(<<x>>)
  <2> HIDE DEF x
  <2>1. \A i \in 1..Len(<<x>>) : <<x>>[i] = x
    BY <1>1
  <2> QED BY <1>1, <2>1 DEF Stacked
<1>4. Stacked(<<>>)
  BY <1>2 DEF Stacked
<1> QED BY <1>3, <1>4

LEMMA StartWalkKeeps ==
  ASSUME BuilderInv, NEW path \in Roots, StartWalk(path)
  PROVE  BuilderInv'
<1>1. "root" \in DOMAIN Tree /\ path \in Path
  BY TreeAssumption, ClientIs
<1>2. [path EXCEPT !.slash = path.parts # <<>>] \in Path
  BY <1>1, RootIs
<1>3. Stacked(stack')
  BY <1>1, <1>2, StackedOne DEF StartWalk
<1>4. writer = None
  BY OpenIs DEF StartWalk, Call
<1> QED BY <1>3, <1>4, Stays DEF StartWalk, Idle

LEMMA WalkNodeKeeps ==
  ASSUME BuilderInv, WalkNode
  PROVE  BuilderInv'
<1> DEFINE top      == Last(stack)
           object   == Tree[top.node].object
           C        == IF KindOf(object) = "dir" THEN Tree[top.node].children ELSE {}
           child(n) == [node |-> n, dest |-> [top.dest EXCEPT !.parts = Append(@, Tree[n].part),
                                                              !.slash = FALSE]]
           Found    == \E order \in SetToSeqs(C) :
                         stack' = Front(stack) \o [i \in DOMAIN order |-> child(order[i])]
           r        == AppendObject(object, top.dest, top.dest)
<1>1. /\ stack # <<>> /\ UNCHANGED writer /\ Idle
      /\ \/ Found /\ UNCHANGED <<out, at, headers, entries, failed>>
         \/ /\ headers' = headers \o r.headers
            /\ \/ Done(r) /\ Found
               \/ (Fails(r) \/ Refused(r)) /\ stack' = <<>>
  BY DEF WalkNode
<1>2. TypeOK /\ WriterInv /\ Stacked(stack) /\ IsList(headers)
  BY TypeIs DEF BuilderInv
<1>3. writer = None /\ writer' = None
  BY <1>1, <1>2 DEF WriterInv
<1>4. top.node \in DOMAIN Tree /\ top.dest \in Path
  BY <1>1, <1>2, TopIs
<1>5. IsFile(object) /\ C \subseteq DOMAIN Tree /\ IsFiniteSet(C)
  <2>1. IsFile(object) /\ Tree[top.node].children \subseteq DOMAIN Tree
        /\ IsFiniteSet(Tree[top.node].children)
    BY <1>4, TreeAssumption
  <2>2. IsFiniteSet({})
    BY FS_EmptySet
  <2> QED BY <2>1, <2>2
<1> HIDE DEF C, object
<1>6. Sound(r)
  BY <1>2, <1>4, <1>5, ObjectSound
<1>7. Found => Stacked(stack')
  <2> SUFFICES ASSUME Found PROVE Stacked(stack')
    OBVIOUS
  <2>1. PICK order \in SetToSeqs(C) :
          stack' = Front(stack) \o [i \in DOMAIN order |-> child(order[i])]
    OBVIOUS
  <2> DEFINE dest == top.dest
  <2>2. dest \in Path
    BY <1>4
  <2>3. stack' = Front(stack)
                   \o [i \in DOMAIN order |->
                         [node |-> order[i],
                          dest |-> [dest EXCEPT !.parts = Append(@, Tree[order[i]].part),
                                                !.slash = FALSE]]]
    BY <2>1
  <2> HIDE DEF dest, child
  <2> QED BY <1>1, <1>2, <1>5, <2>2, <2>3, FoundIs
<1> HIDE DEF Found, r
<1>8. Stacked(<<>>)
  BY <1>4, StackedOne
<1>9. UNCHANGED finished
  BY <1>1 DEF Idle
<1>10. CASE Found /\ UNCHANGED <<out, at, headers, entries, failed>>
  BY <1>1, <1>3, <1>7, <1>9, <1>10, Stays
<1>11. CASE headers' = headers \o r.headers /\ Done(r) /\ Found
  BY <1>3, <1>6, <1>7, <1>9, <1>11, Performed
<1>12. CASE headers' = headers \o r.headers /\ (Fails(r) \/ Refused(r)) /\ stack' = <<>>
  BY <1>3, <1>6, <1>8, <1>9, <1>12, Performed
<1> QED BY <1>1, <1>10, <1>11, <1>12

-----------------------------------------------------------------------------
(* An entry that is written piece by piece.                                *)

\* What a step keeps that leaves the entries and everything before them alone.
LEMMA Keeps ==
  ASSUME TypeOK, WriterInv, Apart,
         out' \in ByteSeq, at' \in 0..Len(out'), IsList(headers'), UNCHANGED entries,
         Stacked(stack'), finished' \in BOOLEAN, failed' \in BOOLEAN,
         writer' = None \/ writer' \in [h : Nat, path : Path, written : Nat],
         \A i \in 1..Frontier : out'[i] = out[i],
         NEW higher \in Nat, higher = Frontier', Frontier <= higher, Frontier <= Len(out'),
         Len(headers) <= Len(headers'), \A h \in 1..Top : headers'[h] = headers[h],
         NEW last \in Int, Top <= last, last <= Len(headers'),
         writer' # None => writer'.h \in Int /\ last <= writer'.h - 1
  PROVE  TypeOK' /\ Apart'
<1>1. /\ IsList(headers) /\ Len(headers) \in Nat
      /\ IsList(entries) /\ \A i \in 1..Len(entries) : EntryOK(entries[i])
  BY TypeIs
<1>2. IsList(entries') /\ \A i \in 1..Len(entries') : EntryOK(entries'[i])
  BY <1>1
<1>3. TypeOK'
  BY <1>2, TypeNext
<1>4. Frontier \in Nat /\ Top \in Int /\ Len(out') \in Nat /\ Len(headers') \in Nat
  BY FrontierIs, LenProperties DEF ByteSeq, IsList
<1>5. InOrder(out, headers, entries, Frontier, Top)
  BY OrderIs
<1> DEFINE limit == Frontier
           top   == Top
<1>6. /\ limit \in Nat /\ limit <= Len(out') /\ \A i \in 1..limit : out'[i] = out[i]
      /\ top \in Int /\ \A h \in 1..top : headers'[h] = headers[h]
      /\ InOrder(out, headers, entries, limit, top) /\ limit <= higher /\ top <= last
  BY <1>4, <1>5
<1> HIDE DEF limit, top
<1>7. InOrder(out', headers', entries, higher, last)
  BY <1>1, <1>4, <1>6, OrderKept
<1>8. Apart'
  BY <1>2, <1>7, ApartNext
<1> QED BY <1>3, <1>8

LEMMA StartWriterKeeps ==
  ASSUME BuilderInv, NEW a \in Appends, StartWriter(a)
  PROVE  BuilderInv'
<1> DEFINE p     == PreparePath(New(a.format), a.path)
           long  == Long(Len(headers) + 1, p.long)
           zero  == Zero(BlockSize)
           bytes == long \o zero
           w     == [h |-> Len(headers'), path |-> a.path, written |-> 0]
<1>1. /\ Open /\ UNCHANGED <<stack, pax, entries>> /\ Idle
      /\ IF ~p.ok THEN UNCHANGED <<out, at, headers, writer, failed>>
         ELSE /\ headers' = headers \o p.long \o <<p.header>>
              /\ \/ Write(bytes) /\ writer' = w /\ UNCHANGED failed
                 \/ Breaks(bytes) /\ failed' = TRUE /\ UNCHANGED writer
  BY DEF StartWriter, Call
<1>2. Prepared(p)
  BY NewIsFresh, PreparePathIs, ClientIs
<1>3. /\ TypeOK /\ OnBoundary /\ WriterInv /\ Apart
      /\ writer = None /\ stack = <<>> /\ Stacked(stack')
      /\ out \in ByteSeq /\ at \in 0..Len(out) /\ Len(out) \in Nat /\ at \in Nat
      /\ IsList(headers) /\ Len(headers) \in Nat
      /\ finished' \in BOOLEAN /\ failed \in BOOLEAN
  BY <1>1, TypeIs DEF BuilderInv, Open, Idle, TypeOK
<1> DEFINE header == p.header
           extra  == p.long
<1>4. Described(extra) /\ Fresh(header)
  BY <1>2 DEF Prepared
<1>5. /\ long \in ByteSeq /\ Blocks(Len(long)) /\ IsList(extra) /\ Len(extra) \in Nat
  <2> DEFINE h == Len(headers) + 1
  <2>1. h \in Nat
    BY <1>3
  <2>2. long = Long(h, extra)
    OBVIOUS
  <2> HIDE DEF h, long, extra
  <2> QED BY <1>4, <2>1, <2>2, LongIs
<1>6. zero \in ByteSeq /\ Len(zero) = BlockSize
  BY BlockIs, ZeroIs
<1> HIDE DEF long, zero, p, header
<1>7. bytes \in ByteSeq /\ Len(bytes) = Len(long) + BlockSize
  BY <1>5, <1>6, JoinHas
<1> HIDE DEF bytes
<1>8. CASE ~p.ok
  BY <1>1, <1>3, <1>8, Stays DEF Idle
<1>9. CASE p.ok
  <2>1. headers' = (headers \o extra) \o <<header>>
    BY <1>1, <1>9 DEF header
  <2> HIDE DEF extra
  <2>2. /\ IsList(headers \o extra) /\ Len(headers \o extra) = Len(headers) + Len(extra)
        /\ \A h \in 1..Len(headers) : (headers \o extra)[h] = headers[h]
    BY <1>3, <1>5, ListedJoin
  <2> DEFINE hs == headers \o extra
  <2>3. IsList(hs) /\ IsList(<<header>>) /\ headers' = hs \o <<header>>
    BY <2>1, <2>2, ListedOne
  <2> HIDE DEF hs
  <2>4. /\ IsList(headers') /\ Len(headers') = Len(hs) + Len(<<header>>)
        /\ \A h \in 1..Len(hs) : headers'[h] = hs[h]
        /\ \A h \in 1..Len(<<header>>) : headers'[Len(hs) + h] = <<header>>[h]
    BY <2>3, ListedJoin
  <2>5. /\ Len(headers') = Len(headers) + Len(extra) + 1 /\ headers'[Len(headers')] = header
        /\ \A h \in 1..Len(headers) : headers'[h] = headers[h]
    <3>1. Len(hs) = Len(headers) + Len(extra) /\ Len(<<header>>) = 1 /\ <<header>>[1] = header
          /\ \A h \in 1..Len(headers) : hs[h] = headers[h]
      BY <2>2, ListedOne DEF hs
    <3>2. Len(headers') = Len(hs) + 1 /\ headers'[Len(hs) + 1] = header
      BY <2>4, <3>1
    <3> QED BY <1>3, <1>5, <2>4, <3>1, <3>2
  <2> DEFINE len == Len(headers')
  <2>6. len \in Nat /\ Len(headers) <= len /\ Len(headers) <= len - 1
    BY <1>3, <1>5, <2>5
  <2>7. /\ Frontier = at /\ Top = Len(headers)
        /\ Frontier <= at /\ Top \in Int
    BY <1>3, FrontierIs
  <2>8. CASE Write(bytes) /\ writer' = w /\ UNCHANGED failed
    <3>1. /\ out' \in ByteSeq /\ at' = at + Len(bytes) /\ at' \in 0..Len(out')
          /\ Len(out) <= Len(out') /\ \A i \in 1..at : out'[i] = out[i]
          /\ at = Len(out) => at' = Len(out')
      BY <1>3, <1>7, <2>8, WriteIs
    <3>2. w.h = len /\ w.written = 0 /\ w \in [h : Nat, path : Path, written : Nat]
      BY <2>6, ClientIs
    <3>3. writer' # None /\ writer'.h = len /\ writer'.written = 0
          /\ writer' \in [h : Nat, path : Path, written : Nat]
      BY <2>8, <3>2, WriterAssumption
    <3> DEFINE higher == at + Len(long)
    <3>4. Len(out') \in Nat /\ Len(long) \in Nat /\ at' \in Nat
      BY <1>5, <3>1, LenProperties DEF ByteSeq, Blocks
    <3> HIDE DEF w
    <3>5. HeaderAt' = higher
      <4>1. HeaderAt' = at' - 0 - BlockSize
        BY <3>3 DEF HeaderAt
      <4> QED BY <1>3, <1>7, <3>1, <3>4, <4>1, BlockIs
    <3>6. higher \in Nat /\ at <= higher /\ higher + BlockSize = at' /\ at <= Len(out')
      BY <1>3, <1>7, <3>1, <3>4, BlockIs
    <3>7. Frontier' = higher
      BY <3>3, <3>5 DEF Frontier
    <3>8. TypeOK' /\ Apart'
      <4> DEFINE last == len - 1
      <4>1. last \in Int /\ Top <= last /\ last <= Len(headers')
            /\ writer'.h \in Int /\ last <= writer'.h - 1
        BY <2>6, <2>7, <3>3
      <4>2. /\ \A i \in 1..Frontier : out'[i] = out[i]
            /\ Frontier <= higher /\ Frontier <= Len(out')
            /\ \A h \in 1..Top : headers'[h] = headers[h]
        BY <2>5, <2>7, <3>1, <3>6
      <4>3. failed' \in BOOLEAN /\ UNCHANGED entries
        BY <1>1, <1>3, <2>8
      <4> HIDE DEF higher, last
      <4> QED BY <1>3, <2>4, <2>6, <3>1, <3>3, <3>6, <3>7, <4>1, <4>2, <4>3, Keeps
    <3>9. OnBoundary'
      BY <3>3 DEF OnBoundary
    <3>10. WriterInv'
      <4>1. /\ stack' = <<>> /\ 0 < writer'.h /\ writer'.h = Len(headers')
            /\ headers'[writer'.h].kind # "header"
            /\ {"kind", "size"} \subseteq DOMAIN headers'[writer'.h]
        BY <1>1, <1>3, <1>4, <2>5, <2>6, <3>3 DEF Fresh
      <4>2. BlockSize + writer'.written <= at'
        BY <3>3, <3>4, <3>6, BlockIs
      <4>3. Has(HeaderAt + BlockSize, Contents(writer.h, Upto(writer.written)))'
        <5> DEFINE c == Contents(writer'.h, Upto(writer'.written))
        <5>1. Upto(0) \in Seq(Nat) /\ Len(Upto(0)) = 0 /\ writer'.h \in Nat
          BY <2>6, <3>3, UptoIs
        <5>2. Len(c) = 0
          BY <3>3, <5>1, ContentsIs
        <5>3. HeaderAt' + BlockSize + Len(c) <= Len(out')
          BY <3>1, <3>4, <3>5, <3>6, <5>2
        <5> HIDE DEF c
        <5>4. /\ HeaderAt' + BlockSize + Len(c) <= Len(out')
              /\ \A i \in 1..Len(c) : out'[HeaderAt' + BlockSize + i] = c[i]
          BY <5>2, <5>3
        <5> QED BY <5>4 DEF Has, c
      <4>4. ~failed' => at' = Len(out') /\ HeaderAt' % BlockSize = 0
        <5> SUFFICES ASSUME ~failed' PROVE at' = Len(out') /\ HeaderAt' % BlockSize = 0
          OBVIOUS
        <5>1. at = Len(out) /\ at % BlockSize = 0
          BY <1>3, <2>8 DEF OnBoundary
        <5>2. Blocks(at + Len(long))
          BY <1>3, <1>5, <5>1, BlocksSum DEF Blocks
        <5> QED BY <3>1, <3>5, <5>1, <5>2 DEF Blocks
      <4> QED BY <4>1, <4>2, <4>3, <4>4 DEF WriterInv
    <3> QED BY <3>8, <3>9, <3>10 DEF BuilderInv
  <2>9. CASE Breaks(bytes) /\ failed' = TRUE /\ UNCHANGED writer
    <3>1. PICK c \in ByteSeq : Write(c)
      BY <1>7, <2>9, PartWritten
    <3>2. /\ out' \in ByteSeq /\ at' = at + Len(c) /\ at' \in 0..Len(out')
          /\ Len(out) <= Len(out') /\ \A i \in 1..at : out'[i] = out[i]
      BY <1>3, <3>1, WriteIs
    <3>3. Len(c) \in Nat /\ at' \in Nat /\ Len(out') \in Nat
      BY <3>2, LenProperties DEF ByteSeq
    <3>4. writer' = None /\ Frontier' = at' /\ at <= at' /\ at <= Len(out')
      BY <1>3, <2>9, <3>2, <3>3 DEF Frontier
    <3>5. /\ \A i \in 1..Frontier : out'[i] = out[i]
          /\ Frontier <= at' /\ Frontier <= Len(out')
          /\ \A h \in 1..Top : headers'[h] = headers[h]
          /\ len \in Int /\ Top <= len /\ len <= Len(headers')
      BY <2>5, <2>6, <2>7, <3>2, <3>4
    <3>6. UNCHANGED entries
      BY <1>1
    <3>7. TypeOK' /\ Apart'
      BY <1>3, <2>4, <2>6, <2>9, <3>2, <3>3, <3>4, <3>5, <3>6, Keeps
    <3>8. OnBoundary' /\ WriterInv'
      BY <2>9, <3>4 DEF OnBoundary, WriterInv
    <3> QED BY <3>7, <3>8 DEF BuilderInv
  <2> QED BY <1>1, <1>9, <2>8, <2>9
<1> QED BY <1>8, <1>9

\* Where the entry that is open lies.
LEMMA WriterIs ==
  ASSUME TypeOK, WriterInv, writer # None
  PROVE  /\ writer.h \in Nat \ {0} /\ writer.h = Len(headers) /\ writer.written \in Nat
         /\ writer.path \in Path
         /\ HeaderAt \in Nat /\ HeaderAt + BlockSize + writer.written = at
         /\ out \in ByteSeq /\ at \in Nat /\ at \in 0..Len(out) /\ Len(out) \in Nat
         /\ IsList(headers) /\ Frontier = HeaderAt /\ Top = writer.h - 1
         /\ stack = <<>> /\ headers[writer.h].kind # "header"
         /\ {"kind", "size"} \subseteq DOMAIN headers[writer.h]
         /\ Has(HeaderAt + BlockSize, Contents(writer.h, Upto(writer.written)))
         /\ ~failed => at = Len(out) /\ HeaderAt % BlockSize = 0
<1>1. /\ writer.h \in Nat /\ writer.path \in Path /\ writer.written \in Nat
      /\ out \in ByteSeq /\ at \in 0..Len(out) /\ Len(out) \in Nat /\ at \in Nat
      /\ IsList(headers)
  BY TypeIs
<1>2. /\ stack = <<>> /\ 0 < writer.h /\ writer.h = Len(headers)
      /\ headers[writer.h].kind # "header" /\ {"kind", "size"} \subseteq DOMAIN headers[writer.h]
      /\ BlockSize + writer.written <= at
      /\ Has(HeaderAt + BlockSize, Contents(writer.h, Upto(writer.written)))
      /\ ~failed => at = Len(out) /\ HeaderAt % BlockSize = 0
  BY DEF WriterInv
<1>3. HeaderAt \in Nat /\ HeaderAt + BlockSize + writer.written = at
  BY <1>1, <1>2, BlockIs DEF HeaderAt
<1>4. Frontier = HeaderAt /\ Top = writer.h - 1
  BY FrontierIs
<1> QED BY <1>1, <1>2, <1>3, <1>4

LEMMA WriteChunkKeeps ==
  ASSUME BuilderInv, WriteChunk
  PROVE  BuilderInv'
<1>1. PICK n \in Chunks : /\ Write(Contents(writer.h, [i \in 1..n |-> writer.written + i]))
                          /\ writer' = [writer EXCEPT !.written = @ + n]
  BY DEF WriteChunk
<1>2. /\ writer # None /\ UNCHANGED <<headers, stack, entries, failed, finished>>
  BY DEF WriteChunk, Idle
<1>3. /\ TypeOK /\ OnBoundary /\ WriterInv /\ Apart
      /\ finished \in BOOLEAN /\ failed \in BOOLEAN /\ Stacked(stack)
  BY TypeIs DEF BuilderInv, TypeOK
<1> DEFINE h    == writer.h
           old  == writer.written
           more == [i \in 1..n |-> old + i]
           b    == Contents(h, more)
           base == HeaderAt
<1>4. /\ h \in Nat \ {0} /\ h = Len(headers) /\ old \in Nat /\ writer.path \in Path
      /\ base \in Nat /\ base + BlockSize + old = at
      /\ out \in ByteSeq /\ at \in Nat /\ at \in 0..Len(out) /\ Len(out) \in Nat
      /\ IsList(headers) /\ Frontier = base /\ Top = h - 1
      /\ stack = <<>> /\ headers[h].kind # "header"
      /\ {"kind", "size"} \subseteq DOMAIN headers[h]
      /\ Has(base + BlockSize, Contents(h, Upto(old)))
      /\ ~failed => at = Len(out) /\ base % BlockSize = 0
  BY <1>2, <1>3, WriterIs
<1>5. /\ writer' \in [h : Nat, path : Path, written : Nat] /\ writer' # None
      /\ writer'.h = h /\ writer'.written = old + n /\ n \in Nat
  <2>1. writer \in [h : Nat, path : Path, written : Nat] /\ n \in Nat
    BY <1>2, <1>3, ClientIs DEF TypeOK
  <2>2. /\ writer' \in [h : Nat, path : Path, written : Nat]
        /\ writer'.h = h /\ writer'.written = old + n
    BY <1>1, <2>1
  <2> QED BY <2>1, <2>2, WriterAssumption
<1>6. more \in Seq(Nat) /\ Len(more) = n /\ \A i \in 1..n : more[i] = old + i
  <2>1. \A i \in 1..n : old + i \in Nat
    BY <1>4, <1>5
  <2>2. more \in [1..n -> Nat]
    BY <2>1
  <2> QED BY <1>5, <2>2, FunctionIsSequence
<1>7. Write(b)
  BY <1>1
<1> HIDE DEF more
<1>8. b \in ByteSeq /\ Len(b) = n /\ \A i \in 1..n : b[i] = <<h, BlockSize + more[i]>>
  BY <1>4, <1>6, ContentsIs
<1> HIDE DEF b, h, old, base
<1>9. /\ out' \in ByteSeq /\ at' = at + n /\ at' \in 0..Len(out')
      /\ Len(out) <= Len(out') /\ \A i \in 1..at : out'[i] = out[i]
      /\ \A i \in 1..n : out'[at + i] = b[i]
      /\ at = Len(out) => at' = Len(out')
  BY <1>4, <1>7, <1>8, WriteIs
<1>10. at' \in Nat /\ Len(out') \in Nat /\ at' <= Len(out')
  BY <1>9, LenProperties DEF ByteSeq
<1>11. HeaderAt' = base
  <2>1. HeaderAt' = at' - writer'.written - BlockSize
    BY DEF HeaderAt
  <2> HIDE DEF HeaderAt
  <2>2. at' = at + n /\ writer'.written = old + n
    BY <1>5, <1>9
  <2>3. HeaderAt' = (at + n) - (old + n) - BlockSize
    BY <2>1, <2>2
  <2>4. /\ base \in Nat /\ BlockSize \in Nat /\ old \in Nat /\ at \in Nat /\ n \in Nat
        /\ base + BlockSize + old = at
    BY <1>4, <1>5, BlockIs
  <2> QED BY <2>3, <2>4
<1>12. Frontier' = base
  BY <1>5, <1>11 DEF Frontier
<1>13. base <= at /\ BlockSize + (old + n) <= at' /\ base + BlockSize + (old + n) = at'
  <2>1. /\ base \in Nat /\ BlockSize \in Nat /\ old \in Nat /\ at \in Nat /\ n \in Nat
        /\ base + BlockSize + old = at /\ at' = at + n
    BY <1>4, <1>5, <1>9, BlockIs
  <2> QED BY <2>1
<1>14. TypeOK' /\ Apart'
  <2>1. /\ \A i \in 1..Frontier : out'[i] = out[i]
        /\ Frontier <= base /\ Frontier <= Len(out')
    BY <1>4, <1>9, <1>10, <1>13
  <2> DEFINE last == h - 1
  <2>2. /\ last \in Int /\ Top <= last /\ last <= Len(headers')
        /\ writer'.h \in Int /\ last <= writer'.h - 1
    BY <1>2, <1>4, <1>5
  <2>3. Len(headers) <= Len(headers') /\ \A k \in 1..Top : headers'[k] = headers[k]
    BY <1>2, <1>4
  <2>4. /\ IsList(headers') /\ UNCHANGED entries /\ Stacked(stack')
        /\ finished' \in BOOLEAN /\ failed' \in BOOLEAN
    BY <1>2, <1>3, <1>4
  <2> HIDE DEF last
  <2> QED BY <1>3, <1>4, <1>5, <1>9, <1>12, <2>1, <2>2, <2>3, <2>4, Keeps
<1>15. OnBoundary'
  BY <1>5 DEF OnBoundary
<1>16. Has(HeaderAt + BlockSize, Contents(writer.h, Upto(writer.written)))'
  <2> DEFINE c == Contents(h, Upto(old + n))
             d == Contents(h, Upto(old))
  <2>1. old + n \in Nat
    BY <1>4, <1>5
  <2>2. /\ Upto(old + n) \in Seq(Nat) /\ Len(Upto(old + n)) = old + n
        /\ \A i \in 1..(old + n) : Upto(old + n)[i] = i
    BY <2>1, UptoIs
  <2>3. /\ Upto(old) \in Seq(Nat) /\ Len(Upto(old)) = old
        /\ \A i \in 1..old : Upto(old)[i] = i
    BY <1>4, UptoIs
  <2>4. Len(c) = old + n /\ \A i \in 1..(old + n) : c[i] = <<h, BlockSize + i>>
    BY <1>4, <2>2, ContentsIs
  <2>5. Len(d) = old /\ \A i \in 1..old : d[i] = <<h, BlockSize + i>>
    BY <1>4, <2>3, ContentsIs
  <2> HIDE DEF c, d
  <2>6. \A i \in 1..old : out[base + BlockSize + i] = d[i]
    BY <1>4, <2>5 DEF Has, d
  <2> DEFINE place == base + BlockSize
  <2>7. place \in Nat /\ place + old = at /\ place + (old + n) = at'
        /\ \A i \in 1..old : out[place + i] = d[i]
    BY <1>4, <1>13, <2>6, BlockIs
  <2> HIDE DEF place
  <2>8. ASSUME NEW i \in 1..(old + n)
        PROVE  out'[place + i] = c[i]
    <3>1. CASE i \in 1..old
      <4>1. place + i \in 1..at
        BY <1>4, <2>7, <3>1
      <4> QED BY <1>9, <2>4, <2>5, <2>7, <3>1, <4>1
    <3>2. CASE i \notin 1..old
      <4>1. \A o, k \in Nat : k \in 1..(o + n) /\ k \notin 1..o
                                => k - o \in 1..n /\ o + (k - o) = k
        BY <1>5
      <4>2. i - old \in 1..n /\ old + (i - old) = i
        BY <1>4, <2>1, <3>2, <4>1
      <4>3. at + (i - old) = place + i
        BY <1>4, <2>7, <4>2
      <4>4. out'[at + (i - old)] = b[i - old] /\ b[i - old] = <<h, BlockSize + more[i - old]>>
            /\ more[i - old] = i
        BY <1>6, <1>8, <1>9, <4>2
      <4> QED BY <2>4, <4>3, <4>4
    <3> QED BY <3>1, <3>2
  <2>9. place + Len(c) <= Len(out') /\ \A i \in 1..Len(c) : out'[place + i] = c[i]
    BY <1>10, <2>4, <2>7, <2>8
  <2> QED BY <1>5, <1>11, <2>9 DEF Has, place, c
<1>17. WriterInv'
  <2>1. /\ stack' = <<>> /\ 0 < writer'.h /\ writer'.h = Len(headers')
        /\ headers'[writer'.h].kind # "header"
        /\ {"kind", "size"} \subseteq DOMAIN headers'[writer'.h]
        /\ BlockSize + writer'.written <= at'
        /\ ~failed' => at' = Len(out') /\ HeaderAt' % BlockSize = 0
    BY <1>2, <1>4, <1>5, <1>9, <1>11, <1>13
  <2> QED BY <1>16, <2>1 DEF WriterInv
<1> QED BY <1>14, <1>15, <1>17 DEF BuilderInv

\* The stream after a piece of a header is written at base and padding at the position.
Patch(h, base, m, pad, n) ==
  /\ h \in Nat /\ base \in Nat /\ m \in Nat /\ base + m <= at /\ pad \in Nat
  /\ n = IF at + pad > Len(out) THEN at + pad ELSE Len(out)
  /\ out' = [i \in 1..n |-> out'[i]]
  /\ \A i \in 1..n : out'[i] = IF i \in (base + 1)..(base + m) THEN <<h, i - base>>
                                ELSE IF i \in (at + 1)..(at + pad) THEN <<0, 0>> ELSE out[i]

LEMMA Patched ==
  ASSUME out \in ByteSeq, at \in 0..Len(out),
         NEW h, NEW base, NEW m, NEW pad, NEW n, Patch(h, base, m, pad, n)
  PROVE  /\ out' \in ByteSeq /\ Len(out') \in Nat /\ at + pad <= Len(out')
         /\ \A i \in 1..base : out'[i] = out[i]
         /\ \A i \in 1..m : out'[base + i] = <<h, i>>
         /\ \A i \in (base + m + 1)..at : out'[i] = out[i]
         /\ at = Len(out) => Len(out') = at + pad
<1>2. /\ h \in Nat /\ base \in Nat /\ m \in Nat /\ base + m <= at /\ pad \in Nat
      /\ n = IF at + pad > Len(out) THEN at + pad ELSE Len(out)
      /\ out' = [i \in 1..n |-> out'[i]]
      /\ \A i \in 1..n : out'[i] = IF i \in (base + 1)..(base + m) THEN <<h, i - base>>
                                    ELSE IF i \in (at + 1)..(at + pad) THEN <<0, 0>> ELSE out[i]
  BY DEF Patch
<1>1. Len(out) \in Nat /\ at \in Nat /\ at <= Len(out) /\ \A i \in 1..Len(out) : out[i] \in AByte
  BY LenProperties, ElementOfSeq DEF ByteSeq
<1>3. /\ n \in Nat /\ at + pad <= n /\ Len(out) <= n /\ (at = Len(out) => n = at + pad)
      /\ n = at + pad \/ n = Len(out)
  BY <1>1, <1>2
<1>4. \A i \in 1..n : (IF i \in (base + 1)..(base + m) THEN <<h, i - base>>
                       ELSE IF i \in (at + 1)..(at + pad) THEN <<0, 0>> ELSE out[i]) \in AByte
  <2> TAKE i \in 1..n
  <2>1. CASE i \in (base + 1)..(base + m)
    <3>1. i - base \in Nat
      BY <1>2, <2>1
    <3> QED BY <1>2, <2>1, <3>1 DEF AByte
  <2>2. CASE i \notin (base + 1)..(base + m) /\ i \in (at + 1)..(at + pad)
    BY <2>2 DEF AByte
  <2>3. CASE i \notin (base + 1)..(base + m) /\ i \notin (at + 1)..(at + pad)
    <3>1. i \in 1..Len(out)
      BY <1>1, <1>2, <1>3, <2>3
    <3> QED BY <1>1, <2>3, <3>1
  <2> QED BY <2>1, <2>2, <2>3
<1>5. out' \in [1..n -> AByte]
  BY <1>2, <1>4
<1>6. out' \in ByteSeq /\ Len(out') = n
  BY <1>3, <1>5, FunctionIsSequence DEF ByteSeq
<1>7. \A i \in 1..base : out'[i] = out[i]
  <2> TAKE i \in 1..base
  <2>1. i \in 1..n /\ i \notin (base + 1)..(base + m) /\ i \notin (at + 1)..(at + pad)
    BY <1>1, <1>2, <1>3
  <2> QED BY <1>2, <2>1
<1>8. \A i \in 1..m : out'[base + i] = <<h, i>>
  <2> TAKE i \in 1..m
  <2>1. base + i \in 1..n /\ base + i \in (base + 1)..(base + m) /\ (base + i) - base = i
    <3>1. base + m <= n /\ base \in Nat /\ m \in Nat /\ n \in Nat /\ i \in Nat /\ 1 <= i /\ i <= m
      BY <1>1, <1>2, <1>3
    <3> QED BY <3>1
  <2> QED BY <1>2, <2>1
<1>9. \A i \in (base + m + 1)..at : out'[i] = out[i]
  <2> TAKE i \in (base + m + 1)..at
  <2>1. i \in 1..n /\ i \notin (base + 1)..(base + m) /\ i \notin (at + 1)..(at + pad)
    BY <1>1, <1>2, <1>3
  <2> QED BY <1>2, <2>1
<1> QED BY <1>3, <1>6, <1>7, <1>8, <1>9

LEMMA PaddingIs ==
  ASSUME writer.written \in Nat
  PROVE  /\ Padding \in Nat /\ writer.written + Padding = Round(writer.written)
         /\ Round(writer.written) \in Nat /\ Round(writer.written) % BlockSize = 0
<1> DEFINE n == writer.written
           r == n % BlockSize
<1>1. r \in 0..(BlockSize - 1)
  BY BlockIs, Division
<1>2. n + Len(Pad(n)) = Round(n) /\ Round(n) \in Nat /\ Round(n) % BlockSize = 0
      /\ Len(Pad(n)) \in Nat
  BY PadIs
<1>3. Len(Pad(n)) = IF r = 0 THEN 0 ELSE BlockSize - r
  <2>1. CASE r = 0
    <3>1. Pad(n) = <<>>
      BY <2>1, BlockIs DEF Pad
    <3> QED BY <2>1, <3>1
  <2>2. CASE r # 0
    <3>1. Pad(n) = Zero(BlockSize - r) /\ BlockSize - r \in Nat
      BY <1>1, <2>2, BlockIs DEF Pad
    <3> QED BY <2>2, <3>1, ZeroIs
  <2> QED BY <2>1, <2>2
<1>4. Padding = (BlockSize - r) % BlockSize
  BY DEF Padding
<1> HIDE DEF r
<1>5. (BlockSize - r) % BlockSize = IF r = 0 THEN 0 ELSE BlockSize - r
  <2>1. CASE r = 0
    <3>1. 0 \in 0..(BlockSize - 1) /\ BlockSize - r = BlockSize * 1 + 0
      BY <2>1, BlockIs
    <3> QED BY <2>1, <3>1, BlockIs, Quotient
  <2>2. CASE r # 0
    <3>1. BlockSize - r \in 0..(BlockSize - 1) /\ BlockSize - r = BlockSize * 0 + (BlockSize - r)
      BY <1>1, <2>2, BlockIs
    <3> QED BY <2>2, <3>1, BlockIs, Quotient
  <2> QED BY <2>1, <2>2
<1>6. Padding = Len(Pad(n))
  BY <1>3, <1>4, <1>5
<1> QED BY <1>2, <1>6 DEF n

\* The headers when the one of the entry that is open is complete.
LEMMA SealedIs ==
  ASSUME TypeOK, WriterInv, writer # None,
         headers' = [headers EXCEPT ![writer.h] = WriterHeader]
  PROVE  /\ IsList(headers') /\ Len(headers') = Len(headers)
         /\ \A k \in 1..(writer.h - 1) : headers'[k] = headers[k]
         /\ headers'[writer.h].kind = "header" /\ headers'[writer.h].size = writer.written
<1> DEFINE h == writer.h
           w == WriterHeader
           N == Len(headers)
<1>1. h \in Nat \ {0} /\ h = N /\ IsList(headers) /\ {"kind", "size"} \subseteq DOMAIN headers[h]
  BY WriterIs
<1>2. w.kind = "header" /\ w.size = writer.written
  <2> DEFINE old == headers[h]
  <2>1. {"kind", "size"} \subseteq DOMAIN old
    BY <1>1
  <2> HIDE DEF old
  <2>2. [old EXCEPT !.size = writer.written].size = writer.written
        /\ {"kind", "size"} \subseteq DOMAIN [old EXCEPT !.size = writer.written]
    BY <2>1
  <2>3. w = Seal([old EXCEPT !.size = writer.written])
    BY DEF WriterHeader, old
  <2> DEFINE set == [old EXCEPT !.size = writer.written]
  <2>4. "kind" \in DOMAIN set /\ "size" \in DOMAIN set /\ set.size = writer.written /\ w = Seal(set)
    BY <2>2, <2>3
  <2> HIDE DEF set, w
  <2> QED BY <2>4, SealIs
<1> HIDE DEF w
<1>3. DOMAIN headers = 1..N /\ headers' = [headers EXCEPT ![h] = w] /\ N \in Nat
  BY <1>1, ListedIs DEF IsList, w
<1>4. /\ headers' = [k \in 1..N |-> headers'[k]] /\ headers'[h] = w
      /\ \A k \in 1..(h - 1) : headers'[k] = headers[k]
  <2> HIDE DEF N, h
  <2>1. h \in 1..N
    BY <1>1, <1>3
  <2>2. \A k \in 1..(h - 1) : k \in 1..N /\ k # h
    BY <1>1, <1>3
  <2> QED BY <1>3, <2>1, <2>2
<1>5. IsList(headers') /\ Len(headers') = N
  BY <1>3, <1>4, ListIs
<1> QED BY <1>2, <1>4, <1>5

LEMMA PadFailsKeeps ==
  ASSUME BuilderInv, PadFails
  PROVE  BuilderInv'
<1>1. PICK n \in 0..Padding : Write(Zero(n))
  BY DEF PadFails
<1>2. /\ writer # None /\ writer' = None /\ failed' = TRUE
      /\ UNCHANGED <<headers, stack, entries, finished>>
  BY DEF PadFails, Idle
<1>3. /\ TypeOK /\ WriterInv /\ Apart /\ finished \in BOOLEAN /\ Stacked(stack)
  BY TypeIs DEF BuilderInv, TypeOK
<1> DEFINE h    == writer.h
           base == HeaderAt
           b    == Zero(n)
<1>4. /\ h \in Nat \ {0} /\ h = Len(headers) /\ writer.written \in Nat
      /\ base \in Nat /\ base + BlockSize + writer.written = at
      /\ out \in ByteSeq /\ at \in Nat /\ at \in 0..Len(out)
      /\ IsList(headers) /\ Frontier = base /\ Top = h - 1
  BY <1>2, <1>3, WriterIs
<1>5. n \in Nat
  BY <1>4, PaddingIs
<1>6. b \in ByteSeq /\ Len(b) = n /\ Write(b)
  BY <1>1, <1>5, ZeroIs
<1> HIDE DEF b, h, base
<1>7. /\ out' \in ByteSeq /\ at' = at + n /\ at' \in 0..Len(out')
      /\ Len(out) <= Len(out') /\ \A i \in 1..at : out'[i] = out[i]
  BY <1>4, <1>6, WriteIs
<1>8. at' \in Nat /\ Len(out') \in Nat /\ base <= at /\ base <= at' /\ base <= Len(out')
  <2>1. Len(out') \in Nat /\ at' <= Len(out') /\ at' \in Nat
    BY <1>4, <1>5, <1>7, LenProperties DEF ByteSeq
  <2>2. base <= at
    BY <1>4, BlockIs
  <2> QED BY <1>4, <1>5, <1>7, <2>1, <2>2
<1>9. Frontier' = at'
  BY <1>2 DEF Frontier
<1>10. TypeOK' /\ Apart'
  <2>1. /\ \A i \in 1..Frontier : out'[i] = out[i]
        /\ Frontier <= at' /\ Frontier <= Len(out')
    BY <1>4, <1>7, <1>8
  <2>2. /\ h \in Int /\ Top <= h /\ h <= Len(headers')
        /\ Len(headers) <= Len(headers') /\ \A k \in 1..Top : headers'[k] = headers[k]
    BY <1>2, <1>4
  <2>3. IsList(headers') /\ UNCHANGED entries /\ Stacked(stack')
        /\ finished' \in BOOLEAN /\ failed' \in BOOLEAN
    BY <1>2, <1>3, <1>4
  <2> QED BY <1>2, <1>3, <1>7, <1>8, <1>9, <2>1, <2>2, <2>3, Keeps
<1>11. OnBoundary' /\ WriterInv'
  BY <1>2 DEF OnBoundary, WriterInv
<1> QED BY <1>10, <1>11 DEF BuilderInv

LEMMA HeaderFailsKeeps ==
  ASSUME BuilderInv, HeaderFails
  PROVE  BuilderInv'
<1>1. PICK n \in 0..BlockSize :
        /\ at' = HeaderAt + n
        /\ out' = [i \in 1..(IF at + Padding > Len(out) THEN at + Padding ELSE Len(out)) |->
                     IF i \in (HeaderAt + 1)..at' THEN <<writer.h, i - HeaderAt>>
                     ELSE IF i \in (at + 1)..(at + Padding) THEN <<0, 0>> ELSE out[i]]
  BY DEF HeaderFails
<1>2. /\ writer # None /\ writer' = None /\ failed' = TRUE
      /\ headers' = [headers EXCEPT ![writer.h] = WriterHeader]
      /\ UNCHANGED <<stack, entries, finished>>
  BY DEF HeaderFails, Idle
<1>3. /\ TypeOK /\ WriterInv /\ Apart /\ finished \in BOOLEAN /\ Stacked(stack)
  BY TypeIs DEF BuilderInv, TypeOK
<1> DEFINE h    == writer.h
           base == HeaderAt
           pad  == Padding
<1>4. /\ h \in Nat \ {0} /\ h = Len(headers) /\ writer.written \in Nat
      /\ base \in Nat /\ base + BlockSize + writer.written = at
      /\ out \in ByteSeq /\ at \in Nat /\ at \in 0..Len(out)
      /\ IsList(headers) /\ Frontier = base /\ Top = h - 1
  BY <1>2, <1>3, WriterIs
<1>5. n \in Nat /\ pad \in Nat /\ base + n <= at
  <2>1. n \in Nat /\ n <= BlockSize /\ pad \in Nat
    BY <1>4, PaddingIs, BlockIs
  <2> QED BY <1>4, <2>1, BlockIs
<1>6. /\ IsList(headers') /\ Len(headers') = Len(headers)
      /\ \A k \in 1..(h - 1) : headers'[k] = headers[k]
  BY <1>2, <1>3, SealedIs
<1>7. out' = [i \in 1..(IF at + pad > Len(out) THEN at + pad ELSE Len(out)) |->
                IF i \in (base + 1)..(base + n) THEN <<h, i - base>>
                ELSE IF i \in (at + 1)..(at + pad) THEN <<0, 0>> ELSE out[i]]
  BY <1>1
<1>8. at' = base + n
  BY <1>1
<1> HIDE DEF h, base, pad
<1>9. /\ out' \in ByteSeq /\ Len(out') \in Nat /\ at + pad <= Len(out')
      /\ \A i \in 1..base : out'[i] = out[i]
  <2>1. /\ out \in ByteSeq /\ at \in 0..Len(out) /\ h \in Nat
        /\ base \in Nat /\ n \in Nat /\ base + n <= at /\ pad \in Nat
    BY <1>4, <1>5
  <2> DEFINE len == IF at + pad > Len(out) THEN at + pad ELSE Len(out)
  <2>2. out' = [i \in 1..len |-> IF i \in (base + 1)..(base + n) THEN <<h, i - base>>
                                ELSE IF i \in (at + 1)..(at + pad) THEN <<0, 0>> ELSE out[i]]
    BY <1>7
  <2>3. len = IF at + pad > Len(out) THEN at + pad ELSE Len(out)
    OBVIOUS
  <2> HIDE DEF len
  <2>4. out' = [i \in 1..len |-> out'[i]]
    BY <2>2
  <2>5. \A i \in 1..len : out'[i] = IF i \in (base + 1)..(base + n) THEN <<h, i - base>>
                                    ELSE IF i \in (at + 1)..(at + pad) THEN <<0, 0>> ELSE out[i]
    BY <2>2
  <2>6. Patch(h, base, n, pad, len)
    BY <2>1, <2>3, <2>4, <2>5 DEF Patch
  <2> QED BY <2>1, <2>6, Patched
<1>10. at' \in Nat /\ at' \in 0..Len(out') /\ base <= at' /\ base <= Len(out')
  BY <1>4, <1>5, <1>8, <1>9
<1>11. Frontier' = at'
  BY <1>2 DEF Frontier
<1>12. TypeOK' /\ Apart'
  <2>1. /\ \A i \in 1..Frontier : out'[i] = out[i]
        /\ Frontier <= at' /\ Frontier <= Len(out')
    BY <1>4, <1>9, <1>10
  <2>2. /\ h \in Int /\ Top <= h /\ h <= Len(headers')
        /\ Len(headers) <= Len(headers') /\ \A k \in 1..Top : headers'[k] = headers[k]
    BY <1>4, <1>6
  <2>3. UNCHANGED entries /\ Stacked(stack') /\ finished' \in BOOLEAN /\ failed' \in BOOLEAN
    BY <1>2, <1>3
  <2> QED BY <1>2, <1>3, <1>6, <1>9, <1>10, <1>11, <2>1, <2>2, <2>3, Keeps
<1>13. OnBoundary' /\ WriterInv'
  BY <1>2 DEF OnBoundary, WriterInv
<1> QED BY <1>12, <1>13 DEF BuilderInv

LEMMA FinishWriterKeeps ==
  ASSUME BuilderInv, FinishWriter
  PROVE  BuilderInv'
<1> DEFINE h    == writer.h
           old  == writer.written
           base == HeaderAt
           pad  == Padding
           e    == [Expected(h, headers'[h], writer.path, NoPath, old, Upto(old))
                      EXCEPT !.pax = pax, !.end = at']
<1>1. /\ writer # None /\ writer' = None
      /\ headers' = [headers EXCEPT ![writer.h] = WriterHeader]
      /\ at' = at + pad
      /\ out' = [i \in 1..(IF at' > Len(out) THEN at' ELSE Len(out)) |->
                   IF i \in (base + 1)..(base + BlockSize) THEN <<h, i - base>>
                   ELSE IF i \in (at + 1)..at' THEN <<0, 0>> ELSE out[i]]
      /\ entries' = IF failed \/ finished THEN entries ELSE Append(entries, e)
      /\ UNCHANGED <<stack, failed, finished>>
  BY DEF FinishWriter, Idle
<1>2. /\ TypeOK /\ WriterInv /\ Apart /\ finished \in BOOLEAN /\ failed \in BOOLEAN
      /\ Stacked(stack)
      /\ IsList(entries) /\ \A i \in 1..Len(entries) : EntryOK(entries[i])
  BY TypeIs DEF BuilderInv, TypeOK
<1>3. /\ h \in Nat \ {0} /\ h = Len(headers) /\ old \in Nat
      /\ base \in Nat /\ base + BlockSize + old = at
      /\ out \in ByteSeq /\ at \in Nat /\ at \in 0..Len(out) /\ Len(out) \in Nat
      /\ IsList(headers) /\ Frontier = base /\ Top = h - 1
      /\ Has(base + BlockSize, Contents(h, Upto(old)))
      /\ ~failed => at = Len(out) /\ base % BlockSize = 0
  BY <1>1, <1>2, WriterIs
<1>4. pad \in Nat /\ old + pad = Round(old) /\ Round(old) \in Nat /\ Round(old) % BlockSize = 0
  BY <1>3, PaddingIs
<1>5. /\ IsList(headers') /\ Len(headers') = h
      /\ \A k \in 1..(h - 1) : headers'[k] = headers[k]
      /\ headers'[h].kind = "header" /\ headers'[h].size = old
  BY <1>1, <1>2, <1>3, SealedIs
<1>6. out' = [i \in 1..(IF at + pad > Len(out) THEN at + pad ELSE Len(out)) |->
                IF i \in (base + 1)..(base + BlockSize) THEN <<h, i - base>>
                ELSE IF i \in (at + 1)..(at + pad) THEN <<0, 0>> ELSE out[i]]
  BY <1>1
<1>7. entries' = entries \/ (entries' = Append(entries, e) /\ ~failed)
  BY <1>1
<1>8. e.h = h /\ e.end = at' /\ e.data = Upto(old)
  BY DEF Expected
<1> HIDE DEF e, h, base, pad, old
<1>9. /\ out' \in ByteSeq /\ Len(out') \in Nat /\ at + pad <= Len(out')
      /\ \A i \in 1..base : out'[i] = out[i]
      /\ \A i \in 1..BlockSize : out'[base + i] = <<h, i>>
      /\ \A i \in (base + BlockSize + 1)..at : out'[i] = out[i]
      /\ at = Len(out) => Len(out') = at + pad
  <2>1. base + BlockSize <= at
    BY <1>3, BlockIs
  <2>2. /\ out \in ByteSeq /\ at \in 0..Len(out) /\ h \in Nat
        /\ base \in Nat /\ BlockSize \in Nat /\ base + BlockSize <= at /\ pad \in Nat
    BY <1>3, <1>4, <2>1, BlockIs
  <2> DEFINE len == IF at + pad > Len(out) THEN at + pad ELSE Len(out)
  <2>3. out' = [i \in 1..len |-> IF i \in (base + 1)..(base + BlockSize) THEN <<h, i - base>>
                                ELSE IF i \in (at + 1)..(at + pad) THEN <<0, 0>> ELSE out[i]]
    BY <1>6
  <2>4. len = IF at + pad > Len(out) THEN at + pad ELSE Len(out)
    OBVIOUS
  <2> HIDE DEF len
  <2>5. out' = [i \in 1..len |-> out'[i]]
    BY <2>3
  <2>6. \A i \in 1..len : out'[i] = IF i \in (base + 1)..(base + BlockSize) THEN <<h, i - base>>
                                    ELSE IF i \in (at + 1)..(at + pad) THEN <<0, 0>> ELSE out[i]
    BY <2>3
  <2>7. Patch(h, base, BlockSize, pad, len)
    BY <2>2, <2>4, <2>5, <2>6 DEF Patch
  <2> QED BY <2>2, <2>7, Patched
<1>10. /\ at' = at + pad /\ at' \in Nat /\ at' \in 0..Len(out') /\ base <= at' /\ base <= Len(out')
       /\ at' = base + BlockSize + Round(old)
  <2>1. \A a, b, c, d, f \in Nat : b + c + d = a => /\ a + f \in Nat /\ b <= a + f
                                                   /\ a + f = b + c + (d + f)
    OBVIOUS
  <2>2. at + pad \in Nat /\ base <= at + pad /\ at + pad = base + BlockSize + (old + pad)
    BY <1>3, <1>4, <2>1, BlockIs
  <2> QED BY <1>1, <1>3, <1>4, <1>9, <2>2
<1>11. Frontier' = at'
  BY <1>1 DEF Frontier
<1>12. InOrder(out, headers, entries, base, h - 1)
  BY <1>2, <1>3, OrderIs
<1> DEFINE top == h - 1
<1>13. /\ top \in Int /\ h \in Int /\ top <= h /\ Len(headers) \in Nat /\ Len(headers') \in Nat
       /\ Len(headers) <= Len(headers') /\ 0 \in 0..Len(headers') /\ h + 0 <= h
  BY <1>3, <1>5
<1>14. InOrder(out', headers', entries, at', h)
  <2>1. InOrder(out, headers, entries, base, top) /\ \A k \in 1..top : headers'[k] = headers[k]
    BY <1>5, <1>12
  <2> HIDE DEF top
  <2> QED BY <1>2, <1>3, <1>9, <1>10, <1>13, <2>1, OrderKept
<1>15. ASSUME ~failed
       PROVE  LiesIn(out', headers', e, base, 0)
  <2>1. base % BlockSize = 0
    BY <1>3, <1>15
  <2>2. Upto(old) \in Seq(Nat) /\ Len(Upto(old)) = old
    BY <1>3, UptoIs
  <2>3. e.end = base + BlockSize * (0 + 1) + Round(Len(e.data))
    BY <1>8, <1>10, <2>2, BlockIs
  <2>4. HasIn(out', base, HeaderBytes(h))
    <3>1. Len(HeaderBytes(h)) = BlockSize /\ \A i \in 1..BlockSize : HeaderBytes(h)[i] = <<h, i>>
      BY <1>3, HeaderBytesIs
    <3>2. base + BlockSize <= Len(out')
      BY <1>1, <1>3, <1>4, <1>9, BlockIs
    <3> QED BY <1>9, <3>1, <3>2 DEF HasIn
  <2>5. HasIn(out', base + BlockSize, Contents(h, Upto(old)))
    <3> DEFINE c == Contents(h, Upto(old))
               place == base + BlockSize
    <3>1. Len(c) = old
      BY <1>3, <2>2, ContentsIs
    <3>2. \A i \in 1..Len(c) : out[place + i] = c[i]
      BY <1>3 DEF Has
    <3> HIDE DEF c
    <3>3. place \in Nat /\ place + old = at /\ \A i \in (place + 1)..at : out'[i] = out[i]
      BY <1>3, <1>9, BlockIs
    <3> HIDE DEF place
    <3>4. \A i \in 1..old : place + i \in (place + 1)..at
      BY <1>3, <3>3
    <3>5. \A i \in 1..Len(c) : out'[place + i] = c[i]
      BY <3>1, <3>2, <3>3, <3>4
    <3>6. place + Len(c) <= Len(out')
      BY <1>3, <1>4, <1>9, <3>1, <3>3
    <3> QED BY <3>5, <3>6 DEF HasIn, c, place
  <2>6. /\ base + BlockSize * 0 = base /\ base + BlockSize * (0 + 1) = base + BlockSize
        /\ h + 0 = h /\ 0..0 = {0} /\ 1..0 = {}
    BY <1>3, BlockIs
  <2>7. \A k \in 0..0 : HasIn(out', base + BlockSize * k, HeaderBytes(e.h + k))
    <3> TAKE k \in 0..0
    <3>1. k = 0
      OBVIOUS
    <3> QED BY <1>8, <2>4, <2>6, <3>1
  <2>8. HasIn(out', base + BlockSize * (0 + 1), Contents(e.h, e.data))
    BY <1>8, <2>5, <2>6
  <2>9. headers'[e.h].kind = "header" /\ headers'[e.h].size = Len(e.data)
    BY <1>5, <1>8, <2>2
  <2> QED BY <2>1, <2>3, <2>6, <2>7, <2>8, <2>9 DEF LiesIn
<1>16. /\ IsList(entries') /\ (\A i \in 1..Len(entries') : EntryOK(entries'[i]))
       /\ InOrder(out', headers', entries', at', h)
  <2>1. CASE entries' = entries
    BY <1>2, <1>14, <2>1
  <2>2. CASE entries' = Append(entries, e) /\ ~failed
    <3>1. EntryOK(e)
      <4>1. Upto(old) \in Seq(Nat)
        BY <1>3, UptoIs
      <4> QED BY <1>3, <1>8, <1>10, <4>1 DEF EntryOK
    <3>2. \A i \in 1..Len(entries) : entries[i].end <= base
      BY <1>12 DEF InOrder
    <3>3. e.end <= at' /\ e.h + 0 <= h /\ base <= e.end
      BY <1>8, <1>10, <1>13
    <3>4. InOrder(out', headers', Append(entries, e), at', h)
      BY <1>2, <1>3, <1>10, <1>13, <1>14, <1>15, <2>2, <3>1, <3>2, <3>3, OrderAdd
    <3>5. /\ IsList(Append(entries, e)) /\ Len(Append(entries, e)) = Len(entries) + 1
          /\ \A i \in 1..Len(entries) : Append(entries, e)[i] = entries[i]
          /\ Append(entries, e)[Len(entries) + 1] = e
      BY <1>2, ListedAppend
    <3>6. \A i \in 1..Len(entries') : EntryOK(entries'[i])
      <4> TAKE i \in 1..Len(entries')
      <4>1. Len(entries) \in Nat
        BY <1>2 DEF IsList
      <4>2. i \in 1..Len(entries) \/ i = Len(entries) + 1
        BY <2>2, <3>5, <4>1
      <4> QED BY <1>2, <2>2, <3>1, <3>5, <4>2
    <3> QED BY <2>2, <3>4, <3>5, <3>6
  <2> QED BY <1>7, <2>1, <2>2
<1>17. TypeOK'
  BY <1>1, <1>2, <1>5, <1>9, <1>10, <1>16, TypeNext
<1>18. Apart'
  <2>1. h <= Len(headers')
    BY <1>5, <1>13
  <2> QED BY <1>1, <1>5, <1>11, <1>13, <1>16, <2>1, ApartNext
<1>19. OnBoundary'
  <2>1. SUFFICES ASSUME ~failed' PROVE at' = Len(out') /\ at' % BlockSize = 0
    BY DEF OnBoundary
  <2>2. at = Len(out) /\ base % BlockSize = 0
    BY <1>1, <1>3, <2>1
  <2>3. Blocks(base + BlockSize) /\ Blocks(Round(old))
    BY <1>3, <1>4, <2>2, BlocksSum DEF Blocks
  <2>4. Blocks(at')
    BY <1>10, <2>3, BlocksSum
  <2> QED BY <1>9, <1>10, <2>2, <2>4 DEF Blocks
<1>20. WriterInv'
  BY <1>1 DEF WriterInv
<1> QED BY <1>17, <1>18, <1>19, <1>20 DEF BuilderInv

-----------------------------------------------------------------------------
(* The end of the archive, and the whole.                                  *)

LEMMA ListedEmpty ==
  ASSUME NEW s, IsList(s)
  PROVE  s \o <<>> = s
<1> DEFINE S == {s[i] : i \in 1..Len(s)}
<1>1. \A i \in 1..Len(s) : s[i] \in S
  OBVIOUS
<1> HIDE DEF S
<1>2. s \in Seq(S)
  BY <1>1, ListedIs
<1> QED BY <1>2, ConcatEmptySeq

LEMMA TerminateKeeps ==
  ASSUME BuilderInv, Open, Terminate, UNCHANGED <<headers, writer, stack, entries>>
  PROVE  BuilderInv'
<1>1. /\ writer = None /\ writer' = None /\ Stacked(stack') /\ entries' = entries
      /\ finished \in BOOLEAN /\ failed \in BOOLEAN /\ IsList(headers)
  BY OpenIs DEF BuilderInv, TypeOK
<1>2. CASE finished
  BY <1>1, <1>2, Stays DEF Terminate
<1>3. CASE ~finished
  <2> DEFINE b == Zero(2 * BlockSize)
  <2>1. /\ finished' = TRUE
        /\ \/ Write(b) /\ UNCHANGED failed
           \/ Breaks(b) /\ failed' = TRUE
    BY <1>3 DEF Terminate
  <2>2. 2 * BlockSize \in Nat /\ 2 * BlockSize = BlockSize * 2
    BY BlockIs
  <2>3. Blocks(BlockSize * 2)
    BY BlocksSum
  <2>4. b \in ByteSeq /\ Blocks(Len(b))
    BY <2>2, <2>3, ZeroIs
  <2>5. headers' = headers \o <<>> /\ IsList(<<>>)
    BY <1>1, ListedEmpty, ListedNone
  <2> HIDE DEF b
  <2>6. CASE Write(b) /\ UNCHANGED failed
    BY <1>1, <2>1, <2>4, <2>5, <2>6, Forward
  <2>7. CASE Breaks(b) /\ failed' = TRUE
    <3>1. PICK c \in ByteSeq : Write(c)
      BY <2>4, <2>7, PartWritten
    <3> QED BY <1>1, <2>1, <2>5, <2>7, <3>1, Forward
  <2> QED BY <2>1, <2>6, <2>7
<1> QED BY <1>2, <1>3

LEMMA BuilderStart == Init => BuilderInv
<1> SUFFICES ASSUME Init PROVE BuilderInv
  OBVIOUS
<1>1. /\ out = <<>> /\ at = 0 /\ headers = <<>> /\ entries = <<>> /\ stack = <<>>
      /\ writer = None /\ finished = FALSE /\ failed = FALSE
  BY DEF Init
<1>2. IsList(<<>>) /\ Len(<<>>) = 0 /\ <<>> \in Seq(Nat \X Nat) /\ DOMAIN <<>> = {}
  <2>1. 1..0 = {} /\ <<>> \in Seq(Nat \X Nat)
    OBVIOUS
  <2>2. IsList(<<>>) /\ Len(<<>>) = 0
    BY ListedNone
  <2>3. DOMAIN <<>> = 1..Len(<<>>)
    BY <2>2, ListedIs
  <2> QED BY <2>1, <2>2, <2>3
<1>3. TypeOK
  <2> DEFINE e == <<>>
  <2>1. /\ Len(e) = 0 /\ Len(e) \in Nat /\ e = [h \in 1..Len(e) |-> e[h]] /\ DOMAIN e = {}
        /\ e \in Seq(Nat \X Nat)
    BY <1>2 DEF IsList
  <2>2. out = e /\ headers = e /\ entries = e /\ stack = e
    BY <1>1
  <2> HIDE DEF e
  <2>3. out \in Seq(Nat \X Nat) /\ at \in 0..Len(out)
    BY <1>1, <2>1, <2>2
  <2> QED BY <1>1, <2>1, <2>2, <2>3 DEF TypeOK
<1>4. OnBoundary
  <2>1. 0 % BlockSize = 0
    BY BlocksSum DEF Blocks
  <2> QED BY <1>1, <1>2, <2>1 DEF OnBoundary
<1>5. WriterInv
  BY <1>1 DEF WriterInv
<1>6. Apart
  BY <1>1, <1>2 DEF Apart
<1> QED BY <1>3, <1>4, <1>5, <1>6 DEF BuilderInv

LEMMA BuilderStep == BuilderInv /\ [Next]_vars => BuilderInv'
<1> SUFFICES ASSUME BuilderInv, [Next]_vars PROVE BuilderInv'
  OBVIOUS
<1>1. ASSUME NEW a \in Appends, AppendWhole(a) PROVE BuilderInv'
  BY <1>1, AppendWholeKeeps
<1>2. ASSUME NEW a \in Appends, AppendData(a) PROVE BuilderInv'
  BY <1>2, AppendDataKeeps
<1>3. ASSUME NEW a \in Appends, AppendLink(a) PROVE BuilderInv'
  BY <1>3, AppendLinkKeeps
<1>4. ASSUME NEW a \in Appends, StartWriter(a) PROVE BuilderInv'
  BY <1>4, StartWriterKeeps
<1>5. ASSUME NEW f \in Files, AppendPath(f) PROVE BuilderInv'
  BY <1>5, AppendPathKeeps
<1>6. ASSUME NEW r \in RecordLists, AppendPax(r) PROVE BuilderInv'
  BY <1>6, AppendPaxKeeps
<1>7. ASSUME NEW p \in Roots, StartWalk(p) PROVE BuilderInv'
  BY <1>7, StartWalkKeeps
<1>8. CASE WalkNode
  BY <1>8, WalkNodeKeeps
<1>9. CASE WriteChunk
  BY <1>9, WriteChunkKeeps
<1>10. CASE FinishWriter
  BY <1>10, FinishWriterKeeps
<1>11. CASE PadFails
  BY <1>11, PadFailsKeeps
<1>12. CASE HeaderFails
  BY <1>12, HeaderFailsKeeps
<1>13. CASE Finish
  BY <1>13, TerminateKeeps DEF Finish
<1>14. CASE Close
  BY <1>14, TerminateKeeps DEF Close
<1>15. CASE UNCHANGED vars
  <2>1. /\ UNCHANGED <<out, at, headers, entries, failed, writer, finished>>
        /\ stack' = stack
    BY <1>15 DEF vars
  <2>2. Stacked(stack)
    BY TypeIs DEF BuilderInv
  <2> QED BY <2>1, <2>2, Stays
<1> QED BY <1>1, <1>2, <1>3, <1>4, <1>5, <1>6, <1>7, <1>8, <1>9, <1>10, <1>11, <1>12, <1>13,
           <1>14, <1>15 DEF Next

\* Whatever the client calls and wherever the stream fails, every entry lies between the one
\* before it and what is still to be written, with a header of its own.
THEOREM BuilderAlways == Spec => []BuilderInv
<1>1. Init => BuilderInv
  BY BuilderStart
<1>2. BuilderInv /\ [Next]_vars => BuilderInv'
  BY BuilderStep
<1> QED BY <1>1, <1>2, PTL DEF Spec

\* Every entry that was appended before the first failure is and stays in the stream as it was
\* written, behind the one before it, whatever fails afterwards (builder.rs:533, 557, 598).
THEOREM EntriesAreKept == Spec => []EntriesStay
<1>1. BuilderInv => EntriesStay
  <2> SUFFICES ASSUME BuilderInv, NEW i \in DOMAIN entries
               PROVE  EndOf(i) <= Len(out) /\ \E n \in 0..Len(headers) : Placed(i, n)
    BY DEF EntriesStay
  <2>1. TypeOK /\ WriterInv /\ Apart
    BY DEF BuilderInv
  <2>2. EndOf(i) <= Frontier /\ \E n \in 0..Len(headers) : Placed(i, n)
    BY <2>1 DEF Apart
  <2>3. /\ Frontier \in Nat /\ Frontier <= at /\ at \in 0..Len(out) /\ Len(out) \in Nat
        /\ IsList(entries) /\ \A k \in 1..Len(entries) : EntryOK(entries[k])
    BY <2>1, FrontierIs, TypeIs
  <2>4. i # 0 /\ EndOf(i) \in Nat
    BY <2>3, ListedIs DEF EndOf, EntryOK
  <2>5. EndOf(i) <= Len(out)
    BY <2>2, <2>3, <2>4
  <2> QED BY <2>2, <2>5
<1> QED BY <1>1, BuilderAlways, PTL

\* As long as nothing fails, a call starts at the end of the stream and on a block boundary,
\* however long the contents before it were (builder.rs:605).
THEOREM BoundaryIsKept == Spec => []OnBoundary
<1>1. BuilderInv => OnBoundary
  BY DEF BuilderInv
<1> QED BY <1>1, BuilderAlways, PTL
=============================================================================
