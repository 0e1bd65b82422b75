-------------------------- MODULE HeaderFieldsProofs --------------------------
(***************************************************************************)
(* A header gives back the numbers it was given, for every base of the     *)
(* octal digits, width of a byte and lengths of the fields, and whatever   *)
(* else was set in between.                                                *)
(***************************************************************************)
EXTENDS HeaderFields, NamesProofs

-----------------------------------------------------------------------------
(* Powers and digits.                                                      *)

LEMMA BasesAndLengths ==
  /\ Octal \in Nat \ {0} /\ Byte \in Nat \ {0} /\ Long \in Nat /\ Short \in Nat
  /\ 2 <= Short /\ Short < Long /\ Flag \in Nat /\ 2 + Octal <= Flag /\ Flag + Flag = Byte
<1>1. Byte = 2 * (Byte \div 2) + (Byte % 2) /\ Byte \div 2 \in Nat
  BY EncodingAssumption, Division
<1> QED BY <1>1, EncodingAssumption DEF Flag

LEMMA PowersStep ==
  ASSUME NEW base \in Nat \ {0}
  PROVE  /\ Powers(base) \in [0..Long -> Nat \ {0}] /\ Powers(base)[0] = 1
         /\ \A n \in 1..Long : Powers(base)[n] = base * Powers(base)[n - 1]
<1> DEFINE W == Nat \ {0}
           step == [n \in 1..Long |-> [t \in W |-> base * t]]
           body(f) == [n \in 0..Long |-> IF n = 0 THEN 1 ELSE base * f[n - 1]]
           g == Powers(base)
<1>1. Long \in Nat
  BY BasesAndLengths
<1>2. \A t \in W : base * t \in W
  <2> TAKE t \in W
  <2>1. base * t \in Nat
    OBVIOUS
  <2>2. base * t >= base
    BY MultipleAtLeast
  <2> QED BY <2>1, <2>2
<1>3. step \in [1..Long -> [W -> W]]
  BY <1>2
<1>4. PICK f : Iterates(f, W, step, 1, Long)
  <2>1. 1 \in W
    OBVIOUS
  <2> HIDE DEF step, W
  <2> QED BY <1>1, <1>3, <2>1, Iteration
<1>5. f \in [0..Long -> W] /\ f[0] = 1 /\ \A n \in 1..Long : f[n] = base * f[n - 1]
  <2>1. \A n \in 1..Long : n - 1 \in 0..Long /\ f[n - 1] \in W
    BY <1>1, <1>4 DEF Iterates
  <2> QED BY <1>4, <2>1 DEF Iterates
<1>6. f = body(f)
  BY <1>1, <1>5
<1>7. g = body(g)
  <2>1. g = CHOOSE h : h = body(h)
    BY DEF Powers
  <2> HIDE DEF body, g
  <2> QED BY <1>6, <2>1
<1> HIDE DEF g
<1> DEFINE S == {n \in Nat : n <= Long => g[n] = f[n]}
<1>8. 0 \in S
  BY <1>1, <1>5, <1>7
<1>9. ASSUME NEW n \in Nat, n \in S
      PROVE  n + 1 \in S
  <2> SUFFICES ASSUME n + 1 <= Long PROVE g[n + 1] = f[n + 1]
    OBVIOUS
  <2>1. n + 1 \in 0..Long /\ n + 1 \in 1..Long /\ (n + 1) - 1 = n /\ n <= Long
    BY <1>1
  <2>2. g[n + 1] = base * g[n]
    BY <1>7, <2>1
  <2> QED BY <1>5, <1>9, <2>1, <2>2
<1>10. \A n \in 0..Long : g[n] = f[n]
  <2>1. \A n \in Nat : n \in S => n + 1 \in S
    BY <1>9
  <2>2. Nat \subseteq S
    <3> HIDE DEF S
    <3> QED BY <1>8, <2>1, Induction
  <2> QED BY <1>1, <2>2
<1>11. g = f
  <2>1. g = [n \in 0..Long |-> g[n]]
    BY <1>7
  <2> QED BY <1>5, <1>10, <2>1
<1> QED BY <1>5, <1>11 DEF g

LEMMA DigitType ==
  ASSUME NEW base \in Nat \ {0}, NEW value \in Nat, NEW n \in 0..Long
  PROVE  /\ DigitAt(base, value, n) \in 0..(base - 1)
         /\ value \div Powers(base)[n] \in Nat
<1> DEFINE p == Powers(base)[n]
<1>1. p \in Nat \ {0}
  BY PowersStep
<1> HIDE DEF p
<1>2. value \div p \in Nat
  BY <1>1, Division
<1>3. (value \div p) % base \in 0..(base - 1)
  BY <1>2, Division
<1> QED BY <1>2, <1>3 DEF DigitAt, p

\* A digit more.
LEMMA DigitStep ==
  ASSUME NEW base \in Nat \ {0}, NEW value \in Nat, NEW n \in 1..Long
  PROVE  (value \div Powers(base)[n]) * base + DigitAt(base, value, n - 1)
           = value \div Powers(base)[n - 1]
<1> DEFINE a == Powers(base)[n - 1]
           q == value \div a
<1>1. n - 1 \in 0..Long
  BY BasesAndLengths
<1>2. a \in Nat \ {0} /\ Powers(base)[n] = base * a
  BY <1>1, PowersStep
<1> HIDE DEF a
<1>3. value \div (base * a) = q \div base
  BY <1>2, DivisionTwice
<1>4. q \in Nat
  BY <1>2, Division
<1> HIDE DEF q
<1>5. q = base * (q \div base) + (q % base) /\ q \div base \in Nat
  BY <1>4, Division
<1>6. base * (q \div base) = (q \div base) * base
  BY <1>5
<1>7. DigitAt(base, value, n - 1) = q % base
  BY DEF DigitAt, q, a
<1> QED BY <1>2, <1>3, <1>5, <1>6, <1>7 DEF q, a

\* The digits of a number, from the left, make it.
LEMMA NumberOf ==
  ASSUME NEW base \in Nat \ {0}, NEW value \in Nat, NEW digits \in Seq(Nat), Len(digits) <= Long,
         \A i \in 1..Len(digits) : digits[i] = DigitAt(base, value, Len(digits) - i)
  PROVE  Number(base, value \div Powers(base)[Len(digits)], digits) = value
<1> DEFINE N == Len(digits)
           first == value \div Powers(base)[N]
           T == SUBSET (1..N)
           body(g) == [S \in T |-> IF S = {} THEN first ELSE g[S \ {Max(S)}] * base + digits[Max(S)]]
           iter == CHOOSE g : g = body(g)
           step == [i \in 1..N |-> [t \in Nat |-> t * base + digits[i]]]
<1>1. /\ N \in Nat /\ N \in 0..Long /\ DOMAIN digits = 1..N
      /\ \A i \in 1..N : digits[i] \in Nat
  BY LenProperties, ElementOfSeq, BasesAndLengths
<1>2. Number(base, first, digits) = iter[1..N]
  BY <1>1 DEF Number, FoldLeft, MapThenFoldSet, Max
<1> HIDE DEF N, first
<1>3. first \in Nat
  BY <1>1, DigitType DEF first
<1>4. step \in [1..N -> [Nat -> Nat]]
  <2>1. \A t \in Nat : t * base \in Nat
    OBVIOUS
  <2>2. \A i \in 1..N, t \in Nat : t * base + digits[i] \in Nat
    BY <1>1, <2>1
  <2> QED BY <2>2
<1>5. \A S \in T : S # {} => Max(S) \in 1..N /\ S \ {Max(S)} \in T
  <2> TAKE S \in T
  <2>1. S \subseteq 1..N
    OBVIOUS
  <2> HAVE S # {}
  <2>2. Max(S) \in S
    BY <1>1, <2>1, MaxIs, Zenon
  <2> QED BY <2>1, <2>2
<1>6. \E g : g = body(g)
  <2>1. PICK g : Folds(g, Nat, step, first, N)
    <3> HIDE DEF step
    <3> QED BY <1>1, <1>3, <1>4, FoldExists
  <2>2. ASSUME NEW S \in T
        PROVE  g[S] = IF S = {} THEN first ELSE g[S \ {Max(S)}] * base + digits[Max(S)]
    BY <1>5, <2>1 DEF Folds
  <2>3. g = body(g)
    BY <2>1, <2>2 DEF Folds
  <2> QED BY <2>3
<1>7. iter = body(iter)
  <2> HIDE DEF body
  <2> QED BY <1>6
<1> HIDE DEF iter
<1> DEFINE S == {n \in Nat : n <= N => iter[1..n] = value \div Powers(base)[N - n]}
<1>8. 0 \in S
  <2>1. 1..0 = {} /\ {} \in T /\ N - 0 = N
    BY <1>1
  <2>2. iter[{}] = first
    BY <1>7, <2>1
  <2> QED BY <2>1, <2>2 DEF first
<1>9. ASSUME NEW n \in Nat, n \in S
      PROVE  n + 1 \in S
  <2> DEFINE k == n + 1
  <2> SUFFICES ASSUME k <= N PROVE iter[1..k] = value \div Powers(base)[N - k]
    OBVIOUS
  <2>1. /\ 1..k \in T /\ 1..k # {} /\ k \in 1..k /\ k \in Nat /\ k \in 1..N
        /\ (1..k) \ {k} = 1..n /\ n <= N
    <3>1. k \in Nat /\ n <= N /\ k \in 1..N /\ k \in 1..k
      BY <1>1
    <3>2. (1..k) \ {k} = 1..n
      OBVIOUS
    <3>3. 1..k \in T
      BY <1>1
    <3> QED BY <3>1, <3>2, <3>3
  <2>2. Max(1..k) = k
    <3> HIDE DEF k
    <3> QED BY <2>1, MaxIs
  <2>3. iter[1..k] = iter[1..n] * base + digits[k]
    <3>1. iter[1..k] = iter[(1..k) \ {Max(1..k)}] * base + digits[Max(1..k)]
      BY <1>7, <2>1
    <3> QED BY <2>1, <2>2, <3>1
  <2>4. iter[1..n] = value \div Powers(base)[N - n]
    BY <1>9, <2>1
  <2>5. digits[k] = DigitAt(base, value, N - k)
    BY <2>1 DEF N
  <2>6. N - n \in 1..Long /\ N - k = (N - n) - 1
    <3>1. n \in Nat /\ Long \in Nat /\ N <= Long /\ n + 1 <= N
      BY <1>1, <2>1, BasesAndLengths
    <3> QED BY <1>1, <3>1
  <2> HIDE DEF k
  <2>7. (value \div Powers(base)[N - n]) * base + DigitAt(base, value, (N - n) - 1)
          = value \div Powers(base)[(N - n) - 1]
    BY <2>6, DigitStep
  <2> QED BY <2>3, <2>4, <2>5, <2>6, <2>7
<1>10. N \in S
  <2>1. \A n \in Nat : n \in S => n + 1 \in S
    BY <1>9
  <2> HIDE DEF S
  <2> QED BY <1>1, <1>8, <2>1, Induction
<1>11. value \div Powers(base)[N - N] = value
  <2>1. N - N = 0 /\ Powers(base)[0] = 1
    BY <1>1, PowersStep
  <2> QED BY <2>1
<1> QED BY <1>1, <1>2, <1>10, <1>11 DEF N, first

\* A number that fits in the digits has nothing before them.
LEMMA NothingBefore ==
  ASSUME NEW base \in Nat \ {0}, NEW value \in Nat, NEW n \in 0..Long, value < Powers(base)[n]
  PROVE  value \div Powers(base)[n] = 0
<1> DEFINE p == Powers(base)[n]
<1>1. p \in Nat \ {0}
  BY PowersStep
<1>2. value \in 0..(p - 1) /\ p * 0 + value = value
  BY <1>1
<1> HIDE DEF p
<1>3. (p * 0 + value) \div p = 0
  BY <1>1, <1>2, Quotient
<1> QED BY <1>2, <1>3 DEF p

LEMMA FieldSize ==
  ASSUME NEW len \in {Short, Long}
  PROVE  len \in Nat /\ 2 <= len /\ Short <= len /\ len <= Long /\ len - 1 \in 0..Long
BY BasesAndLengths

\* A function on 1..n is a sequence.
LEMMA IsSequence ==
  ASSUME NEW T, NEW n \in Nat, NEW f \in [1..n -> T]
  PROVE  f \in Seq(T) /\ Len(f) = n
OBVIOUS

LEMMA OctalBytes ==
  ASSUME NEW len \in {Short, Long}, NEW value \in Nat
  PROVE  /\ OctalInto(len, value) \in [1..len -> 0..(Flag - 1)]
         /\ OctalInto(len, value)[len] = 0
         /\ \A i \in 1..(len - 1) :
              /\ len - 1 - i \in 0..Long
              /\ DigitAt(Octal, value, len - 1 - i) \in 0..(Octal - 1)
              /\ OctalInto(len, value)[i] = 2 + DigitAt(Octal, value, len - 1 - i)
<1>1. len \in Nat /\ 2 <= len /\ len <= Long /\ Octal \in Nat \ {0} /\ Long \in Nat
  BY FieldSize, BasesAndLengths
<1>2. ASSUME NEW i \in 1..(len - 1)
      PROVE  /\ len - 1 - i \in 0..Long
             /\ DigitAt(Octal, value, len - 1 - i) \in 0..(Octal - 1)
  <2>1. len - 1 - i \in 0..Long
    BY <1>1
  <2> QED BY <1>1, <2>1, DigitType
<1>3. \A i \in 1..len : i = len \/ i \in 1..(len - 1)
  BY <1>1
<1>4. ASSUME NEW i \in 1..(len - 1)
      PROVE  OctalInto(len, value)[i] = 2 + DigitAt(Octal, value, len - 1 - i)
  BY <1>1 DEF OctalInto, Digit
<1>5. len \in 1..len /\ OctalInto(len, value)[len] = 0
  BY <1>1 DEF OctalInto
<1>6. ASSUME NEW i \in 1..len
      PROVE  OctalInto(len, value)[i] \in 0..(Flag - 1)
  <2>1. CASE i = len
    BY <2>1, <1>5, BasesAndLengths
  <2>2. CASE i \in 1..(len - 1)
    BY <2>2, <1>2, <1>4, BasesAndLengths
  <2> QED BY <1>3, <2>1, <2>2
<1>7. OctalInto(len, value) = [i \in 1..len |-> OctalInto(len, value)[i]]
  BY DEF OctalInto
<1> QED BY <1>2, <1>4, <1>5, <1>6, <1>7

\* Octal text is read back, when the digits are enough.
LEMMA OctalKept ==
  ASSUME NEW len \in {Short, Long}, NEW value \in Nat, value < Powers(Octal)[len - 1]
  PROVE  OctalFrom(OctalInto(len, value)) = value
<1> DEFINE bytes == OctalInto(len, value)
           front == Truncated(bytes, 0)
           digits == [i \in DOMAIN front |-> front[i] - 2]
           n == len - 1
           digit(i) == DigitAt(Octal, value, n - i)
<1>1. /\ len \in Nat /\ 2 <= len /\ len <= Long /\ n \in Nat /\ n \in 0..Long /\ n <= Long
      /\ Octal \in Nat \ {0}
  BY FieldSize, BasesAndLengths
<1>2. /\ bytes \in [1..len -> Nat] /\ bytes[len] = 0
      /\ \A i \in 1..n : digit(i) \in 0..(Octal - 1) /\ bytes[i] = 2 + digit(i)
  <2>1. \A b \in 0..(Flag - 1) : b \in Nat
    BY BasesAndLengths
  <2> QED BY <2>1, OctalBytes
<1> HIDE DEF bytes, digit
<1>3. front = SubSeq(bytes, 1, n)
  <2>1. {i \in DOMAIN bytes : bytes[i] = 0} = {len}
    <3>1. \A i \in 1..len : i = len \/ i \in 1..n
      BY <1>1
    <3>2. \A i \in 1..n : bytes[i] # 0
      BY <1>1, <1>2
    <3> QED BY <1>1, <1>2, <3>1, <3>2
  <2>2. Min({len}) = len
    BY <1>1 DEF Min
  <2> QED BY <2>1, <2>2 DEF Truncated
<1> HIDE DEF front
<1>4. /\ Len(front) = n /\ DOMAIN front = 1..n
      /\ \A i \in 1..n : front[i] = 2 + digit(i)
  <2>1. bytes \in Seq(Nat) /\ Len(bytes) = len
    BY <1>1, <1>2, IsSequence
  <2>2. \A i \in 1..n : bytes[i] \in Nat /\ i \in 1..len
    BY <1>1, <1>2
  <2> QED BY <1>1, <1>2, <1>3, <2>1, <2>2
<1>5. ~(front = <<>> \/ \E i \in DOMAIN front : ~IsDigit(front[i]))
  <2>1. front # <<>>
    BY <1>1, <1>4
  <2>2. \A i \in 1..n : IsDigit(front[i])
    <3> TAKE i \in 1..n
    <3>1. digit(i) \in 0..(Octal - 1) /\ front[i] = 2 + digit(i) /\ Octal \in Nat
      BY <1>1, <1>2, <1>4
    <3> QED BY <3>1 DEF IsDigit
  <2> QED BY <1>4, <2>1, <2>2
<1>6. /\ digits \in Seq(Nat) /\ Len(digits) = n
      /\ \A i \in 1..n : digits[i] = digit(i)
  <2>1. \A i \in 1..n : front[i] - 2 = digit(i) /\ digit(i) \in Nat
    BY <1>1, <1>2, <1>4
  <2>2. digits \in [1..n -> Nat]
    BY <1>4, <2>1
  <2> QED BY <1>1, <1>4, <2>1, <2>2, IsSequence
<1>7. OctalFrom(bytes) = Number(Octal, 0, digits)
  BY <1>5 DEF OctalFrom, front
<1> HIDE DEF digits
<1>8. value \div Powers(Octal)[n] = 0
  BY <1>1, NothingBefore
<1>9. Number(Octal, value \div Powers(Octal)[n], digits) = value
  <2>1. \A i \in 1..Len(digits) : digits[i] = DigitAt(Octal, value, Len(digits) - i)
    BY <1>6 DEF digit
  <2> HIDE DEF n
  <2> QED BY <1>1, <1>6, <2>1, NumberOf
<1> QED BY <1>7, <1>8, <1>9 DEF bytes

-----------------------------------------------------------------------------
(* Binary numbers.                                                         *)

LEMMA ExtendedBytes ==
  ASSUME NEW len \in {Short, Long}, NEW value \in Nat
  PROVE  /\ ExtendedInto(len, value) \in [1..len -> 0..(Byte - 1)]
         /\ ExtendedInto(len, value)[1] >= Flag
         /\ \A i \in 2..len : i > len - Short =>
              ExtendedInto(len, value)[i] = DigitAt(Byte, value, len - i)
         /\ len = Short /\ DigitAt(Byte, value, Short - 1) < Flag =>
              ExtendedInto(len, value)[1] = DigitAt(Byte, value, Short - 1) + Flag
<1> DEFINE plain == [i \in 1..len |-> IF i <= len - Short THEN 0 ELSE DigitAt(Byte, value, len - i)]
           bytes == [plain EXCEPT ![1] = IF @ < Flag THEN @ + Flag ELSE @]
<1>1. /\ len \in Nat /\ 2 <= len /\ len <= Long /\ Short <= len /\ Short \in Nat /\ Long \in Nat
      /\ Byte \in Nat \ {0} /\ Flag \in Nat /\ Flag + Flag = Byte /\ 1 <= Flag
  BY FieldSize, BasesAndLengths
<1>2. ASSUME NEW i \in 1..len
      PROVE  plain[i] \in 0..(Byte - 1)
  <2>1. len - i \in 0..Long
    BY <1>1
  <2>2. DigitAt(Byte, value, len - i) \in 0..(Byte - 1)
    BY <1>1, <2>1, DigitType
  <2>3. 0 \in 0..(Byte - 1)
    BY <1>1
  <2> QED BY <2>2, <2>3
<1>3. \A i \in 2..len : i > len - Short => plain[i] = DigitAt(Byte, value, len - i)
  BY <1>1
<1>4. len = Short => plain[1] = DigitAt(Byte, value, Short - 1)
  BY <1>1
<1>5. plain = [i \in 1..len |-> plain[i]] /\ 1 \in 1..len
  BY <1>1
<1> HIDE DEF plain
<1>6. /\ bytes[1] = IF plain[1] < Flag THEN plain[1] + Flag ELSE plain[1]
      /\ \A i \in 2..len : bytes[i] = plain[i]
      /\ bytes = [i \in 1..len |-> bytes[i]]
  <2>1. 1 \in DOMAIN plain /\ DOMAIN plain = 1..len
    BY <1>5
  <2>2. \A i \in 2..len : i \in 1..len /\ i # 1
    BY <1>1
  <2> QED BY <2>1, <2>2
<1> HIDE DEF bytes
<1>7. bytes[1] >= Flag /\ bytes[1] \in 0..(Byte - 1)
  <2>1. plain[1] \in 0..(Byte - 1)
    BY <1>2, <1>5
  <2> QED BY <1>1, <1>6, <2>1
<1>8. bytes \in [1..len -> 0..(Byte - 1)]
  <2>1. \A i \in 1..len : i = 1 \/ i \in 2..len
    BY <1>1
  <2>2. \A i \in 1..len : bytes[i] \in 0..(Byte - 1)
    BY <1>2, <1>6, <1>7, <2>1
  <2> QED BY <1>6, <2>2
<1>9. ExtendedInto(len, value) = bytes
  BY DEF ExtendedInto, bytes, plain
<1> QED BY <1>3, <1>4, <1>6, <1>7, <1>8, <1>9

LEMMA QuotientBelow ==
  ASSUME NEW a \in Nat \ {0}, NEW m \in Nat, NEW v \in Nat, v < m * a
  PROVE  v \div a < m
<1> DEFINE q == v \div a
<1>1. q \in Nat /\ v % a \in Nat /\ v = a * q + (v % a)
  BY Division
<1> HIDE DEF q
<1> SUFFICES ASSUME m <= q PROVE FALSE
  BY <1>1 DEF q
<1>2. a * (q - m) \in Nat /\ a * (q - m) = a * q - m * a
  <2>1. q - m \in Nat
    BY <1>1
  <2>2. \A x, y \in Nat : x * y \in Nat
    OBVIOUS
  <2>3. a * (q - m) = a * q - a * m /\ a * m = m * a
    BY <1>1
  <2> QED BY <2>1, <2>2, <2>3
<1>3. a * q \in Nat /\ m * a \in Nat
  BY <1>1
<1> QED BY <1>1, <1>2, <1>3

\* The bytes of a u64 are read back; in a short field the flag takes a bit of it.
LEMMA ExtendedKept ==
  ASSUME NEW len \in {Short, Long}, NEW value \in U64,
         len = Short => value < Flag * Powers(Byte)[Short - 1]
  PROVE  ExtendedFrom(ExtendedInto(len, value)) = value
<1> DEFINE bytes == ExtendedInto(len, value)
<1>1. /\ len \in Nat /\ 2 <= len /\ len <= Long /\ Short <= len /\ Short \in Nat /\ Long \in Nat
      /\ Byte \in Nat \ {0} /\ Flag \in Nat /\ Flag + Flag = Byte /\ 1 <= Flag
      /\ Short - 1 \in 0..Long /\ Short \in 0..Long /\ Short < Long
  BY FieldSize, BasesAndLengths
<1>2. Powers(Byte)[Short] \in Nat /\ Powers(Byte)[Short - 1] \in Nat \ {0}
  BY <1>1, PowersStep
<1>3. value \in Nat /\ value < Powers(Byte)[Short]
  BY <1>2 DEF U64
<1>4. /\ bytes \in [1..len -> Nat]
      /\ \A i \in 2..len : i > len - Short => bytes[i] = DigitAt(Byte, value, len - i)
      /\ len = Short /\ DigitAt(Byte, value, Short - 1) < Flag =>
           bytes[1] = DigitAt(Byte, value, Short - 1) + Flag
  <2>1. \A b \in 0..(Byte - 1) : b \in Nat
    BY <1>1
  <2> QED BY <1>3, <2>1, ExtendedBytes
<1> HIDE DEF bytes
<1>5. bytes \in Seq(Nat) /\ Len(bytes) = len
  BY <1>1, <1>4, IsSequence
<1>6. CASE len = Short
  <2> DEFINE rest == SubSeq(bytes, 2, len)
             q == value \div Powers(Byte)[Short - 1]
             n == Short - 1
  <2>1. q \in Nat /\ q < Flag
    BY <1>1, <1>2, <1>3, <1>6, QuotientBelow, Division
  <2>2. DigitAt(Byte, value, n) = q
    <3> HIDE DEF q
    <3>1. q \in 0..(Byte - 1) /\ Byte * 0 + q = q
      BY <1>1, <2>1
    <3>2. (Byte * 0 + q) % Byte = q
      BY <1>1, <3>1, Quotient
    <3>3. q % Byte = q
      BY <3>1, <3>2
    <3> QED BY <3>3 DEF DigitAt, q
  <2>3. bytes[1] - Flag = q
    <3> HIDE DEF q
    <3> QED BY <1>1, <1>4, <1>6, <2>1, <2>2
  <2>4. rest \in Seq(Nat) /\ Len(rest) = n /\ \A i \in 1..n : rest[i] = bytes[i + 1]
    <3>1. \A i \in 2..len : bytes[i] \in Nat
      BY <1>1, <1>4
    <3>2. /\ rest \in Seq(Nat) /\ Len(rest) = len - 2 + 1
          /\ \A i \in 1..(len - 2 + 1) : rest[i] = bytes[2 + i - 1]
      BY <1>1, <3>1, SubSeqProperties
    <3>3. len - 2 + 1 = n /\ \A i \in 1..n : 2 + i - 1 = i + 1
      BY <1>1, <1>6
    <3> HIDE DEF rest, n
    <3> QED BY <3>2, <3>3
  <2>5. \A i \in 1..n : rest[i] = DigitAt(Byte, value, n - i)
    <3> TAKE i \in 1..n
    <3>1. i + 1 \in 2..len /\ i + 1 > len - Short /\ len - (i + 1) = n - i
      BY <1>1, <1>6
    <3>2. bytes[i + 1] = DigitAt(Byte, value, n - i)
      BY <1>4, <3>1
    <3> HIDE DEF rest
    <3> QED BY <2>4, <3>2
  <2> HIDE DEF rest
  <2>6. Number(Byte, q, rest) = value
    <3>1. Len(rest) <= Long
      BY <1>1, <2>4
    <3>2. \A i \in 1..Len(rest) : rest[i] = DigitAt(Byte, value, Len(rest) - i)
      BY <2>4, <2>5
    <3> HIDE DEF n, q
    <3>3. Number(Byte, value \div Powers(Byte)[Len(rest)], rest) = value
      BY <1>1, <1>3, <2>4, <3>1, <3>2, NumberOf
    <3> QED BY <2>4, <3>3 DEF q, n
  <2>7. ExtendedFrom(bytes) = Number(Byte, bytes[1] - Flag, rest)
    BY <1>5, <1>6 DEF ExtendedFrom, rest
  <2> QED BY <2>3, <2>6, <2>7 DEF bytes
<1>7. CASE len = Long
  <2> DEFINE rest == SubSeq(bytes, len - Short + 1, len)
  <2>1. len # Short /\ len - Short + 1 \in 2..len
    BY <1>1, <1>7
  <2>2. /\ rest \in Seq(Nat) /\ Len(rest) = Short
        /\ \A i \in 1..Short : rest[i] = bytes[len - Short + i]
    <3> DEFINE from == len - Short + 1
    <3>1. from \in Nat /\ from >= 2 /\ from <= len + 1 /\ from <= len
      BY <1>1, <2>1
    <3>2. \A i \in from..len : bytes[i] \in Nat
      BY <1>1, <1>4, <3>1
    <3>3. /\ len - from + 1 = Short
          /\ \A i \in 1..Short : from + i - 1 = len - Short + i
      BY <1>1
    <3> HIDE DEF from
    <3>4. /\ SubSeq(bytes, from, len) \in Seq(Nat) /\ Len(SubSeq(bytes, from, len)) = len - from + 1
          /\ \A i \in 1..(len - from + 1) : SubSeq(bytes, from, len)[i] = bytes[from + i - 1]
      BY <1>1, <3>1, <3>2, SubSeqProperties
    <3>5. rest = SubSeq(bytes, from, len)
      BY DEF from
    <3> HIDE DEF rest
    <3> QED BY <3>3, <3>4, <3>5
  <2>3. \A i \in 1..Short : rest[i] = DigitAt(Byte, value, Short - i)
    <3> TAKE i \in 1..Short
    <3>1. /\ len - Short + i \in 2..len /\ len - Short + i > len - Short
          /\ len - (len - Short + i) = Short - i
      BY <1>1, <2>1
    <3>2. bytes[len - Short + i] = DigitAt(Byte, value, Short - i)
      BY <1>4, <3>1
    <3> HIDE DEF rest
    <3> QED BY <2>2, <3>2
  <2>4. value \div Powers(Byte)[Short] = 0
    BY <1>1, <1>3, NothingBefore
  <2> HIDE DEF rest
  <2>5. Number(Byte, 0, rest) = value
    <3>1. Number(Byte, value \div Powers(Byte)[Len(rest)], rest) = value
      BY <1>1, <1>3, <2>2, <2>3, NumberOf
    <3> QED BY <2>2, <2>4, <3>1
  <2>6. ExtendedFrom(bytes) = Number(Byte, 0, rest)
    BY <1>5, <2>1 DEF ExtendedFrom, rest
  <2> QED BY <2>5, <2>6 DEF bytes
<1> QED BY <1>6, <1>7

-----------------------------------------------------------------------------
(* The fields.                                                             *)

LEMMA SizeIs ==
  ASSUME NEW field \in NumFields
  PROVE  /\ Size(field) \in {Short, Long}
         /\ Size(field) = Short <=> field \in ShortFields
         /\ field \in OctalFields => field \in ShortFields
BY BasesAndLengths DEF Size, NumFields, ShortFields, LongFields, OctalFields

LEMMA IntoType ==
  ASSUME NEW field \in NumFields, NEW value \in Nat
  PROVE  Into(field, value) \in Seq(0..(Byte - 1)) /\ Len(Into(field, value)) = Size(field)
<1>1. ASSUME NEW len \in {Short, Long}
      PROVE  /\ OctalInto(len, value) \in [1..len -> 0..(Byte - 1)]
             /\ NumInto(len, value) \in [1..len -> 0..(Byte - 1)]
  <2>1. OctalInto(len, value) \in [1..len -> 0..(Flag - 1)]
    BY OctalBytes
  <2>2. \A b \in 0..(Flag - 1) : b \in 0..(Byte - 1)
    BY BasesAndLengths
  <2>3. ExtendedInto(len, value) \in [1..len -> 0..(Byte - 1)]
    BY ExtendedBytes
  <2> QED BY <2>1, <2>2, <2>3 DEF NumInto
<1>2. Into(field, value) \in [1..Size(field) -> 0..(Byte - 1)]
  BY <1>1, SizeIs DEF Into
<1>3. Size(field) \in Nat
  BY SizeIs, FieldSize
<1> QED BY <1>2, <1>3, IsSequence

\* What a setter writes its getter reads.
LEMMA IntoKept ==
  ASSUME NEW field \in NumFields, NEW value \in U64, Holds(field, value)
  PROVE  From(field, Into(field, value)) = value
<1> DEFINE len == Size(field)
           bytes == NumInto(len, value)
<1>1. /\ len \in {Short, Long} /\ len \in Nat /\ 2 <= len /\ len - 1 \in 0..Long
      /\ value \in Nat /\ Flag \in Nat
      /\ Powers(Octal)[Long - 1] \in Nat /\ Powers(Octal)[Short - 1] \in Nat
  <2>1. Powers(Byte)[Short] \in Nat
    BY PowersStep, BasesAndLengths
  <2>2. Long - 1 \in 0..Long /\ Short - 1 \in 0..Long
    BY BasesAndLengths
  <2>3. Powers(Octal)[Long - 1] \in Nat /\ Powers(Octal)[Short - 1] \in Nat
    BY <2>2, PowersStep, BasesAndLengths
  <2> QED BY <2>1, <2>3, SizeIs, FieldSize, BasesAndLengths DEF U64
<1>2. CASE field \in OctalFields
  BY <1>1, <1>2, OctalKept, SizeIs DEF From, Into, Holds
<1>3. CASE field \notin OctalFields
  <2>1. From(field, Into(field, value)) = NumFrom(bytes)
    BY <1>3 DEF From, Into
  <2>2. len = Short => value < Flag * Powers(Byte)[Short - 1]
    BY <1>3, SizeIs DEF Holds
  <2> HIDE DEF len, bytes
  <2>3. CASE bytes = ExtendedInto(len, value)
    <3>1. bytes[1] >= Flag
      BY <1>1, <2>3, ExtendedBytes
    <3>2. ExtendedFrom(bytes) = value
      BY <1>1, <2>2, <2>3, ExtendedKept
    <3> QED BY <2>1, <3>1, <3>2 DEF NumFrom
  <2>4. CASE bytes # ExtendedInto(len, value)
    <3>1. bytes = OctalInto(len, value) /\ value < Powers(Octal)[len - 1]
      BY <1>1, <2>4 DEF NumInto, bytes
    <3>2. ~(bytes[1] >= Flag)
      <4>1. OctalInto(len, value) \in [1..len -> 0..(Flag - 1)]
        BY <1>1, OctalBytes
      <4>2. bytes[1] \in 0..(Flag - 1)
        <5>1. 1 \in 1..len
          BY <1>1
        <5> QED BY <3>1, <4>1, <5>1
      <4> QED BY <1>1, <4>2
    <3>3. OctalFrom(bytes) = value
      BY <1>1, <3>1, OctalKept
    <3> QED BY <2>1, <3>2, <3>3 DEF NumFrom
  <2> QED BY <2>3, <2>4
<1> QED BY <1>2, <1>3

\* No two types have one byte.
LEMMA TypeKept ==
  ASSUME NEW type \in DOMAIN ByteOf
  PROVE  TypeOf(ByteOf[type]) = type
<1>1. DOMAIN ByteOf = {"Regular", "Link", "Symlink", "Char", "Block", "Directory", "Fifo",
                       "Continuous", "XHeader", "XGlobalHeader", "GNULongName", "GNULongLink",
                       "GNUSparse", "Unknown"}
  BY DEF ByteOf
<1>2. /\ ByteOf["Regular"] = "0" /\ ByteOf["Link"] = "1" /\ ByteOf["Symlink"] = "2"
      /\ ByteOf["Char"] = "3" /\ ByteOf["Block"] = "4" /\ ByteOf["Directory"] = "5"
      /\ ByteOf["Fifo"] = "6" /\ ByteOf["Continuous"] = "7" /\ ByteOf["XHeader"] = "x"
      /\ ByteOf["XGlobalHeader"] = "g" /\ ByteOf["GNULongName"] = "L"
      /\ ByteOf["GNULongLink"] = "K" /\ ByteOf["GNUSparse"] = "S" /\ ByteOf["Unknown"] = " "
  BY DEF ByteOf
<1>3. \A t \in DOMAIN ByteOf : ByteOf[t] # "NUL"
  BY <1>1, <1>2
<1>4. \A t \in DOMAIN ByteOf : ByteOf[t] = ByteOf[type] => t = type
  <2> DEFINE inverse(b) ==
               CASE b = "0" -> "Regular" [] b = "1" -> "Link" [] b = "2" -> "Symlink"
                 [] b = "3" -> "Char" [] b = "4" -> "Block" [] b = "5" -> "Directory"
                 [] b = "6" -> "Fifo" [] b = "7" -> "Continuous" [] b = "x" -> "XHeader"
                 [] b = "g" -> "XGlobalHeader" [] b = "L" -> "GNULongName"
                 [] b = "K" -> "GNULongLink" [] b = "S" -> "GNUSparse" [] OTHER -> "Unknown"
  <2>1. /\ inverse("0") = "Regular" /\ inverse("1") = "Link" /\ inverse("2") = "Symlink"
        /\ inverse("3") = "Char" /\ inverse("4") = "Block" /\ inverse("5") = "Directory"
        /\ inverse("6") = "Fifo" /\ inverse("7") = "Continuous" /\ inverse("x") = "XHeader"
        /\ inverse("g") = "XGlobalHeader" /\ inverse("L") = "GNULongName"
        /\ inverse("K") = "GNULongLink" /\ inverse("S") = "GNUSparse"
        /\ inverse(" ") = "Unknown"
    OBVIOUS
  <2> HIDE DEF inverse
  <2>2. ASSUME NEW t \in DOMAIN ByteOf
        PROVE  inverse(ByteOf[t]) = t
    <3>1. CASE t \in {"Regular", "Link", "Symlink", "Char", "Block"}
      BY <1>2, <2>1, <3>1, Zenon
    <3>2. CASE t \in {"Directory", "Fifo", "Continuous", "XHeader", "XGlobalHeader"}
      BY <1>2, <2>1, <3>2, Zenon
    <3>3. CASE t \in {"GNULongName", "GNULongLink", "GNUSparse", "Unknown"}
      BY <1>2, <2>1, <3>3, Zenon
    <3> QED BY <1>1, <3>1, <3>2, <3>3
  <2>3. type \in DOMAIN ByteOf
    OBVIOUS
  <2> QED BY <2>2, <2>3, Zenon
<1> QED BY <1>3, <1>4 DEF TypeOf

-----------------------------------------------------------------------------
(* The text of a header stays within its fields.                           *)

HeaderNames == {"format", "type", "name", "prefix", "link", "owner", "num"}

\* The text of a header fits.
TextFits(h) == DOMAIN h = HeaderNames /\ TextBounded(h) /\ Length(h.owner) <= OwnerLen

\* Its bytes are those of its fields.
TextOK == DOMAIN text = Texts /\ \A f \in Texts : DOMAIN text[f] = 1..FieldLen(f)

LEMMA TextStays ==
  ASSUME TextOK, text' = text \/ text' = Written
  PROVE  TextOK'
<1>1. CASE text' = text
  BY <1>1 DEF TextOK
<1>2. CASE text' = Written
  <2>1. DOMAIN text' = Texts
    BY <1>2 DEF Written
  <2>2. ASSUME NEW f \in Texts
        PROVE  DOMAIN text'[f] = 1..FieldLen(f)
    <3>1. text'[f] = text[f] \/ text'[f] = CopyInto(text[f], Spelled(header'[f]))
      BY <1>2 DEF Written
    <3>2. DOMAIN CopyInto(text[f], Spelled(header'[f])) = DOMAIN text[f]
      BY DEF CopyInto
    <3> QED BY <3>1, <3>2 DEF TextOK
  <2> QED BY <2>1, <2>2 DEF TextOK
<1> QED BY <1>1, <1>2

\* What setting a text leaves alone.
Beside(h, k) == k.format = h.format /\ k.type = h.type /\ k.num = h.num

LEMMA BesideText ==
  ASSUME NEW h, NEW k, TextFits(h), TextBounded(k), KeepsRest(h, k)
  PROVE  TextFits(k) /\ Beside(h, k) /\ k.owner = h.owner
BY DEF TextFits, KeepsRest, Beside, HeaderNames, PathTexts

LEMMA SetPathFits ==
  ASSUME NEW h, TextFits(h), NEW path \in Paths, NEW absolute, NEW cut
  PROVE  TextFits(SetPath(h, path, absolute, cut).header)
         /\ Beside(h, SetPath(h, path, absolute, cut).header)
<1>1. path \in Path
  BY ClientAssumption
<1>2. TextBounded(h) /\ "format" \in DOMAIN h
  BY DEF TextFits, HeaderNames
<1> QED BY <1>1, <1>2, SetPathRead, BesideText

LEMMA SetLinkFits ==
  ASSUME NEW h, TextFits(h), NEW path \in Paths
  PROVE  TextFits(SetLink(h, path).header) /\ Beside(h, SetLink(h, path).header)
<1>1. path \in Path
  BY ClientAssumption
<1>2. TextBounded(h)
  BY DEF TextFits
<1> QED BY <1>1, <1>2, SetLinkRead, BesideText

-----------------------------------------------------------------------------
(* The calls of the client.                                                *)

LEMMA SmallNumbers == \A n \in 0..3 : n \in U64
<1>1. Short \in 1..Long /\ Short - 1 \in 0..Long
  BY BasesAndLengths
<1>2. Byte \in Nat \ {0} /\ 4 <= Byte
  BY BasesAndLengths, EncodingAssumption
<1> DEFINE p == Powers(Byte)[Short - 1]
<1>3. Powers(Byte)[Short] = Byte * p /\ p \in Nat \ {0}
  BY <1>1, <1>2, PowersStep
<1> HIDE DEF p
<1>4. Byte * p >= Byte
  BY <1>2, <1>3, MultipleAtLeast
<1>5. Byte * p \in Nat
  BY <1>2, <1>3
<1> QED BY <1>2, <1>3, <1>4, <1>5 DEF U64

LEMMA U64Type == \A n \in U64 : n \in Nat
<1>1. Powers(Byte)[Short] \in Nat
  BY PowersStep, BasesAndLengths
<1> QED BY <1>1 DEF U64

\* What metadata says of a field is a number of a u64, and it has no real size.
LEMMA FilledType ==
  ASSUME NEW m \in Metas, NEW mode
  PROVE  /\ DOMAIN Filled(m, mode) = NumFields
         /\ \A f \in NumFields : Filled(m, mode)[f] # None => Filled(m, mode)[f] \in U64
         /\ Filled(m, mode)["realsize"] = None
         /\ m.type \in DOMAIN ByteOf
<1>1. /\ m.mode \in U64 /\ m.uid \in U64 /\ m.mtime \in U64 /\ m.len \in U64
      /\ m.type \in DOMAIN ByteOf
  BY ClientAssumption
<1>2. 0 \in U64 /\ Now \in U64 /\ DefaultMode(m) \in U64
  BY SmallNumbers DEF Now, DefaultMode
<1>3. /\ Filled(m, mode)["mtime"] \in U64 /\ Filled(m, mode)["uid"] \in U64
      /\ Filled(m, mode)["gid"] \in U64 /\ Filled(m, mode)["mode"] \in U64
      /\ Filled(m, mode)["size"] \in U64 /\ Filled(m, mode)["realsize"] = None
      /\ Filled(m, mode)["dev_major"] \in U64 \cup {None}
      /\ Filled(m, mode)["dev_minor"] \in U64 \cup {None}
  BY <1>1, <1>2 DEF Filled, NumFields, ShortFields, LongFields
<1>4. NumFields = {"mode", "uid", "gid", "dev_major", "dev_minor", "size", "mtime", "realsize"}
  BY DEF NumFields, ShortFields, LongFields
<1>5. DOMAIN Filled(m, mode) = NumFields
  BY DEF Filled
<1> QED BY <1>1, <1>3, <1>4, <1>5

\* Numbers of the right length make the header well formed.
NumOK(num) ==
  num \in [NumFields -> Seq(0..(Byte - 1))] /\ \A f \in NumFields : Len(num[f]) = Size(f)

\* The invariant: fields and bytes of the right length, and in each numeric field the bytes of
\* the number it was last set to.
HeaderInv ==
  /\ TextFits(header) /\ TextOK /\ NumOK(header.num) /\ calls \in 0..MaxCalls
  /\ DOMAIN asked = {"num", "path", "link", "owner", "type"}
  /\ DOMAIN asked.num = NumFields
  /\ \A f \in NumFields : asked.num[f] # None =>
       asked.num[f] \in U64 /\ header.num[f] = Into(f, asked.num[f])
  /\ asked.num["realsize"] # None => header.format = "gnu"
  /\ asked.type # None => asked.type \in DOMAIN ByteOf /\ header.type = ByteOf[asked.type]

LEMMA HeaderInit ==
  ASSUME Init
  PROVE  HeaderInv
<1>1. PICK format \in Formats : header = New(format)
  BY DEF Init
<1>2. /\ DOMAIN header = HeaderNames
      /\ header.name = NoPath /\ header.prefix = NoPath /\ header.link = NoPath
      /\ header.owner = NoPath
  BY <1>1 DEF New, HeaderNames
<1>3. TextFits(header)
  BY <1>2, EmptyLength, LengthAssumption, ClientAssumption DEF TextFits, TextBounded, PathTexts, HeaderNames
<1>4. /\ DOMAIN header.num = NumFields /\ header.num = [f \in NumFields |-> header.num[f]]
      /\ \A f \in NumFields :
           header.num[f] = IF f = "mtime" THEN Into(f, 0) ELSE [i \in 1..Size(f) |-> 0]
  <2>1. Into("mtime", 0) = NumInto(Long, 0)
    BY DEF Into, OctalFields, Size, ShortFields
  <2> QED BY <1>1, <2>1 DEF New
<1>5. ASSUME NEW f \in NumFields
      PROVE  header.num[f] \in Seq(0..(Byte - 1)) /\ Len(header.num[f]) = Size(f)
  <2>1. CASE f = "mtime"
    <3>1. header.num[f] = Into(f, 0) /\ 0 \in Nat
      BY <1>4, <2>1
    <3> QED BY <3>1, IntoType
  <2>2. CASE f # "mtime"
    <3>1. Size(f) \in Nat /\ 0 \in 0..(Byte - 1)
      BY SizeIs, FieldSize, BasesAndLengths
    <3>2. [i \in 1..Size(f) |-> 0] \in [1..Size(f) -> 0..(Byte - 1)]
      BY <3>1
    <3>3. header.num[f] = [i \in 1..Size(f) |-> 0]
      BY <1>4, <2>2
    <3>4. header.num[f] \in [1..Size(f) -> 0..(Byte - 1)]
      BY <3>2, <3>3
    <3> QED BY <3>1, <3>4, IsSequence
  <2> QED BY <2>1, <2>2
<1>6. NumOK(header.num)
  BY <1>4, <1>5 DEF NumOK
<1>7. /\ DOMAIN asked = {"num", "path", "link", "owner", "type"} /\ asked.type = None
      /\ asked.num = [f \in NumFields |-> IF f = "mtime" THEN 0 ELSE None]
      /\ calls \in 0..MaxCalls
  BY ClientAssumption DEF Init
<1>8. \A f \in NumFields : asked.num[f] # None =>
         asked.num[f] \in U64 /\ header.num[f] = Into(f, asked.num[f])
  <2> SUFFICES ASSUME NEW f \in NumFields, asked.num[f] # None
               PROVE  asked.num[f] \in U64 /\ header.num[f] = Into(f, asked.num[f])
    OBVIOUS
  <2>1. f = "mtime" /\ asked.num[f] = 0
    BY <1>7
  <2>2. 0 \in U64
    BY SmallNumbers
  <2> QED BY <1>4, <2>1, <2>2
<1>9. asked.num["realsize"] = None
  BY <1>7 DEF NumFields, LongFields
<1>10. TextOK
  BY DEF Init, TextOK
<1> QED BY <1>3, <1>6, <1>7, <1>8, <1>9, <1>10 DEF HeaderInv


\* A call that sets no number.
LEMMA OthersSet ==
  ASSUME HeaderInv, Call, TextFits(header'), Beside(header, header'),
         text' = text \/ text' = Written,
         DOMAIN asked' = {"num", "path", "link", "owner", "type"},
         asked'.num = asked.num, asked'.type = asked.type
  PROVE  HeaderInv'
<1>1. calls' \in 0..MaxCalls
  BY ClientAssumption DEF Call, HeaderInv
<1>2. header'.num = header.num /\ header'.format = header.format /\ header'.type = header.type
  BY DEF Beside
<1>3. TextOK'
  BY TextStays DEF HeaderInv
<1> QED BY <1>1, <1>2, <1>3 DEF HeaderInv

\* A call that sets some of the numbers, and perhaps the type.
LEMMA NumbersSet ==
  ASSUME HeaderInv, Call, NEW new, DOMAIN new = NumFields,
         \A f \in NumFields : new[f] # None => new[f] \in U64,
         new["realsize"] # None => header.format = "gnu",
         NEW type, type = None \/ type \in DOMAIN ByteOf,
         TextFits(header'), text' = text, header'.format = header.format,
         header'.type = IF type = None THEN header.type ELSE ByteOf[type],
         header'.num = [f \in NumFields |->
                          IF new[f] = None THEN header.num[f] ELSE Into(f, new[f])],
         DOMAIN asked' = {"num", "path", "link", "owner", "type"},
         asked'.type = IF type = None THEN asked.type ELSE type,
         DOMAIN asked'.num = NumFields,
         \A f \in NumFields : asked'.num[f] = IF new[f] = None THEN asked.num[f] ELSE new[f]
  PROVE  HeaderInv'
<1>1. calls' \in 0..MaxCalls
  BY ClientAssumption DEF Call, HeaderInv
<1>2. /\ DOMAIN header = HeaderNames /\ TextFits(header) /\ NumOK(header.num)
      /\ DOMAIN asked = {"num", "path", "link", "owner", "type"} /\ DOMAIN asked.num = NumFields
      /\ \A f \in NumFields : asked.num[f] # None =>
           asked.num[f] \in U64 /\ header.num[f] = Into(f, asked.num[f])
      /\ asked.num["realsize"] # None => header.format = "gnu"
      /\ asked.type # None => asked.type \in DOMAIN ByteOf /\ header.type = ByteOf[asked.type]
  BY DEF HeaderInv, TextFits
<1>3. NumOK(header'.num)
  <2>1. ASSUME NEW f \in NumFields
        PROVE  header'.num[f] \in Seq(0..(Byte - 1)) /\ Len(header'.num[f]) = Size(f)
    <3>1. CASE new[f] = None
      <4>1. header'.num[f] = header.num[f]
        BY <3>1
      <4> QED BY <1>2, <4>1 DEF NumOK
    <3>2. CASE new[f] # None
      <4>1. header'.num[f] = Into(f, new[f]) /\ new[f] \in Nat
        BY <3>2, U64Type
      <4> QED BY <4>1, IntoType
    <3> QED BY <3>1, <3>2
  <2> QED BY <2>1 DEF NumOK
<1>4. ASSUME NEW f \in NumFields, asked'.num[f] # None
      PROVE  asked'.num[f] \in U64 /\ header'.num[f] = Into(f, asked'.num[f])
  <2>1. CASE new[f] = None
    <3>1. header'.num[f] = header.num[f] /\ asked'.num[f] = asked.num[f]
      BY <2>1
    <3> QED BY <1>2, <1>4, <3>1
  <2>2. CASE new[f] # None
    <3>1. header'.num[f] = Into(f, new[f]) /\ asked'.num[f] = new[f]
      BY <2>2
    <3> QED BY <2>2, <3>1
  <2> QED BY <2>1, <2>2
<1>5. asked'.num["realsize"] # None => header'.format = "gnu"
  <2>1. "realsize" \in NumFields
    BY DEF NumFields, LongFields
  <2> QED BY <1>2, <2>1
<1>6. asked'.type # None => asked'.type \in DOMAIN ByteOf /\ header'.type = ByteOf[asked'.type]
  BY <1>2
<1>7. TextOK'
  BY TextStays DEF HeaderInv
<1> QED BY <1>1, <1>3, <1>4, <1>5, <1>6, <1>7 DEF HeaderInv


LEMMA FieldsOf ==
  ASSUME HeaderInv
  PROVE  /\ TextFits(header) /\ DOMAIN header = HeaderNames
         /\ header.num = [f \in NumFields |-> header.num[f]]
         /\ DOMAIN asked = {"num", "path", "link", "owner", "type"}
         /\ DOMAIN asked.num = NumFields
BY DEF HeaderInv, TextFits, NumOK

LEMMA SetNumberStep ==
  ASSUME HeaderInv, NEW field \in NumFields, NEW value \in Values, SetNumber(field, value)
  PROVE  HeaderInv'
<1> DEFINE new == [f \in NumFields |-> IF f = field THEN value ELSE None]
<1>1. value \in U64 /\ value # None
  BY ClientAssumption, SentinelAssumption
<1>2. /\ header' = [header EXCEPT !.num[field] = Into(field, value)]
      /\ asked' = [asked EXCEPT !.num[field] = value]
      /\ Call /\ text' = text
      /\ field = "realsize" => header.format = "gnu"
  BY DEF SetNumber, Has
<1>3. /\ DOMAIN header' = HeaderNames
      /\ header'.name = header.name /\ header'.prefix = header.prefix
      /\ header'.link = header.link /\ header'.format = header.format
      /\ header'.owner = header.owner
      /\ header'.type = header.type
      /\ header'.num = [header.num EXCEPT ![field] = Into(field, value)]
  BY <1>2, FieldsOf DEF HeaderNames
<1>4. /\ DOMAIN asked' = {"num", "path", "link", "owner", "type"} /\ asked'.type = asked.type
      /\ asked'.num = [asked.num EXCEPT ![field] = value]
  BY <1>2, FieldsOf
<1>5. header'.num = [f \in NumFields |-> IF new[f] = None THEN header.num[f] ELSE Into(f, new[f])]
  <2> DEFINE num == header.num
  <2>1. num = [f \in NumFields |-> num[f]]
    BY FieldsOf
  <2>2. header'.num = [num EXCEPT ![field] = Into(field, value)]
    BY <1>3
  <2> HIDE DEF num
  <2>3. header'.num = [f \in NumFields |-> IF f = field THEN Into(field, value) ELSE num[f]]
    BY <2>1, <2>2
  <2>4. \A f \in NumFields : (IF f = field THEN Into(field, value) ELSE num[f])
                           = IF new[f] = None THEN num[f] ELSE Into(f, new[f])
    BY <1>1
  <2> HIDE DEF new
  <2>5. header'.num = [f \in NumFields |-> IF new[f] = None THEN num[f] ELSE Into(f, new[f])]
    BY <2>3, <2>4
  <2> QED BY <2>5 DEF num
<1>6. /\ DOMAIN asked'.num = NumFields
      /\ \A f \in NumFields : asked'.num[f] = IF new[f] = None THEN asked.num[f] ELSE new[f]
  BY <1>1, <1>4, FieldsOf
<1>7. TextFits(header')
  BY <1>3, FieldsOf DEF TextFits, TextBounded, PathTexts, HeaderNames
<1>8. /\ DOMAIN new = NumFields /\ \A f \in NumFields : new[f] # None => new[f] \in U64
      /\ new["realsize"] # None => header.format = "gnu"
  <2>1. "realsize" \in NumFields
    BY DEF NumFields, LongFields
  <2> QED BY <1>1, <1>2, <2>1
<1> HIDE DEF new
<1>9. None = None \/ None \in DOMAIN ByteOf
  OBVIOUS
<1> QED BY <1>2, <1>3, <1>4, <1>5, <1>6, <1>7, <1>8, NumbersSet

LEMMA SetTypeStep ==
  ASSUME HeaderInv, NEW type \in {"GNUSparse", "Unknown"}, SetType(type)
  PROVE  HeaderInv'
<1> DEFINE new == [f \in NumFields |-> None]
<1>1. type \in DOMAIN ByteOf /\ type # None
  BY SentinelAssumption DEF ByteOf
<1>2. /\ DOMAIN header' = HeaderNames
      /\ header'.name = header.name /\ header'.prefix = header.prefix
      /\ header'.link = header.link /\ header'.format = header.format
      /\ header'.owner = header.owner
      /\ header'.type = ByteOf[type] /\ header'.num = header.num
  BY FieldsOf DEF SetType, HeaderNames
<1>3. /\ DOMAIN asked' = {"num", "path", "link", "owner", "type"} /\ asked'.type = type
      /\ asked'.num = asked.num /\ Call /\ text' = text
  BY FieldsOf DEF SetType
<1>4. TextFits(header')
  BY <1>2, FieldsOf DEF TextFits, TextBounded, PathTexts, HeaderNames
<1>5. header'.num = [f \in NumFields |-> IF new[f] = None THEN header.num[f] ELSE Into(f, new[f])]
  BY <1>2, FieldsOf
<1>6. /\ DOMAIN asked'.num = NumFields
      /\ \A f \in NumFields : asked'.num[f] = IF new[f] = None THEN asked.num[f] ELSE new[f]
  BY <1>3, FieldsOf
<1>7. /\ DOMAIN new = NumFields /\ \A f \in NumFields : new[f] # None => new[f] \in U64
      /\ new["realsize"] # None => header.format = "gnu"
  BY DEF NumFields, LongFields
<1> HIDE DEF new
<1> QED BY <1>1, <1>2, <1>3, <1>4, <1>5, <1>6, <1>7, NumbersSet

LEMMA SetMetadataStep ==
  ASSUME HeaderInv, NEW m \in Metas, NEW mode, SetMetadata(m, mode)
  PROVE  HeaderInv'
<1> DEFINE new == Filled(m, mode)
<1>1. /\ DOMAIN new = NumFields /\ \A f \in NumFields : new[f] # None => new[f] \in U64
      /\ new["realsize"] = None /\ m.type \in DOMAIN ByteOf /\ m.type # None
  BY FilledType, SentinelAssumption
<1>2. /\ header' = [header EXCEPT
                      !.type = ByteOf[m.type],
                      !.num = [f \in NumFields |-> IF new[f] = None THEN @[f] ELSE Into(f, new[f])]]
      /\ asked' = [asked EXCEPT
                     !.type = m.type,
                     !.num = [f \in NumFields |-> IF new[f] = None THEN @[f] ELSE new[f]]]
      /\ Call /\ text' = text
  BY DEF SetMetadata
<1> HIDE DEF new
<1>3. /\ DOMAIN header' = HeaderNames
      /\ header'.name = header.name /\ header'.prefix = header.prefix
      /\ header'.link = header.link /\ header'.format = header.format
      /\ header'.owner = header.owner
      /\ header'.type = ByteOf[m.type]
      /\ header'.num = [f \in NumFields |->
                          IF new[f] = None THEN header.num[f] ELSE Into(f, new[f])]
  BY <1>2, FieldsOf DEF HeaderNames
<1>4. /\ DOMAIN asked' = {"num", "path", "link", "owner", "type"} /\ asked'.type = m.type
      /\ asked'.num = [f \in NumFields |-> IF new[f] = None THEN asked.num[f] ELSE new[f]]
  BY <1>2, FieldsOf
<1>5. TextFits(header')
  BY <1>3, FieldsOf DEF TextFits, TextBounded, PathTexts, HeaderNames
<1>6. /\ DOMAIN asked'.num = NumFields
      /\ \A f \in NumFields : asked'.num[f] = IF new[f] = None THEN asked.num[f] ELSE new[f]
  BY <1>4
<1> QED BY <1>1, <1>2, <1>3, <1>4, <1>5, <1>6, NumbersSet


\* Every call of the client keeps the invariant.
LEMMA HeaderNext ==
  ASSUME HeaderInv, [Next]_vars
  PROVE  HeaderInv'
<1>1. ASSUME NEW f \in NumFields, NEW v \in Values, SetNumber(f, v) PROVE HeaderInv'
  BY <1>1, SetNumberStep
<1>2. ASSUME NEW f \in NumFields, SetNumberRefused(f) PROVE HeaderInv'
  <2>1. Call /\ header' = header /\ asked' = asked /\ text' = text
    BY <1>2 DEF SetNumberRefused
  <2>2. TextFits(header') /\ Beside(header, header')
    BY <2>1, FieldsOf DEF Beside
  <2> QED BY <2>1, <2>2, FieldsOf, OthersSet
<1>3. ASSUME NEW p \in Paths, NEW absolute \in BOOLEAN, PathSet(p, absolute) PROVE HeaderInv'
  <2>1. /\ Call /\ header' = SetPath(header, p, absolute, FALSE).header /\ text' = Written
        /\ DOMAIN asked' = {"num", "path", "link", "owner", "type"}
        /\ asked'.num = asked.num /\ asked'.type = asked.type
    BY <1>3, FieldsOf DEF PathSet
  <2>2. TextFits(header') /\ Beside(header, header')
    BY <2>1, FieldsOf, SetPathFits
  <2> QED BY <2>1, <2>2, OthersSet
<1>4. ASSUME NEW p \in Paths, LinkSet(p) PROVE HeaderInv'
  <2>1. /\ Call /\ header' = SetLink(header, p).header /\ text' = Written
        /\ DOMAIN asked' = {"num", "path", "link", "owner", "type"}
        /\ asked'.num = asked.num /\ asked'.type = asked.type
    BY <1>4, FieldsOf DEF LinkSet
  <2>2. TextFits(header') /\ Beside(header, header')
    BY <2>1, FieldsOf, SetLinkFits
  <2> QED BY <2>1, <2>2, OthersSet
<1>5. ASSUME NEW o \in Owners, SetOwner(o) PROVE HeaderInv'
  <2>1. CASE header' = header /\ asked' = asked /\ text' = text
    <3>1. Call /\ TextFits(header') /\ Beside(header, header')
      BY <1>5, <2>1, FieldsOf DEF SetOwner, Beside
    <3> QED BY <2>1, <3>1, FieldsOf, OthersSet
  <2>2. CASE /\ header' = [header EXCEPT !.owner = o] /\ asked' = [asked EXCEPT !.owner = o]
             /\ text' = Written /\ Length(o) <= OwnerLen
    <3>1. /\ DOMAIN asked' = {"num", "path", "link", "owner", "type"}
          /\ asked'.num = asked.num /\ asked'.type = asked.type
      BY <2>2, FieldsOf
    <3>2. /\ DOMAIN header' = HeaderNames
          /\ header'.name = header.name /\ header'.prefix = header.prefix
          /\ header'.link = header.link /\ header'.format = header.format
          /\ header'.type = header.type /\ header'.num = header.num /\ header'.owner = o
      BY <2>2, FieldsOf DEF HeaderNames
    <3>3. Call /\ TextFits(header') /\ Beside(header, header')
      BY <1>5, <2>2, <3>2, FieldsOf DEF SetOwner, TextFits, TextBounded, PathTexts, Beside, HeaderNames
    <3> QED BY <2>2, <3>1, <3>3, OthersSet
  <2> QED BY <1>5, <2>1, <2>2 DEF SetOwner
<1>6. ASSUME NEW t \in {"GNUSparse", "Unknown"}, SetType(t) PROVE HeaderInv'
  BY <1>6, SetTypeStep
<1>7. ASSUME NEW m \in Metas, NEW mode \in {"complete", "deterministic"}, SetMetadata(m, mode)
      PROVE  HeaderInv'
  BY <1>7, SetMetadataStep
<1>8. CASE UNCHANGED vars
  BY <1>8 DEF vars, HeaderInv, TextOK
<1> QED BY <1>1, <1>2, <1>3, <1>4, <1>5, <1>6, <1>7, <1>8 DEF Next

LEMMA HeaderAlways == Spec => []HeaderInv
<1> QED BY HeaderInit, HeaderNext, PTL DEF Spec

\* For all lengths of the fields and bases of their numbers: every number has the bytes of its
\* field, and no name, prefix, link target or owner is longer than its own (header.rs:1492, 1524,
\* 1593, 1562).
THEOREM HeaderTypeCorrect == Spec => []TypeOK
<1>1. HeaderInv => TypeOK
  BY DEF HeaderInv, TypeOK, TextFits, TextBounded, TextOK, NumOK
<1> QED BY <1>1, HeaderAlways, PTL

\* A number that was set is read back, whichever of the two encodings it needed, whatever
\* was set around it and in however many calls; and size() reads the field that the type
\* asks for (header.rs:1503, 1513, 1541, 331).
THEOREM NumbersAreKept == Spec => []NumbersKept
<1>1. HeaderInv => NumbersKept
  <2> SUFFICES ASSUME HeaderInv PROVE NumbersKept
    OBVIOUS
  <2>1. ASSUME NEW f \in NumFields, asked.num[f] # None, Holds(f, asked.num[f])
        PROVE  From(f, header.num[f]) = asked.num[f]
    <3>1. asked.num[f] \in U64 /\ header.num[f] = Into(f, asked.num[f])
      BY <2>1 DEF HeaderInv
    <3> QED BY <2>1, <3>1, IntoKept
  <2>2. /\ "size" \in NumFields /\ "realsize" \in NumFields
        /\ \A v : Holds("size", v) /\ Holds("realsize", v)
    BY DEF NumFields, LongFields, ShortFields, OctalFields, Holds
  <2>3. ASSUME asked.type # None
        PROVE  TypeOf(header.type) = asked.type
    BY <2>3, TypeKept DEF HeaderInv
  <2>4. ASSUME asked.type \notin {None, "GNUSparse"}, asked.num["size"] # None
        PROVE  SizeRead = asked.num["size"]
    BY <2>1, <2>2, <2>3, <2>4 DEF SizeRead
  <2>5. ASSUME asked.type = "GNUSparse", asked.num["realsize"] # None
        PROVE  SizeRead = asked.num["realsize"]
    <3>1. header.format = "gnu"
      BY <2>5 DEF HeaderInv
    <3>2. asked.type # None
      BY <2>5, SentinelAssumption DEF ByteOf
    <3> QED BY <2>1, <2>2, <2>3, <2>5, <3>1, <3>2 DEF SizeRead
  <2> QED BY <2>1, <2>4, <2>5 DEF NumbersKept
<1> QED BY <1>1, HeaderAlways, PTL

-----------------------------------------------------------------------------
(* Text.                                                                   *)

LEMMA TextInit ==
  ASSUME Init
  PROVE  TextKept
BY DEF Init, TextKept

\* A call that leaves the text alone keeps what was set of it.
LEMMA TextBeside ==
  ASSUME TextKept, HeaderInv',
         header'.name = header.name, header'.prefix = header.prefix, header'.link = header.link,
         header'.format = header.format, header'.owner = header.owner,
         asked'.path = asked.path, asked'.link = asked.link, asked'.owner = asked.owner
  PROVE  TextKept'
<1>1. PathOf(header') = PathOf(header)
  BY DEF PathOf
<1>2. asked'.type # None => TypeOf(header'.type) = asked'.type
  <2> HAVE asked'.type # None
  <2>1. asked'.type \in DOMAIN ByteOf /\ header'.type = ByteOf[asked'.type]
    BY DEF HeaderInv
  <2> QED BY <2>1, TypeKept
<1> QED BY <1>1, <1>2 DEF TextKept, LeftPrefix, BehindRoot

LEMMA TextNext ==
  ASSUME HeaderInv, TextKept, [Next]_vars
  PROVE  TextKept'
<1>0. HeaderInv'
  BY HeaderNext
<1>1. ASSUME NEW f \in NumFields, NEW v \in Values, SetNumber(f, v) PROVE TextKept'
  <2>1. /\ header'.name = header.name /\ header'.prefix = header.prefix
        /\ header'.link = header.link /\ header'.format = header.format
        /\ header'.owner = header.owner
    BY <1>1, FieldsOf DEF SetNumber, HeaderNames
  <2>2. asked'.path = asked.path /\ asked'.link = asked.link /\ asked'.owner = asked.owner
    BY <1>1, FieldsOf DEF SetNumber
  <2> QED BY <1>0, <2>1, <2>2, TextBeside
<1>2. ASSUME NEW f \in NumFields, SetNumberRefused(f) PROVE TextKept'
  BY <1>2 DEF SetNumberRefused, TextKept, LeftPrefix, BehindRoot
<1>3. ASSUME NEW p \in Paths, NEW absolute \in BOOLEAN, PathSet(p, absolute) PROVE TextKept'
  <2> DEFINE set == SetPath(header, p, absolute, FALSE)
  <2>1. p \in Path /\ Length(p) \in Nat /\ NameLen \in Nat
    BY ClientAssumption, LengthType, LengthAssumption
  <2>2. TextBounded(header) /\ "format" \in DOMAIN header /\ TextFits(header)
    BY FieldsOf DEF TextFits, HeaderNames
  <2>3. /\ TextBounded(set.header) /\ KeepsRest(header, set.header)
        /\ set.header.link = header.link
        /\ Length(p) <= NameLen => set.header.prefix = header.prefix
        /\ set.ok /\ Length(p) <= NameLen => IsPath(set.header.name, p)
        /\ (set.ok /\ (header.format = "ustar" => Divided(p))
              /\ (header.format # "ustar" \/ Length(p) > NameLen \/ header.prefix = NoPath))
             => Reads(set.header, p)
    <3> DEFINE kept(s) == /\ TextBounded(s.header) /\ KeepsRest(header, s.header)
                          /\ s.header.link = header.link
                          /\ Length(p) <= NameLen => s.header.prefix = header.prefix
                          /\ s.ok /\ Length(p) <= NameLen => IsPath(s.header.name, p)
                          /\ (s.ok /\ (header.format = "ustar" => Divided(p))
                                /\ (header.format # "ustar" \/ Length(p) > NameLen \/ header.prefix = NoPath))
                               => Reads(s.header, p)
    <3>1. ASSUME NEW cut
          PROVE  kept(SetPath(header, p, absolute, cut))
      BY <2>1, <2>2, SetPathRead
    <3> HIDE DEF kept
    <3>2. kept(set)
      BY <3>1
    <3> QED BY <3>2 DEF kept
  <2>4. /\ header' = set.header
        /\ asked' = [asked EXCEPT !.path = IF set.ok THEN p ELSE None]
    BY <1>3 DEF PathSet
  <2> HIDE DEF set
  <2>5. Beside(header, header') /\ header'.owner = header.owner /\ header'.link = header.link
    BY <2>2, <2>3, <2>4, BesideText
  <2>6. /\ asked'.path = (IF set.ok THEN p ELSE None) /\ asked'.link = asked.link
        /\ asked'.owner = asked.owner /\ asked'.type = asked.type
    BY <2>4, FieldsOf
  <2>7. ASSUME asked'.path # None
        PROVE  IF LeftPrefix' THEN Clean(header'.name) = Clean(asked'.path)
               ELSE BehindRoot' \/ Clean(PathOf(header')) = Clean(asked'.path)
    <3>1. set.ok /\ asked'.path = p /\ header'.format = header.format
      BY <2>5, <2>6, <2>7 DEF Beside
    <3>2. CASE LeftPrefix'
      <4>1. IsPath(header'.name, p)
        BY <2>3, <2>4, <3>1, <3>2 DEF LeftPrefix
      <4> QED BY <2>1, <3>1, <3>2, <4>1, ReadsClean
    <3>3. CASE ~LeftPrefix' /\ ~BehindRoot'
      <4>1. header.format = "ustar" => Divided(p)
        BY <3>1, <3>3 DEF BehindRoot
      <4>2. header.format # "ustar" \/ Length(p) > NameLen \/ header.prefix = NoPath
        BY <2>1, <2>3, <2>4, <3>1, <3>3 DEF LeftPrefix
      <4>3. Reads(header', p)
        BY <2>3, <2>4, <3>1, <4>1, <4>2
      <4> QED BY <2>1, <3>1, <3>3, <4>3, ReadsClean DEF Reads
    <3> QED BY <3>2, <3>3
  <2> QED BY <2>5, <2>6, <2>7 DEF TextKept, Beside
<1>4. ASSUME NEW p \in Paths, LinkSet(p) PROVE TextKept'
  <2> DEFINE set == SetLink(header, p)
  <2>1. p \in Path
    BY ClientAssumption
  <2>2. TextBounded(header) /\ TextFits(header)
    BY FieldsOf DEF TextFits
  <2>3. /\ TextBounded(set.header) /\ KeepsRest(header, set.header)
        /\ set.header.name = header.name /\ set.header.prefix = header.prefix
        /\ set.ok => Clean(set.header.link) = Clean(p)
    BY <2>1, <2>2, SetLinkRead
  <2>4. header' = set.header /\ asked' = [asked EXCEPT !.link = IF set.ok THEN p ELSE None]
    BY <1>4 DEF LinkSet
  <2> HIDE DEF set
  <2>5. Beside(header, header') /\ header'.owner = header.owner
    BY <2>2, <2>3, <2>4, BesideText
  <2>6. /\ asked'.path = asked.path /\ asked'.link = (IF set.ok THEN p ELSE None)
        /\ asked'.owner = asked.owner /\ asked'.type = asked.type
    BY <2>4, FieldsOf
  <2>7. PathOf(header') = PathOf(header)
    BY <2>3, <2>4, <2>5 DEF PathOf, Beside
  <2>8. asked'.link # None => Clean(header'.link) = Clean(asked'.link)
    BY <2>3, <2>4, <2>6
  <2>9. header'.name = header.name /\ header'.prefix = header.prefix
    BY <2>3, <2>4
  <2> QED BY <2>5, <2>6, <2>7, <2>8, <2>9 DEF TextKept, LeftPrefix, BehindRoot, Beside
<1>5. ASSUME NEW o \in Owners, SetOwner(o) PROVE TextKept'
  <2>1. CASE header' = header /\ asked' = asked
    BY <2>1 DEF TextKept, LeftPrefix, BehindRoot
  <2>2. CASE header' = [header EXCEPT !.owner = o] /\ asked' = [asked EXCEPT !.owner = o]
    <3>1. /\ header'.name = header.name /\ header'.prefix = header.prefix
          /\ header'.link = header.link /\ header'.format = header.format
          /\ header'.type = header.type /\ header'.owner = o
      BY <2>2, FieldsOf DEF HeaderNames
    <3>2. /\ asked'.path = asked.path /\ asked'.link = asked.link /\ asked'.owner = o
          /\ asked'.type = asked.type
      BY <2>2, FieldsOf
    <3>3. PathOf(header') = PathOf(header)
      BY <3>1 DEF PathOf
    <3> QED BY <3>1, <3>2, <3>3 DEF TextKept, LeftPrefix, BehindRoot
  <2> QED BY <1>5, <2>1, <2>2 DEF SetOwner
<1>6. ASSUME NEW t \in {"GNUSparse", "Unknown"}, SetType(t) PROVE TextKept'
  <2>1. /\ header'.name = header.name /\ header'.prefix = header.prefix
        /\ header'.link = header.link /\ header'.format = header.format
        /\ header'.owner = header.owner
    BY <1>6, FieldsOf DEF SetType, HeaderNames
  <2>2. asked'.path = asked.path /\ asked'.link = asked.link /\ asked'.owner = asked.owner
    BY <1>6, FieldsOf DEF SetType
  <2> QED BY <1>0, <2>1, <2>2, TextBeside
<1>7. ASSUME NEW m \in Metas, NEW mode \in {"complete", "deterministic"}, SetMetadata(m, mode)
      PROVE  TextKept'
  <2>1. /\ header'.name = header.name /\ header'.prefix = header.prefix
        /\ header'.link = header.link /\ header'.format = header.format
        /\ header'.owner = header.owner
    BY <1>7, FieldsOf DEF SetMetadata, HeaderNames
  <2>2. asked'.path = asked.path /\ asked'.link = asked.link /\ asked'.owner = asked.owner
    BY <1>7, FieldsOf DEF SetMetadata
  <2> QED BY <1>0, <2>1, <2>2, TextBeside
<1>8. CASE UNCHANGED vars
  BY <1>8 DEF vars, TextKept, LeftPrefix, BehindRoot
<1> QED BY <1>1, <1>2, <1>3, <1>4, <1>5, <1>6, <1>7, <1>8 DEF Next

\* A path that was accepted is read back, also when it was divided into two fields or written
\* over a longer one, and so are a link target, an owner and a type; but when an earlier path has
\* left a prefix in front of one that fits the name, the name alone is what was set, and one that
\* is divided right behind its root loses a byte (header.rs:1022, 1034, 1064, 992).
THEOREM TextIsKept == Spec => []TextKept
<1>1. HeaderInv /\ TextKept /\ [Next]_vars => (HeaderInv /\ TextKept)'
  BY HeaderNext, TextNext
<1>2. Init => HeaderInv /\ TextKept
  BY HeaderInit, TextInit
<1> QED BY <1>1, <1>2, PTL DEF Spec

-----------------------------------------------------------------------------
(* The bytes of the texts.                                                 *)

\* What is written over a field is what it holds up to its first NUL.
LEMMA CopyTruncated ==
  ASSUME NEW n \in Nat, NEW slot, DOMAIN slot = 1..n,
         NEW T, NEW s \in Seq(T), Len(s) <= n, \A i \in 1..Len(s) : s[i] # NulByte
  PROVE  Truncated(CopyInto(slot, s), NulByte) = s
<1> DEFINE m == Len(s)
           bytes == CopyInto(slot, s)
           nuls == {i \in DOMAIN bytes : bytes[i] = NulByte}
           W == {bytes[i] : i \in 1..n}
<1>1. m \in Nat /\ DOMAIN s = 1..m /\ m <= n
  BY LenProperties
<1>2. /\ DOMAIN bytes = 1..n
      /\ \A i \in 1..m : bytes[i] = s[i] /\ bytes[i] # NulByte
      /\ m < n => bytes[m + 1] = NulByte
  <2>1. bytes = [i \in 1..n |-> IF i <= m THEN s[i] ELSE IF i = m + 1 THEN NulByte ELSE slot[i]]
    BY DEF CopyInto
  <2>2. \A i \in 1..m : i \in 1..n /\ i <= m
    BY <1>1
  <2>3. m < n => m + 1 \in 1..n /\ ~(m + 1 <= m)
    BY <1>1
  <2> HIDE DEF m, bytes
  <2> QED BY <2>1, <2>2, <2>3 DEF m
<1>3. bytes = [i \in 1..n |-> bytes[i]]
  BY DEF CopyInto
<1> HIDE DEF bytes
<1>4. bytes \in Seq(W) /\ Len(bytes) = n
  <2>1. bytes \in [1..n -> W]
    BY <1>3
  <2> HIDE DEF W
  <2> QED BY <2>1, IsSequence
<1>5. CASE m = n
  <2>1. nuls = {}
    BY <1>2, <1>5
  <2>2. Truncated(bytes, NulByte) = bytes
    BY <2>1 DEF Truncated
  <2>3. bytes = [i \in 1..n |-> s[i]] /\ s = [i \in 1..n |-> s[i]]
    BY <1>1, <1>2, <1>3, <1>5
  <2> QED BY <2>2, <2>3 DEF bytes
<1>6. CASE m < n
  <2>1. nuls # {} /\ m + 1 \in nuls /\ \A i \in nuls : m + 1 <= i
    <3>1. m + 1 \in 1..n
      BY <1>1, <1>6
    <3>2. ASSUME NEW i \in nuls PROVE m + 1 <= i
      <4>1. i \in 1..n /\ i \notin 1..m
        BY <1>2
      <4> QED BY <1>1, <4>1
    <3> QED BY <1>2, <1>6, <3>1, <3>2
  <2>2. nuls \subseteq Int
    BY <1>2
  <2> HIDE DEF nuls
  <2>3. Min(nuls) = m + 1
    <3> DEFINE least(x) == x \in nuls /\ \A y \in nuls : x <= y
    <3>1. \A x : least(x) => x = m + 1
      BY <1>1, <2>1, <2>2
    <3>2. least(m + 1)
      BY <2>1
    <3>3. Min(nuls) = CHOOSE x \in nuls : \A y \in nuls : x <= y
      BY DEF Min
    <3> QED BY <3>1, <3>2, <3>3
  <2>4. Truncated(bytes, NulByte) = SubSeq(bytes, 1, Min(nuls) - 1)
    BY <2>1 DEF Truncated, nuls
  <2>5. Min(nuls) - 1 = m
    BY <1>1, <2>3
  <2>6. SubSeq(bytes, 1, m) = s
    <3>1. /\ Len(SubSeq(bytes, 1, m)) = m /\ SubSeq(bytes, 1, m) \in Seq(W)
          /\ \A i \in 1..m : SubSeq(bytes, 1, m)[i] = bytes[i]
      <4>1. \A i \in 1..m : i \in 1..n
        BY <1>1
      <4> HIDE DEF W, m
      <4> QED BY <1>1, <1>4, <4>1
    <3> HIDE DEF W
    <3> QED BY <1>2, <3>1, SeqEqual
  <2> QED BY <2>4, <2>5, <2>6 DEF bytes
<1>7. m = n \/ m < n
  <2> HIDE DEF m
  <2> QED BY <1>1
<1> QED BY <1>5, <1>6, <1>7, Zenon

\* Components, the empty one among them that is left of a component of one byte, and those
\* without a NUL.
Near == {part \in [name : DOMAIN Width \cup {"torn"}, from : Nat, to : Nat] :
           part.from <= part.to + 1}
Clear == {part \in Near : ~HasNul(part)}

\* Paths that a field can hold.
Writable(path) == path.parts \in Seq(Clear)

\* Where a component begins, and how long a path is.
LEMMA NearOffset ==
  ASSUME NEW path, path.parts \in Seq(Near), NEW i \in 1..(Len(path.parts) + 1)
  PROVE  Offset(path, i) \in Nat /\ (i > 1 => Offset(path, i) >= 1)
<1> DEFINE s == [j \in 1..(i - 1) |-> path.parts[j].to - path.parts[j].from + 2]
<1>1. Len(path.parts) \in Nat /\ \A j \in 1..Len(path.parts) : path.parts[j] \in Near
  BY LenProperties, ElementOfSeq
<1>2. \A j \in 1..(i - 1) : j \in 1..Len(path.parts)
  BY <1>1
<1>3. \A part \in Near : part.to - part.from + 2 \in Nat /\ part.to - part.from + 2 >= 1
  BY DEF Near
<1>4. i - 1 \in Nat /\ s \in [1..(i - 1) -> Nat] /\ \A j \in 1..(i - 1) : s[j] >= 1
  BY <1>1, <1>2, <1>3
<1>5. Offset(path, i) = Bit(path.root) + Sum(s)
  BY DEF Offset
<1> HIDE DEF s
<1>6. s \in Seq(Nat) /\ Len(s) = i - 1
  BY <1>4, FunctionIsSequence
<1>7. Sum(s) \in Nat /\ \A j \in 1..(i - 1) : s[j] <= Sum(s)
  BY <1>6, SumType
<1>8. i > 1 => Sum(s) >= 1
  <2> HAVE i > 1
  <2>1. 1 \in 1..(i - 1)
    OBVIOUS
  <2>2. s[1] >= 1 /\ s[1] <= Sum(s) /\ s[1] \in Nat
    BY <1>4, <1>7, <2>1
  <2> QED BY <1>7, <2>2
<1>9. Bit(path.root) \in {0, 1}
  BY DEF Bit
<1> QED BY <1>5, <1>7, <1>8, <1>9

LEMMA NearLength ==
  ASSUME NEW path, path.parts \in Seq(Near)
  PROVE  Length(path) \in Nat
<1> DEFINE n == Len(path.parts)
<1>1. n \in Nat
  BY LenProperties
<1>2. Bit(path.slash) \in {0, 1} /\ Bit(path.root) \in {0, 1}
  BY DEF Bit
<1>3. CASE n = 0
  BY <1>2, <1>3 DEF Length
<1>4. CASE n # 0
  <2>1. n + 1 \in 1..(n + 1) /\ n + 1 > 1
    BY <1>1, <1>4
  <2>2. Offset(path, n + 1) \in Nat /\ Offset(path, n + 1) >= 1
    BY <2>1, NearOffset
  <2> QED BY <1>2, <1>4, <2>2 DEF Length
<1> QED BY <1>3, <1>4

\* No byte of a path that a field can hold is a NUL.
LEMMA SpelledClear ==
  ASSUME NEW path, Writable(path)
  PROVE  /\ Length(path) \in Nat
         /\ DOMAIN Spelled(path) = 1..Length(path)
         /\ \E T : Spelled(path) \in Seq(T) /\ Len(Spelled(path)) = Length(path)
         /\ \A i \in 1..Length(path) : Spelled(path)[i] # NulByte
<1> DEFINE First(j)   == Offset(path, j) + 1
           Stretch(j) == First(j)..(First(j) + path.parts[j].to - path.parts[j].from)
           at(i) == {j \in DOMAIN path.parts : i \in Stretch(j)}
           byte(i) == LET parts == at(i)
                          j     == CHOOSE k \in parts : TRUE
                      IN  IF parts = {} THEN Slash
                          ELSE <<path.parts[j].name, path.parts[j].from + i - First(j)>>
           n == Length(path)
<1>1. /\ path.parts \in Seq(Near) /\ Len(path.parts) \in Nat
      /\ DOMAIN path.parts = 1..Len(path.parts)
      /\ \A j \in 1..Len(path.parts) : path.parts[j] \in Clear
  <2>1. path.parts \in Seq(Clear) /\ \A part \in Clear : part \in Near
    BY DEF Writable, Clear
  <2>2. /\ Len(path.parts) \in Nat /\ DOMAIN path.parts = 1..Len(path.parts)
        /\ \A j \in 1..Len(path.parts) : path.parts[j] \in Clear
    BY <2>1, LenProperties, ElementOfSeq
  <2>3. path.parts \in [1..Len(path.parts) -> Near]
    <3>1. path.parts = [j \in 1..Len(path.parts) |-> path.parts[j]]
      BY <2>1, <2>2
    <3> QED BY <2>1, <2>2, <3>1
  <2> QED BY <2>2, <2>3, IsSequence
<1>2. n \in Nat
  BY <1>1, NearLength
<1>3. ASSUME NEW i \in 1..n
      PROVE  byte(i) # NulByte
  <2>1. CASE at(i) = {}
    <3>1. byte(i) = Slash
      BY <2>1
    <3> QED BY <3>1, SeparatorAssumption DEF Slash, NulByte
  <2>2. CASE at(i) # {}
    <3> DEFINE j == CHOOSE k \in at(i) : TRUE
    <3>1. j \in at(i)
      BY <2>2
    <3>2. byte(i) = <<path.parts[j].name, path.parts[j].from + i - First(j)>>
      BY <2>2
    <3> HIDE DEF j
    <3>3. j \in 1..Len(path.parts) /\ i \in Stretch(j)
      BY <1>1, <3>1
    <3>4. Offset(path, j) \in Nat
      BY <1>1, <3>3, NearOffset
    <3>5. /\ path.parts[j] \in Clear /\ path.parts[j].from \in Nat /\ path.parts[j].to \in Nat
          /\ ~HasNul(path.parts[j])
      BY <1>1, <3>3 DEF Clear, Near
    <3>6. path.parts[j].from + i - First(j) <= path.parts[j].to
      BY <1>2, <3>3, <3>4, <3>5
    <3> DEFINE name == path.parts[j].name
               place == path.parts[j].from + i - First(j)
               to == path.parts[j].to
    <3>7. place <= to /\ ~(name = Nul /\ to >= Width[Nul])
      BY <3>5, <3>6 DEF HasNul
    <3>8. place \in Int /\ to \in Int
      BY <1>2, <3>4, <3>5
    <3>9. byte(i) = <<name, place>>
      BY <3>2
    <3> HIDE DEF name, place, to, byte
    <3>10. ~(name = Nul /\ place = Width[Nul])
      BY <3>7, <3>8
    <3> QED BY <3>9, <3>10 DEF NulByte
  <2> QED BY <2>1, <2>2
<1>4. Spelled(path) = [i \in 1..n |-> byte(i)]
  BY DEF Spelled
<1> HIDE DEF byte, n
<1>5. \E T : Spelled(path) \in Seq(T) /\ Len(Spelled(path)) = n
  <2> DEFINE T == {byte(i) : i \in 1..n}
  <2>1. Spelled(path) \in [1..n -> T]
    BY <1>4
  <2> HIDE DEF T
  <2>2. Spelled(path) \in Seq(T) /\ Len(Spelled(path)) = n
    BY <1>2, <2>1, IsSequence
  <2> QED BY <2>2
<1>6. DOMAIN Spelled(path) = 1..n /\ \A i \in 1..n : Spelled(path)[i] # NulByte
  BY <1>3, <1>4
<1> QED BY <1>2, <1>5, <1>6 DEF n

\* A field holds what is written over it.
LEMMA WritableSpelled ==
  ASSUME NEW path, Writable(path), NEW n \in Nat, Length(path) <= n, NEW slot, DOMAIN slot = 1..n
  PROVE  Truncated(CopyInto(slot, Spelled(path)), NulByte) = Spelled(path)
<1> DEFINE s == Spelled(path)
<1>1. PICK T : s \in Seq(T) /\ Len(s) = Length(path)
  BY SpelledClear
<1>2. \A i \in 1..Len(s) : s[i] # NulByte
  BY <1>1, SpelledClear
<1> HIDE DEF s
<1>3. Truncated(CopyInto(slot, s), NulByte) = s
  BY <1>1, <1>2, CopyTruncated
<1> QED BY <1>3 DEF s

LEMMA PathNear ==
  ASSUME NEW path \in Path
  PROVE  path.parts \in Seq(Near)
<1>1. Len(path.parts) \in Nat /\ path.parts = [i \in 1..Len(path.parts) |-> path.parts[i]]
  BY PathFields
<1>2. ASSUME NEW i \in 1..Len(path.parts)
      PROVE  path.parts[i] \in Near
  BY PathFields DEF Near, Part
<1>3. path.parts \in [1..Len(path.parts) -> Near]
  BY <1>1, <1>2
<1> QED BY <1>1, <1>3, IsSequence

LEMMA TornWritable == Writable(Torn)
<1>1. [name |-> "torn", from |-> 1, to |-> 1] \in Clear
  BY SeparatorAssumption DEF Clear, Near, HasNul
<1>2. Torn.parts = <<[name |-> "torn", from |-> 1, to |-> 1]>>
  BY DEF Torn
<1> QED BY <1>1, <1>2 DEF Writable

LEMMA StoredWritable ==
  ASSUME NEW path, path.parts \in Seq(Near), NEW len, NEW how
  PROVE  /\ Stores(path, len, how) => Writable(Emitted(path, how))
         /\ \A old : Stored(old, path, len, how) = old \/ Writable(Stored(old, path, len, how))
<1> DEFINE parts == Components(path)
<1>1. parts \in Seq(Near)
  BY ComponentsKept
<1>2. ASSUME Stores(path, len, how)
      PROVE  Writable(Emitted(path, how))
  <2>1. \A i \in DOMAIN parts : ~HasNul(parts[i])
    BY <1>2 DEF Stores, Accepts
  <2>2. Emitted(path, how).parts = parts \/ Emitted(path, how).parts = Without(parts)
    BY DEF Emitted
  <2> HIDE DEF parts
  <2>3. /\ Len(parts) \in Nat /\ DOMAIN parts = 1..Len(parts)
        /\ \A i \in 1..Len(parts) : parts[i] \in Near
    BY <1>1, LenProperties, ElementOfSeq
  <2>4. \A i \in 1..Len(parts) : parts[i] \in Clear
    BY <2>1, <2>3 DEF Clear
  <2>5. parts \in [1..Len(parts) -> Clear]
    <3>1. parts = [i \in 1..Len(parts) |-> parts[i]]
      BY <1>1, <2>3
    <3> QED BY <2>4, <3>1
  <2>6. parts \in Seq(Clear)
    BY <2>3, <2>5, IsSequence
  <2>7. Without(parts) \in Seq(Clear)
    BY <2>6, WithoutTwice
  <2> QED BY <2>2, <2>6, <2>7 DEF Writable
<1>3. ASSUME NEW old
      PROVE  Stored(old, path, len, how) = old \/ Writable(Stored(old, path, len, how))
  <2>1. CASE Stores(path, len, how)
    BY <1>2, <2>1 DEF Stored
  <2>2. CASE ~Stores(path, len, how)
    <3>1. Stored(old, path, len, how) = Torn \/ Stored(old, path, len, how) = old
      BY <2>2 DEF Stored
    <3> QED BY <3>1, TornWritable
  <2> QED BY <2>1, <2>2
<1> QED BY <1>2, <1>3

\* A field of the second header is that of the first or was written over.
Overwrites(h, k) == \A f \in Texts : k[f] = h[f] \/ Writable(k[f])

LEMMA FieldNames == Texts = {"name", "prefix", "link", "owner"}
BY DEF Texts

LEMMA DividedNear ==
  ASSUME NEW path \in Path, Length(path) > NameLen
  PROVE  /\ SubSeq(path.parts, 1, SplitAt(path)) \in Seq(Near)
         /\ AfterParent(path, SplitAt(path)).parts \in Seq(Near)
<1> DEFINE n == Len(path.parts)
           k == SplitAt(path)
<1>1. n \in Nat /\ path.parts \in Seq(Near) /\ DOMAIN path.parts = 1..n
      /\ \A i \in 1..n : path.parts[i] \in Near
  BY PathFields, PathNear, ElementOfSeq
<1>2. path.parts # <<>> /\ n # 0
  <2>1. Length(path) \in Nat /\ NameLen \in Nat /\ NameLen >= 1
    BY LengthType, LengthAssumption
  <2>2. ~(Length(path) <= 1)
    BY <2>1
  <2>3. path.parts # <<>>
    BY <2>2, LengthType
  <2> QED BY <1>1, <2>3, EmptySeq
<1>3. k \in 0..(n - 1)
  BY <1>2, SplitExists
<1>4. ASSUME NEW a \in Nat, NEW b \in Nat, a >= 1, b <= n
      PROVE  SubSeq(path.parts, a, b) \in Seq(Near)
  <2>1. \A i \in a..b : path.parts[i] \in Near
    BY <1>1, <1>4
  <2> QED BY <2>1, SubSeqProperties
<1>5. AfterParent(path, k).parts \in Seq(Near)
  <2> HIDE DEF k
  <2>1. CASE k > 0
    <3>1. SubSeq(path.parts, k + 1, n) \in Seq(Near)
      BY <1>1, <1>3, <1>4
    <3> QED BY <2>1, <3>1 DEF AfterParent
  <2>2. CASE k = 0
    <3> DEFINE rest == [path.parts EXCEPT ![1].from = @ + 1]
               first == [path.parts[1] EXCEPT !.from = @ + 1]
    <3>1. 1 \in 1..n
      BY <1>1, <1>2
    <3>2. first \in Near
      <4>1. path.parts[1] \in Part /\ path.parts[1].from <= path.parts[1].to
        BY <3>1, PathFields
      <4> QED BY <4>1 DEF Part, Near
    <3>3. rest = [i \in 1..n |-> IF i = 1 THEN first ELSE path.parts[i]]
      BY <1>1, <3>1
    <3> HIDE DEF first
    <3>4. rest \in [1..n -> Near]
      BY <1>1, <3>2, <3>3
    <3> HIDE DEF rest
    <3>5. rest \in Seq(Near)
      BY <1>1, <3>4, IsSequence
    <3>6. AfterParent(path, k).parts = rest
      BY <2>2 DEF AfterParent, rest
    <3> QED BY <3>5, <3>6
  <2> QED BY <1>3, <2>1, <2>2
<1>6. SubSeq(path.parts, 1, k) \in Seq(Near)
  BY <1>1, <1>3, <1>4
<1> QED BY <1>5, <1>6

LEMMA SetPathWritable ==
  ASSUME NEW h, DOMAIN h = HeaderNames, NEW path \in Path, NEW absolute, NEW cut
  PROVE  Overwrites(h, SetPath(h, path, absolute, cut).header)
<1>1. ASSUME NEW how, NEW new, NEW len, NEW p, p.parts \in Seq(Near),
             new = [h EXCEPT !.name = Stored(@, p, len, how)]
      PROVE  Overwrites(h, new)
  <2>1. new.name = Stored(h.name, p, len, how) /\ \A f \in HeaderNames : f # "name" => new[f] = h[f]
    BY <1>1 DEF HeaderNames
  <2>2. Stored(h.name, p, len, how) = h.name \/ Writable(Stored(h.name, p, len, how))
    BY <1>1, StoredWritable
  <2> QED BY <2>1, <2>2, FieldNames DEF Overwrites, HeaderNames
<1>2. CASE h.format # "ustar"
  <2>1. SetPath(h, path, absolute, cut).header
          = [h EXCEPT !.name = Stored(@, path, NameLen,
                                      [link |-> FALSE, cut |-> cut, absolute |-> absolute])]
    BY <1>2 DEF SetPath
  <2> QED BY <1>1, <2>1, PathNear
<1>3. CASE h.format = "ustar"
  <2> DEFINE how    == [link |-> FALSE, cut |-> FALSE, absolute |-> absolute]
             k      == SplitAt(path)
             parent == [NoPath EXCEPT !.root = path.root, !.parts = SubSeq(path.parts, 1, k)]
             rest   == AfterParent(path, k)
             new    == SetPath(h, path, absolute, cut).header
  <2>1. CASE Length(path) <= NameLen
    <3>1. new = [h EXCEPT !.name = Stored(@, path, NameLen, how)]
      BY <1>3, <2>1 DEF SetPath, UstarSetPath
    <3> HIDE DEF how, new
    <3>2. Overwrites(h, new)
      BY <1>1, <3>1, PathNear
    <3> QED BY <3>2 DEF new
  <2>2. CASE ~(Length(path) <= NameLen)
    <3>1. Length(path) > NameLen
      BY <2>2, LengthType, LengthAssumption
    <3>2. parent.parts = SubSeq(path.parts, 1, k)
      BY DEF NoPath
    <3>3. parent.parts \in Seq(Near) /\ rest.parts \in Seq(Near)
      BY <3>1, <3>2, DividedNear
    <3>4. CASE ~Stores(parent, PrefixLen, how)
      <4> DEFINE prefix == Stored(h.prefix, parent, PrefixLen, how)
      <4>1. new = [h EXCEPT !.prefix = prefix]
        BY <1>3, <2>2, <3>4 DEF SetPath, UstarSetPath
      <4> HIDE DEF new, parent, how
      <4>2. prefix = h.prefix \/ Writable(prefix)
        BY <3>3, StoredWritable
      <4> HIDE DEF prefix
      <4>3. new.prefix = prefix /\ \A f \in HeaderNames : f # "prefix" => new[f] = h[f]
        BY <4>1 DEF HeaderNames
      <4>4. Overwrites(h, new)
        BY <4>2, <4>3, FieldNames DEF Overwrites, HeaderNames
      <4> QED BY <4>4 DEF new
    <3>5. CASE Stores(parent, PrefixLen, how)
      <4> DEFINE prefix == Emitted(parent, how)
                 name == Stored(h.name, rest, NameLen, how)
      <4>1. new = [h EXCEPT !.prefix = prefix, !.name = name]
        BY <1>3, <2>2, <3>5 DEF SetPath, UstarSetPath
      <4> HIDE DEF new, parent, rest, how
      <4>2. Writable(prefix) /\ (name = h.name \/ Writable(name))
        BY <3>3, <3>5, StoredWritable
      <4> HIDE DEF prefix, name
      <4>3. /\ new.prefix = prefix /\ new.name = name
            /\ \A f \in HeaderNames : f \notin {"prefix", "name"} => new[f] = h[f]
        BY <4>1 DEF HeaderNames
      <4>4. Overwrites(h, new)
        BY <4>2, <4>3, FieldNames DEF Overwrites, HeaderNames
      <4> QED BY <4>4 DEF new
    <3> QED BY <3>4, <3>5
  <2> QED BY <2>1, <2>2
<1> QED BY <1>2, <1>3

LEMMA SetLinkWritable ==
  ASSUME NEW h, DOMAIN h = HeaderNames, NEW path \in Path
  PROVE  Overwrites(h, SetLink(h, path).header)
<1> DEFINE how == [link |-> TRUE, cut |-> FALSE, absolute |-> TRUE]
           link == Stored(h.link, path, NameLen, how)
           new == SetLink(h, path).header
<1>1. new = [h EXCEPT !.link = link]
  BY DEF SetLink
<1> HIDE DEF how, new
<1>2. link = h.link \/ Writable(link)
  BY PathNear, StoredWritable
<1> HIDE DEF link
<1>3. new.link = link /\ \A f \in HeaderNames : f # "link" => new[f] = h[f]
  BY <1>1 DEF HeaderNames
<1>4. Overwrites(h, new)
  BY <1>2, <1>3, FieldNames DEF Overwrites, HeaderNames
<1> QED BY <1>4 DEF new

\* An owner that was accepted has no NUL.
LEMMA OwnerWritable ==
  ASSUME NEW path \in Path, \A i \in DOMAIN path.parts : ~HasNul(path.parts[i])
  PROVE  Writable(path)
<1>1. /\ Len(path.parts) \in Nat /\ DOMAIN path.parts = 1..Len(path.parts)
      /\ path.parts \in Seq(Near) /\ \A i \in 1..Len(path.parts) : path.parts[i] \in Near
  BY PathFields, PathNear, ElementOfSeq
<1>2. path.parts = [i \in 1..Len(path.parts) |-> path.parts[i]]
  BY PathFields
<1>3. \A i \in 1..Len(path.parts) : path.parts[i] \in Clear
  BY <1>1 DEF Clear
<1>4. path.parts \in [1..Len(path.parts) -> Clear]
  BY <1>2, <1>3
<1> QED BY <1>1, <1>4, IsSequence DEF Writable

LEMMA FieldFits ==
  ASSUME NEW f \in Texts
  PROVE  FieldLen(f) \in Nat /\ (TextFits(header) => Length(header[f]) <= FieldLen(f))
BY LengthAssumption, ClientAssumption DEF Texts, FieldLen, TextFits, TextBounded

\* A call that writes the fields that it changes.
LEMMA SpellWritten ==
  ASSUME FieldsSpell, HeaderInv, HeaderInv', text' = Written, Overwrites(header, header')
  PROVE  FieldsSpell'
<1> SUFFICES ASSUME NEW f \in Texts
             PROVE  Truncated(text'[f], NulByte) = Spelled(header'[f])
  BY DEF FieldsSpell
<1>1. CASE header'[f] = header[f]
  BY <1>1 DEF Written, FieldsSpell
<1>2. CASE header'[f] # header[f]
  <2>1. text'[f] = CopyInto(text[f], Spelled(header'[f]))
    BY <1>2 DEF Written
  <2>2. Writable(header'[f])
    BY <1>2 DEF Overwrites
  <2>3. DOMAIN text[f] = 1..FieldLen(f) /\ FieldLen(f) \in Nat
    BY FieldFits DEF HeaderInv, TextOK
  <2>4. Length(header'[f]) <= FieldLen(f)
    BY LengthAssumption, ClientAssumption DEF HeaderInv, Texts, FieldLen, TextFits, TextBounded
  <2> QED BY <2>1, <2>2, <2>3, <2>4, WritableSpelled
<1> QED BY <1>1, <1>2

LEMMA SpellInit ==
  ASSUME Init
  PROVE  FieldsSpell
<1> SUFFICES ASSUME NEW f \in Texts
             PROVE  Truncated(text[f], NulByte) = Spelled(header[f])
  BY DEF FieldsSpell
<1>1. header[f] = NoPath
  BY DEF Init, New, Texts
<1>2. FieldLen(f) \in Nat /\ text[f] = [i \in 1..FieldLen(f) |-> NulByte]
  BY FieldFits DEF Init
<1>3. Writable(NoPath)
  BY DEF Writable, NoPath
<1>4. Length(NoPath) = 0 /\ DOMAIN text[f] = 1..FieldLen(f) /\ 0 <= FieldLen(f)
  BY <1>2, EmptyLength
<1>5. PICK T : Spelled(NoPath) \in Seq(T) /\ Len(Spelled(NoPath)) = 0
  BY <1>3, <1>4, SpelledClear
<1>6. CopyInto(text[f], Spelled(NoPath)) = text[f]
  <2> DEFINE s == Spelled(NoPath)
             n == FieldLen(f)
  <2>1. CopyInto(text[f], s)
          = [i \in 1..n |-> IF i <= 0 THEN s[i] ELSE IF i = 0 + 1 THEN NulByte ELSE text[f][i]]
    BY <1>4, <1>5 DEF CopyInto
  <2>2. \A i \in 1..n : (IF i <= 0 THEN s[i] ELSE IF i = 0 + 1 THEN NulByte ELSE text[f][i])
                          = NulByte
    BY <1>2
  <2> HIDE DEF s, n
  <2>3. CopyInto(text[f], s) = [i \in 1..n |-> NulByte]
    BY <2>1, <2>2
  <2> QED BY <1>2, <2>3 DEF s, n
<1> QED BY <1>1, <1>2, <1>3, <1>4, <1>6, WritableSpelled

LEMMA SpellNext ==
  ASSUME FieldsSpell, HeaderInv, [Next]_vars
  PROVE  FieldsSpell'
<1>0. HeaderInv' /\ DOMAIN header = HeaderNames
  BY HeaderNext, FieldsOf
<1>1. ASSUME text' = text, \A f \in Texts : header'[f] = header[f]
      PROVE  FieldsSpell'
  BY <1>1 DEF FieldsSpell
<1>2. ASSUME NEW f \in NumFields, NEW v \in Values, SetNumber(f, v) PROVE FieldsSpell'
  <2>1. text' = text /\ \A t \in Texts : header'[t] = header[t]
    BY <1>0, <1>2, FieldNames DEF SetNumber, HeaderNames
  <2> QED BY <1>1, <2>1
<1>3. ASSUME NEW f \in NumFields, SetNumberRefused(f) PROVE FieldsSpell'
  BY <1>1, <1>3 DEF SetNumberRefused
<1>4. ASSUME NEW p \in Paths, NEW absolute \in BOOLEAN, PathSet(p, absolute) PROVE FieldsSpell'
  <2>1. text' = Written /\ header' = SetPath(header, p, absolute, FALSE).header
    BY <1>4 DEF PathSet
  <2>2. p \in Path
    BY ClientAssumption
  <2>3. ASSUME NEW cut
        PROVE  Overwrites(header, SetPath(header, p, absolute, cut).header)
    BY <1>0, <2>2, SetPathWritable
  <2>4. Overwrites(header, header')
    BY <2>1, <2>3
  <2> QED BY <1>0, <2>1, <2>4, SpellWritten
<1>5. ASSUME NEW p \in Paths, LinkSet(p) PROVE FieldsSpell'
  <2>1. text' = Written /\ header' = SetLink(header, p).header
    BY <1>5 DEF LinkSet
  <2>2. p \in Path
    BY ClientAssumption
  <2>3. Overwrites(header, header')
    BY <1>0, <2>1, <2>2, SetLinkWritable
  <2> QED BY <1>0, <2>1, <2>3, SpellWritten
<1>6. ASSUME NEW o \in Owners, SetOwner(o) PROVE FieldsSpell'
  <2>1. CASE UNCHANGED <<header, text, asked>>
    BY <1>1, <2>1
  <2>2. CASE /\ \A i \in DOMAIN o.parts : ~HasNul(o.parts[i])
             /\ header' = [header EXCEPT !.owner = o] /\ text' = Written
    <3>1. Writable(o)
      BY <2>2, OwnerWritable, ClientAssumption
    <3>2. header'.owner = o /\ \A f \in HeaderNames : f # "owner" => header'[f] = header[f]
      BY <1>0, <2>2 DEF HeaderNames
    <3>3. Overwrites(header, header')
      BY <3>1, <3>2, FieldNames DEF Overwrites, HeaderNames
    <3> QED BY <1>0, <2>2, <3>3, SpellWritten
  <2> QED BY <1>6, <2>1, <2>2 DEF SetOwner
<1>7. ASSUME NEW t \in {"GNUSparse", "Unknown"}, SetType(t) PROVE FieldsSpell'
  <2>1. text' = text /\ \A f \in Texts : header'[f] = header[f]
    BY <1>0, <1>7, FieldNames DEF SetType, HeaderNames
  <2> QED BY <1>1, <2>1
<1>8. ASSUME NEW m \in Metas, NEW mode \in {"complete", "deterministic"}, SetMetadata(m, mode)
      PROVE  FieldsSpell'
  <2>1. text' = text /\ \A f \in Texts : header'[f] = header[f]
    BY <1>0, <1>8, FieldNames DEF SetMetadata, HeaderNames
  <2> QED BY <1>1, <2>1
<1>9. CASE UNCHANGED vars
  BY <1>1, <1>9 DEF vars
<1> QED BY <1>2, <1>3, <1>4, <1>5, <1>6, <1>7, <1>8, <1>9 DEF Next

\* Byte for byte and up to its first NUL, a field holds the text it was given last, for fields
\* and paths of every length, in whatever order they are set, refused and set again
\* (header.rs:1553, 1562, 1593).
THEOREM SpellingIsKept == Spec => []FieldsSpell
<1>1. HeaderInv /\ FieldsSpell /\ [Next]_vars => (HeaderInv /\ FieldsSpell)'
  BY HeaderNext, SpellNext
<1>2. Init => HeaderInv /\ FieldsSpell
  BY HeaderInit, SpellInit
<1> QED BY <1>1, <1>2, PTL DEF Spec
===============================================================================
