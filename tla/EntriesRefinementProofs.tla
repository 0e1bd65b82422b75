----------------------- MODULE EntriesRefinementProofs -----------------------
(***************************************************************************)
(* Entries implements Listing, for every archive, block size and integer   *)
(* width, and for clients that read entries in any order.                  *)
(***************************************************************************)
EXTENDS EntriesRefinement, EntriesProofs, NaturalFacts

\* A raw iteration does not parse sparse maps, so it takes the extension blocks of a
\* sparse member for the headers of the members to come.
NoRawExtensions ==
  TRUE \in Raws =>
    \A s \in Streams : \A i \in DOMAIN s.blocks :
      LET block == s.blocks[i]
      IN  ~(block.kind = "header" /\ block.type = "sparse" /\ block.format = "gnu"
            /\ block.extended)

-----------------------------------------------------------------------------
(* Blocks and offsets, as Listing has them.                                *)

LEMMA SameBlocks ==
  /\ \A o : Abstract!In(o) = BlockAt(stream.blocks, o)
  /\ \A n : Abstract!Round(n) = Round(n)
  /\ \A b : Abstract!MapOf(b) = MapOf(b) /\ Abstract!Recognized(b) = Recognized(b)
  /\ Abstract!NoPend = NoPend /\ Abstract!U64 = U64 /\ Abstract!Pending = Pending
<1>1. \A o : Abstract!In(o) = BlockAt(stream.blocks, o)
  BY DEF Abstract!In, Abstract!BlockAt, BlockAt, Abstract!Other, Other
<1>2. \A n : Abstract!Round(n) = Round(n)
  BY DEF Abstract!Round, Round
<1>3. \A b : Abstract!MapOf(b) = MapOf(b) /\ Abstract!Recognized(b) = Recognized(b)
  BY DEF Abstract!MapOf, MapOf, Abstract!Recognized, Recognized, Abstract!Other, Other
<1>4. Abstract!NoPend = NoPend /\ Abstract!U64 = U64 /\ Abstract!Pending = Pending
  BY DEF Abstract!NoPend, NoPend, Abstract!U64, U64, Abstract!Pending, Pending, Abstract!Offsets
<1> QED BY <1>1, <1>2, <1>3, <1>4

\* A block that is not Other is one of the blocks of the stream.
LEMMA BlockExists ==
  ASSUME TypeOK, NEW o \in Nat, NEW n \in Nat,
         BlockAt(stream.blocks, o + n * BlockSize) # Other
  PROVE  n + 1 <= Len(stream.blocks)
<1> USE BlockSizeAssumption
<1> DEFINE a == o + n * BlockSize
           q == a \div BlockSize
<1>1. a \in Nat /\ n * BlockSize \in Nat /\ n * BlockSize <= a
  <2>1. n * BlockSize \in Nat
    OBVIOUS
  <2> QED BY <2>1
<1> HIDE DEF a
<1>2. q \in Nat /\ a % BlockSize \in 0..(BlockSize - 1) /\ a = BlockSize * q + (a % BlockSize)
  BY <1>1, Division
<1>3. q + 1 \in DOMAIN stream.blocks
  BY DEF BlockAt, a
<1> HIDE DEF q
<1>4. n <= q
  <2> SUFFICES ASSUME q + 1 <= n PROVE FALSE
    BY <1>2
  <2>1. BlockSize * (n - q) >= BlockSize
    BY <1>2, MultipleAtLeast
  <2>2. BlockSize * (n - q) = n * BlockSize - BlockSize * q
    BY <1>2
  <2> QED BY <1>1, <1>2, <2>1, <2>2
<1>5. DOMAIN stream.blocks = 1..Len(stream.blocks) /\ Len(stream.blocks) \in Nat
  BY LenProperties DEF TypeOK
<1>6. q + 1 <= Len(stream.blocks) /\ q + 1 \in Int
  BY <1>2, <1>3, <1>5
<1> HIDE BlockSizeAssumption
<1> QED
  <2>1. n + 1 <= q + 1
    <3>1. q \in Int /\ n \in Int
      BY <1>2
    <3> QED BY <3>1, <1>4
  <2>2. n + 1 \in Int
    OBVIOUS
  <2> QED BY <1>5, <1>6, <2>1, <2>2

\* Where a header is looked for: past the zeros, if they are ignored.
Skipped(o, n) ==
  /\ n \in 0..Len(stream.blocks) /\ ~Abstract!IsZeros(o + n * BlockSize)
  /\ \A m \in 0..(n - 1) : Abstract!IsZeros(o + m * BlockSize)

LEMMA SkippedExists ==
  ASSUME TypeOK, NEW o \in Nat
  PROVE  \E n : Skipped(o, n)
<1> DEFINE S == {n \in Nat : ~Abstract!IsZeros(o + n * BlockSize)}
           len == Len(stream.blocks)
<1>1. len \in Nat
  BY LenProperties DEF TypeOK
<1>2. len \in S
  <2>1. BlockAt(stream.blocks, o + len * BlockSize) = Other
    BY <1>1, BlockExists
  <2>2. Abstract!In(o + len * BlockSize).kind = "other"
    BY <2>1, SameBlocks DEF Other
  <2> QED BY <1>1, <2>2 DEF Abstract!IsZeros
<1>3. PICK n \in S : \A m \in S : n <= m
  BY <1>2, LeastExists
<1>4. n \in 0..len
  BY <1>1, <1>2, <1>3
<1>5. \A m \in 0..(n - 1) : m \in Nat /\ ~(n <= m)
  BY <1>4
<1>6. \A m \in 0..(n - 1) : Abstract!IsZeros(o + m * BlockSize)
  BY <1>3, <1>5
<1> QED BY <1>3, <1>4, <1>6 DEF Skipped

LEMMA SkippedOnce ==
  ASSUME NEW o, NEW m, NEW n, Skipped(o, m), Skipped(o, n)
  PROVE  m = n
<1>1. m \in Int /\ n \in Int /\ m >= 0 /\ n >= 0
  BY DEF Skipped
<1>2. ~(m < n) /\ ~(n < m)
  BY <1>1 DEF Skipped
<1> QED BY <1>1, <1>2

LEMMA FirstFromIs ==
  ASSUME TypeOK, NEW o \in Nat, mode.zeros, NEW n, Skipped(o, n)
  PROVE  Abstract!FirstFrom(o) = o + BlockSize * n
<1> DEFINE c == CHOOSE k \in 0..Len(stream.blocks) :
                  /\ ~Abstract!IsZeros(o + k * BlockSize)
                  /\ \A m \in 0..(k - 1) : Abstract!IsZeros(o + m * BlockSize)
<1>1. Abstract!FirstFrom(o) = o + BlockSize * c
  BY DEF Abstract!FirstFrom
<1>2. Skipped(o, c)
  BY DEF Skipped
<1> HIDE DEF c
<1> QED BY <1>1, <1>2, SkippedOnce

LEMMA FirstFromHere ==
  ASSUME TypeOK, NEW o \in Nat, ~mode.zeros \/ ~Abstract!IsZeros(o)
  PROVE  Abstract!FirstFrom(o) = o
<1>1. CASE ~mode.zeros
  BY <1>1 DEF Abstract!FirstFrom
<1>2. CASE mode.zeros
  <2>1. 0 \in 0..Len(stream.blocks) /\ 0..(0 - 1) = {} /\ 0 * BlockSize = 0 /\ o + 0 = o
    BY LenProperties, BlockSizeAssumption DEF TypeOK
  <2>2. Skipped(o, 0)
    BY <1>2, <2>1 DEF Skipped
  <2>3. o + BlockSize * 0 = o
    BY BlockSizeAssumption
  <2> QED BY <1>2, <2>2, <2>3, FirstFromIs
<1> QED BY <1>1, <1>2 DEF TypeOK

LEMMA FirstFromNext ==
  ASSUME TypeOK, NEW o \in Nat, mode.zeros, Abstract!IsZeros(o)
  PROVE  Abstract!FirstFrom(o) = Abstract!FirstFrom(o + BlockSize)
<1> USE BlockSizeAssumption
<1>1. PICK n : Skipped(o, n)
  BY SkippedExists
<1>2. n \in 0..Len(stream.blocks) /\ n # 0
  <2>1. o + 0 * BlockSize = o
    OBVIOUS
  <2> QED BY <1>1, <2>1 DEF Skipped
<1>3. Len(stream.blocks) \in Nat
  BY LenProperties DEF TypeOK
<1>4. \A m \in Nat : (o + BlockSize) + m * BlockSize = o + (m + 1) * BlockSize
  OBVIOUS
<1>5. Skipped(o + BlockSize, n - 1)
  <2>1. n - 1 \in Nat /\ n - 1 \in 0..Len(stream.blocks) /\ (n - 1) + 1 = n
    BY <1>2, <1>3
  <2>2. ~Abstract!IsZeros((o + BlockSize) + (n - 1) * BlockSize)
    BY <1>1, <1>4, <2>1 DEF Skipped
  <2>3. ASSUME NEW m \in 0..((n - 1) - 1)
        PROVE  Abstract!IsZeros((o + BlockSize) + m * BlockSize)
    <3>1. m \in Nat /\ m + 1 \in 0..(n - 1)
      BY <1>2
    <3> QED BY <1>1, <1>4, <3>1 DEF Skipped
  <2> QED BY <2>1, <2>2, <2>3 DEF Skipped
<1>6. o + BlockSize * n = (o + BlockSize) + BlockSize * (n - 1)
  BY <1>2
<1> QED BY <1>1, <1>5, <1>6, FirstFromIs

LEMMA FirstFromAfter ==
  ASSUME TypeOK, NEW o \in Nat
  PROVE  Abstract!FirstFrom(o) \in Nat /\ Abstract!FirstFrom(o) >= o
<1>1. CASE mode.zeros
  <2>1. PICK n : Skipped(o, n)
    BY SkippedExists
  <2>2. n \in Nat /\ BlockSize * n \in Nat
    BY <2>1, BlockSizeAssumption DEF Skipped
  <2> QED BY <1>1, <2>1, <2>2, FirstFromIs
<1>2. CASE ~mode.zeros
  BY <1>2, FirstFromHere
<1> QED BY <1>1, <1>2 DEF TypeOK

-----------------------------------------------------------------------------
(* After is what its definition says.  Each describing member leaves one   *)
(* kind less to be found, so four rounds of the definition determine it.   *)

Places == [at : Nat, pend : Pending]
Unfolded(f) == [place \in Places |-> Abstract!Results(f, place)]

Open(place, kind) == IF place.pend[kind] = None THEN 1 ELSE 0
Missing(place) == Open(place, "longname") + Open(place, "longlink") + Open(place, "pax")
Agree(f, g, n) == \A place \in Places : Missing(place) < n => f[place] = g[place]

\* The place after a describing member.
Further(o, describing, size, kind) ==
  [at |-> o + BlockSize + Round(size), pend |-> [describing EXCEPT ![kind] = o]]

LEMMA SizeType ==
  ASSUME TypeOK, NEW o, NEW describing \in Pending, NEW b \in Block,
         Abstract!WellFormed(b, o, describing)
  PROVE  Abstract!SizeIn(b, describing) \in U64
<1>1. b.size \in U64
  BY DEF Abstract!WellFormed, Block, Field
<1>2. CASE describing.pax = None
  BY <1>1, <1>2 DEF Abstract!SizeIn
<1>3. CASE describing.pax # None
  <2>1. describing.pax \in Int
    BY <1>3 DEF Pending, U64
  <2>2. Abstract!In(describing.pax) \in Block
    BY <2>1, SameBlocks, BlockAtType DEF TypeOK
  <2> QED BY <1>1, <1>3, <2>2 DEF Abstract!SizeIn, Block
<1> QED BY <1>2, <1>3

LEMMA FurtherType ==
  ASSUME TypeOK, NEW o \in Nat, NEW describing \in Pending, NEW b \in Block,
         Abstract!WellFormed(b, o, describing), Abstract!Describes(b),
         describing[b.type] = None,
         NEW size, size = Abstract!SizeIn(b, describing)
  PROVE  /\ Further(o, describing, size, b.type) \in Places
         /\ \A n \in Nat : Missing([at |-> o, pend |-> describing]) < n + 1
                             => Missing(Further(o, describing, size, b.type)) < n
<1> DEFINE p == [describing EXCEPT ![b.type] = o]
<1>1. b.type \in {"longname", "longlink", "pax"}
  BY DEF Abstract!Describes, Abstract!NoPend
<1>2. size \in Nat /\ Round(size) \in Nat /\ BlockSize \in Nat
  <2>1. size \in Nat
    BY SizeType DEF U64
  <2> QED BY <2>1, RoundBounds, BlockSizeAssumption
<1>3. o + BlockSize + Round(size) <= MaxU64
  BY SameBlocks DEF Abstract!WellFormed
<1>4. o \in U64 /\ o # None
  BY <1>2, <1>3, WidthAssumption, SentinelAssumption DEF U64
<1>5. p \in Pending
  BY <1>1, <1>4 DEF Pending
<1>6. o + BlockSize + Round(size) \in Nat
  BY <1>2
<1>7. Further(o, describing, size, b.type) \in Places
  BY <1>5, <1>6 DEF Further, Places
<1>8. Missing(Further(o, describing, size, b.type)) + 1 = Missing([at |-> o, pend |-> describing])
  <2>1. /\ p.longname = IF b.type = "longname" THEN o ELSE describing.longname
        /\ p.longlink = IF b.type = "longlink" THEN o ELSE describing.longlink
        /\ p.pax = IF b.type = "pax" THEN o ELSE describing.pax
    BY <1>1 DEF Pending
  <2> HIDE DEF p
  <2>2. Further(o, describing, size, b.type).pend = p
    BY DEF Further, p
  <2>3. CASE b.type = "longname"
    BY <1>4, <2>1, <2>2, <2>3 DEF Missing, Open
  <2>4. CASE b.type = "longlink"
    BY <1>4, <2>1, <2>2, <2>4 DEF Missing, Open
  <2>5. CASE b.type = "pax"
    BY <1>4, <2>1, <2>2, <2>5 DEF Missing, Open
  <2> QED BY <1>1, <2>3, <2>4, <2>5
<1>9. Missing(Further(o, describing, size, b.type)) \in Int
  BY DEF Missing, Open
<1> QED BY <1>7, <1>8, <1>9

\* What is found at one place depends on places where less is missing.
LEMMA ResultsAgree ==
  ASSUME TypeOK, NEW n \in Nat, NEW f, NEW g, Agree(f, g, n),
         NEW place \in Places, Missing(place) < n + 1
  PROVE  Abstract!Results(f, place) = Abstract!Results(g, place)
<1> DEFINE o == Abstract!FirstFrom(place.at)
           d == place.pend
           b == Abstract!In(o)
           size == Abstract!SizeIn(b, d)
           further == Further(o, d, size, b.type)
<1>1. d \in Pending /\ place.at \in Nat
  BY DEF Places
<1>2. o \in Nat /\ b \in Block
  BY <1>1, FirstFromAfter, SameBlocks, BlockAtType DEF TypeOK
<1>3. CASE Abstract!WellFormed(b, o, d) /\ Abstract!Describes(b) /\ d[b.type] = None
  <2>1. Missing([at |-> o, pend |-> d]) = Missing(place)
    BY DEF Missing, Open
  <2> HIDE DEF o, b, d, size
  <2>2. size = Abstract!SizeIn(b, d)
    BY DEF size
  <2>3. further \in Places /\ Missing(further) < n
    BY <1>1, <1>2, <1>3, <2>1, <2>2, FurtherType
  <2>4. f[further] = g[further]
    BY <2>3 DEF Agree
  <2> USE DEF o, b, d, size
  <2>5. further = [at   |-> o + BlockSize + Abstract!Round(Abstract!SizeIn(b, d)),
                   pend |-> [d EXCEPT ![b.type] = o]]
    BY SameBlocks DEF Further
  <2> HIDE DEF further
  <2> QED BY <2>4, <2>5 DEF Abstract!Results
<1>4. CASE ~(Abstract!WellFormed(b, o, d) /\ Abstract!Describes(b) /\ d[b.type] = None)
  BY <1>4 DEF Abstract!Results
<1> QED BY <1>3, <1>4

LEMMA UnfoldedAgree ==
  ASSUME TypeOK, NEW n \in Nat, NEW f, NEW g, Agree(f, g, n)
  PROVE  Agree(Unfolded(f), Unfolded(g), n + 1)
<1> SUFFICES ASSUME NEW place \in Places, Missing(place) < n + 1
             PROVE  Unfolded(f)[place] = Unfolded(g)[place]
  BY DEF Agree
<1>1. Abstract!Results(f, place) = Abstract!Results(g, place)
  BY ResultsAgree
<1> QED BY <1>1 DEF Unfolded

LEMMA AfterIs ==
  ASSUME TypeOK, NEW place \in Places
  PROVE  Abstract!After[place] = Abstract!Results(Abstract!After, place)
<1> DEFINE f0 == [p \in Places |-> {}]
           f1 == Unfolded(f0)
           f2 == Unfolded(f1)
           f3 == Unfolded(f2)
           f4 == Unfolded(f3)
           f5 == Unfolded(f4)
<1>1. \A p \in Places : 0 <= Missing(p) /\ Missing(p) < 4 /\ Missing(p) \in Int
  BY DEF Missing, Open
<1>2. Agree(f0, f1, 0)
  BY <1>1 DEF Agree
<1> HIDE DEF f0, f1, f2, f3, f4, f5
<1>3. Agree(f1, f2, 0 + 1)
  BY <1>2, UnfoldedAgree DEF f1, f2
<1>4. Agree(f2, f3, 1 + 1)
  BY <1>3, UnfoldedAgree DEF f2, f3
<1>5. Agree(f3, f4, 2 + 1)
  BY <1>4, UnfoldedAgree DEF f3, f4
<1>6. Agree(f4, f5, 3 + 1)
  BY <1>5, UnfoldedAgree DEF f4, f5
<1>7. \A p \in Places : f4[p] = f5[p]
  BY <1>1, <1>6 DEF Agree
<1>8. f4 = f5
  <2>1. f4 = [p \in Places |-> Abstract!Results(f3, p)]
    BY DEF f4, Unfolded
  <2>2. f5 = [p \in Places |-> Abstract!Results(f4, p)]
    BY DEF f5, Unfolded
  <2> QED BY <1>7, <2>1, <2>2
<1>9. f4 = [p \in Places |-> Abstract!Results(f4, p)]
  BY <1>8 DEF f5, Unfolded
<1>10. Places = Abstract!Places
  BY SameBlocks DEF Places, Abstract!Places
<1>11. \E f : f = [p \in Abstract!Places |-> Abstract!Results(f, p)]
  BY <1>9, <1>10
<1>12. Abstract!After = [p \in Abstract!Places |-> Abstract!Results(Abstract!After, p)]
  BY <1>11, Zenon DEF Abstract!After
<1> QED BY <1>10, <1>12

-----------------------------------------------------------------------------
(* What Listing finds at an offset.                                        *)

ZerosAt(o) == o + BlockSize <= stream.len /\ BlockAt(stream.blocks, o).kind = "zeros"

LEMMA ZerosAtIs ==
  ASSUME NEW o
  PROVE  /\ Abstract!IsZeros(o) <=> ZerosAt(o)
         /\ Abstract!Present(o) <=> o + BlockSize <= stream.len
BY SameBlocks DEF Abstract!IsZeros, Abstract!Present, ZerosAt

\* Zeros that are ignored are passed.
LEMMA AnswersPassZeros ==
  ASSUME TypeOK, NEW o \in Nat, NEW describing \in Pending, mode.zeros, ZerosAt(o)
  PROVE  Answers(o + BlockSize, describing) = Answers(o, describing)
<1> DEFINE p == [at |-> o, pend |-> describing]
           q == [at |-> o + BlockSize, pend |-> describing]
<1>1. p \in Places /\ q \in Places
  BY BlockSizeAssumption DEF Places
<1>2. Abstract!FirstFrom(p.at) = Abstract!FirstFrom(q.at) /\ p.pend = q.pend
  BY FirstFromNext, ZerosAtIs
<1> HIDE DEF p, q
<1>3. Abstract!Results(Abstract!After, p) = Abstract!Results(Abstract!After, q)
  BY <1>2 DEF Abstract!Results
<1>4. Abstract!After[p] = Abstract!After[q]
  BY <1>1, <1>3, AfterIs
<1> QED BY <1>4 DEF Answers, p, q

LEMMA AnswersRefused ==
  ASSUME TypeOK, NEW o \in Nat, NEW describing \in Pending, mode.seek, o > MaxI64
  PROVE  Abstract!Closed("malformed") \subseteq Answers(o, describing)
<1> DEFINE p == [at |-> o, pend |-> describing]
           first == Abstract!FirstFrom(p.at)
<1>1. p \in Places
  BY DEF Places
<1>2. first \in Nat /\ first > MaxI64
  BY FirstFromAfter, WidthAssumption
<1> HIDE DEF p, first
<1>3. Abstract!Refused(first) = Abstract!Closed("malformed")
  BY <1>2 DEF Abstract!Refused
<1>4. Abstract!Closed("malformed") \subseteq Abstract!Results(Abstract!After, p)
  BY <1>3 DEF Abstract!Results, first
<1> QED BY <1>1, <1>4, AfterIs DEF Answers, p

\* What is found at an offset where nothing is passed.
LEMMA AnswersHere ==
  ASSUME TypeOK, NEW o \in Nat, NEW describing \in Pending, ~mode.zeros \/ ~ZerosAt(o),
         NEW b, b = BlockAt(stream.blocks, o)
  PROVE  LET found == Answers(o, describing)
         IN  /\ o >= stream.len => Abstract!AtEnd(o, describing) \subseteq found
             /\ o < stream.len /\ ~(o + BlockSize <= stream.len)
                  => Abstract!Closed("malformed") \subseteq found
             /\ o < stream.len /\ ZerosAt(o)
                  => Abstract!Closed(IF describing = NoPend THEN "end" ELSE "malformed")
                       \subseteq found
             /\ o < stream.len /\ o + BlockSize <= stream.len /\ ~ZerosAt(o) =>
                  /\ ~Abstract!WellFormed(b, o, describing)
                       => Abstract!Closed("malformed") \subseteq found
                  /\ Abstract!WellFormed(b, o, describing) =>
                       /\ Abstract!IsSparse(b) /\ ~mode.raw
                            => Abstract!SparseItem(o, describing) \subseteq found
                       /\ ~(Abstract!IsSparse(b) /\ ~mode.raw) /\ ~Abstract!Describes(b)
                            => Abstract!PlainItem(o, describing) \subseteq found
                       /\ Abstract!Describes(b) =>
                            /\ describing[b.type] # None
                                 => Abstract!Closed("malformed") \subseteq found
                            /\ describing[b.type] = None
                                 => Abstract!After[Further(o, describing,
                                      Abstract!SizeIn(b, describing), b.type)] \subseteq found
<1> DEFINE p == [at |-> o, pend |-> describing]
           further == Further(o, describing, Abstract!SizeIn(b, describing), b.type)
<1>1. p \in Places /\ p.pend = describing
  BY DEF Places
<1>2. Abstract!FirstFrom(p.at) = o
  BY FirstFromHere, ZerosAtIs
<1> HIDE DEF p
<1>3. Answers(o, describing) = Abstract!Results(Abstract!After, p)
  BY <1>1, AfterIs DEF Answers, p
<1>4. Abstract!In(o) = b
  BY SameBlocks
<1>5. further = [at   |-> o + BlockSize + Abstract!Round(Abstract!SizeIn(b, describing)),
                 pend |-> [describing EXCEPT ![b.type] = o]]
  BY SameBlocks DEF Further
<1> HIDE DEF further
<1>6. ~(Abstract!Describes(b) /\ Abstract!IsSparse(b))
  BY DEF Abstract!Describes, Abstract!NoPend, Abstract!IsSparse
<1>7. NoPend = Abstract!NoPend
  BY SameBlocks
<1>8. Abstract!Results(Abstract!After, p) =
        Abstract!Refused(o) \cup
        IF o >= stream.len THEN Abstract!AtEnd(o, describing)
        ELSE IF ~(o + BlockSize <= stream.len) THEN Abstract!Closed("malformed")
        ELSE IF ZerosAt(o)
        THEN Abstract!Closed(IF describing = NoPend THEN "end" ELSE "malformed")
        ELSE IF ~Abstract!WellFormed(b, o, describing) THEN Abstract!Closed("malformed")
        ELSE IF Abstract!IsSparse(b) /\ ~mode.raw THEN Abstract!SparseItem(o, describing)
        ELSE IF ~Abstract!Describes(b) THEN Abstract!PlainItem(o, describing)
        ELSE IF describing[b.type] # None THEN Abstract!Closed("malformed")
        ELSE Abstract!After[further]
  BY <1>1, <1>2, <1>4, <1>5, <1>7, ZerosAtIs DEF Abstract!Results
<1>9. o \in Int /\ stream.len \in Int
  BY DEF TypeOK, U64
<1>10. ASSUME o >= stream.len
       PROVE  Abstract!AtEnd(o, describing) \subseteq Answers(o, describing)
  BY <1>3, <1>8, <1>10
<1>11. ASSUME o < stream.len, ~(o + BlockSize <= stream.len)
       PROVE  Abstract!Closed("malformed") \subseteq Answers(o, describing)
  BY <1>3, <1>8, <1>9, <1>11
<1>12. ASSUME o < stream.len, ZerosAt(o)
       PROVE  Abstract!Closed(IF describing = NoPend THEN "end" ELSE "malformed")
                \subseteq Answers(o, describing)
  <2>1. ~(o >= stream.len) /\ o + BlockSize <= stream.len
    BY <1>9, <1>12 DEF ZerosAt
  <2> QED BY <1>3, <1>8, <1>12, <2>1
<1>13. ASSUME o < stream.len, o + BlockSize <= stream.len, ~ZerosAt(o)
       PROVE  Answers(o, describing) =
                Abstract!Refused(o) \cup
                IF ~Abstract!WellFormed(b, o, describing) THEN Abstract!Closed("malformed")
                ELSE IF Abstract!IsSparse(b) /\ ~mode.raw THEN Abstract!SparseItem(o, describing)
                ELSE IF ~Abstract!Describes(b) THEN Abstract!PlainItem(o, describing)
                ELSE IF describing[b.type] # None THEN Abstract!Closed("malformed")
                ELSE Abstract!After[further]
  <2>1. ~(o >= stream.len)
    BY <1>9, <1>13
  <2> QED BY <1>3, <1>8, <1>13, <2>1
<1>14. ASSUME o < stream.len, o + BlockSize <= stream.len, ~ZerosAt(o),
              ~Abstract!WellFormed(b, o, describing)
       PROVE  Abstract!Closed("malformed") \subseteq Answers(o, describing)
  BY <1>13, <1>14
<1>15. ASSUME o < stream.len, o + BlockSize <= stream.len, ~ZerosAt(o),
              Abstract!WellFormed(b, o, describing), Abstract!IsSparse(b), ~mode.raw
       PROVE  Abstract!SparseItem(o, describing) \subseteq Answers(o, describing)
  BY <1>13, <1>15
<1>16. ASSUME o < stream.len, o + BlockSize <= stream.len, ~ZerosAt(o),
              Abstract!WellFormed(b, o, describing),
              ~(Abstract!IsSparse(b) /\ ~mode.raw), ~Abstract!Describes(b)
       PROVE  Abstract!PlainItem(o, describing) \subseteq Answers(o, describing)
  BY <1>13, <1>16
<1>17. ASSUME o < stream.len, o + BlockSize <= stream.len, ~ZerosAt(o),
              Abstract!WellFormed(b, o, describing), Abstract!Describes(b),
              describing[b.type] # None
       PROVE  Abstract!Closed("malformed") \subseteq Answers(o, describing)
  BY <1>6, <1>13, <1>17
<1>18. ASSUME o < stream.len, o + BlockSize <= stream.len, ~ZerosAt(o),
              Abstract!WellFormed(b, o, describing), Abstract!Describes(b),
              describing[b.type] = None
       PROVE  Abstract!After[further] \subseteq Answers(o, describing)
  BY <1>6, <1>13, <1>18
<1> QED BY <1>10, <1>11, <1>12, <1>14, <1>15, <1>16, <1>17, <1>18, Zenon DEF further

-----------------------------------------------------------------------------
(* The bytes of data before each slot of a map.                            *)

LEMMA BytesType ==
  ASSUME NEW slot \in Slot
  PROVE  Abstract!Bytes(slot) \in Nat
BY DEF Abstract!Bytes, Slot, Field, U64

\* used counts the bytes of data before each slot.
Counts(used, slots) ==
  /\ used \in [0..Len(slots) -> Nat] /\ used[0] = 0
  /\ \A i \in 1..Len(slots) : used[i] = used[i - 1] + Abstract!Bytes(slots[i])

LEMMA UsedCounts ==
  ASSUME NEW slots \in Seq(Slot)
  PROVE  Counts(Abstract!Used(slots), slots)
<1> DEFINE N == Len(slots)
           step == [i \in 1..N |-> [t \in Nat |-> t + Abstract!Bytes(slots[i])]]
           body(f) == [i \in 0..N |-> IF i = 0 THEN 0 ELSE f[i - 1] + Abstract!Bytes(slots[i])]
           g == Abstract!Used(slots)
<1>1. N \in Nat /\ \A i \in 1..N : Abstract!Bytes(slots[i]) \in Nat
  <2>1. \A i \in 1..N : slots[i] \in Slot
    BY ElementOfSeq
  <2> QED BY <2>1, BytesType, LenProperties
<1> HIDE DEF N
<1>2. step \in [1..N -> [Nat -> Nat]]
  BY <1>1
<1>3. PICK f : Iterates(f, Nat, step, 0, N)
  <2> HIDE DEF step
  <2> QED BY <1>1, <1>2, Iteration
<1>4. \A i \in 1..N : f[i] = f[i - 1] + Abstract!Bytes(slots[i])
  <2>1. \A i \in 1..N : i - 1 \in 0..N /\ f[i - 1] \in Nat
    BY <1>1, <1>3 DEF Iterates
  <2> QED BY <1>3, <2>1 DEF Iterates
<1>5. f = body(f)
  BY <1>3, <1>4 DEF Iterates
<1>6. g = body(g)
  <2>1. \E h : h = body(h)
    BY <1>5
  <2>2. g = CHOOSE h : h = body(h)
    BY DEF Abstract!Used, N
  <2> HIDE DEF body, g
  <2> QED BY <2>1, <2>2
<1> HIDE DEF g
<1>7. g[0] = 0 /\ \A i \in 1..N : g[i] = g[i - 1] + Abstract!Bytes(slots[i])
  BY <1>1, <1>6
<1> DEFINE S == {i \in Nat : i <= N => g[i] \in Nat}
<1>8. 0 \in S /\ \A i \in Nat : i \in S => i + 1 \in S
  <2>1. ASSUME NEW i \in Nat, i \in S, i + 1 <= N
        PROVE  g[i + 1] \in Nat
    <3>1. i + 1 \in 1..N /\ (i + 1) - 1 = i
      BY <2>1, <1>1
    <3>2. g[i] \in Nat
      BY <2>1, <1>1
    <3> QED BY <1>1, <1>7, <3>1, <3>2
  <2> QED BY <1>7, <2>1
<1>9. \A i \in 0..N : g[i] \in Nat
  <2>1. Nat \subseteq S
    <3> HIDE DEF S
    <3> QED BY <1>8, Induction
  <2> QED BY <1>1, <2>1
<1>10. g \in [0..N -> Nat]
  BY <1>6, <1>9
<1> QED BY <1>7, <1>10 DEF Counts, N, g

LEMMA UsedNext ==
  ASSUME NEW slots \in Seq(Slot), NEW m \in 0..(Len(slots) - 1)
  PROVE  /\ Abstract!Used(slots)[m] \in Nat
         /\ Abstract!Used(slots)[m + 1]
              = Abstract!Used(slots)[m] + Abstract!Bytes(slots[m + 1])
<1> DEFINE g == Abstract!Used(slots)
<1>1. Counts(g, slots) /\ Len(slots) \in Nat
  BY UsedCounts, LenProperties
<1> HIDE DEF g
<1>2. m \in 0..Len(slots) /\ m + 1 \in 1..Len(slots) /\ (m + 1) - 1 = m
  BY <1>1
<1> QED BY <1>1, <1>2 DEF Counts, g

\* The bytes before a slot depend on the slots before it.
LEMMA UsedSame ==
  ASSUME NEW s \in Seq(Slot), NEW t \in Seq(Slot), NEW m \in Nat,
         m <= Len(s), m <= Len(t), \A i \in 1..m : s[i] = t[i]
  PROVE  \A i \in 0..m : Abstract!Used(s)[i] = Abstract!Used(t)[i]
<1> DEFINE f == Abstract!Used(s)
           g == Abstract!Used(t)
           S == {i \in Nat : i <= m => f[i] = g[i]}
<1>1. Counts(f, s) /\ Counts(g, t) /\ Len(s) \in Nat /\ Len(t) \in Nat
  BY UsedCounts, LenProperties
<1> HIDE DEF f, g
<1>2. 0 \in S
  BY <1>1 DEF Counts
<1>3. ASSUME NEW i \in Nat, i \in S
      PROVE  i + 1 \in S
  <2> SUFFICES ASSUME i + 1 <= m PROVE f[i + 1] = g[i + 1]
    OBVIOUS
  <2>1. i + 1 \in 1..m /\ i + 1 \in 1..Len(s) /\ i + 1 \in 1..Len(t) /\ (i + 1) - 1 = i
    BY <1>1
  <2>2. f[i] = g[i] /\ s[i + 1] = t[i + 1]
    BY <1>3, <2>1
  <2> QED BY <1>1, <2>1, <2>2 DEF Counts
<1>4. Nat \subseteq S
  <2>1. \A i \in Nat : i \in S => i + 1 \in S
    BY <1>3
  <2> HIDE DEF S
  <2> QED BY <1>2, <2>1, Induction
<1>5. \A i \in 0..m : f[i] = g[i]
  BY <1>4
<1> QED BY <1>5 DEF f, g

LEMMA UsedGrows ==
  ASSUME NEW s \in Seq(Slot), NEW m \in 0..Len(s)
  PROVE  Abstract!Used(s)[m] <= Abstract!Used(s)[Len(s)]
<1> DEFINE f == Abstract!Used(s)
           N == Len(s)
           S == {i \in Nat : m + i <= N => f[m] <= f[m + i]}
<1>1. Counts(f, s) /\ N \in Nat /\ \A i \in 1..N : Abstract!Bytes(s[i]) \in Nat
  <2>1. \A i \in 1..N : s[i] \in Slot
    BY ElementOfSeq
  <2> QED BY <2>1, BytesType, UsedCounts, LenProperties
<1> HIDE DEF f
<1>2. \A i \in 0..N : f[i] \in Nat
  BY <1>1 DEF Counts
<1>3. 0 \in S
  BY <1>1, <1>2
<1>4. ASSUME NEW i \in Nat, i \in S
      PROVE  i + 1 \in S
  <2> SUFFICES ASSUME m + (i + 1) <= N PROVE f[m] <= f[m + (i + 1)]
    OBVIOUS
  <2>1. m + i \in 0..N /\ m \in 0..N /\ m + (i + 1) \in 1..N /\ (m + (i + 1)) - 1 = m + i
    BY <1>1
  <2>2. f[m] <= f[m + i]
    BY <1>1, <1>4, <2>1
  <2>3. f[m + (i + 1)] = f[m + i] + Abstract!Bytes(s[m + (i + 1)])
    BY <1>1, <2>1 DEF Counts
  <2> QED BY <1>1, <1>2, <2>1, <2>2, <2>3
<1>5. Nat \subseteq S
  <2>1. \A i \in Nat : i \in S => i + 1 \in S
    BY <1>4
  <2> HIDE DEF S
  <2> QED BY <1>3, <2>1, Induction
<1>6. N - m \in Nat /\ m + (N - m) = N
  BY <1>1
<1> QED BY <1>5, <1>6 DEF f

-----------------------------------------------------------------------------
(* Maps, slot by slot.                                                     *)

End(slot) == slot.offset + slot.length

\* Laid, with its pieces named by their indices.
Pieces(slots, m, real) ==
  \A i \in 1..m : slots[i] # None =>
    /\ slots[i].offset # Bad /\ slots[i].length # Bad
    /\ End(slots[i]) <= MaxU64 /\ End(slots[i]) <= real
    /\ slots[i].length # 0 => Abstract!Used(slots)[i - 1] % BlockSize = 0
Sorted(slots, m) ==
  \A i, j \in 1..m :
    slots[i] # None /\ slots[j] # None /\ i < j => End(slots[i]) <= slots[j].offset
Reaches(slots, m, real) == real = 0 \/ \E i \in 1..m : slots[i] # None /\ real = End(slots[i])

LEMMA LaidIs ==
  ASSUME NEW slots, NEW m, NEW size, NEW real
  PROVE  Abstract!Laid(slots, m, size, real) <=>
           /\ Pieces(slots, m, real) /\ Sorted(slots, m) /\ Reaches(slots, m, real)
           /\ Abstract!Used(slots)[m] = size
BY DEF Abstract!Laid, Abstract!EndOf, Pieces, Sorted, Reaches, End

\* A slot that is filled in, and the numbers in it.
LEMMA SlotType ==
  ASSUME NEW slots \in Seq(Slot), NEW i \in 1..Len(slots), slots[i] # None
  PROVE  slots[i] \in [offset : Field, length : Field]
<1>1. slots[i] \in Slot
  BY ElementOfSeq
<1> QED BY <1>1 DEF Slot

LEMMA LaidEnd ==
  ASSUME NEW slots \in Seq(Slot), NEW m \in 0..Len(slots), NEW size, NEW real,
         Abstract!Laid(slots, m, size, real)
  PROVE  real \in U64
<1>1. Pieces(slots, m, real) /\ Reaches(slots, m, real)
  BY LaidIs
<1>2. ASSUME NEW i \in 1..m, slots[i] # None
      PROVE  End(slots[i]) \in U64
  <2>1. i \in 1..Len(slots)
    BY LenProperties
  <2>2. slots[i] \in [offset : Field, length : Field]
    BY <1>2, <2>1, SlotType
  <2> QED BY <1>1, <1>2, <2>2 DEF Pieces, End, Field, U64
<1> QED BY <1>1, <1>2, WidthAssumption DEF Reaches, U64

\* An empty slot is passed over.
LEMMA LaidEmpty ==
  ASSUME NEW slots \in Seq(Slot), NEW m \in 0..(Len(slots) - 1), slots[m + 1] = None,
         NEW size, NEW real, Abstract!Laid(slots, m, size, real)
  PROVE  Abstract!Laid(slots, m + 1, size, real)
<1>1. /\ Pieces(slots, m, real) /\ Sorted(slots, m) /\ Reaches(slots, m, real)
      /\ Abstract!Used(slots)[m] = size
  BY LaidIs
<1>2. Len(slots) \in Nat
  BY LenProperties
<1>3. \A i \in 1..(m + 1) : i = m + 1 \/ i \in 1..m
  BY <1>2
<1>4. Abstract!Used(slots)[m + 1] = size
  BY <1>1, UsedNext DEF Abstract!Bytes
<1>5. Pieces(slots, m + 1, real)
  BY <1>1, <1>3 DEF Pieces
<1>6. Sorted(slots, m + 1)
  BY <1>1, <1>3 DEF Sorted
<1>7. Reaches(slots, m + 1, real)
  BY <1>1, <1>2 DEF Reaches
<1> QED BY <1>4, <1>5, <1>6, <1>7, LaidIs

\* Another piece goes on where the ones before it end.
LEMMA LaidNext ==
  ASSUME NEW slots \in Seq(Slot), NEW m \in 0..(Len(slots) - 1),
         NEW slot, slot = slots[m + 1], slot # None,
         NEW size, NEW real, Abstract!Laid(slots, m, size, real),
         slot.offset # Bad, slot.length # Bad, slot.length # 0 => size % BlockSize = 0,
         real <= slot.offset, End(slot) <= MaxU64
  PROVE  Abstract!Laid(slots, m + 1, size + slot.length, End(slot))
<1>1. /\ Pieces(slots, m, real) /\ Sorted(slots, m) /\ Reaches(slots, m, real)
      /\ Abstract!Used(slots)[m] = size
  BY LaidIs
<1>2. Len(slots) \in Nat /\ m + 1 \in 1..Len(slots) /\ m \in 0..Len(slots)
  BY LenProperties
<1>3. real \in Nat
  BY <1>2, LaidEnd DEF U64
<1>4. slot.offset \in Nat /\ slot.length \in Nat
  <2>1. slot \in [offset : Field, length : Field]
    BY <1>2, SlotType
  <2> QED BY <2>1 DEF Field, U64
<1>5. Abstract!Used(slots)[m + 1] = size + slot.length
  BY <1>1, UsedNext DEF Abstract!Bytes
<1>6. \A i \in 1..m : slots[i] # None => End(slots[i]) \in Int /\ End(slots[i]) <= real
  <2> TAKE i \in 1..m
  <2> HAVE slots[i] # None
  <2>1. i \in 1..Len(slots)
    BY <1>2
  <2>2. slots[i] \in [offset : Field, length : Field]
    BY <2>1, SlotType
  <2> QED BY <1>1, <2>2 DEF Pieces, End, Field, U64
<1>7. \A i \in 1..(m + 1) : i = m + 1 \/ i \in 1..m
  BY <1>2
<1>8. real <= End(slot) /\ End(slot) \in Nat
  BY <1>3, <1>4 DEF End
<1>9. Pieces(slots, m + 1, End(slot))
  <2> SUFFICES ASSUME NEW i \in 1..(m + 1), slots[i] # None
               PROVE  /\ slots[i].offset # Bad /\ slots[i].length # Bad
                      /\ End(slots[i]) <= MaxU64 /\ End(slots[i]) <= End(slot)
                      /\ slots[i].length # 0 => Abstract!Used(slots)[i - 1] % BlockSize = 0
    BY DEF Pieces
  <2>1. CASE i = m + 1
    <3>1. i - 1 = m
      BY <2>1
    <3> QED BY <1>1, <1>8, <2>1, <3>1
  <2>2. CASE i \in 1..m
    <3>1. End(slots[i]) <= End(slot)
      BY <1>3, <1>6, <1>8, <2>2
    <3> QED BY <1>1, <2>2, <3>1 DEF Pieces
  <2> QED BY <1>7, <2>1, <2>2
<1>10. Sorted(slots, m + 1)
  <2> SUFFICES ASSUME NEW i \in 1..(m + 1), NEW j \in 1..(m + 1),
                      slots[i] # None, slots[j] # None, i < j
               PROVE  End(slots[i]) <= slots[j].offset
    BY DEF Sorted
  <2>1. i \in 1..m
    OBVIOUS
  <2>2. CASE j = m + 1
    BY <1>3, <1>4, <1>6, <2>1, <2>2
  <2>3. CASE j \in 1..m
    BY <1>1, <2>1, <2>3 DEF Sorted
  <2> QED BY <1>7, <2>2, <2>3
<1>11. Reaches(slots, m + 1, End(slot))
  <2>1. m + 1 \in 1..(m + 1)
    OBVIOUS
  <2> QED BY <2>1 DEF Reaches
<1> QED BY <1>5, <1>9, <1>10, <1>11, LaidIs

\* The slots before a place are laid out whatever comes after them.
LEMMA LaidSame ==
  ASSUME NEW s \in Seq(Slot), NEW t \in Seq(Slot), NEW m \in Nat,
         m <= Len(s), m <= Len(t), \A i \in 1..m : s[i] = t[i],
         NEW size, NEW real, Abstract!Laid(s, m, size, real)
  PROVE  Abstract!Laid(t, m, size, real)
<1>1. /\ Pieces(s, m, real) /\ Sorted(s, m) /\ Reaches(s, m, real)
      /\ Abstract!Used(s)[m] = size
  BY LaidIs
<1>2. \A i \in 0..m : Abstract!Used(s)[i] = Abstract!Used(t)[i]
  BY UsedSame
<1>3. Pieces(t, m, real)
  <2>1. \A i \in 1..m : i - 1 \in 0..m
    OBVIOUS
  <2> QED BY <1>1, <1>2, <2>1 DEF Pieces
<1>4. Sorted(t, m)
  BY <1>1 DEF Sorted
<1>5. Reaches(t, m, real)
  BY <1>1 DEF Reaches
<1>6. Abstract!Used(t)[m] = size
  BY <1>1, <1>2
<1> QED BY <1>3, <1>4, <1>5, <1>6, LaidIs

\* Slots have one size and one end.
LEMMA LaidOnce ==
  ASSUME NEW slots \in Seq(Slot), NEW m \in 0..Len(slots), NEW size, NEW real,
         Abstract!Laid(slots, m, size, real), NEW size2, NEW real2,
         Abstract!Laid(slots, m, size2, real2)
  PROVE  size = size2 /\ real = real2
<1>1. /\ Pieces(slots, m, real) /\ Reaches(slots, m, real) /\ Abstract!Used(slots)[m] = size
      /\ Pieces(slots, m, real2) /\ Reaches(slots, m, real2) /\ Abstract!Used(slots)[m] = size2
  BY LaidIs
<1>2. real \in Nat /\ real2 \in Nat
  BY LaidEnd DEF U64
<1>3. real <= real2 /\ real2 <= real
  BY <1>1, <1>2 DEF Pieces, Reaches
<1> QED BY <1>1, <1>2, <1>3

\* A slot that does not go on where the ones before it end makes the map invalid, and so
\* does one with more data than there is.
LEMMA LaidRefused ==
  ASSUME NEW slots \in Seq(Slot), NEW m \in 0..(Len(slots) - 1),
         NEW slot, slot = slots[m + 1], slot # None,
         NEW used, NEW cur, Abstract!Laid(slots, m, used, cur), NEW size \in Nat,
         \/ slot.offset = Bad \/ slot.length = Bad
         \/ slot.length # 0 /\ used % BlockSize # 0
         \/ ~(cur <= slot.offset) \/ ~(End(slot) <= MaxU64)
         \/ ~(slot.length <= size - used),
         NEW real, Abstract!ValidMap(slots, size, real)
  PROVE  FALSE
<1>1. /\ Pieces(slots, m, cur) /\ Reaches(slots, m, cur) /\ Abstract!Used(slots)[m] = used
  BY LaidIs
<1>2. /\ Pieces(slots, Len(slots), real) /\ Sorted(slots, Len(slots))
      /\ Abstract!Used(slots)[Len(slots)] = size
  BY LaidIs DEF Abstract!ValidMap
<1>3. Len(slots) \in Nat /\ m + 1 \in 1..Len(slots) /\ m \in 0..Len(slots) /\ (m + 1) - 1 = m
  BY LenProperties
<1>4. slot.offset # Bad /\ slot.length # Bad /\ End(slot) <= MaxU64
      /\ (slot.length # 0 => used % BlockSize = 0)
  BY <1>1, <1>2, <1>3 DEF Pieces
<1>5. slot.offset \in Nat /\ slot.length \in Nat
  <2>1. slot \in [offset : Field, length : Field]
    BY <1>3, SlotType
  <2> QED BY <1>4, <2>1 DEF Field, U64
<1>6. cur <= slot.offset
  <2>1. CASE cur = 0
    BY <1>5, <2>1
  <2>2. CASE cur # 0
    <3>1. PICK i \in 1..m : slots[i] # None /\ cur = End(slots[i])
      BY <1>1, <2>2 DEF Reaches
    <3>2. i \in 1..Len(slots) /\ i < m + 1
      BY <1>3
    <3> QED BY <1>2, <1>3, <3>1, <3>2 DEF Sorted
  <2> QED BY <2>1, <2>2
<1>7. slot.length <= size - used
  <2>1. used \in Nat /\ Abstract!Used(slots)[m + 1] = used + slot.length
    BY <1>1, <1>4, UsedNext DEF Abstract!Bytes
  <2>2. Abstract!Used(slots)[m + 1] <= size
    BY <1>2, <1>3, UsedGrows
  <2> QED BY <1>5, <2>1, <2>2
<1> QED BY <1>4, <1>6, <1>7

-----------------------------------------------------------------------------
(* The blocks of a sparse map.                                             *)

MapAt(o, n) == MapOf(BlockAt(stream.blocks, o + n * BlockSize))

LEMMA MapAtType ==
  ASSUME TypeOK, NEW o \in Nat, NEW n \in Nat
  PROVE  MapAt(o, n) \in Seq(Slot) /\ BlockAt(stream.blocks, o).map \in Seq(Slot)
<1>1. o + n * BlockSize \in Int
  BY BlockSizeAssumption
<1>2. BlockAt(stream.blocks, o + n * BlockSize) \in Block /\ BlockAt(stream.blocks, o) \in Block
  BY <1>1, BlockAtType DEF TypeOK
<1> QED BY <1>2, MapOfType DEF MapAt, Block

\* maps has the slots of the header and of the first blocks behind it.
Strung(maps, o, n) ==
  /\ maps \in [0..n -> Seq(Slot)] /\ maps[0] = BlockAt(stream.blocks, o).map
  /\ \A m \in 1..n : maps[m] = maps[m - 1] \o MapAt(o, m)

LEMMA StrungExists ==
  ASSUME TypeOK, NEW o \in Nat, NEW n \in Nat
  PROVE  \E maps : Strung(maps, o, n)
<1> DEFINE W == Seq(Slot)
           step == [m \in 1..n |-> [t \in W |-> t \o MapAt(o, m)]]
           base == BlockAt(stream.blocks, o).map
<1>1. \A m \in 1..n : MapAt(o, m) \in W
  BY MapAtType
<1>2. base \in W
  BY MapAtType
<1>3. \A t, u \in W : t \o u \in W
  BY ConcatProperties
<1> HIDE DEF W
<1>4. step \in [1..n -> [W -> W]]
  BY <1>1, <1>3
<1>5. PICK f : Iterates(f, W, step, base, n)
  <2> HIDE DEF step, base
  <2> QED BY <1>2, <1>4, Iteration
<1>6. ASSUME NEW m \in 1..n
      PROVE  f[m] = f[m - 1] \o MapAt(o, m)
  <2> HIDE DEF step, base
  <2>1. m - 1 \in 0..n
    OBVIOUS
  <2>2. f[m] = step[m][f[m - 1]] /\ f[m - 1] \in W
    BY <1>5, <2>1 DEF Iterates
  <2> USE DEF step
  <2> QED BY <2>2
<1>7. f \in [0..n -> W] /\ f[0] = base
  BY <1>5 DEF Iterates
<1> QED BY <1>6, <1>7 DEF Strung, W

LEMMA SlotsAre ==
  ASSUME TypeOK, NEW o \in Nat, NEW n \in Nat, NEW maps, Strung(maps, o, n)
  PROVE  Abstract!Slots(o, n) = maps[n]
<1> DEFINE body(f) == [m \in 0..n |-> IF m = 0 THEN BlockAt(stream.blocks, o).map
                                      ELSE f[m - 1] \o MapAt(o, m)]
           g == CHOOSE f : f = body(f)
           S == {m \in Nat : m <= n => g[m] = maps[m]}
<1>1. Abstract!Slots(o, n) = g[n]
  BY SameBlocks DEF Abstract!Slots, MapAt
<1>2. g = body(g)
  <2>1. \E f : f = body(f)
    <3>1. \A m \in 0..n : m = 0 \/ m \in 1..n
      OBVIOUS
    <3>2. \A m \in 0..n : maps[m] = IF m = 0 THEN BlockAt(stream.blocks, o).map
                                    ELSE maps[m - 1] \o MapAt(o, m)
      BY <3>1 DEF Strung
    <3>3. maps = [m \in 0..n |-> maps[m]]
      BY DEF Strung
    <3>4. maps = body(maps)
      BY <3>2, <3>3
    <3> QED BY <3>4
  <2> HIDE DEF body
  <2> QED BY <2>1
<1> HIDE DEF g
<1>3. g[0] = maps[0] /\ \A m \in 1..n : g[m] = g[m - 1] \o MapAt(o, m)
  <2>1. g[0] = BlockAt(stream.blocks, o).map
    <3>1. 0 \in 0..n
      OBVIOUS
    <3> QED BY <1>2, <3>1
  <2>2. \A m \in 1..n : m \in 0..n /\ m # 0
    OBVIOUS
  <2>3. \A m \in 1..n : g[m] = g[m - 1] \o MapAt(o, m)
    BY <1>2, <2>2
  <2> QED BY <2>1, <2>3 DEF Strung
<1>4. 0 \in S /\ \A m \in Nat : m \in S => m + 1 \in S
  <2>1. ASSUME NEW m \in Nat, m \in S, m + 1 <= n
        PROVE  g[m + 1] = maps[m + 1]
    <3>1. m + 1 \in 1..n /\ (m + 1) - 1 = m /\ g[m] = maps[m]
      BY <2>1
    <3>2. g[m + 1] = g[m] \o MapAt(o, m + 1)
      BY <1>3, <3>1
    <3>3. maps[m + 1] = maps[m] \o MapAt(o, m + 1)
      BY <3>1 DEF Strung
    <3> QED BY <3>1, <3>2, <3>3
  <2> QED BY <1>3, <2>1
<1>5. n \in S
  <2> HIDE DEF S
  <2> QED BY <1>4, Induction
<1> QED BY <1>1, <1>5

LEMMA StrungPart ==
  ASSUME NEW o, NEW n \in Nat, NEW m \in 0..n, NEW maps, Strung(maps, o, n)
  PROVE  Strung([i \in 0..m |-> maps[i]], o, m)
<1> DEFINE g == [i \in 0..m |-> maps[i]]
<1>1. g \in [0..m -> Seq(Slot)] /\ g[0] = BlockAt(stream.blocks, o).map
  BY DEF Strung
<1>2. ASSUME NEW i \in 1..m
      PROVE  g[i] = g[i - 1] \o MapAt(o, i)
  <2>1. i \in 1..n /\ i - 1 \in 0..m /\ i \in 0..m
    OBVIOUS
  <2> QED BY <2>1 DEF Strung
<1> HIDE DEF g
<1>3. Strung(g, o, m)
  BY <1>1, <1>2 DEF Strung
<1> QED BY <1>3 DEF g

LEMMA SlotsType ==
  ASSUME TypeOK, NEW o \in Nat, NEW n \in Nat
  PROVE  /\ Abstract!Slots(o, n) \in Seq(Slot)
         /\ n = 0 => Abstract!Slots(o, n) = BlockAt(stream.blocks, o).map
<1>1. PICK maps : Strung(maps, o, n)
  BY StrungExists
<1>2. Abstract!Slots(o, n) = maps[n]
  BY <1>1, SlotsAre
<1> QED BY <1>1, <1>2 DEF Strung

LEMMA SlotsNext ==
  ASSUME TypeOK, NEW o \in Nat, NEW n \in Nat
  PROVE  Abstract!Slots(o, n + 1) = Abstract!Slots(o, n) \o MapAt(o, n + 1)
<1>1. PICK maps : Strung(maps, o, n + 1)
  BY StrungExists
<1>2. Abstract!Slots(o, n + 1) = maps[n + 1]
  BY <1>1, SlotsAre
<1> DEFINE part == [i \in 0..n |-> maps[i]]
<1>3. Strung(part, o, n) /\ part[n] = maps[n]
  BY <1>1, StrungPart
<1> HIDE DEF part
<1>4. Abstract!Slots(o, n) = maps[n]
  BY <1>3, SlotsAre
<1>5. n + 1 \in 1..(n + 1) /\ (n + 1) - 1 = n
  OBVIOUS
<1>6. maps[n + 1] = maps[n] \o MapAt(o, n + 1)
  BY <1>1, <1>5 DEF Strung
<1> QED BY <1>2, <1>4, <1>6

\* One sequence begins with another.
Begins(s, t) == Len(s) <= Len(t) /\ \A i \in 1..Len(s) : s[i] = t[i]

LEMMA BeginsJoined ==
  ASSUME NEW s \in Seq(Slot), NEW t \in Seq(Slot), NEW u \in Seq(Slot), Begins(s, t),
         NEW v, v = t \o u
  PROVE  Begins(s, v)
<1>1. /\ Len(v) = Len(t) + Len(u)
      /\ \A i \in 1..(Len(t) + Len(u)) : v[i] = IF i <= Len(t) THEN t[i] ELSE u[i - Len(t)]
  BY Joined
<1>2. Len(s) \in Nat /\ Len(t) \in Nat /\ Len(u) \in Nat
  BY LenProperties
<1> QED BY <1>1, <1>2 DEF Begins

\* More blocks add slots at the end.
LEMMA SlotsBegin ==
  ASSUME TypeOK, NEW o \in Nat, NEW k \in Nat, NEW n \in Nat, k <= n
  PROVE  Begins(Abstract!Slots(o, k), Abstract!Slots(o, n))
<1> DEFINE S == {i \in Nat : Begins(Abstract!Slots(o, k), Abstract!Slots(o, k + i))}
<1>1. 0 \in S
  <2>1. Abstract!Slots(o, k) \in Seq(Slot) /\ k + 0 = k
    BY SlotsType
  <2>2. Len(Abstract!Slots(o, k)) \in Nat
    BY <2>1, LenProperties
  <2> QED BY <2>1, <2>2 DEF Begins
<1>2. ASSUME NEW i \in Nat, i \in S
      PROVE  i + 1 \in S
  <2>1. k + i \in Nat /\ k + (i + 1) = (k + i) + 1 /\ (k + i) + 1 \in Nat
    OBVIOUS
  <2>2. Abstract!Slots(o, k + (i + 1)) = Abstract!Slots(o, k + i) \o MapAt(o, (k + i) + 1)
    BY <2>1, SlotsNext
  <2>3. /\ Abstract!Slots(o, k) \in Seq(Slot) /\ Abstract!Slots(o, k + i) \in Seq(Slot)
        /\ MapAt(o, (k + i) + 1) \in Seq(Slot)
    BY <2>1, SlotsType, MapAtType
  <2>4. Begins(Abstract!Slots(o, k), Abstract!Slots(o, k + i))
    BY <1>2
  <2>5. Begins(Abstract!Slots(o, k), Abstract!Slots(o, k + (i + 1)))
    BY <2>2, <2>3, <2>4, BeginsJoined
  <2> QED BY <2>5
<1>3. n - k \in Nat /\ k + (n - k) = n
  OBVIOUS
<1>4. n - k \in S
  <2>1. \A i \in Nat : i \in S => i + 1 \in S
    BY <1>2
  <2> HIDE DEF S
  <2> QED BY <1>1, <1>3, <2>1, Induction
<1> QED BY <1>3, <1>4

LEMMA ChainIs ==
  ASSUME NEW o, NEW n
  PROVE  n \in Abstract!Chains(o) <=>
           /\ n \in 0..Len(stream.blocks) /\ o + n * BlockSize + BlockSize <= stream.len
           /\ ~BlockAt(stream.blocks, o + n * BlockSize).extended
           /\ \A m \in 0..(n - 1) : BlockAt(stream.blocks, o + m * BlockSize).extended
BY SameBlocks DEF Abstract!Chains, Abstract!Present

\* A chain of extension blocks goes on as long as they say, and no further.
LEMMA ChainFrom ==
  ASSUME NEW o, NEW k \in Nat, NEW n \in Abstract!Chains(o),
         \A m \in 0..(k - 1) : BlockAt(stream.blocks, o + m * BlockSize).extended
  PROVE  /\ n \in Nat /\ k <= n
         /\ BlockAt(stream.blocks, o + k * BlockSize).extended => k + 1 <= n
         /\ ~BlockAt(stream.blocks, o + k * BlockSize).extended => n = k
<1>1. /\ n \in Nat /\ ~BlockAt(stream.blocks, o + n * BlockSize).extended
      /\ \A m \in 0..(n - 1) : BlockAt(stream.blocks, o + m * BlockSize).extended
  BY ChainIs
<1>2. k <= n
  <2> SUFFICES ASSUME n < k PROVE FALSE
    BY <1>1
  <2>1. n \in 0..(k - 1)
    BY <1>1
  <2> QED BY <1>1, <2>1
<1>3. k # n => k \in 0..(n - 1)
  BY <1>1, <1>2
<1> QED BY <1>1, <1>2, <1>3

LEMMA SparseRefused ==
  ASSUME NEW o, NEW describing, NEW b, b = BlockAt(stream.blocks, o),
         NEW size, size = Abstract!SizeIn(b, describing),
         \A n \in Abstract!Chains(o) :
           ~(b.format = "gnu" /\ Abstract!ValidMap(Abstract!Slots(o, n), size, b.real))
  PROVE  Abstract!SparseItem(o, describing) = Abstract!Closed("malformed")
<1>1. Abstract!In(o) = b
  BY SameBlocks
<1> DEFINE good == {n \in Abstract!Chains(o) :
                      /\ b.format = "gnu"
                      /\ Abstract!ValidMap(Abstract!Slots(o, n), size, b.real)
                      /\ o + BlockSize * (n + 1) + Abstract!Round(size) <= MaxU64}
<1>2. good = {}
  OBVIOUS
<1> QED BY <1>1, <1>2 DEF Abstract!SparseItem

\* A member as it is returned.
Listed(o, size, describing, extensions, end) ==
  [outcome |-> "open",
   item    |-> [headerPos |-> o, header |-> BlockAt(stream.blocks, o), size |-> size,
                pend |-> describing, start |-> o + (1 + extensions) * BlockSize, end |-> end]]

LEMMA SparseTaken ==
  ASSUME NEW o, NEW describing, NEW b, b = BlockAt(stream.blocks, o),
         NEW size, size = Abstract!SizeIn(b, describing),
         NEW n \in Abstract!Chains(o), b.format = "gnu",
         Abstract!ValidMap(Abstract!Slots(o, n), size, b.real),
         o + BlockSize * (n + 1) + Round(size) <= MaxU64
  PROVE  Listed(o, b.real, describing, n, o + BlockSize * (n + 1) + Round(size))
           \in Abstract!SparseItem(o, describing)
<1>1. Abstract!In(o) = b /\ Abstract!Round(size) = Round(size)
  BY SameBlocks
<1> DEFINE good == {i \in Abstract!Chains(o) :
                      /\ b.format = "gnu"
                      /\ Abstract!ValidMap(Abstract!Slots(o, i), size, b.real)
                      /\ o + BlockSize * (i + 1) + Abstract!Round(size) <= MaxU64}
           item(i) == Abstract!Item(o, b.real, describing, i,
                                    o + BlockSize * (i + 1) + Abstract!Round(size))
<1>2. n \in good
  BY <1>1
<1>3. Abstract!SparseItem(o, describing) = {item(i) : i \in good}
  BY <1>1, <1>2 DEF Abstract!SparseItem
<1> HIDE DEF good, item
<1>4. item(n) \in Abstract!SparseItem(o, describing)
  BY <1>2, <1>3
<1>5. item(n) = Listed(o, b.real, describing, n, o + BlockSize * (n + 1) + Round(size))
  BY <1>1 DEF item, Listed, Abstract!Item
<1> QED BY <1>4, <1>5

\* A plain member has no extension blocks, in any mode that does not take them for headers.
LEMMA PlainTaken ==
  ASSUME TypeOK, NEW o \in Nat, NEW describing, NEW b, b = BlockAt(stream.blocks, o),
         NEW size \in U64, size = Abstract!SizeIn(b, describing),
         Abstract!IsSparse(b) => ~b.extended,
         o + BlockSize <= stream.len
  PROVE  Listed(o, size, describing, 0, o + BlockSize + Round(size))
           \in Abstract!PlainItem(o, describing)
<1> USE BlockSizeAssumption
<1>1. Abstract!In(o) = b /\ Abstract!Round(size) = Round(size) /\ Round(size) \in Nat
  BY SameBlocks, RoundBounds DEF U64
<1> DEFINE more == {n \in Abstract!Chains(o) : Abstract!IsSparse(b)}
           count == IF more = {} THEN 0 ELSE CHOOSE n \in more : TRUE
           end == o + BlockSize + Round(size) + BlockSize * count
<1>2. ASSUME NEW n \in more
      PROVE  n = 0
  <2>1. ~b.extended /\ o + 0 * BlockSize = o
    OBVIOUS
  <2>2. \A m \in 0..(0 - 1) : BlockAt(stream.blocks, o + m * BlockSize).extended
    OBVIOUS
  <2> QED BY <2>1, <2>2, ChainFrom
<1>3. count = 0
  <2>1. CASE more = {}
    BY <2>1
  <2>2. CASE more # {}
    <3>1. count \in more
      BY <2>2
    <3> QED BY <1>2, <3>1
  <2> QED BY <2>1, <2>2
<1>4. Abstract!PlainItem(o, describing) = {Abstract!Item(o, size, describing, 0, end)}
  BY <1>1 DEF Abstract!PlainItem
<1> HIDE DEF count
<1>5. end = o + BlockSize + Round(size)
  BY <1>1, <1>3
<1> HIDE DEF end
<1>6. Abstract!Item(o, size, describing, 0, end)
        = Listed(o, size, describing, 0, o + BlockSize + Round(size))
  BY <1>1, <1>5 DEF Listed, Abstract!Item
<1> QED BY <1>4, <1>6

-----------------------------------------------------------------------------
(* What Listing finds does not change while the archive and the mode do    *)
(* not.                                                                    *)

LEMMA SteadyFinds ==
  ASSUME stream' = stream, mode' = mode, NEW f, NEW place
  PROVE  Abstract!Results(f, place)' = Abstract!Results(f, place)
<1>1. \A o : Abstract!In(o)' = Abstract!In(o)
  BY DEF Abstract!In, Abstract!BlockAt, Abstract!Other
<1>2. \A o : /\ Abstract!Present(o)' <=> Abstract!Present(o)
             /\ Abstract!IsZeros(o)' <=> Abstract!IsZeros(o)
  BY <1>1 DEF Abstract!Present, Abstract!IsZeros
<1>3. \A o : Abstract!FirstFrom(o)' = Abstract!FirstFrom(o)
  BY DEF Abstract!FirstFrom, Abstract!IsZeros, Abstract!Present, Abstract!In,
         Abstract!BlockAt, Abstract!Other
<1>4. \A o : Abstract!Chains(o)' = Abstract!Chains(o)
  BY DEF Abstract!Chains, Abstract!Present, Abstract!In, Abstract!BlockAt, Abstract!Other
<1>5. \A o, n : Abstract!Slots(o, n)' = Abstract!Slots(o, n)
  BY DEF Abstract!Slots, Abstract!In, Abstract!BlockAt, Abstract!Other, Abstract!MapOf
<1>6. \A b, d : Abstract!SizeIn(b, d)' = Abstract!SizeIn(b, d)
  BY <1>1 DEF Abstract!SizeIn
<1>7. \A b, o, d : Abstract!WellFormed(b, o, d)' <=> Abstract!WellFormed(b, o, d)
  BY <1>6 DEF Abstract!WellFormed
<1>8. \A b : /\ Abstract!Describes(b)' <=> Abstract!Describes(b)
             /\ Abstract!IsSparse(b)' <=> Abstract!IsSparse(b)
  BY DEF Abstract!Describes, Abstract!IsSparse
<1>9. \A o, size, d, n, end : Abstract!Item(o, size, d, n, end)' = Abstract!Item(o, size, d, n, end)
  BY <1>1 DEF Abstract!Item
<1>10. \A o, d : Abstract!PlainItem(o, d)' = Abstract!PlainItem(o, d)
  BY <1>1, <1>4, <1>6, <1>8, <1>9 DEF Abstract!PlainItem
<1>11. \A o, d : Abstract!SparseItem(o, d)' = Abstract!SparseItem(o, d)
  BY <1>1, <1>4, <1>5, <1>6, <1>9 DEF Abstract!SparseItem
<1>12. \A o, d : /\ Abstract!AtEnd(o, d)' = Abstract!AtEnd(o, d)
                 /\ Abstract!Refused(o)' = Abstract!Refused(o)
  BY DEF Abstract!AtEnd, Abstract!Refused
<1> QED BY <1>1, <1>2, <1>3, <1>6, <1>7, <1>8, <1>10, <1>11, <1>12 DEF Abstract!Results

LEMMA Steady ==
  ASSUME stream' = stream, mode' = mode
  PROVE  /\ Abstract!After' = Abstract!After
         /\ \A o, n : Abstract!Slots(o, n)' = Abstract!Slots(o, n)
         /\ \A b, o, d : Abstract!WellFormed(b, o, d)' <=> Abstract!WellFormed(b, o, d)
<1>1. \A f, place : Abstract!Results(f, place)' = Abstract!Results(f, place)
  BY SteadyFinds
<1>2. Abstract!After' = Abstract!After
  BY <1>1 DEF Abstract!After, Abstract!Places
<1>3. \A o, n : Abstract!Slots(o, n)' = Abstract!Slots(o, n)
  BY DEF Abstract!Slots, Abstract!In, Abstract!BlockAt, Abstract!Other, Abstract!MapOf
<1>4. \A b, o, d : Abstract!WellFormed(b, o, d)' <=> Abstract!WellFormed(b, o, d)
  BY DEF Abstract!WellFormed, Abstract!SizeIn, Abstract!In, Abstract!BlockAt, Abstract!Other
<1> QED BY <1>2, <1>3, <1>4

\* Where the last member listed ends.
Behind == IF entries = <<>> THEN 0 ELSE entries[Len(entries)].end

LEMMA BehindIs ==
  ASSUME NEW es \in Seq(Entry),
         NEW listed, listed = [i \in DOMAIN es |-> Seen(es[i])]
  PROVE  (IF listed = <<>> THEN 0 ELSE Abstract!Last(listed).end)
           = IF es = <<>> THEN 0 ELSE es[Len(es)].end
<1>1. DOMAIN es = 1..Len(es) /\ Len(es) \in Nat
  BY LenProperties
<1>2. listed \in Seq({Seen(es[i]) : i \in DOMAIN es}) /\ Len(listed) = Len(es)
  BY <1>1
<1>3. CASE es = <<>>
  <2>1. listed = <<>>
    BY <1>3
  <2> QED BY <1>3, <2>1
<1>4. CASE es # <<>>
  <2>1. Len(es) \in DOMAIN es /\ Len(es) # 0
    BY <1>1, <1>4, EmptySeq
  <2>2. listed # <<>>
    BY <1>2, <2>1
  <2>3. Abstract!Last(listed) = Seen(es[Len(es)])
    BY <1>2, <2>1 DEF Abstract!Last
  <2>4. Abstract!Last(listed).end = es[Len(es)].end
    BY <2>3 DEF Seen
  <2> QED BY <1>4, <2>2, <2>4
<1> QED BY <1>3, <1>4

LEMMA HereIs ==
  /\ entries \in Seq(Entry) => Abstract!Here = Behind
  /\ entries' \in Seq(Entry) => Abstract!Here' = Behind'
<1>1. ASSUME entries \in Seq(Entry) PROVE Abstract!Here = Behind
  BY <1>1, BehindIs DEF Abstract!Here, Behind
<1>2. ASSUME entries' \in Seq(Entry) PROVE Abstract!Here' = Behind'
  BY <1>2, BehindIs DEF Abstract!Here, Behind
<1> QED BY <1>1, <1>2

LEMMA DueSteady ==
  ASSUME TypeOK, stream' = stream, mode' = mode, entries' = entries
  PROVE  Due' = Due /\ Abstract!Here' = Abstract!Here /\ Abstract!After' = Abstract!After
<1>1. entries \in Seq(Entry)
  BY DEF TypeOK
<1>2. Abstract!Here' = Abstract!Here
  BY <1>1, HereIs DEF Behind
<1>3. Abstract!After' = Abstract!After
  BY Steady
<1>4. Due' = Due
  BY <1>2, <1>3 DEF Due, Answers
<1> QED BY <1>2, <1>3, <1>4

-----------------------------------------------------------------------------
(* The invariant, first where a call ends.                                 *)

USE DEF FramingInv, Positions

LEMMA ListingInit ==
  ASSUME Init
  PROVE  ListingInv
<1>1. entries = <<>> /\ pc = "idle" /\ next = 0 /\ done = FALSE /\ outcome = "open"
  BY DEF Init
<1>2. Abstract!Here = 0
  BY <1>1, HereIs DEF Behind
<1>3. Reached
  <2>1. stream.len \in U64 /\ rd = 0
    BY StreamsAssumption DEF Init
  <2> QED BY <1>1, <2>1 DEF Reached, U64
<1>4. Resting
  BY <1>1, <1>2 DEF Resting, Calling
<1>5. Looking /\ Taken
  BY <1>1 DEF Looking, Taken
<1> QED BY <1>3, <1>4, <1>5 DEF ListingInv

LEMMA ListingFinish ==
  ASSUME TypeOK, ListingInv, NEW r \in {"end", "malformed", "io"}, Finish(r)
  PROVE  ListingInv'
<1> USE DEF Finish, Return, reader, client
<1>1. Reached'
  BY DEF ListingInv, Reached
<1>2. Resting'
  BY DEF Resting, Calling
<1>3. Looking' /\ Taken'
  BY DEF Looking, Taken
<1> QED BY <1>1, <1>2, <1>3 DEF ListingInv

LEMMA ListingPanic ==
  ASSUME ListingInv, Panic
  PROVE  ListingInv'
<1> USE DEF Panic, reader, call, client
<1>1. Reached'
  BY DEF ListingInv, Reached
<1>2. Resting' /\ Looking' /\ Taken'
  BY DEF Resting, Calling, Looking, Taken
<1> QED BY <1>1, <1>2 DEF ListingInv

LEMMA ListingDeliver ==
  ASSUME TypeOK, entries' \in Seq(Entry), ListingInv, pc \in {"classify", "map"},
         NEW e \in Entry, Deliver(e)
  PROVE  ListingInv'
<1> USE DEF Deliver, Return, reader
<1> DEFINE d == [e EXCEPT !.start = rd, !.end = next]
<1>1. Reached'
  BY DEF ListingInv, Reached
<1>2. outcome' = "open" /\ done' = FALSE /\ pc' = "idle" /\ next' = next
  BY DEF ListingInv, Resting, Calling
<1>3. Abstract!Here' = next
  <2>1. entries \in Seq(Entry) /\ entries' = Append(entries, d) /\ d.end = next
    BY DEF TypeOK, Entry
  <2> HIDE DEF d
  <2>2. entries' # <<>> /\ entries'[Len(entries')] = d
    BY <2>1
  <2>3. Behind' = next
    BY <2>1, <2>2 DEF Behind
  <2> QED BY <2>3, HereIs
<1>4. Resting'
  BY <1>2, <1>3 DEF Resting, Calling
<1>5. Looking' /\ Taken'
  BY <1>2 DEF Looking, Taken
<1> QED BY <1>1, <1>4, <1>5 DEF ListingInv

-----------------------------------------------------------------------------
(* Going to the next header.                                               *)

\* A step of a call that finds nothing yet.
LEMMA ListingGoes ==
  ASSUME TypeOK, ListingInv, stream' = stream, mode' = mode, entries' = entries,
         pc \in {"seek", "skip", "header"}, pc' \in {"seek", "skip", "header"},
         next' = next, pend' = pend, done' = done, outcome' = outcome, Reached'
  PROVE  ListingInv'
<1>1. Looking'
  BY DueSteady DEF ListingInv, Looking, Answers
<1>2. Resting' /\ Taken'
  BY DueSteady DEF ListingInv, Resting, Calling, Taken
<1> QED BY <1>1, <1>2 DEF ListingInv

LEMMA ListingSkips ==
  ASSUME FramingInv, Checked, ListingInv, StartSkip \/ Seek \/ SkipDone
  PROVE  ListingInv'
<1> USE DEF reader, client, call
<1>1. mode.checks /\ rd = pos /\ rd \in Nat /\ next \in Nat /\ MaxU64 \in Nat
  BY WidthAssumption DEF TypeOK, U64
<1>2. CASE StartSkip
  <2>1. rd + amt' = next /\ rd' = rd
    BY <1>1, <1>2 DEF StartSkip, Delta
  <2>2. Reached'
    BY <1>2, <2>1 DEF ListingInv, Reached, StartSkip
  <2> QED BY <1>2, <2>2, ListingGoes DEF StartSkip
<1>3. CASE Seek
  <2>1. rd' \in Nat /\ rd' >= rd
    BY <1>1, <1>3 DEF Seek, Delta
  <2>2. Reached'
    BY <1>1, <1>3, <2>1, BlockSizeAssumption DEF ListingInv, Reached, Seek
  <2> QED BY <1>3, <2>2, ListingGoes DEF Seek
<1>4. CASE SkipDone
  <2>1. Reached'
    BY <1>4, BlockSizeAssumption DEF ListingInv, Reached, SkipDone
  <2> QED BY <1>4, <2>1, ListingGoes DEF SkipDone
<1> QED BY <1>2, <1>3, <1>4

\* Zeros that are ignored.
LEMMA BlockReadIs ==
  ASSUME FramingInv, ListingInv, pc = "header", amt = 0
  PROVE  /\ BlockRead = BlockAt(stream.blocks, next) /\ BlockRead \in Block
         /\ next + BlockSize <= stream.len /\ rd = next + BlockSize /\ headerPos = next
         /\ next < stream.len
<1>1. rd = next + BlockSize /\ headerPos = next /\ next \in Nat /\ stream.len \in Nat
  BY BlockSizeAssumption DEF TypeOK, U64
<1>2. rd <= stream.len
  BY BlockSizeAssumption DEF ListingInv, Reached
<1>3. rd - BlockSize = next
  BY <1>1, BlockSizeAssumption
<1>4. BlockRead = BlockAt(stream.blocks, next)
  BY <1>3 DEF BlockRead
<1>5. BlockRead \in Block
  BY <1>1, <1>4, BlockAtType DEF TypeOK
<1> QED BY <1>1, <1>2, <1>4, <1>5, BlockSizeAssumption

LEMMA ListingPassesZeros ==
  ASSUME FramingInv, ListingInv, ZeroSkip
  PROVE  ListingInv'
<1> USE DEF reader, client, call
<1>1. pc = "header" /\ amt = 0 /\ BlockRead.kind = "zeros" /\ mode.zeros
  BY DEF ZeroSkip
<1>2. ZerosAt(next)
  BY <1>1, BlockReadIs DEF ZerosAt
<1>3. next \in Nat /\ pend \in Pending /\ TypeOK
  BY DEF TypeOK, U64
<1>4. Answers(next + BlockSize, pend) = Answers(next, pend)
  BY <1>1, <1>2, <1>3, AnswersPassZeros
<1>5. /\ stream' = stream /\ mode' = mode /\ entries' = entries /\ pend' = pend
      /\ next' = next + BlockSize /\ pc' = "seek" /\ done' = done /\ outcome' = outcome
      /\ rd' = rd /\ amt' = amt
  BY DEF ZeroSkip
<1>6. Due' = Due /\ Abstract!After' = Abstract!After
  BY <1>3, <1>5, DueSteady
<1>7. Looking'
  BY <1>1, <1>4, <1>5, <1>6 DEF ListingInv, Looking, Answers
<1>8. Reached'
  BY <1>1, <1>5 DEF ListingInv, Reached
<1>9. Resting' /\ Taken'
  BY <1>1, <1>5 DEF ListingInv, Resting, Calling, Taken
<1> QED BY <1>7, <1>8, <1>9 DEF ListingInv

\* A header is valid where Listing finds it well formed, and has the size Listing gives it.
LEMMA ValidIs ==
  ASSUME NEW b
  PROVE  /\ Valid(b) <=> Abstract!WellFormed(b, next, pend)
         /\ SizeOf(b) = Abstract!SizeIn(b, pend)
<1>1. SizeOf(b) = Abstract!SizeIn(b, pend)
  BY SameBlocks DEF SizeOf, PaxSize, Abstract!SizeIn
<1> QED BY <1>1, SameBlocks DEF Valid, Abstract!WellFormed

LEMMA ListingHeader ==
  ASSUME FramingInv, ListingInv, Header
  PROVE  ListingInv'
<1> USE DEF reader, client, call
<1>1. /\ pc = "header" /\ amt = 0 /\ BlockRead.kind # "zeros" /\ Valid(BlockRead)
      /\ pc' = "classify" /\ next' = next + BlockSize + Round(SizeOf(BlockRead))
      /\ stream' = stream /\ mode' = mode /\ rd' = rd /\ entries' = entries /\ done' = done
      /\ outcome' = outcome /\ pend' = pend /\ headerPos' = headerPos /\ amt' = amt
      /\ entry'.headerPos = headerPos /\ entry'.header = BlockRead
      /\ entry'.size = SizeOf(BlockRead)
  BY DEF Header
<1>2. /\ BlockRead = BlockAt(stream.blocks, next) /\ next + BlockSize <= stream.len
      /\ rd = next + BlockSize /\ headerPos = next
  BY <1>1, BlockReadIs
<1>3. Due' = Due /\ Abstract!After' = Abstract!After
  BY <1>1, DueSteady
<1>4. Answers(headerPos, pend)' \subseteq Due'
  BY <1>1, <1>2, <1>3 DEF ListingInv, Looking, Answers
<1>5. Abstract!WellFormed(entry.header, headerPos, pend)'
  <2>1. Abstract!WellFormed(BlockRead, headerPos, pend)
    BY <1>1, <1>2, ValidIs
  <2>2. Abstract!WellFormed(BlockRead, headerPos, pend)'
    BY <1>1, <2>1 DEF Abstract!WellFormed, Abstract!SizeIn, Abstract!In, Abstract!BlockAt,
                      Abstract!Other, BlockRead
  <2> QED BY <1>1, <2>2 DEF Abstract!WellFormed, Abstract!SizeIn, Abstract!In, Abstract!BlockAt,
                            Abstract!Other, BlockRead
<1>6. entry'.size = SizeOf(entry.header)'
  BY <1>1 DEF SizeOf, PaxSize
<1>7. Taken'
  BY <1>1, <1>2, <1>4, <1>5, <1>6 DEF Taken
<1>8. Reached'
  <2>1. rd > 0
    BY <1>2, BlockSizeAssumption DEF TypeOK, U64
  <2> QED BY <1>1, <2>1 DEF ListingInv, Reached
<1>9. Resting' /\ Looking'
  BY <1>1 DEF ListingInv, Resting, Calling, Looking
<1> QED BY <1>7, <1>8, <1>9 DEF ListingInv

-----------------------------------------------------------------------------
(* A header that was taken.                                                *)

InMember == {"classify", "slurp", "map", "ext"}

\* A step within a member, which keeps its header and what was found before it.
LEMMA ListingStays ==
  ASSUME TypeOK, ListingInv, stream' = stream, mode' = mode, entries' = entries, pend' = pend,
         done' = done, outcome' = outcome, headerPos' = headerPos,
         entry'.header = entry.header, entry'.headerPos = entry.headerPos,
         entry'.size = entry.size, pc \in InMember, pc' \in InMember,
         pc' = "classify" => next' = next /\ rd' = rd /\ pc = "classify",
         pc' = "slurp" => next' = next /\ pc \in {"classify", "slurp"} /\ Describes,
         pc' \in {"map", "ext"} => \E k \in 0..Len(stream.blocks) : Mapped(k)',
         Reached'
  PROVE  ListingInv'
<1> USE DEF InMember
<1>1. Due' = Due /\ Abstract!After' = Abstract!After
  BY DueSteady
<1>2. Answers(headerPos, pend)' \subseteq Due'
  BY <1>1 DEF ListingInv, Taken, Answers
<1>3. Abstract!WellFormed(entry.header, headerPos, pend)'
  <2>1. Abstract!WellFormed(entry.header, headerPos, pend)
    BY DEF ListingInv, Taken
  <2> QED BY <2>1 DEF Abstract!WellFormed, Abstract!SizeIn, Abstract!In, Abstract!BlockAt,
                      Abstract!Other
<1>4. /\ entry'.header = BlockAt(stream'.blocks, headerPos') /\ entry'.headerPos = headerPos'
      /\ headerPos' + BlockSize <= stream'.len
      /\ entry'.size = SizeOf(entry.header)'
  BY DEF ListingInv, Taken, SizeOf, PaxSize
<1>5. pc' = "slurp" => /\ next' = headerPos' + BlockSize + Round(entry'.size)
                       /\ Describes'
  BY DEF ListingInv, Taken, Describes
<1>6. pc' = "classify" => /\ next' = headerPos' + BlockSize + Round(entry'.size)
                          /\ rd' = headerPos' + BlockSize
  BY DEF ListingInv, Taken
<1>7. Taken'
  BY <1>2, <1>3, <1>4, <1>5, <1>6 DEF Taken
<1>8. Resting' /\ Looking'
  BY DEF ListingInv, Resting, Calling, Looking
<1> QED BY <1>7, <1>8 DEF ListingInv

LEMMA ListingStartSlurp ==
  ASSUME TypeOK, ListingInv, StartSlurp
  PROVE  ListingInv'
<1> USE DEF reader, client, call, StartSlurp
<1>1. Reached'
  BY DEF ListingInv, Reached
<1> QED BY <1>1, ListingStays DEF InMember

\* What the next member is described by is what Listing looks for there.
LEMMA ListingSlurpDone ==
  ASSUME FramingInv, CountInv, ListingInv, SlurpDone
  PROVE  ListingInv'
<1> USE DEF reader, client, call
<1> DEFINE b == entry.header
<1>1. /\ pc = "slurp" /\ pc' = "seek" /\ pend' = [pend EXCEPT ![b.type] = entry.headerPos]
      /\ stream' = stream /\ mode' = mode /\ entries' = entries /\ next' = next /\ rd' = rd
      /\ done' = done /\ outcome' = outcome
  BY DEF SlurpDone
<1>2. /\ Answers(headerPos, pend) \subseteq Due /\ b = BlockAt(stream.blocks, headerPos)
      /\ headerPos + BlockSize <= stream.len /\ Abstract!WellFormed(b, headerPos, pend)
      /\ entry.size = SizeOf(b) /\ next = headerPos + BlockSize + Round(entry.size)
      /\ Describes /\ entry.headerPos = headerPos
  BY <1>1 DEF ListingInv, Taken
<1>3. Abstract!Describes(b) /\ pend[b.type] = None
  BY <1>1, <1>2, SameBlocks DEF Abstract!Describes, Describes, CountInv
<1>4. headerPos \in Nat /\ headerPos < stream.len /\ pend \in Pending
  BY <1>2, BlockSizeAssumption DEF TypeOK, U64
<1>5. ~ZerosAt(headerPos)
  BY <1>2 DEF ZerosAt, Abstract!WellFormed
<1>6. Abstract!SizeIn(b, pend) = entry.size
  BY <1>2, ValidIs
<1>7. Further(headerPos, pend, entry.size, b.type) = [at |-> next, pend |-> pend']
  BY <1>1, <1>2 DEF Further
<1>8. Abstract!After[[at |-> next, pend |-> pend']] \subseteq Answers(headerPos, pend)
  BY ONLY <1>2, <1>3, <1>4, <1>5, <1>6, <1>7, AnswersHere, TypeOK
<1>9. Due' = Due /\ Abstract!After' = Abstract!After
  BY <1>1, DueSteady
<1>10. Looking'
  BY <1>1, <1>2, <1>8, <1>9 DEF Looking, Answers
<1>11. Reached'
  BY <1>1 DEF ListingInv, Reached
<1>12. Resting' /\ Taken'
  BY <1>1 DEF ListingInv, Resting, Calling, Taken
<1> QED BY <1>10, <1>11, <1>12 DEF ListingInv

-----------------------------------------------------------------------------
(* The parser of a sparse map.                                             *)

\* The slots that are left are those after the ones that were seen.
Left(slots, todo, seen) ==
  /\ seen = Len(slots) - Len(todo) /\ seen >= 0
  /\ \A i \in DOMAIN todo : todo[i] = slots[seen + i]

LEMMA MapFacts ==
  ASSUME FramingInv, pc \in {"map", "ext"}, NEW k \in Nat, Mapped(k),
         NEW slots, slots = Abstract!Slots(headerPos, k)
  PROVE  LET seen == Len(slots) - Len(sparse.todo)
         IN  /\ slots \in Seq(Slot) /\ sparse.todo \in Seq(Slot)
             /\ Left(slots, sparse.todo, seen)
             /\ Abstract!Laid(slots, seen, entry.size - sparse.remaining, sparse.cur)
<1>1. slots \in Seq(Slot)
  BY SlotsType DEF TypeOK, U64
<1>2. sparse.todo \in Seq(Slot)
  BY DEF TypeOK, SparseMap
<1> QED BY <1>1, <1>2 DEF Mapped, Left

LEMMA LeftFacts ==
  ASSUME NEW slots \in Seq(Slot), NEW todo \in Seq(Slot), NEW seen, Left(slots, todo, seen)
  PROVE  /\ Len(slots) \in Nat /\ seen \in 0..Len(slots)
         /\ todo = <<>> => seen = Len(slots)
         /\ todo # <<>> => /\ seen \in 0..(Len(slots) - 1) /\ Head(todo) = slots[seen + 1]
                           /\ Left(slots, Tail(todo), seen + 1)
<1>1. Len(slots) \in Nat /\ Len(todo) \in Nat /\ DOMAIN todo = 1..Len(todo)
  BY LenProperties
<1>2. seen = Len(slots) - Len(todo) /\ seen >= 0 /\ \A i \in DOMAIN todo : todo[i] = slots[seen + i]
  BY DEF Left
<1>3. ASSUME todo = <<>> PROVE seen = Len(slots)
  <2>1. Len(todo) = 0
    BY <1>3, EmptySeq
  <2> QED BY <1>1, <1>2, <2>1
<1>4. ASSUME todo # <<>>
      PROVE  /\ seen \in 0..(Len(slots) - 1) /\ Head(todo) = slots[seen + 1]
             /\ Left(slots, Tail(todo), seen + 1)
  <2>1. Len(todo) # 0
    BY <1>4, EmptySeq
  <2>2. seen \in 0..(Len(slots) - 1) /\ 1 \in DOMAIN todo
    BY <1>1, <1>2, <2>1
  <2>3. Head(todo) = todo[1]
    BY <1>4
  <2>4. PICK tail : tail = Tail(todo)
    OBVIOUS
  <2>5. /\ tail \in Seq(Slot) /\ Len(tail) = Len(todo) - 1 /\ DOMAIN tail = 1..Len(tail)
        /\ \A i \in 1..Len(tail) : tail[i] = todo[i + 1]
    BY <1>1, <1>4, <2>1, <2>4
  <2>6. ASSUME NEW i \in 1..Len(tail) PROVE tail[i] = slots[(seen + 1) + i]
    <3>1. i + 1 \in DOMAIN todo /\ seen + (i + 1) = (seen + 1) + i
      BY <1>1, <1>2, <2>5
    <3> QED BY <1>2, <2>5, <3>1
  <2>7. seen + 1 = Len(slots) - Len(tail) /\ seen + 1 >= 0
    BY <1>1, <1>2, <2>5
  <2>8. Left(slots, tail, seen + 1)
    BY <2>5, <2>6, <2>7 DEF Left
  <2> QED BY <1>2, <2>2, <2>3, <2>4, <2>8
<1>5. seen \in 0..Len(slots)
  BY <1>1, <1>2
<1> QED BY <1>1, <1>3, <1>4, <1>5

\* What the parser does not change.
MapRests(k) ==
  /\ ~mode.raw /\ entry'.header.type = "sparse" /\ entry'.header.format = "gnu"
  /\ entry'.pend = pend
  /\ next' = headerPos + BlockSize * (k + 1) + Round(entry'.size)
  /\ headerPos + BlockSize * (k + 1) <= stream.len
  /\ \A m \in 0..(k - 1) : BlockAt(stream.blocks, headerPos + m * BlockSize).extended
  /\ sparse'.more = BlockAt(stream.blocks, headerPos + k * BlockSize).extended
  /\ pc' = "map" => rd' = headerPos + BlockSize * (k + 1)

\* The parser after a step, while the archive stays as it is.
LEMMA MappedThen ==
  ASSUME stream' = stream, mode' = mode, headerPos' = headerPos, pend' = pend,
         NEW k, NEW slots, slots = Abstract!Slots(headerPos, k),
         NEW seen, Left(slots, sparse'.todo, seen),
         Abstract!Laid(slots, seen, entry'.size - sparse'.remaining, sparse'.cur),
         MapRests(k),
         pc' = "ext" => /\ amt' <= BlockSize /\ rd' + amt' = headerPos + BlockSize * (k + 2)
                        /\ sparse'.todo = <<>> /\ sparse'.more
  PROVE  Mapped(k)'
<1>1. Abstract!Slots(headerPos, k)' = slots
  <2>1. PICK o : o = headerPos
    OBVIOUS
  <2>2. Abstract!Slots(o, k)' = slots
    BY <2>1, Steady
  <2> QED BY <2>1, <2>2
<1>2. Abstract!Laid(Abstract!Slots(headerPos, k),
                    Len(Abstract!Slots(headerPos, k)) - Len(sparse.todo),
                    entry.size - sparse.remaining, sparse.cur)'
  BY <1>1 DEF Left
<1> QED BY <1>1, <1>2 DEF Mapped, MapRests, Left

LEMMA ListingStartSparse ==
  ASSUME FramingInv, ListingInv, StartSparse
  PROVE  ListingInv'
<1> USE DEF reader, client, call
<1>1. /\ pc = "classify" /\ pc' = "map" /\ ~mode.raw /\ entry.header.type = "sparse"
      /\ entry.header.format = "gnu"
      /\ stream' = stream /\ mode' = mode /\ entries' = entries /\ next' = next /\ rd' = rd
      /\ done' = done /\ outcome' = outcome /\ pend' = pend /\ headerPos' = headerPos
      /\ sparse'.cur = 0 /\ sparse'.remaining = entry.size
      /\ sparse'.todo = entry.header.map /\ sparse'.more = entry.header.extended
  BY DEF StartSparse
<1>2. /\ entry'.pend = pend /\ entry'.header = entry.header /\ entry'.size = entry.size
      /\ entry'.headerPos = entry.headerPos
  BY DEF StartSparse, TypeOK, Entry
<1>3. /\ entry.header = BlockAt(stream.blocks, headerPos)
      /\ next = headerPos + BlockSize + Round(entry.size)
      /\ rd = headerPos + BlockSize /\ headerPos + BlockSize <= stream.len
  BY <1>1 DEF ListingInv, Taken
<1>4. headerPos \in Nat /\ entry.size \in Nat /\ Len(stream.blocks) \in Nat
  BY LenProperties DEF TypeOK, U64, Entry
<1>5. PICK slots : slots = Abstract!Slots(headerPos, 0)
  OBVIOUS
<1>6. slots = sparse'.todo /\ slots \in Seq(Slot)
  <2>1. TypeOK /\ 0 \in Nat
    OBVIOUS
  <2>2. Abstract!Slots(headerPos, 0) \in Seq(Slot)
        /\ Abstract!Slots(headerPos, 0) = BlockAt(stream.blocks, headerPos).map
    BY ONLY <1>4, <2>1, SlotsType
  <2> QED BY <1>1, <1>3, <1>5, <2>2
<1>7. Len(slots) \in Nat /\ DOMAIN slots = 1..Len(slots) /\ Len(slots) - Len(slots) = 0
  BY <1>6, LenProperties
<1>8. Abstract!Laid(slots, 0, 0, 0)
  <2>1. Abstract!Used(slots)[0] = 0
    BY <1>6, UsedCounts DEF Counts
  <2>2. Pieces(slots, 0, 0) /\ Sorted(slots, 0) /\ Reaches(slots, 0, 0)
    BY DEF Pieces, Sorted, Reaches
  <2> QED BY <2>1, <2>2, LaidIs
<1>9. Mapped(0)'
  <2>1. headerPos + 0 * BlockSize = headerPos /\ BlockSize * (0 + 1) = BlockSize
        /\ 0..(0 - 1) = {} /\ entry.size - entry.size = 0
    BY <1>4, BlockSizeAssumption
  <2>2. Left(slots, sparse'.todo, 0)
    BY <1>6, <1>7 DEF Left
  <2>3. Abstract!Laid(slots, 0, entry'.size - sparse'.remaining, sparse'.cur)
    BY <1>1, <1>2, <1>8, <2>1
  <2>4. MapRests(0)
    BY <1>1, <1>2, <1>3, <2>1 DEF MapRests
  <2>5. /\ stream' = stream /\ mode' = mode /\ pend' = pend /\ headerPos' = headerPos
        /\ pc' # "ext"
    BY <1>1
  <2> QED BY ONLY <1>5, <2>2, <2>3, <2>4, <2>5, MappedThen
<1>10. Reached'
  BY <1>1 DEF ListingInv, Reached
<1>11. 0 \in 0..Len(stream.blocks)
  BY <1>4
<1> QED BY <1>1, <1>2, <1>9, <1>10, <1>11, ListingStays DEF InMember

LEMMA MapRestsNext ==
  ASSUME pc = "map", pc' \in {"map", "ext"}, NEW k, Mapped(k), next' = next, rd' = rd,
         entry'.header = entry.header, entry'.size = entry.size, entry'.pend = entry.pend,
         sparse'.more = sparse.more
  PROVE  MapRests(k)
BY DEF MapRests, Mapped

LEMMA ListingSkipSlot ==
  ASSUME FramingInv, ListingInv, SkipSlot
  PROVE  ListingInv'
<1> USE DEF reader, client, call
<1>1. /\ pc = "map" /\ pc' = pc /\ sparse.todo # <<>> /\ Head(sparse.todo) = None
      /\ stream' = stream /\ mode' = mode /\ entries' = entries /\ next' = next /\ rd' = rd
      /\ done' = done /\ outcome' = outcome /\ pend' = pend /\ headerPos' = headerPos
      /\ entry' = entry
  BY DEF SkipSlot
<1>2. /\ sparse'.todo = Tail(sparse.todo) /\ sparse'.more = sparse.more
      /\ sparse'.cur = sparse.cur /\ sparse'.remaining = sparse.remaining
  BY DEF SkipSlot, TypeOK, SparseMap
<1>3. PICK k \in 0..Len(stream.blocks) : Mapped(k)
  BY <1>1 DEF ListingInv, Taken
<1>4. PICK slots : slots = Abstract!Slots(headerPos, k)
  OBVIOUS
<1>5. PICK seen : seen = Len(slots) - Len(sparse.todo)
  OBVIOUS
<1>6. k \in Nat
  OBVIOUS
<1>7. /\ slots \in Seq(Slot) /\ sparse.todo \in Seq(Slot) /\ Left(slots, sparse.todo, seen)
      /\ Abstract!Laid(slots, seen, entry.size - sparse.remaining, sparse.cur)
  BY <1>1, <1>3, <1>4, <1>5, <1>6, MapFacts
<1>8. PICK further : further = seen + 1
  OBVIOUS
<1>9. /\ seen \in 0..(Len(slots) - 1) /\ slots[seen + 1] = None
      /\ Left(slots, sparse'.todo, further)
  BY ONLY <1>1, <1>2, <1>7, <1>8, LeftFacts
<1>10. Abstract!Laid(slots, further, entry'.size - sparse'.remaining, sparse'.cur)
  BY <1>1, <1>2, <1>7, <1>8, <1>9, LaidEmpty
<1>11. MapRests(k)
  BY <1>1, <1>2, <1>3, MapRestsNext
<1>12. Mapped(k)'
  <2>1. /\ stream' = stream /\ mode' = mode /\ pend' = pend /\ headerPos' = headerPos
        /\ pc' # "ext"
    BY <1>1
  <2> QED BY ONLY <1>4, <1>9, <1>10, <1>11, <2>1, MappedThen
<1>13. Reached'
  BY <1>1 DEF ListingInv, Reached
<1> QED BY <1>1, <1>12, <1>13, ListingStays DEF InMember

LEMMA ListingAddBlock ==
  ASSUME FramingInv, ListingInv, AddBlock
  PROVE  ListingInv'
<1> USE DEF reader, client, call
<1>0. PICK slot : slot = Head(sparse.todo)
  OBVIOUS
<1>1. /\ pc = "map" /\ pc' = pc /\ sparse.todo # <<>> /\ slot # None /\ Fits(slot)
      /\ stream' = stream /\ mode' = mode /\ entries' = entries /\ next' = next /\ rd' = rd
      /\ done' = done /\ outcome' = outcome /\ pend' = pend /\ headerPos' = headerPos
  BY <1>0 DEF AddBlock
<1>2. /\ entry'.header = entry.header /\ entry'.size = entry.size /\ entry'.pend = entry.pend
      /\ entry'.headerPos = entry.headerPos
  BY DEF AddBlock, TypeOK, Entry
<1>3. /\ sparse'.todo = Tail(sparse.todo) /\ sparse'.more = sparse.more
      /\ sparse'.cur = End(slot) /\ sparse'.remaining = sparse.remaining - slot.length
  BY <1>0 DEF AddBlock, TypeOK, SparseMap, End
<1>4. PICK k \in 0..Len(stream.blocks) : Mapped(k)
  BY <1>1 DEF ListingInv, Taken
<1>5. PICK slots : slots = Abstract!Slots(headerPos, k)
  OBVIOUS
<1>6. PICK seen : seen = Len(slots) - Len(sparse.todo)
  OBVIOUS
<1>7. k \in Nat
  OBVIOUS
<1>8. /\ slots \in Seq(Slot) /\ sparse.todo \in Seq(Slot) /\ Left(slots, sparse.todo, seen)
      /\ Abstract!Laid(slots, seen, entry.size - sparse.remaining, sparse.cur)
  BY <1>1, <1>4, <1>5, <1>6, <1>7, MapFacts
<1>9. PICK further : further = seen + 1
  OBVIOUS
<1>10. /\ Len(slots) \in Nat /\ seen \in 0..(Len(slots) - 1) /\ slots[seen + 1] = slot
       /\ Left(slots, sparse'.todo, further)
  BY ONLY <1>0, <1>1, <1>3, <1>8, <1>9, LeftFacts
<1>11. /\ slot.offset # Bad /\ slot.length # Bad
       /\ slot.length # 0 => (entry.size - sparse.remaining) % BlockSize = 0
       /\ sparse.cur <= slot.offset /\ End(slot) <= MaxU64
  BY <1>1 DEF Fits, Used, End
<1>12. slot.length \in Nat
  <2>1. seen + 1 \in 1..Len(slots)
    BY <1>10
  <2>2. slot \in [offset : Field, length : Field]
    BY ONLY <1>1, <1>8, <1>10, <2>1, SlotType
  <2> QED BY <1>11, <2>2 DEF Field, U64
<1>13. Abstract!Laid(slots, further, entry'.size - sparse'.remaining, sparse'.cur)
  <2>1. Abstract!Laid(slots, seen + 1, (entry.size - sparse.remaining) + slot.length, End(slot))
    BY ONLY <1>1, <1>8, <1>10, <1>11, LaidNext
  <2>2. entry.size \in Int /\ sparse.remaining \in Int
    BY DEF TypeOK, Entry, SparseMap, U64
  <2>3. (entry.size - sparse.remaining) + slot.length = entry'.size - sparse'.remaining
    BY ONLY <1>2, <1>3, <1>12, <2>2
  <2> QED BY ONLY <1>3, <1>9, <2>1, <2>3
<1>14. MapRests(k)
  BY <1>1, <1>2, <1>3, <1>4, MapRestsNext
<1>15. Mapped(k)'
  <2>1. /\ stream' = stream /\ mode' = mode /\ pend' = pend /\ headerPos' = headerPos
        /\ pc' # "ext"
    BY <1>1
  <2> QED BY ONLY <1>5, <1>10, <1>13, <1>14, <2>1, MappedThen
<1>16. Reached'
  BY <1>1 DEF ListingInv, Reached
<1> QED BY <1>1, <1>2, <1>15, <1>16, ListingStays DEF InMember

LEMMA ListingStartExt ==
  ASSUME FramingInv, ListingInv, StartExt
  PROVE  ListingInv'
<1> USE DEF reader, client, call
<1>1. /\ pc = "map" /\ pc' = "ext" /\ sparse.todo = <<>> /\ sparse.more /\ amt' = BlockSize
      /\ stream' = stream /\ mode' = mode /\ entries' = entries /\ next' = next /\ rd' = rd
      /\ done' = done /\ outcome' = outcome /\ pend' = pend /\ headerPos' = headerPos
      /\ entry' = entry /\ sparse' = sparse
  BY DEF StartExt
<1>2. PICK k \in 0..Len(stream.blocks) : Mapped(k)
  BY <1>1 DEF ListingInv, Taken
<1>3. PICK slots : slots = Abstract!Slots(headerPos, k)
  OBVIOUS
<1>4. PICK seen : seen = Len(slots) - Len(sparse.todo)
  OBVIOUS
<1>5. k \in Nat
  OBVIOUS
<1>6. /\ amt' <= BlockSize /\ rd' + amt' = headerPos + BlockSize * (k + 2)
      /\ sparse'.todo = <<>> /\ sparse'.more
  <2>1. rd = headerPos + BlockSize * (k + 1)
    BY <1>1, <1>2 DEF Mapped
  <2>2. BlockSize * (k + 2) = BlockSize * (k + 1) + BlockSize
    BY <1>5, BlockSizeAssumption
  <2>3. headerPos \in Nat /\ BlockSize * (k + 1) \in Nat /\ BlockSize \in Nat
    BY <1>5, BlockSizeAssumption DEF TypeOK, U64
  <2> QED BY ONLY <1>1, <2>1, <2>2, <2>3
<1>7. /\ Left(slots, sparse'.todo, seen)
      /\ Abstract!Laid(slots, seen, entry'.size - sparse'.remaining, sparse'.cur)
  BY <1>1, <1>2, <1>3, <1>4, <1>5, MapFacts
<1>8. MapRests(k)
  BY <1>1, <1>2, MapRestsNext
<1>9. Mapped(k)'
  <2>1. stream' = stream /\ mode' = mode /\ pend' = pend /\ headerPos' = headerPos
    BY <1>1
  <2> QED BY ONLY <1>3, <1>6, <1>7, <1>8, <2>1, MappedThen
<1>10. Reached'
  BY <1>1, BlockSizeAssumption DEF ListingInv, Reached
<1> QED BY <1>1, <1>9, <1>10, ListingStays DEF InMember

\* The slots of one more block come after the others.
LEMMA SlotsJoined ==
  ASSUME TypeOK, NEW o \in Nat, NEW k \in Nat, NEW s, s = Abstract!Slots(o, k),
         NEW t, t = Abstract!Slots(o, k + 1), NEW more, more = MapAt(o, k + 1),
         NEW used, NEW cur, Abstract!Laid(s, Len(s), used, cur)
  PROVE  /\ Left(t, more, Len(s))
         /\ Abstract!Laid(t, Len(s), used, cur)
<1>1. s \in Seq(Slot) /\ more \in Seq(Slot)
  BY SlotsType, MapAtType
<1>2. t = s \o more
  BY SlotsNext
<1>3. /\ t \in Seq(Slot) /\ Len(t) = Len(s) + Len(more)
      /\ \A i \in 1..(Len(s) + Len(more)) : t[i] = IF i <= Len(s) THEN s[i] ELSE more[i - Len(s)]
  BY ONLY <1>1, <1>2, Joined
<1>4. Len(s) \in Nat /\ Len(more) \in Nat /\ DOMAIN more = 1..Len(more)
  BY <1>1, LenProperties
<1>5. ASSUME NEW i \in 1..Len(s) PROVE s[i] = t[i]
  BY <1>3, <1>4
<1>6. ASSUME NEW i \in 1..Len(more) PROVE more[i] = t[Len(s) + i]
  <2>1. /\ Len(s) + i \in 1..(Len(s) + Len(more)) /\ ~(Len(s) + i <= Len(s))
        /\ (Len(s) + i) - Len(s) = i
    BY <1>4
  <2> QED BY <1>3, <2>1
<1>7. Abstract!Laid(t, Len(s), used, cur)
  <2>1. Len(s) <= Len(s) /\ Len(s) <= Len(t)
    BY <1>3, <1>4
  <2> QED BY <1>1, <1>3, <1>4, <1>5, <2>1, LaidSame
<1> QED BY <1>3, <1>4, <1>6, <1>7 DEF Left

LEMMA ListingExtDone ==
  ASSUME FramingInv, FramingInv', Checked, ListingInv, ExtDone
  PROVE  ListingInv'
<1> USE DEF reader, client, call
<1>1. /\ pc = "ext" /\ pc' = "map" /\ amt = 0 /\ next' = next + BlockSize
      /\ stream' = stream /\ mode' = mode /\ entries' = entries /\ rd' = rd /\ amt' = amt
      /\ done' = done /\ outcome' = outcome /\ pend' = pend /\ headerPos' = headerPos
      /\ entry' = entry
  BY DEF ExtDone
<1>2. /\ sparse'.todo = MapOf(BlockRead) /\ sparse'.more = BlockRead.extended
      /\ sparse'.cur = sparse.cur /\ sparse'.remaining = sparse.remaining
  BY DEF ExtDone, TypeOK, SparseMap
<1>3. PICK k \in 0..Len(stream.blocks) : Mapped(k)
  BY <1>1 DEF ListingInv, Taken
<1>4. /\ headerPos \in Nat /\ rd \in Nat /\ k \in Nat /\ stream.len \in Nat
      /\ Len(stream.blocks) \in Nat /\ entry.size \in Nat
  BY LenProperties DEF TypeOK, U64, Entry
<1>5. /\ rd = headerPos + BlockSize * (k + 2) /\ sparse.todo = <<>> /\ sparse.more
      /\ sparse.more = BlockAt(stream.blocks, headerPos + k * BlockSize).extended
      /\ \A m \in 0..(k - 1) : BlockAt(stream.blocks, headerPos + m * BlockSize).extended
      /\ next = headerPos + BlockSize * (k + 1) + Round(entry.size)
      /\ ~mode.raw /\ entry.header.type = "sparse" /\ entry.header.format = "gnu"
      /\ entry.pend = pend
  BY <1>1, <1>3, <1>4 DEF Mapped
<1>6. rd <= stream.len
  BY <1>1, BlockSizeAssumption DEF ListingInv, Reached
<1>7. rd - BlockSize = headerPos + (k + 1) * BlockSize
  BY <1>4, <1>5, BlockSizeAssumption
<1>8. BlockRead = BlockAt(stream.blocks, headerPos + (k + 1) * BlockSize)
  BY <1>7 DEF BlockRead
<1>9. k + 1 \in 0..Len(stream.blocks)
  <2>1. BlockAt(stream.blocks, headerPos + k * BlockSize) # Other
    BY <1>5 DEF Other
  <2> QED BY <1>4, <2>1, BlockExists
<1>10. PICK j : j = k + 1
  OBVIOUS
<1>11. PICK s : s = Abstract!Slots(headerPos, k)
  OBVIOUS
<1>12. PICK t : t = Abstract!Slots(headerPos, j)
  OBVIOUS
<1>13. PICK seen : seen = Len(s)
  OBVIOUS
<1>14. Abstract!Laid(s, Len(s), entry.size - sparse.remaining, sparse.cur)
  <2>1. PICK shown : shown = Len(s) - Len(sparse.todo)
    OBVIOUS
  <2>2. /\ Abstract!Laid(s, shown, entry.size - sparse.remaining, sparse.cur)
        /\ shown = Len(s)
    <3>1. Left(s, sparse.todo, shown) /\ s \in Seq(Slot) /\ sparse.todo \in Seq(Slot)
          /\ Abstract!Laid(s, shown, entry.size - sparse.remaining, sparse.cur)
      BY <1>1, <1>3, <1>4, <1>11, <2>1, MapFacts
    <3> QED BY ONLY <1>5, <3>1, LeftFacts
  <2> QED BY <2>2
<1>15. sparse'.todo = MapAt(headerPos, k + 1)
  BY <1>2, <1>8 DEF MapAt
<1>16. /\ Left(t, sparse'.todo, seen)
       /\ Abstract!Laid(t, seen, entry.size - sparse.remaining, sparse.cur)
  <2>1. TypeOK
    OBVIOUS
  <2>2. PICK more : more = MapAt(headerPos, k + 1)
    OBVIOUS
  <2>3. PICK used : used = entry.size - sparse.remaining
    OBVIOUS
  <2>4. t = Abstract!Slots(headerPos, k + 1)
    BY <1>10, <1>12
  <2>5. Abstract!Laid(s, Len(s), used, sparse.cur)
    BY <1>14, <2>3
  <2>6. /\ Left(t, more, Len(s))
        /\ Abstract!Laid(t, Len(s), used, sparse.cur)
    BY ONLY <1>4, <1>11, <2>1, <2>2, <2>4, <2>5, SlotsJoined
  <2> QED BY ONLY <1>13, <1>15, <2>2, <2>3, <2>6
<1>17. Mapped(j)'
  <2>1. PICK rounded \in Nat : rounded = Round(entry.size)
    BY <1>4, RoundBounds
  <2>2. next' = headerPos + BlockSize * (j + 1) + Round(entry.size)
    <3>1. BlockSize * (j + 1) = BlockSize * (k + 1) + BlockSize
      BY <1>4, <1>10, BlockSizeAssumption
    <3>2. BlockSize * (k + 1) \in Nat /\ BlockSize \in Nat
      BY <1>4, BlockSizeAssumption
    <3> QED BY ONLY <1>1, <1>4, <1>5, <2>1, <3>1, <3>2
  <2>3. rd = headerPos + BlockSize * (j + 1)
    <3>1. j + 1 = k + 2
      BY <1>4, <1>10
    <3> QED BY <1>5, <3>1
  <2>4. \A m \in 0..(j - 1) : BlockAt(stream.blocks, headerPos + m * BlockSize).extended
    <3>1. \A m \in 0..(j - 1) : m = k \/ m \in 0..(k - 1)
      BY <1>4, <1>10
    <3> QED BY <1>5, <3>1
  <2>5. MapRests(j)
    BY <1>1, <1>2, <1>5, <1>6, <1>8, <1>10, <2>2, <2>3, <2>4 DEF MapRests
  <2>6. Abstract!Laid(t, seen, entry'.size - sparse'.remaining, sparse'.cur)
    BY <1>1, <1>2, <1>16
  <2>7. /\ stream' = stream /\ mode' = mode /\ pend' = pend /\ headerPos' = headerPos
        /\ pc' # "ext"
    BY <1>1
  <2> QED BY ONLY <1>12, <1>16, <2>5, <2>6, <2>7, MappedThen
<1>18. Reached'
  BY <1>1, <1>6 DEF ListingInv, Reached
<1> QED BY <1>1, <1>9, <1>10, <1>17, <1>18, ListingStays DEF InMember

-----------------------------------------------------------------------------
(* Requests to the reader, and the client.                                 *)

LEMMA ListingReads ==
  ASSUME FramingInv, ListingInv, ReadSome
  PROVE  ListingInv'
<1> USE DEF reader, client, call
<1>1. /\ pc \in {"skip", "header", "slurp", "ext"} /\ pc' = pc
      /\ stream' = stream /\ mode' = mode /\ entries' = entries /\ next' = next
      /\ done' = done /\ outcome' = outcome /\ pend' = pend /\ headerPos' = headerPos
      /\ entry' = entry /\ sparse' = sparse
  BY DEF ReadSome, ReadPcs
<1>2. PICK n \in 1..Least(amt, stream.len - rd) : rd' = rd + n /\ amt' = amt - n
  BY DEF ReadSome, Reads
<1>3. /\ n \in Nat \ {0} /\ rd \in Nat /\ amt \in Nat /\ stream.len \in Nat
      /\ n <= amt /\ rd + n <= stream.len
  BY <1>2 DEF Least, TypeOK, U64
<1>4. Reached'
  <2>1. /\ rd' \in Nat /\ rd' <= stream.len /\ rd' > 0 /\ rd' + amt' = rd + amt
        /\ amt <= BlockSize => amt' <= BlockSize
    BY <1>2, <1>3, BlockSizeAssumption
  <2> QED BY <1>1, <2>1 DEF ListingInv, Reached
<1>5. CASE pc \in {"skip", "header"}
  BY <1>1, <1>4, <1>5, ListingGoes
<1>6. CASE pc = "slurp"
  <2>1. Describes
    BY <1>6 DEF ListingInv, Taken
  <2> QED BY <1>1, <1>4, <1>6, <2>1, ListingStays DEF InMember
<1>7. CASE pc = "ext"
  <2>1. PICK k \in 0..Len(stream.blocks) : Mapped(k)
    BY <1>7 DEF ListingInv, Taken
  <2>2. PICK slots : slots = Abstract!Slots(headerPos, k)
    OBVIOUS
  <2>3. PICK seen : seen = Len(slots) - Len(sparse.todo)
    OBVIOUS
  <2>4. k \in Nat
    OBVIOUS
  <2>5. /\ amt' <= BlockSize /\ rd' + amt' = headerPos + BlockSize * (k + 2)
        /\ sparse'.todo = <<>> /\ sparse'.more
    <3>1. /\ amt <= BlockSize /\ rd + amt = headerPos + BlockSize * (k + 2)
          /\ sparse.todo = <<>> /\ sparse.more
      BY <1>7, <2>1 DEF Mapped
    <3>2. rd' + amt' = rd + amt /\ amt' <= BlockSize
      BY <1>2, <1>3, <3>1, BlockSizeAssumption
    <3> QED BY <1>1, <3>1, <3>2
  <2>6. /\ Left(slots, sparse'.todo, seen)
        /\ Abstract!Laid(slots, seen, entry'.size - sparse'.remaining, sparse'.cur)
    BY <1>1, <1>7, <2>1, <2>2, <2>3, <2>4, MapFacts
  <2>7. MapRests(k)
    BY <1>1, <1>7, <2>1 DEF MapRests, Mapped
  <2>8. Mapped(k)'
    <3>1. stream' = stream /\ mode' = mode /\ pend' = pend /\ headerPos' = headerPos
      BY <1>1
    <3> QED BY ONLY <2>2, <2>5, <2>6, <2>7, <3>1, MappedThen
  <2> QED BY <1>1, <1>4, <1>7, <2>8, ListingStays DEF InMember
<1> QED BY <1>1, <1>5, <1>6, <1>7

\* The entries as the client first saw them.
SeenAlike ==
  /\ entries' \in Seq(Entry) /\ DOMAIN entries' = DOMAIN entries
  /\ \A i \in DOMAIN entries : Seen(entries'[i]) = Seen(entries[i])

LEMMA SeenHere ==
  ASSUME TypeOK, SeenAlike
  PROVE  /\ Abstract!Here' = Abstract!Here /\ (entries' = <<>> <=> entries = <<>>)
         /\ [i \in DOMAIN entries' |-> Seen(entries'[i])] = [i \in DOMAIN entries |-> Seen(entries[i])]
<1>1. /\ entries \in Seq(Entry) /\ entries' \in Seq(Entry)
  BY DEF SeenAlike, TypeOK
<1>2. /\ Len(entries) \in Nat /\ DOMAIN entries = 1..Len(entries)
      /\ Len(entries') \in Nat /\ DOMAIN entries' = 1..Len(entries')
  BY <1>1, LenProperties
<1>3. Len(entries') = Len(entries)
  BY <1>2 DEF SeenAlike
<1>4. entries' = <<>> <=> entries = <<>>
  BY <1>1, <1>2, <1>3, EmptySeq
<1>5. Behind' = Behind
  <2>1. CASE entries = <<>>
    BY <1>4, <2>1 DEF Behind
  <2>2. CASE entries # <<>>
    <3>1. Len(entries) \in DOMAIN entries
      BY <1>1, <1>2, <2>2, EmptySeq
    <3>2. entries'[Len(entries)].end = entries[Len(entries)].end
      BY <3>1 DEF SeenAlike, Seen
    <3> QED BY <1>3, <1>4, <2>2, <3>2 DEF Behind
  <2> QED BY <2>1, <2>2
<1>6. Abstract!Here' = Abstract!Here
  BY <1>1, <1>5, HereIs
<1> QED BY <1>4, <1>6 DEF SeenAlike

\* What the client does between two calls.
LEMMA ListingRests ==
  ASSUME FramingInv, ListingInv, pc \in {"idle", "read"}, pc' \in {"idle", "read"},
         SeenAlike, stream' = stream, mode'.seek = mode.seek,
         next' = next, done' = done, outcome' = outcome, rd' \in Nat, rd' >= rd,
         ~mode.seek => rd' <= stream.len
  PROVE  ListingInv'
<1>1. Abstract!Here' = Abstract!Here /\ (entries' = <<>> <=> entries = <<>>)
  BY SeenHere
<1>2. rd \in Nat
  BY DEF TypeOK, U64
<1>3. Reached'
  BY <1>1, <1>2 DEF ListingInv, Reached
<1>4. Resting'
  BY <1>1 DEF ListingInv, Resting, Calling
<1>5. Looking' /\ Taken'
  BY DEF Looking, Taken
<1> QED BY <1>3, <1>4, <1>5 DEF ListingInv

LEMMA SeenSame ==
  ASSUME TypeOK, entries' = entries
  PROVE  SeenAlike
BY DEF SeenAlike, TypeOK

\* Reading an entry changes only its chunks and the count of what was given.
LEMMA SeenReading ==
  ASSUME FramingInv, TypeOK', pc = "read",
         \/ entries' = [entries EXCEPT ![reading.entry].data = Tail(@)]
         \/ \E n \in Nat : entries' = [entries EXCEPT ![reading.entry] = Given(@, n)]
  PROVE  SeenAlike
<1>1. entries \in Seq(Entry) /\ entries' \in Seq(Entry) /\ reading.entry \in DOMAIN entries
  BY DEF TypeOK, Locals
<1>2. DOMAIN entries' = DOMAIN entries
  BY <1>1
<1>3. \A i \in DOMAIN entries : i # reading.entry => entries'[i] = entries[i]
  BY <1>1
<1>4. PICK e \in Entry : e = entries[reading.entry]
  <2>1. DOMAIN entries = 1..Len(entries)
    BY <1>1, LenProperties
  <2> QED BY <1>1, <2>1, ElementOfSeq
<1>5. CASE entries' = [entries EXCEPT ![reading.entry].data = Tail(@)]
  <2>1. entries'[reading.entry] = [e EXCEPT !.data = Tail(@)]
    BY <1>1, <1>4, <1>5
  <2>2. Seen(entries'[reading.entry]) = Seen(e)
    BY <2>1 DEF Seen, Entry
  <2> QED BY <1>1, <1>2, <1>3, <1>4, <2>2 DEF SeenAlike
<1>6. ASSUME NEW n \in Nat, entries' = [entries EXCEPT ![reading.entry] = Given(@, n)]
      PROVE  SeenAlike
  <2>1. entries'[reading.entry] = Given(e, n)
    BY <1>1, <1>4, <1>6
  <2>2. Seen(Given(e, n)) = Seen(e)
    <3>1. PICK more : more = [e EXCEPT !.got = e.got + n]
      OBVIOUS
    <3>2. PICK rest : rest = [e.data EXCEPT ![1] = After(e.data[1], n)]
      OBVIOUS
    <3>3. Given(e, n) = [more EXCEPT !.data = rest]
      BY <3>1, <3>2 DEF Given
    <3>4. /\ Given(e, n).headerPos = e.headerPos /\ Given(e, n).header = e.header
          /\ Given(e, n).size = e.size /\ Given(e, n).pend = e.pend
          /\ Given(e, n).start = e.start /\ Given(e, n).end = e.end
      BY <3>1, <3>3 DEF Entry
    <3> QED BY <3>4 DEF Seen
  <2> QED BY <1>1, <1>2, <1>3, <1>4, <2>1, <2>2 DEF SeenAlike
<1> QED BY <1>5, <1>6

LEMMA ReadingAlike ==
  ASSUME FramingInv, TypeOK', ListingInv, DropChunk \/ ReadChunk \/ ReadEnd \/ ReadFails
  PROVE  /\ pc = "read" /\ pc' \in {"idle", "read"} /\ SeenAlike
         /\ stream' = stream /\ mode' = mode /\ next' = next /\ done' = done
         /\ outcome' = outcome /\ rd' \in Nat /\ rd' >= rd
         /\ ~mode.seek => rd' <= stream.len
<1> USE DEF reader, client, call, ReadReturn
<1>1. rd \in Nat /\ stream.len \in Nat /\ reading.want \in Nat /\ (~mode.seek => rd <= stream.len)
  BY DEF ListingInv, Reached, TypeOK, U64
<1>2. CASE DropChunk
  <2>1. SeenAlike
    BY <1>2, SeenReading DEF DropChunk
  <2> QED BY <1>1, <1>2, <2>1 DEF DropChunk
<1>3. CASE ReadChunk
  <2>1. PICK n \in Gives(Head(Chunks)) \ {0} :
          /\ entries' = [entries EXCEPT ![reading.entry] = Given(@, n)]
          /\ IF Head(Chunks).kind = "data" THEN Reads(n) ELSE UNCHANGED <<rd, pos>>
    BY <1>3 DEF ReadChunk
  <2>2. Head(Chunks) \in Chunk
    <3>1. entries[reading.entry] \in Entry
      <4>1. DOMAIN entries = 1..Len(entries)
        BY LenProperties DEF TypeOK
      <4> QED BY <1>3, <4>1, ElementOfSeq DEF ReadChunk, Locals, TypeOK
    <3>2. Chunks \in Seq(Chunk) /\ Chunks # <<>>
      BY <1>3, <3>1 DEF Chunks, Entry, ReadChunk
    <3>3. Head(Chunks) = Chunks[1] /\ 1 \in 1..Len(Chunks)
      BY <3>2, LenProperties, EmptySeq
    <3> QED BY <3>2, <3>3, ElementOfSeq
  <2>3. Head(Chunks).left \in Nat /\ Head(Chunks).kind \in {"pad", "data"}
    BY <2>2 DEF Chunk, U64
  <2>4. n \in Nat /\ (Head(Chunks).kind = "data" => rd + n <= stream.len)
    BY <1>1, <2>1, <2>3 DEF Gives, Least
  <2>5. SeenAlike
    BY <1>3, <2>1, <2>4, SeenReading DEF ReadChunk
  <2>6. CASE Head(Chunks).kind = "data"
    BY <1>1, <1>3, <2>1, <2>4, <2>5, <2>6 DEF ReadChunk, Reads
  <2>7. CASE Head(Chunks).kind # "data"
    BY <1>1, <1>3, <2>1, <2>5, <2>7 DEF ReadChunk
  <2> QED BY <2>6, <2>7
<1>4. CASE ReadEnd
  BY <1>1, <1>4, SeenSame DEF ReadEnd
<1>5. CASE ReadFails
  BY <1>1, <1>5, SeenSame DEF ReadFails
<1> QED BY <1>2, <1>3, <1>4, <1>5

LEMMA ListingClient ==
  ASSUME FramingInv, TypeOK', ListingInv, Client
  PROVE  ListingInv'
<1> USE DEF reader, client, call
<1>1. rd \in Nat /\ (~mode.seek => rd <= stream.len) /\ rd >= rd
  BY DEF ListingInv, Reached, TypeOK, U64
<1>2. CASE Reopen
  <2>1. entries' = <<>> /\ rd = 0 /\ pc' = "idle" /\ next' = 0 /\ ~done' /\ outcome' = "open"
        /\ rd' = rd /\ stream' = stream /\ mode'.seek = mode.seek
    BY <1>2 DEF Reopen, TypeOK
  <2>2. Abstract!Here' = 0
    BY <2>1, HereIs DEF Behind, TypeOK
  <2>3. Reached'
    BY <1>1, <2>1 DEF Reached
  <2>4. Resting'
    BY <2>1, <2>2 DEF Resting, Calling
  <2>5. Looking' /\ Taken'
    BY <2>1 DEF Looking, Taken
  <2> QED BY <2>3, <2>4, <2>5 DEF ListingInv
<1>3. ASSUME NEW r \in Raws, SetRaw(r) PROVE ListingInv'
  <2>1. mode'.seek = mode.seek
    BY <1>3 DEF SetRaw, TypeOK
  <2> QED BY <1>1, <1>3, <2>1, SeenSame, ListingRests DEF SetRaw
<1>4. CASE Exhausted
  BY <1>1, <1>4, SeenSame, ListingRests DEF Exhausted, vars
<1>5. ASSUME NEW i \in DOMAIN entries, NEW want \in Bufs, CallRead(i, want) PROVE ListingInv'
  BY <1>1, <1>5, SeenSame, ListingRests DEF CallRead
<1>6. CASE CallNext
  <2>1. /\ pc = "idle" /\ ~done /\ pc' = "seek" /\ pend' = NoPend /\ next' = next /\ rd' = rd
        /\ stream' = stream /\ mode' = mode /\ entries' = entries /\ done' = done
        /\ outcome' = outcome
    BY <1>6 DEF CallNext
  <2>2. next = Abstract!Here /\ outcome = "open"
    BY <2>1 DEF ListingInv, Resting, TypeOK
  <2>3. Due' = Due /\ Abstract!After' = Abstract!After
    BY <2>1, DueSteady
  <2>4. Answers(next, NoPend) = Due
    BY <2>2 DEF Due
  <2>5. Looking'
    BY <2>1, <2>3, <2>4 DEF Looking, Answers
  <2>6. Reached'
    BY <2>1 DEF ListingInv, Reached
  <2>7. Resting' /\ Taken'
    BY <2>1, <2>2 DEF Resting, Calling, Taken
  <2> QED BY <2>5, <2>6, <2>7 DEF ListingInv
<1> QED BY <1>2, <1>3, <1>4, <1>5, <1>6 DEF Client

LEMMA ListingStutters ==
  ASSUME FramingInv, ListingInv, UNCHANGED vars
  PROVE  ListingInv'
<1> USE DEF vars, reader, client, call
<1>1. Reached'
  BY DEF ListingInv, Reached
<1>2. CASE pc \in {"idle", "read"}
  <2>1. rd \in Nat /\ (~mode.seek => rd <= stream.len) /\ rd >= rd
    BY DEF ListingInv, Reached, TypeOK, U64
  <2> QED BY <1>2, <2>1, SeenSame, ListingRests
<1>3. CASE pc \in {"seek", "skip", "header"}
  BY <1>1, <1>3, ListingGoes
<1>4. CASE pc = "classify" \/ pc = "slurp"
  <2>1. pc = "slurp" => Describes
    BY DEF ListingInv, Taken
  <2> QED BY <1>1, <1>4, <2>1, ListingStays DEF InMember
<1>5. CASE pc \in {"map", "ext"}
  <2>1. PICK k \in 0..Len(stream.blocks) : Mapped(k)
    BY <1>5 DEF ListingInv, Taken
  <2>2. PICK slots : slots = Abstract!Slots(headerPos, k)
    OBVIOUS
  <2>3. PICK seen : seen = Len(slots) - Len(sparse.todo)
    OBVIOUS
  <2>4. k \in Nat
    OBVIOUS
  <2>5. /\ Left(slots, sparse'.todo, seen)
        /\ Abstract!Laid(slots, seen, entry'.size - sparse'.remaining, sparse'.cur)
    BY <1>5, <2>1, <2>2, <2>3, <2>4, MapFacts
  <2>6. /\ MapRests(k)
        /\ pc' = "ext" => /\ amt' <= BlockSize /\ rd' + amt' = headerPos + BlockSize * (k + 2)
                          /\ sparse'.todo = <<>> /\ sparse'.more
    BY <1>5, <2>1 DEF MapRests, Mapped
  <2>7. Mapped(k)'
    <3>1. stream' = stream /\ mode' = mode /\ pend' = pend /\ headerPos' = headerPos
      OBVIOUS
    <3> QED BY ONLY <2>2, <2>5, <2>6, <3>1, MappedThen
  <2> QED BY <1>1, <1>5, <2>7, ListingStays DEF InMember
<1>6. CASE pc = "panicked"
  BY <1>1, <1>6 DEF ListingInv, Resting, Calling, Looking, Taken
<1> QED BY <1>2, <1>3, <1>4, <1>5, <1>6 DEF TypeOK, Pcs, ReadPcs

LEMMA ListingNext ==
  ASSUME FramingInv, FramingInv', CountInv, Checked, ListingInv, [Next]_vars
  PROVE  ListingInv'
<1>1. CASE SeekPanic \/ ExtPanic
  BY <1>1, ListingPanic DEF SeekPanic, ExtPanic
<1>2. CASE StartSkip \/ Seek \/ SkipDone
  BY <1>2, ListingSkips
<1>3. CASE SeekRefused \/ SkipEof \/ HeaderEof \/ ZeroEnd \/ Duplicate \/ SparseNotGnu
           \/ BadSlot \/ ExtEof \/ ReadError \/ HeaderInvalid
  <2>1. \E r \in {"end", "malformed", "io"} : Finish(r)
    BY <1>3 DEF SeekRefused, SkipEof, HeaderEof, ZeroEnd, Duplicate, SparseNotGnu, BadSlot,
                ExtEof, ReadError, HeaderInvalid, Fail, NoHeader
  <2> QED BY <2>1, ListingFinish
<1>4. CASE ReadSome
  BY <1>4, ListingReads
<1>5. CASE ZeroSkip \/ Header
  BY <1>5, ListingPassesZeros, ListingHeader
<1>6. CASE StartSlurp \/ SlurpDone
  BY <1>6, ListingStartSlurp, ListingSlurpDone
<1>7. CASE StartSparse \/ SkipSlot \/ AddBlock \/ StartExt \/ ExtDone
  BY <1>7, ListingStartSparse, ListingSkipSlot, ListingAddBlock, ListingStartExt, ListingExtDone
<1>8. CASE DeliverPlain
  <2>1. [entry EXCEPT !.pend = pend] \in Entry
    BY DEF TypeOK, Entry
  <2> QED BY <1>8, <2>1, ListingDeliver DEF DeliverPlain, TypeOK
<1>9. CASE SparseDone
  <2>1. CASE MapComplete
    <3>1. [entry EXCEPT !.size = sparse.cur] \in Entry
      BY DEF TypeOK, Entry, SparseMap
    <3> QED BY <1>9, <2>1, <3>1, ListingDeliver DEF SparseDone, TypeOK
  <2>2. CASE ~MapComplete
    BY <1>9, <2>2, ListingFinish DEF SparseDone, Fail
  <2> QED BY <2>1, <2>2
<1>10. CASE DropChunk \/ ReadChunk \/ ReadEnd \/ ReadFails
  BY <1>10, ReadingAlike, ListingRests
<1>11. CASE Client
  BY <1>11, ListingClient
<1>12. CASE UNCHANGED vars
  BY <1>12, ListingStutters
<1> QED BY <1>1, <1>2, <1>3, <1>4, <1>5, <1>6, <1>7, <1>8, <1>9, <1>10, <1>11, <1>12
        DEF Next, Step, Failure

\* The parts of the invariant hold together: FramingInv and CountInv hold of any run.
THEOREM ListingAlways ==
  ASSUME PosIsOffset, Checked
  PROVE  Spec => []ListingInv
<1>1. Init => ListingInv
  BY ListingInit
<1>2. FramingInv /\ FramingInv' /\ CountInv /\ ListingInv /\ [Next]_vars => ListingInv'
  BY ListingNext
<1> HIDE DEF FramingInv
<1> QED BY <1>1, <1>2, FramingAlways, CountAlways, PTL DEF Spec

-----------------------------------------------------------------------------
(* A call that fails returns what Listing does.                            *)

LEMMA NothingPending ==
  ASSUME TypeOK, CountInv, pc \in {"seek", "skip", "header"}
  PROVE  processed > 1 <=> pend # NoPend
<1>1. pend = [longname |-> pend.longname, longlink |-> pend.longlink, pax |-> pend.pax]
  BY DEF TypeOK, Pending
<1>2. pend = NoPend <=> pend.longname = None /\ pend.longlink = None /\ pend.pax = None
  BY <1>1 DEF NoPend
<1>3. processed = 1 + Found("longname") + Found("longlink") + Found("pax")
  BY DEF CountInv
<1> QED BY <1>2, <1>3 DEF Found

\* Nothing follows, or only part of a block.
LEMMA EndDue ==
  ASSUME FramingInv, CountInv, Checked, ListingInv, SkipEof \/ HeaderEof
  PROVE  Abstract!Closed(outcome') \subseteq Due
<1> USE DEF reader, client, call
<1>1. /\ next \in Nat /\ rd \in Nat /\ amt \in Nat \ {0} /\ stream.len \in Nat
      /\ rd >= stream.len /\ pend \in Pending /\ BlockSize \in Nat \ {0}
  BY BlockSizeAssumption DEF SkipEof, HeaderEof, AtEof, TypeOK, U64
<1>2. Answers(next, pend) \subseteq Due
  BY DEF ListingInv, Looking, SkipEof, HeaderEof
<1>3. Abstract!NoPend = NoPend
  BY SameBlocks
<1>4. CASE SkipEof
  <2>1. ~mode.seek /\ rd + amt = next /\ mode.checks
    BY <1>4 DEF SkipEof, ListingInv, Reached
  <2>2. next > stream.len /\ ~ZerosAt(next)
    BY <1>1, <2>1 DEF ZerosAt
  <2>3. Abstract!AtEnd(next, pend) = Abstract!Closed("malformed")
    BY <1>3, <2>1, <2>2 DEF Abstract!AtEnd
  <2>4. Abstract!AtEnd(next, pend) \subseteq Answers(next, pend)
    BY <1>1, <2>2, AnswersHere
  <2>5. outcome' = "malformed"
    BY <1>4 DEF SkipEof, Fail, Finish
  <2> QED BY <1>2, <2>3, <2>4, <2>5
<1>5. CASE HeaderEof
  <2>1. pc = "header" /\ rd + amt = next + BlockSize
    BY <1>5 DEF HeaderEof
  <2>2. CASE amt = BlockSize
    <3>1. rd = next /\ next >= stream.len /\ ~ZerosAt(next)
      BY <1>1, <2>1, <2>2 DEF ZerosAt
    <3>2. next > stream.len => mode.seek
      BY <1>1, <3>1 DEF ListingInv, Reached, TypeOK
    <3>3. Abstract!AtEnd(next, pend)
            = Abstract!Closed(IF pend # NoPend THEN "malformed" ELSE "end")
      BY <1>3, <3>2 DEF Abstract!AtEnd
    <3>4. Abstract!AtEnd(next, pend) \subseteq Answers(next, pend)
      BY <1>1, <3>1, AnswersHere
    <3>5. outcome' = IF pend # NoPend THEN "malformed" ELSE "end"
      BY <1>5, <2>1, <2>2, NothingPending DEF HeaderEof, NoHeader, Fail, Finish
    <3> QED BY <1>2, <3>3, <3>4, <3>5
  <2>3. CASE amt # BlockSize
    <3>1. amt < BlockSize => rd = stream.len
      BY <1>1, <2>1 DEF ListingInv, Reached
    <3>2. outcome' = "malformed"
      BY <1>5, <2>3 DEF HeaderEof, Fail, Finish
    <3>3. CASE amt < BlockSize
      <4>1. next < stream.len /\ ~(next + BlockSize <= stream.len) /\ ~ZerosAt(next)
        BY <1>1, <2>1, <3>1, <3>3 DEF ZerosAt
      <4>2. Abstract!Closed("malformed") \subseteq Answers(next, pend)
        BY <1>1, <4>1, AnswersHere
      <4> QED BY <1>2, <3>2, <4>2
    <3>4. amt <= BlockSize
      BY <2>1 DEF ListingInv, Reached
    <3> QED BY <1>1, <2>3, <3>3, <3>4
  <2> QED BY <2>2, <2>3
<1> QED BY <1>4, <1>5

\* The block that was read ends the archive, or is no header.
LEMMA BlockDue ==
  ASSUME FramingInv, CountInv, ListingInv, ZeroEnd \/ HeaderInvalid
  PROVE  Abstract!Closed(outcome') \subseteq Due
<1>1. pc = "header" /\ amt = 0 /\ next \in Nat /\ pend \in Pending
  BY DEF ZeroEnd, HeaderInvalid, TypeOK, U64
<1>2. /\ BlockRead = BlockAt(stream.blocks, next) /\ next + BlockSize <= stream.len
      /\ next < stream.len
  BY <1>1, BlockReadIs
<1>3. Answers(next, pend) \subseteq Due
  BY <1>1 DEF ListingInv, Looking
<1>4. CASE ZeroEnd
  <2>1. ZerosAt(next) /\ ~mode.zeros
    BY <1>2, <1>4 DEF ZeroEnd, ZerosAt
  <2>2. Abstract!Closed(IF pend = NoPend THEN "end" ELSE "malformed") \subseteq Answers(next, pend)
    BY <1>1, <1>2, <2>1, AnswersHere
  <2>3. outcome' = IF pend = NoPend THEN "end" ELSE "malformed"
    BY <1>1, <1>4, NothingPending DEF ZeroEnd, NoHeader, Fail, Finish
  <2> QED BY <1>3, <2>2, <2>3
<1>5. CASE HeaderInvalid
  <2>1. ~ZerosAt(next) /\ ~Abstract!WellFormed(BlockRead, next, pend)
    BY <1>2, <1>5, ValidIs DEF HeaderInvalid, ZerosAt
  <2>2. Abstract!Closed("malformed") \subseteq Answers(next, pend)
    BY <1>1, <1>2, <2>1, AnswersHere
  <2> QED BY <1>3, <1>5, <2>2 DEF HeaderInvalid, Finish
<1> QED BY <1>4, <1>5

LEMMA SeekDue ==
  ASSUME FramingInv, Checked, ListingInv, SeekRefused
  PROVE  Abstract!Closed(outcome') \subseteq Due
<1>1. /\ next \in Nat /\ pos \in Nat /\ pos <= next /\ pend \in Pending /\ mode.seek
      /\ next - pos > MaxI64 /\ outcome' = "malformed"
  BY DEF SeekRefused, Delta, Fail, Finish, TypeOK, U64
<1>2. next > MaxI64
  BY <1>1, WidthAssumption
<1>3. Abstract!Closed("malformed") \subseteq Answers(next, pend)
  BY <1>1, <1>2, AnswersRefused
<1>4. Answers(next, pend) \subseteq Due
  BY DEF ListingInv, Looking, SeekRefused
<1> QED BY <1>1, <1>3, <1>4

\* What Listing finds at a header that was taken.
LEMMA TakenDue ==
  ASSUME FramingInv, ListingInv, pc \in InMember,
         NEW b, b = entry.header
  PROVE  /\ headerPos \in Nat /\ pend \in Pending /\ b = BlockAt(stream.blocks, headerPos)
         /\ b \in Block /\ entry.size = Abstract!SizeIn(b, pend)
         /\ Describes <=> Abstract!Describes(b)
         /\ headerPos + BlockSize <= stream.len
         /\ Abstract!IsSparse(b) /\ ~mode.raw => Abstract!SparseItem(headerPos, pend) \subseteq Due
         /\ ~(Abstract!IsSparse(b) /\ ~mode.raw) /\ ~Describes
              => Abstract!PlainItem(headerPos, pend) \subseteq Due
         /\ Describes /\ pend[b.type] # None => Abstract!Closed("malformed") \subseteq Due
<1>1. /\ Answers(headerPos, pend) \subseteq Due /\ b = BlockAt(stream.blocks, headerPos)
      /\ headerPos + BlockSize <= stream.len /\ Abstract!WellFormed(b, headerPos, pend)
      /\ entry.size = SizeOf(b)
  BY DEF ListingInv, Taken, InMember
<1>2. /\ headerPos \in Nat /\ pend \in Pending /\ b \in Block /\ headerPos < stream.len
  <2>1. headerPos \in Nat /\ pend \in Pending /\ stream.len \in Nat
    BY DEF TypeOK, U64
  <2>2. b \in Block
    BY DEF TypeOK, Entry
  <2>3. headerPos < stream.len
    BY <1>1, <2>1, BlockSizeAssumption
  <2> QED BY <2>1, <2>2, <2>3
<1>3. Abstract!SizeIn(b, pend) = entry.size
  BY <1>1, ValidIs
<1>4. Describes <=> Abstract!Describes(b)
  BY SameBlocks DEF Abstract!Describes, Describes
<1>5. ~ZerosAt(headerPos)
  BY <1>1 DEF ZerosAt, Abstract!WellFormed
<1>6. TypeOK
  OBVIOUS
<1>7. PICK found : found = Answers(headerPos, pend)
  OBVIOUS
<1>8. /\ Abstract!IsSparse(b) /\ ~mode.raw => Abstract!SparseItem(headerPos, pend) \subseteq found
      /\ ~(Abstract!IsSparse(b) /\ ~mode.raw) /\ ~Abstract!Describes(b)
           => Abstract!PlainItem(headerPos, pend) \subseteq found
      /\ Abstract!Describes(b) /\ pend[b.type] # None
           => Abstract!Closed("malformed") \subseteq found
  BY ONLY <1>1, <1>2, <1>5, <1>6, <1>7, AnswersHere
<1> QED BY <1>1, <1>2, <1>3, <1>4, <1>7, <1>8

LEMMA MemberDue ==
  ASSUME FramingInv, ListingInv, Duplicate \/ SparseNotGnu
  PROVE  Abstract!Closed(outcome') \subseteq Due
<1>1. PICK b : b = entry.header
  OBVIOUS
<1>2. outcome' = "malformed" /\ pc = "classify"
  BY DEF Duplicate, SparseNotGnu, Fail, Finish
<1>3. CASE Duplicate
  BY <1>1, <1>2, <1>3, TakenDue DEF Duplicate, InMember
<1>4. CASE SparseNotGnu
  <2>1. Abstract!IsSparse(b) /\ ~mode.raw /\ b.format # "gnu"
    BY <1>1, <1>4 DEF SparseNotGnu, Abstract!IsSparse
  <2>2. /\ Abstract!SparseItem(headerPos, pend) \subseteq Due
        /\ b = BlockAt(stream.blocks, headerPos)
    BY <1>1, <1>2, <2>1, TakenDue DEF InMember
  <2>3. PICK size : size = Abstract!SizeIn(b, pend)
    OBVIOUS
  <2>4. Abstract!SparseItem(headerPos, pend) = Abstract!Closed("malformed")
    BY <2>1, <2>2, <2>3, SparseRefused
  <2> QED BY <1>2, <2>2, <2>4
<1> QED BY <1>3, <1>4

\* No chain of blocks makes a map of this member.
LEMMA SparseDue ==
  ASSUME FramingInv, ListingInv, pc \in {"map", "ext"}, NEW o, o = headerPos,
         NEW size, size = entry.size, NEW real, real = entry.header.real,
         \A n \in Abstract!Chains(o) : ~Abstract!ValidMap(Abstract!Slots(o, n), size, real)
  PROVE  Abstract!Closed("malformed") \subseteq Due
<1>1. PICK b : b = entry.header
  OBVIOUS
<1>2. PICK k \in 0..Len(stream.blocks) : Mapped(k)
  BY DEF ListingInv, Taken
<1>3. Abstract!IsSparse(b) /\ ~mode.raw
  BY <1>1, <1>2 DEF Mapped, Abstract!IsSparse
<1>4. /\ Abstract!SparseItem(o, pend) \subseteq Due /\ b = BlockAt(stream.blocks, o)
      /\ size = Abstract!SizeIn(b, pend)
  BY <1>1, <1>3, TakenDue DEF InMember
<1>5. \A n \in Abstract!Chains(o) :
        ~(b.format = "gnu" /\ Abstract!ValidMap(Abstract!Slots(o, n), size, b.real))
  BY <1>1
<1>6. Abstract!SparseItem(o, pend) = Abstract!Closed("malformed")
  BY ONLY <1>4, <1>5, SparseRefused
<1> QED BY <1>4, <1>6

\* The map needs more blocks than the archive has.
LEMMA ExtDue ==
  ASSUME FramingInv, ListingInv, ExtEof
  PROVE  Abstract!Closed(outcome') \subseteq Due
<1>1. pc = "ext" /\ rd >= stream.len /\ amt > 0 /\ outcome' = "malformed"
  BY DEF ExtEof, AtEof, Fail, Finish
<1>2. PICK k \in 0..Len(stream.blocks) : Mapped(k)
  BY <1>1 DEF ListingInv, Taken
<1>3. PICK o : o = headerPos
  OBVIOUS
<1>4. /\ rd + amt = o + BlockSize * (k + 2) /\ sparse.more
      /\ sparse.more = BlockAt(stream.blocks, o + k * BlockSize).extended
      /\ \A m \in 0..(k - 1) : BlockAt(stream.blocks, o + m * BlockSize).extended
  BY <1>1, <1>2, <1>3 DEF Mapped
<1>5. /\ o \in Nat /\ rd \in Nat /\ amt \in Nat /\ stream.len \in Nat /\ k \in Nat
      /\ BlockSize \in Nat \ {0}
  BY <1>3, BlockSizeAssumption DEF TypeOK, U64
<1>6. ASSUME NEW n \in Abstract!Chains(o)
      PROVE  FALSE
  <2>1. n \in Nat /\ k + 1 <= n
    BY <1>4, <1>5, ChainFrom
  <2>2. o + n * BlockSize + BlockSize <= stream.len
    BY ChainIs
  <2>3. n * BlockSize >= (k + 1) * BlockSize
    <3>1. (n - (k + 1)) * BlockSize \in Nat
      <4>1. n - (k + 1) \in Nat
        BY <1>5, <2>1
      <4>2. \A u, v \in Nat : u * v \in Nat
        OBVIOUS
      <4> QED BY <1>5, <4>1, <4>2
    <3>2. (n - (k + 1)) * BlockSize = n * BlockSize - (k + 1) * BlockSize
      BY <1>5, <2>1
    <3> QED BY <1>5, <2>1, <3>1, <3>2
  <2>4. BlockSize * (k + 2) = (k + 1) * BlockSize + BlockSize
    BY <1>5
  <2>5. n * BlockSize \in Nat /\ (k + 1) * BlockSize \in Nat
    BY <1>5, <2>1
  <2> QED BY ONLY <1>1, <1>4, <1>5, <2>2, <2>3, <2>4, <2>5
<1> QED BY <1>1, <1>3, <1>6, SparseDue

\* A slot does not fit, so it fits no map that has it.
LEMMA SlotDue ==
  ASSUME FramingInv, ListingInv, BadSlot
  PROVE  Abstract!Closed(outcome') \subseteq Due
<1>1. PICK slot : slot = Head(sparse.todo)
  OBVIOUS
<1>2. /\ pc = "map" /\ sparse.todo # <<>> /\ slot # None /\ ~Fits(slot)
      /\ outcome' = "malformed"
  BY <1>1 DEF BadSlot, Fail, Finish
<1>3. PICK k \in 0..Len(stream.blocks) : Mapped(k)
  BY <1>2 DEF ListingInv, Taken
<1>4. PICK o : o = headerPos
  OBVIOUS
<1>5. o \in Nat /\ k \in Nat
  BY <1>4 DEF TypeOK, U64
<1>6. PICK slots : slots = Abstract!Slots(o, k)
  OBVIOUS
<1>7. PICK seen : seen = Len(slots) - Len(sparse.todo)
  OBVIOUS
<1>8. PICK used : used = entry.size - sparse.remaining
  OBVIOUS
<1>9. PICK cur : cur = sparse.cur
  OBVIOUS
<1>10. /\ slots \in Seq(Slot) /\ sparse.todo \in Seq(Slot) /\ Left(slots, sparse.todo, seen)
       /\ Abstract!Laid(slots, seen, used, cur)
  BY <1>2, <1>3, <1>4, <1>5, <1>6, <1>7, <1>8, <1>9, MapFacts
<1>11. Len(slots) \in Nat /\ seen \in 0..(Len(slots) - 1) /\ slots[seen + 1] = slot
  BY ONLY <1>1, <1>2, <1>10, LeftFacts
<1>12. PICK size : size = entry.size
  OBVIOUS
<1>13. /\ size \in Nat
       /\ \/ slot.offset = Bad \/ slot.length = Bad
          \/ slot.length # 0 /\ used % BlockSize # 0
          \/ ~(cur <= slot.offset) \/ ~(End(slot) <= MaxU64)
          \/ ~(slot.length <= size - used)
  <2>1. entry.size \in Nat /\ sparse.remaining \in Nat
    BY DEF TypeOK, Entry, SparseMap, U64
  <2>2. size - used = sparse.remaining
    BY <1>8, <1>12, <2>1
  <2> QED BY <1>2, <1>8, <1>9, <1>12, <2>1, <2>2 DEF Fits, Used, End
<1>14. PICK real : real = entry.header.real
  OBVIOUS
<1>15. \A m \in 0..(k - 1) : BlockAt(stream.blocks, o + m * BlockSize).extended
  BY <1>3, <1>4 DEF Mapped
<1>16. ASSUME NEW n \in Abstract!Chains(o), Abstract!ValidMap(Abstract!Slots(o, n), size, real)
       PROVE  FALSE
  <2>1. n \in Nat /\ k <= n
    BY <1>5, <1>15, ChainFrom
  <2>2. PICK all : all = Abstract!Slots(o, n)
    OBVIOUS
  <2>3. Begins(slots, all) /\ all \in Seq(Slot)
    BY <1>5, <1>6, <2>1, <2>2, SlotsBegin, SlotsType
  <2>4. Len(slots) <= Len(all) /\ \A i \in 1..Len(slots) : slots[i] = all[i]
    BY <2>3 DEF Begins
  <2>5. Len(all) \in Nat
    BY <2>3, LenProperties
  <2>6. /\ seen \in Nat /\ seen <= Len(slots) /\ seen <= Len(all)
        /\ seen \in 0..(Len(all) - 1) /\ \A i \in 1..seen : slots[i] = all[i]
        /\ slot = all[seen + 1]
    <3>1. seen + 1 \in 1..Len(slots) /\ \A i \in 1..seen : i \in 1..Len(slots)
      BY <1>11
    <3> QED BY <1>11, <2>4, <2>5, <3>1
  <2>7. Abstract!Laid(all, seen, used, cur)
    BY ONLY <1>10, <2>3, <2>6, LaidSame
  <2>8. Abstract!ValidMap(all, size, real)
    BY <1>16, <2>2
  <2> QED BY ONLY <1>2, <1>13, <2>3, <2>6, <2>7, <2>8, LaidRefused
<1> QED BY <1>2, <1>4, <1>12, <1>14, <1>16, SparseDue

\* What a map that is read to its end has to do with any map that could be read.
LEMMA MapEnds ==
  ASSUME FramingInv, ListingInv, pc = "map", sparse.todo = <<>>, ~sparse.more,
         NEW k \in Nat, Mapped(k), NEW o, o = headerPos
  PROVE  /\ \A n \in Abstract!Chains(o) : n = k
         /\ Abstract!Slots(o, k) \in Seq(Slot) /\ Len(Abstract!Slots(o, k)) \in Nat
         /\ Abstract!ValidMap(Abstract!Slots(o, k), entry.size - sparse.remaining, sparse.cur)
<1>1. /\ \A m \in 0..(k - 1) : BlockAt(stream.blocks, o + m * BlockSize).extended
      /\ ~BlockAt(stream.blocks, o + k * BlockSize).extended
  BY DEF Mapped
<1>2. \A n \in Abstract!Chains(o) : n = k
  BY <1>1, ChainFrom
<1>3. PICK slots : slots = Abstract!Slots(o, k)
  OBVIOUS
<1>4. PICK seen : seen = Len(slots) - Len(sparse.todo)
  OBVIOUS
<1>5. /\ slots \in Seq(Slot) /\ sparse.todo \in Seq(Slot) /\ Left(slots, sparse.todo, seen)
      /\ Abstract!Laid(slots, seen, entry.size - sparse.remaining, sparse.cur)
  BY <1>3, <1>4, MapFacts
<1>6. seen = Len(slots) /\ Len(slots) \in Nat
  BY <1>5, LeftFacts
<1> QED BY <1>2, <1>3, <1>5, <1>6 DEF Abstract!ValidMap

LEMMA MapDue ==
  ASSUME FramingInv, ListingInv, SparseDone, ~MapComplete
  PROVE  Abstract!Closed(outcome') \subseteq Due
<1>1. pc = "map" /\ sparse.todo = <<>> /\ ~sparse.more /\ outcome' = "malformed"
  BY DEF SparseDone, Fail, Finish
<1>2. PICK k \in 0..Len(stream.blocks) : Mapped(k)
  BY <1>1 DEF ListingInv, Taken
<1>3. PICK o : o = headerPos
  OBVIOUS
<1>4. PICK size : size = entry.size
  OBVIOUS
<1>5. PICK real : real = entry.header.real
  OBVIOUS
<1>6. k \in Nat
  OBVIOUS
<1>7. ASSUME NEW n \in Abstract!Chains(o), Abstract!ValidMap(Abstract!Slots(o, n), size, real)
      PROVE  FALSE
  <2>1. PICK slots : slots = Abstract!Slots(o, k)
    OBVIOUS
  <2>2. /\ n = k /\ slots \in Seq(Slot) /\ Len(slots) \in Nat
        /\ Abstract!ValidMap(slots, entry.size - sparse.remaining, sparse.cur)
    BY <1>1, <1>2, <1>3, <1>6, <2>1, MapEnds
  <2>3. /\ Abstract!Laid(slots, Len(slots), entry.size - sparse.remaining, sparse.cur)
        /\ Abstract!Laid(slots, Len(slots), size, real) /\ Len(slots) \in 0..Len(slots)
    BY <1>7, <2>1, <2>2 DEF Abstract!ValidMap
  <2>4. size = entry.size - sparse.remaining /\ real = sparse.cur
    BY ONLY <2>2, <2>3, LaidOnce
  <2>5. sparse.remaining = 0
    <3>1. entry.size \in Nat /\ sparse.remaining \in Nat
      BY DEF TypeOK, Entry, SparseMap, U64
    <3> QED BY ONLY <1>4, <2>4, <3>1
  <2> QED BY <1>5, <2>4, <2>5 DEF MapComplete
<1> QED BY <1>1, <1>3, <1>4, <1>5, <1>7, SparseDue
-----------------------------------------------------------------------------
(* The steps of Listing.                                                   *)

\* The members as Listing has them.
Members == [i \in DOMAIN entries |-> Seen(entries[i])]

LEMMA ListNextIs ==
  ASSUME outcome = "open", stream' = stream, mode' = mode,
         NEW result \in Due, outcome' = result.outcome,
         Members' = IF result.outcome = "open" THEN Append(Members, result.item) ELSE Members
  PROVE  Abstract!ListNext
<1>1. Abstract!After[[at |-> Abstract!Here, pend |-> Abstract!NoPend]] = Due
  BY SameBlocks DEF Due, Answers
<1> QED BY <1>1 DEF Abstract!ListNext, Members

LEMMA FailListed ==
  ASSUME TypeOK, ListingInv, pc \in Calling, NEW r \in {"end", "malformed"}, Finish(r),
         Abstract!Closed(r) \subseteq Due
  PROVE  Abstract!ListNext
<1>1. outcome = "open" /\ outcome' = r /\ stream' = stream /\ mode' = mode /\ entries' = entries
  BY DEF ListingInv, Resting, Finish, reader, client
<1>2. PICK result : result = [outcome |-> r, item |-> None]
  OBVIOUS
<1>3. result \in Due /\ result.outcome = r /\ r # "open"
  BY <1>2 DEF Abstract!Closed
<1>4. Members' = Members
  BY <1>1 DEF Members
<1> QED BY ONLY <1>1, <1>3, <1>4, ListNextIs

\* A call that ends without a member.
LEMMA FailuresListed ==
  ASSUME FramingInv, CountInv, Checked, ListingInv,
         \/ SeekRefused \/ SkipEof \/ HeaderEof \/ ZeroEnd \/ Duplicate \/ SparseNotGnu
         \/ BadSlot \/ ExtEof \/ HeaderInvalid \/ (SparseDone /\ ~MapComplete)
  PROVE  Abstract!ListNext
<1>1. Abstract!Closed(outcome') \subseteq Due
  BY SeekDue, EndDue, BlockDue, MemberDue, SlotDue, ExtDue, MapDue
<1>2. PICK r \in {"end", "malformed"} : Finish(r)
  BY DEF SeekRefused, SkipEof, HeaderEof, ZeroEnd, Duplicate, SparseNotGnu, BadSlot,
         ExtEof, HeaderInvalid, SparseDone, Fail, NoHeader
<1>3. outcome' = r
  BY <1>2 DEF Finish
<1>4. pc \in Calling
  BY DEF SeekRefused, SkipEof, HeaderEof, ZeroEnd, Duplicate, SparseNotGnu, BadSlot,
         ExtEof, HeaderInvalid, SparseDone, Calling
<1> QED BY <1>1, <1>2, <1>3, <1>4, FailListed

LEMMA ErrorListed ==
  ASSUME FramingInv, ListingInv, ReadError
  PROVE  Abstract!ListError
<1>1. pc \in Calling /\ Finish("io")
  BY DEF ReadError, Fail, Calling, ReadPcs
<1> QED BY <1>1 DEF ListingInv, Resting, Finish, reader, client, Abstract!ListError

\* A call that returns a member.
LEMMA DeliverListed ==
  ASSUME TypeOK, ListingInv, pc \in Calling, NEW e \in Entry, Deliver(e),
         NEW d, d = [e EXCEPT !.start = rd, !.end = next],
         NEW item, item = Seen(d), [outcome |-> "open", item |-> item] \in Due
  PROVE  Abstract!ListNext
<1>1. outcome = "open" /\ outcome' = outcome /\ stream' = stream /\ mode' = mode
  BY DEF ListingInv, Resting, Deliver, Return, reader
<1>2. entries' = Append(entries, d) /\ entries \in Seq(Entry)
  BY DEF Deliver, TypeOK
<1>3. PICK result : result = [outcome |-> "open", item |-> item]
  OBVIOUS
<1>4. result \in Due /\ result.outcome = "open" /\ result.item = item
  BY <1>3
<1>5. Members' = Append(Members, item)
  <2>1. /\ Len(entries) \in Nat /\ DOMAIN entries = 1..Len(entries)
        /\ DOMAIN entries' = 1..(Len(entries) + 1)
    BY <1>2, LenProperties
  <2>2. \A i \in 1..(Len(entries) + 1) :
          entries'[i] = IF i = Len(entries) + 1 THEN d ELSE entries[i]
    BY <1>2, <2>1
  <2>3. Members \in Seq({Seen(entries[i]) : i \in DOMAIN entries}) /\ Len(Members) = Len(entries)
    BY <2>1 DEF Members
  <2>4. Append(Members, item)
          = [i \in 1..(Len(entries) + 1) |->
               IF i = Len(entries) + 1 THEN item ELSE Members[i]]
    BY <2>1, <2>3
  <2>5. \A i \in 1..(Len(entries) + 1) :
          Seen(entries'[i]) = IF i = Len(entries) + 1 THEN item ELSE Members[i]
    BY <2>1, <2>2 DEF Members
  <2>6. Members' = [i \in 1..(Len(entries) + 1) |-> Seen(entries'[i])]
    BY <2>1 DEF Members
  <2> QED BY ONLY <2>4, <2>5, <2>6
<1> QED BY ONLY <1>1, <1>4, <1>5, ListNextIs

\* The archive is one of those that may be given, and it is iterated as it may be.
Origin ==
  /\ \E s \in Streams : stream.blocks = s.blocks
  /\ mode.raw => TRUE \in Raws

LEMMA OriginNext ==
  ASSUME TypeOK, Origin, [Next]_vars
  PROVE  Origin'
<1> USE DEF Origin
<1>1. stream' = stream
  BY DEF Next, Step, Failure, Client, vars, reader, SeekPanic, StartSkip, Seek, SeekRefused,
         ReadSome, SkipEof, SkipDone, HeaderEof, ZeroEnd, ZeroSkip, HeaderInvalid, Header,
         Duplicate, StartSlurp, SlurpDone, DeliverPlain, StartSparse, SparseNotGnu, SkipSlot,
         AddBlock, BadSlot, StartExt, ExtEof, ExtPanic, ExtDone, SparseDone, DropChunk,
         ReadChunk, ReadEnd, ReadError, ReadFails, ReadReturn, Reopen, SetRaw, Exhausted,
         CallNext, CallRead, Panic, Fail, Finish, NoHeader, Deliver
<1>2. mode'.raw => mode.raw \/ TRUE \in Raws
  <2>1. CASE Reopen
    BY <2>1 DEF Reopen, TypeOK
  <2>2. ASSUME NEW r \in Raws, SetRaw(r) PROVE mode'.raw => TRUE \in Raws
    BY <2>2, ClientAssumption DEF SetRaw, TypeOK
  <2>3. CASE Exhausted \/ CallNext \/ \E i \in DOMAIN entries, want \in Bufs : CallRead(i, want)
    BY <2>3 DEF Exhausted, CallNext, CallRead, vars
  <2>4. CASE Step \/ Failure \/ UNCHANGED vars
    BY <2>4 DEF Step, Failure, vars, SeekPanic, StartSkip, Seek, SeekRefused,
         ReadSome, SkipEof, SkipDone, HeaderEof, ZeroEnd, ZeroSkip, HeaderInvalid, Header,
         Duplicate, StartSlurp, SlurpDone, DeliverPlain, StartSparse, SparseNotGnu, SkipSlot,
         AddBlock, BadSlot, StartExt, ExtEof, ExtPanic, ExtDone, SparseDone, DropChunk,
         ReadChunk, ReadEnd, ReadError, ReadFails, ReadReturn, Panic, Fail, Finish, NoHeader,
         Deliver
  <2> QED BY <2>1, <2>2, <2>3, <2>4 DEF Next, Client
<1> QED BY <1>1, <1>2

LEMMA OriginAlways ==
  ASSUME PosIsOffset
  PROVE  Spec => []Origin
<1>1. Init => Origin
  BY DEF Init, Origin
<1>2. TypeOK /\ Origin /\ [Next]_vars => Origin'
  BY OriginNext
<1> QED BY <1>1, <1>2, TypeCorrect, PTL DEF Spec

\* A member that is delivered as it is has no extension blocks.
LEMMA NotExtended ==
  ASSUME FramingInv, Origin, NoRawExtensions, ListingInv, DeliverPlain,
         NEW b, b = entry.header, Abstract!IsSparse(b)
  PROVE  ~b.extended
<1>1. /\ b = BlockAt(stream.blocks, headerPos) /\ b.kind = "header" /\ b.type = "sparse"
  BY DEF DeliverPlain, ListingInv, Taken, Abstract!WellFormed, Abstract!IsSparse
<1>2. mode.raw /\ b.format = "gnu"
  BY <1>1 DEF DeliverPlain, Abstract!IsSparse
<1>3. PICK s \in Streams : stream.blocks = s.blocks
  BY DEF Origin
<1>4. PICK i \in DOMAIN s.blocks : b = s.blocks[i]
  BY <1>1, <1>3 DEF BlockAt, Other
<1> QED BY <1>1, <1>2, <1>4 DEF NoRawExtensions, Origin

LEMMA PlainListed ==
  ASSUME FramingInv, Origin, NoRawExtensions, ListingInv, DeliverPlain
  PROVE  Abstract!ListNext
<1>1. PICK b : b = entry.header
  OBVIOUS
<1>2. PICK size \in U64 : size = entry.size
  BY DEF TypeOK, Entry
<1>3. PICK o \in Nat : o = headerPos
  BY DEF TypeOK, U64
<1>4. PICK e \in Entry : e = [entry EXCEPT !.pend = pend]
  BY DEF TypeOK, Entry
<1>5. pc = "classify" /\ ~Describes /\ Deliver(e) /\ (mode.raw \/ b.type # "sparse")
  BY <1>1, <1>4 DEF DeliverPlain
<1>6. ~(Abstract!IsSparse(b) /\ ~mode.raw)
  BY <1>5 DEF Abstract!IsSparse
<1>7. /\ b = BlockAt(stream.blocks, o) /\ size = Abstract!SizeIn(b, pend)
      /\ o + BlockSize <= stream.len /\ Abstract!PlainItem(o, pend) \subseteq Due
  BY <1>1, <1>2, <1>3, <1>5, <1>6, TakenDue DEF InMember
<1>8. Abstract!IsSparse(b) => ~b.extended
  BY <1>1, NotExtended
<1>9. TypeOK
  OBVIOUS
<1>10. Listed(o, size, pend, 0, o + BlockSize + Round(size)) \in Due
  <2>1. Listed(o, size, pend, 0, o + BlockSize + Round(size)) \in Abstract!PlainItem(o, pend)
    BY ONLY <1>7, <1>8, <1>9, PlainTaken
  <2> QED BY <1>7, <2>1
<1>11. /\ entry.headerPos = o /\ rd = o + BlockSize /\ next = o + BlockSize + Round(size)
  BY <1>2, <1>3, <1>5 DEF ListingInv, Taken
<1>12. PICK d : d = [e EXCEPT !.start = rd, !.end = next]
  OBVIOUS
<1>13. PICK item : item = Seen(d)
  OBVIOUS
<1>14. Listed(o, size, pend, 0, o + BlockSize + Round(size)) = [outcome |-> "open", item |-> item]
  <2>1. /\ d.headerPos = o /\ d.header = b /\ d.size = size /\ d.pend = pend
        /\ d.start = rd /\ d.end = next
    BY <1>1, <1>2, <1>4, <1>11, <1>12 DEF TypeOK, Entry
  <2>2. o + (1 + 0) * BlockSize = o + BlockSize
    BY BlockSizeAssumption
  <2> QED BY ONLY <1>7, <1>11, <1>13, <2>1, <2>2 DEF Listed, Seen
<1>15. pc \in Calling /\ [outcome |-> "open", item |-> item] \in Due
  BY <1>5, <1>10, <1>14 DEF Calling
<1> QED BY ONLY <1>5, <1>9, <1>12, <1>13, <1>15, ListingInv, DeliverListed

LEMMA SparseListed ==
  ASSUME FramingInv, ListingInv, SparseDone, MapComplete
  PROVE  Abstract!ListNext
<1>1. PICK b : b = entry.header
  OBVIOUS
<1>2. PICK size \in U64 : size = entry.size
  BY DEF TypeOK, Entry
<1>3. PICK o \in Nat : o = headerPos
  BY DEF TypeOK, U64
<1>4. PICK e \in Entry : e = [entry EXCEPT !.size = sparse.cur]
  BY DEF TypeOK, Entry, SparseMap
<1>5. /\ pc = "map" /\ sparse.todo = <<>> /\ ~sparse.more /\ Deliver(e)
      /\ sparse.cur = b.real /\ sparse.remaining = 0
  BY <1>1, <1>4 DEF SparseDone, MapComplete
<1>6. PICK k \in 0..Len(stream.blocks) : Mapped(k)
  BY <1>5 DEF ListingInv, Taken
<1>7. k \in Nat
  OBVIOUS
<1>8. /\ ~mode.raw /\ b.type = "sparse" /\ b.format = "gnu" /\ entry.pend = pend
      /\ rd = o + BlockSize * (k + 1) /\ next = o + BlockSize * (k + 1) + Round(size)
      /\ rd <= stream.len
      /\ sparse.more = BlockAt(stream.blocks, o + k * BlockSize).extended
      /\ \A m \in 0..(k - 1) : BlockAt(stream.blocks, o + m * BlockSize).extended
  BY <1>1, <1>2, <1>3, <1>5, <1>6 DEF Mapped
<1>9. /\ b = BlockAt(stream.blocks, o) /\ size = Abstract!SizeIn(b, pend)
      /\ Abstract!SparseItem(o, pend) \subseteq Due
  <2>1. Abstract!IsSparse(b)
    BY <1>8 DEF Abstract!IsSparse
  <2> QED BY <1>1, <1>2, <1>3, <1>5, <1>8, <2>1, TakenDue DEF InMember
<1>10. k \in Abstract!Chains(o)
  <2>1. BlockSize * (k + 1) = k * BlockSize + BlockSize /\ k * BlockSize \in Nat
    BY <1>7, BlockSizeAssumption
  <2>2. o + k * BlockSize + BlockSize <= stream.len
    <3>1. rd \in Nat /\ stream.len \in Nat /\ BlockSize \in Nat
      BY BlockSizeAssumption DEF TypeOK, U64
    <3> QED BY ONLY <1>3, <1>8, <2>1, <3>1
  <2>3. ~BlockAt(stream.blocks, o + k * BlockSize).extended
    BY <1>5, <1>8
  <2> QED BY <1>6, <1>8, <2>2, <2>3, ChainIs
<1>11. Abstract!ValidMap(Abstract!Slots(o, k), size, b.real)
  <2>1. Abstract!ValidMap(Abstract!Slots(o, k), entry.size - sparse.remaining, sparse.cur)
    BY <1>3, <1>5, <1>6, <1>7, MapEnds
  <2>2. entry.size - sparse.remaining = size
    BY <1>2, <1>5 DEF U64
  <2> QED BY ONLY <1>5, <2>1, <2>2
<1>12. o + BlockSize * (k + 1) + Round(size) <= MaxU64
  BY <1>8, WidthAssumption DEF TypeOK, U64
<1>13. Listed(o, b.real, pend, k, o + BlockSize * (k + 1) + Round(size)) \in Due
  <2>1. Listed(o, b.real, pend, k, o + BlockSize * (k + 1) + Round(size))
          \in Abstract!SparseItem(o, pend)
    BY ONLY <1>8, <1>9, <1>10, <1>11, <1>12, SparseTaken
  <2> QED BY <1>9, <2>1
<1>14. PICK d : d = [e EXCEPT !.start = rd, !.end = next]
  OBVIOUS
<1>15. PICK item : item = Seen(d)
  OBVIOUS
<1>16. entry.headerPos = o
  BY <1>3, <1>5 DEF ListingInv, Taken
<1>17. Listed(o, b.real, pend, k, o + BlockSize * (k + 1) + Round(size))
         = [outcome |-> "open", item |-> item]
  <2>1. /\ d.headerPos = o /\ d.header = b /\ d.size = b.real /\ d.pend = pend
        /\ d.start = rd /\ d.end = next
    BY <1>1, <1>4, <1>5, <1>8, <1>14, <1>16 DEF TypeOK, Entry
  <2>2. o + (1 + k) * BlockSize = o + BlockSize * (k + 1)
    BY <1>7, BlockSizeAssumption
  <2> QED BY ONLY <1>8, <1>9, <1>15, <2>1, <2>2 DEF Listed, Seen
<1>18. TypeOK /\ pc \in Calling /\ [outcome |-> "open", item |-> item] \in Due
  BY <1>5, <1>13, <1>17 DEF Calling
<1> QED BY ONLY <1>4, <1>5, <1>14, <1>15, <1>18, ListingInv, DeliverListed

\* What Listing does not see.
LEMMA Unlisted ==
  ASSUME TypeOK, SeenAlike, stream' = stream, mode' = mode, outcome' = outcome
  PROVE  UNCHANGED Abstract!vars
BY SeenHere DEF Abstract!vars

LEMMA StepsUnlisted ==
  ASSUME FramingInv, TypeOK', ListingInv,
         \/ SeekPanic \/ StartSkip \/ Seek \/ ReadSome \/ SkipDone \/ ZeroSkip \/ Header
         \/ StartSlurp \/ SlurpDone \/ StartSparse \/ SkipSlot \/ AddBlock
         \/ StartExt \/ ExtPanic \/ ExtDone \/ DropChunk \/ ReadChunk \/ ReadEnd \/ ReadFails
         \/ Exhausted \/ CallNext \/ UNCHANGED vars
         \/ \E i \in DOMAIN entries, want \in Bufs : CallRead(i, want)
  PROVE  UNCHANGED Abstract!vars
<1>1. CASE DropChunk \/ ReadChunk \/ ReadEnd \/ ReadFails
  <2>1. outcome' = outcome /\ stream' = stream /\ mode' = mode /\ SeenAlike
    BY <1>1, ReadingAlike
  <2> QED BY <2>1, Unlisted
<1>2. CASE ~(DropChunk \/ ReadChunk \/ ReadEnd \/ ReadFails)
  <2>1. outcome' = outcome /\ stream' = stream /\ mode' = mode /\ entries' = entries
    BY <1>2 DEF reader, call, client, vars, SeekPanic, StartSkip, Seek, ReadSome, SkipDone,
           ZeroSkip, Header, StartSlurp, SlurpDone, StartSparse, SkipSlot, AddBlock, StartExt,
           ExtPanic, ExtDone, Exhausted, CallNext, CallRead, Panic
  <2> QED BY <2>1, SeenSame, Unlisted
<1> QED BY <1>1, <1>2

LEMMA SetRawListed ==
  ASSUME TypeOK, NEW r \in Raws, SetRaw(r)
  PROVE  Abstract!SetRaw
<1>1. /\ stream' = stream /\ outcome' = outcome /\ entries' = entries
      /\ mode' = [mode EXCEPT !.raw = r] /\ r \in BOOLEAN
  BY ClientAssumption DEF SetRaw, reader, client
<1>2. mode'.raw = r /\ mode'.seek = mode.seek /\ mode'.zeros = mode.zeros
  BY <1>1 DEF TypeOK
<1> QED BY <1>1, <1>2 DEF Abstract!SetRaw

LEMMA RawCleared ==
  ASSUME NEW r, NEW k, NEW z
  PROVE  [[raw |-> r, seek |-> k, zeros |-> z] EXCEPT !.raw = FALSE]
           = [raw |-> FALSE, seek |-> k, zeros |-> z]
<1> DEFINE f == [[raw |-> r, seek |-> k, zeros |-> z] EXCEPT !.raw = FALSE]
           g == [raw |-> FALSE, seek |-> k, zeros |-> z]
<1>1. f.raw = g.raw /\ f.seek = g.seek /\ f.zeros = g.zeros
  OBVIOUS
<1>2. /\ f = [x \in {"raw", "seek", "zeros"} |-> f[x]]
      /\ g = [x \in {"raw", "seek", "zeros"} |-> g[x]]
  OBVIOUS
<1> HIDE DEF f, g
<1>3. f = g
  BY <1>1, <1>2
<1> QED BY <1>3 DEF f, g

LEMMA ReopenListed ==
  ASSUME FramingInv, ListingInv, Reopen
  PROVE  Abstract!Restart
<1>1. /\ stream' = stream /\ outcome' = "open" /\ entries' = <<>> /\ rd = 0
      /\ mode' = [mode EXCEPT !.raw = FALSE]
  BY DEF Reopen, reader
<1>2. entries = <<>>
  BY <1>1 DEF ListingInv, Reached
<1>3. mode'.raw = FALSE /\ mode'.seek = mode.seek /\ mode'.zeros = mode.zeros
  BY <1>1 DEF TypeOK
<1>4. [i \in DOMAIN entries |-> Seen(entries[i])] = <<>>
  BY <1>2
<1>5. [i \in DOMAIN entries' |-> Seen(entries[i])'] = [i \in DOMAIN entries |-> Seen(entries[i])]
  <2>1. [i \in DOMAIN entries' |-> Seen(entries[i])'] = <<>>
    BY <1>1
  <2> QED BY <1>4, <2>1
<1>6. [raw |-> mode.raw, seek |-> mode.seek, zeros |-> mode.zeros]'
        = [[raw |-> mode.raw, seek |-> mode.seek, zeros |-> mode.zeros] EXCEPT !.raw = FALSE]
  <2>1. [raw |-> mode.raw, seek |-> mode.seek, zeros |-> mode.zeros]'
          = [raw |-> FALSE, seek |-> mode.seek, zeros |-> mode.zeros]
    BY <1>3, Zenon
  <2> QED BY <2>1, RawCleared
<1> QED BY <1>1, <1>4, <1>5, <1>6 DEF Abstract!Restart

\* Every step of the iterator or of its client is one of Listing or changes nothing there.
LEMMA ListedNext ==
  ASSUME FramingInv, FramingInv', CountInv, Origin, ListingInv, Checked, NoRawExtensions,
         [Next]_vars
  PROVE  Abstract!Next \/ UNCHANGED Abstract!vars
<1>1. CASE \/ SeekRefused \/ SkipEof \/ HeaderEof \/ ZeroEnd \/ Duplicate \/ SparseNotGnu
           \/ BadSlot \/ ExtEof \/ HeaderInvalid
  BY <1>1, FailuresListed DEF Abstract!Next
<1>2. CASE ReadError
  BY <1>2, ErrorListed DEF Abstract!Next
<1>3. CASE DeliverPlain
  BY <1>3, PlainListed DEF Abstract!Next
<1>4. CASE SparseDone
  BY <1>4, SparseListed, FailuresListed DEF Abstract!Next
<1>5. CASE Reopen
  BY <1>5, ReopenListed DEF Abstract!Next
<1>6. ASSUME NEW r \in Raws, SetRaw(r) PROVE Abstract!Next
  BY <1>6, SetRawListed DEF Abstract!Next
<1>7. CASE \/ SeekPanic \/ StartSkip \/ Seek \/ ReadSome \/ SkipDone \/ ZeroSkip \/ Header
           \/ StartSlurp \/ SlurpDone \/ StartSparse \/ SkipSlot \/ AddBlock
           \/ StartExt \/ ExtPanic \/ ExtDone \/ DropChunk \/ ReadChunk \/ ReadEnd \/ ReadFails
           \/ Exhausted \/ CallNext \/ UNCHANGED vars
           \/ \E i \in DOMAIN entries, want \in Bufs : CallRead(i, want)
  BY <1>7, StepsUnlisted
<1> QED BY <1>1, <1>2, <1>3, <1>4, <1>5, <1>6, <1>7 DEF Next, Step, Failure, Client

LEMMA ListedInit ==
  ASSUME Init
  PROVE  Abstract!Init
<1>1. PICK s \in Streams : stream.blocks = s.blocks /\ stream.len = s.len
  BY DEF Init
<1>2. stream.blocks \in Seq(Abstract!Block) /\ stream.len \in Abstract!U64
  BY <1>1, StreamsAssumption DEF Abstract!Block, Block, Abstract!U64, U64,
       Abstract!Field, Field, Abstract!Slot, Slot
<1>3. mode.raw = FALSE /\ mode.seek \in BOOLEAN /\ mode.zeros \in BOOLEAN
  BY ClientAssumption DEF Init
<1>4. [i \in DOMAIN entries |-> Seen(entries[i])] = <<>> /\ outcome = "open"
  BY DEF Init
<1> QED BY <1>2, <1>3, <1>4 DEF Abstract!Init

\* Iterating returns the members of the archive, whatever the reader, the client and the
\* archive do (archive.rs:281, 317, 400): none missed, invented or found in data, each
\* with its names and its size, and an end only at the end.
THEOREM EntriesListTheArchive ==
  ASSUME PosIsOffset, Checked, NoRawExtensions
  PROVE  Spec => ListsTheArchive
<1>1. Init => Abstract!Init
  BY ListedInit
<1>2. FramingInv /\ FramingInv' /\ CountInv /\ Origin /\ ListingInv /\ [Next]_vars
        => [Abstract!Next]_(Abstract!vars)
  BY ListedNext
<1> HIDE DEF FramingInv
<1> QED BY <1>1, <1>2, FramingAlways, CountAlways, OriginAlways, ListingAlways, PTL
        DEF Spec, ListsTheArchive, Abstract!Spec
=============================================================================
