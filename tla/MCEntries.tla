------------------------------ MODULE MCEntries ------------------------------
(***************************************************************************)
(* Small instances of Entries: the archives, modes and clients of each run.*)
(* A block has two bytes and a u64 five bits, so that sizes reach every    *)
(* rounding and every overflow within archives of a few blocks.            *)
(***************************************************************************)
EXTENDS EntriesRefinement, EntriesInvariants, SequencesExt

Member(type, format, size) ==
  [Other EXCEPT !.kind = "header", !.type = type, !.format = format, !.size = size,
                !.map = <<>>]
PaxMember(size, paxsize) == [Member("pax", "ustar", size) EXCEPT !.paxsize = paxsize]
At(offset, length) == [offset |-> offset, length |-> length]
SparseMember(size, map, more, real) ==
  [Member("sparse", "gnu", size) EXCEPT !.map = map, !.extended = more, !.real = real]
Extension(map, more) == [Other EXCEPT !.kind = "extension", !.map = map, !.extended = more]

\* A member and the blocks its data fills.
Unit(header) == <<header>> \o [i \in 1..(Round(header.size) \div BlockSize) |-> Other]

\* Streams made of block sequences, whole or with bytes cut off the end.
Cut(sequences, cuts) ==
  { [blocks |-> b,
     len    |-> IF c <= BlockSize * Len(b) THEN BlockSize * Len(b) - c ELSE 0] :
      b \in sequences, c \in cuts }

Of(units, n) == {FlattenSeq(u) : u \in BoundedSeq(units, n)}

AllModes   == [seek : BOOLEAN, zeros : BOOLEAN, checks : {TRUE}]
ZeroEnds   == [seek : BOOLEAN, zeros : {FALSE}, checks : {TRUE}]
BothBuilds == [seek : BOOLEAN, zeros : {FALSE}, checks : BOOLEAN]
Seeking    == [seek : {TRUE}, zeros : {FALSE}, checks : {TRUE}]
Streaming  == [seek : {FALSE}, zeros : {FALSE}, checks : {TRUE}]

-----------------------------------------------------------------------------
(* The archives of each run.                                               *)

File(size) == Member("file", "gnu", size)

\* Every sequence of blocks: sizes that fill no block, part of one and more than
\* one, zeros anywhere, data that runs into headers, a stream cut in a block.
PlainStreams ==
  Cut(BoundedSeq({File(0), Member("file", "old", 1), Member("file", "ustar", 3),
                  Zeros, Other}, 4), {0, 1})

\* Members that describe the next one, twice, out of order, or with none to
\* describe; a pax size that reaches over the member it is for.
DescribedStreams ==
  Cut(Of({Unit(Member("longname", "gnu", 0)), Unit(Member("longlink", "ustar", 1)),
          Unit(Member("longname", "old", 0)), Unit(PaxMember(1, 3)),
          Unit(File(2))}, 4), {0, 3})

\* Sparse maps that are right and maps that are not: out of order, overlapping,
\* unaligned, with holes, with empty slots, with and without an extension.
SomeSlots == {None, At(0, 2), At(2, 1), At(4, 2), At(4, 0), At(0, 1)}
SparseHeads ==
  { SparseMember(size, map, more, real) :
      size \in {0, 2, 3, 4}, map \in BoundedSeq(SomeSlots, 2), more \in BOOLEAN,
      real \in {0, 3, 4, 6} }
SparseTails ==
  {<<Other, Other>>} \cup {<<Extension(m, FALSE), Other, Other>> : m \in BoundedSeq(SomeSlots, 1)}
SparseStreams == Cut({<<h>> \o t \o <<File(0)>> : h \in SparseHeads, t \in SparseTails}, {0})

\* Every value of the size in a header and in pax records, and of the offset of a
\* sparse slot.
NumericHeads ==
  {<<PaxMember(1, p), Other, File(s)>> : p \in U64 \cup {None}, s \in Field}
  \cup {<<SparseMember(s, <<At(o, n)>>, FALSE, r)>> :
          s \in {2, MaxU64}, o \in Field, n \in {0, 2, Bad}, r \in {0, 1, 2, 30, 31, Bad}}
NumericStreams == Cut({h \o <<Other, File(0)>> : h \in NumericHeads}, {0})

\* A few archives with everything in them, for the properties of whole runs.
MixedStreams ==
  Cut(Of({Unit(File(3)), Unit(Member("longname", "gnu", 1)), <<Zeros>>,
          Unit(Member("sparse", "ustar", 0)),
          <<SparseMember(2, <<At(1, 2)>>, TRUE, 5), Extension(<<At(5, 0)>>, FALSE), Other>>,
          <<SparseMember(2, <<None>>, TRUE, 2), Extension(<<>>, TRUE),
            Extension(<<At(0, 2)>>, FALSE), Other>>}, 2), {0, 1, 4})

\* A sparse file with holes before, between and after its data, and a plain file,
\* cut off everywhere.
Name == Member("longname", "gnu", 1)
InvariantStreams ==
  Cut({<<SparseMember(4, <<At(1, 2), At(4, 2), At(7, 0)>>, more, 7)>> \o x \o <<Other, Other>>
         \o f : more \in BOOLEAN, x \in {<<>>, <<Extension(<<None>>, FALSE)>>},
                     f \in {Unit(File(0)), Unit(File(3)), Unit(Name) \o Unit(Name)}}, 0..12)

ContentStreams == PlainStreams \cup SparseStreams \cup InvariantStreams
Whole(blocks) == {[blocks |-> blocks, len |-> BlockSize * Len(blocks)]}

\* A member behind one that a seek does not reach over.
FarStreams == Whole(Unit(File(16)) \o Unit(File(1)))

ListingStreams == DescribedStreams \cup NumericStreams \cup FarStreams

\* Two files and the zeros that end an archive.
TwoFiles == Whole(Unit(File(4)) \o Unit(File(2)) \o <<Zeros, Zeros>>)

\* The mixed archives, the two files, and a sparse member whose extension takes the
\* next header's offset past the largest u64.
HugeSparse == <<SparseMember(28, <<At(0, 28)>>, TRUE, 28), Extension(<<>>, FALSE), Zeros>>
DisorderStreams ==
  MixedStreams \cup TwoFiles \cup Whole(HugeSparse)

-----------------------------------------------------------------------------
(* One archive for each disagreement.                                      *)

HugeStreams == Whole(HugeSparse)

=============================================================================
