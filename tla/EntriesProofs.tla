---------------------------- MODULE EntriesProofs ----------------------------
(***************************************************************************)
(* What Entries promises to any client, for every archive, block size and  *)
(* integer width: the counters keep their types, a header is decoded where *)
(* the iterator expects it, and a call reads at most one describing member *)
(* of each kind.  The clients may read entries out of sequence; more is    *)
(* promised to those that do not, in the second half.                      *)
(***************************************************************************)
EXTENDS EntriesInvariants, TLAPS

LEMMA RoundBounds ==
  ASSUME NEW n \in Nat
  PROVE  Round(n) \in Nat /\ n <= Round(n)
<1> USE BlockSizeAssumption
<1> DEFINE q == (n + BlockSize - 1) \div BlockSize
<1>1. q \in Nat
  OBVIOUS
<1>2. n + BlockSize - 1 = BlockSize * q + ((n + BlockSize - 1) % BlockSize)
  OBVIOUS
<1>3. (n + BlockSize - 1) % BlockSize \in 0..(BlockSize - 1)
  OBVIOUS
<1>4. q * BlockSize \in Nat /\ q * BlockSize = BlockSize * q
  BY <1>1
<1> QED BY <1>1, <1>2, <1>3, <1>4 DEF Round

LEMMA OtherType == Other \in Block /\ Other.map \in Seq(Slot)
BY DEF Other, Block, Slot, Field

LEMMA BlockAtType ==
  ASSUME NEW blocks \in Seq(Block), NEW offset \in Int
  PROVE  BlockAt(blocks, offset) \in Block
BY OtherType DEF BlockAt

LEMMA MapOfType ==
  ASSUME NEW block \in Block
  PROVE  MapOf(block) \in Seq(Slot)
BY OtherType DEF MapOf, Block

\* What a read changes of an entry.
LEMMA GivenType ==
  ASSUME NEW e \in Entry, NEW n \in Nat, e.data # <<>>, After(e.data[1], n) \in Chunk
  PROVE  /\ Given(e, n) \in Entry
         /\ Given(e, n).data = [e.data EXCEPT ![1] = After(e.data[1], n)]
         /\ Given(e, n).got = e.got + n
         /\ \A f \in {"start", "bytes", "end", "size"} : Given(e, n)[f] = e[f]
<1> DEFINE rest == [e.data EXCEPT ![1] = After(e.data[1], n)]
           more == [e EXCEPT !.got = e.got + n]
<1>1. e.data \in Seq(Chunk) /\ e.got + n \in Nat
  BY DEF Entry
<1>2. rest \in Seq(Chunk)
  BY <1>1
<1>3. more \in Entry /\ more.got = e.got + n /\ \A f \in {"start", "bytes", "end", "size"} : more[f] = e[f]
  BY <1>1 DEF Entry
<1>4. Given(e, n) = [more EXCEPT !.data = rest]
  BY DEF Given
<1> HIDE DEF rest, more
<1>5. /\ Given(e, n) \in Entry /\ Given(e, n).data = rest
      /\ Given(e, n).got = e.got + n
      /\ \A f \in {"start", "bytes", "end", "size"} : Given(e, n)[f] = e[f]
  BY <1>2, <1>3, <1>4 DEF Entry
<1> QED
  BY <1>5 DEF rest

LEMMA InitialLocals ==
  NoPend \in Pending /\ NoEntry \in Entry /\ NoMap \in SparseMap /\ NoEntry.data = <<>>
<1>1. NoPend \in Pending
  BY DEF NoPend, Pending
<1>2. NoEntry \in Entry /\ NoEntry.data = <<>>
  BY <1>1, OtherType, WidthAssumption DEF NoEntry, Entry, U64
<1>3. NoMap \in SparseMap
  BY WidthAssumption DEF NoMap, SparseMap, U64
<1> QED BY <1>1, <1>2, <1>3

-----------------------------------------------------------------------------
(* The invariant of the framing, action by action.                         *)

USE DEF FramingInv, Positions, Locals, Bounded, BoundedEntry

LEMMA FramingInit ==
  ASSUME PosIsOffset, Init
  PROVE  FramingInv
<1>1. TypeOK
  <2>1. stream \in [blocks : Seq(Block), len : U64, base : U64]
    BY StreamsAssumption, ClientAssumption DEF Init
  <2>2. mode \in [raw : BOOLEAN, seek : BOOLEAN, zeros : BOOLEAN, checks : BOOLEAN]
    BY ClientAssumption DEF Init
  <2>3. 0 \in U64 /\ "idle" \in Pcs
    BY WidthAssumption DEF U64, Pcs
  <2>4. entries \in Seq(Entry) /\ reading \in [entry : Nat, want : Nat]
    BY DEF Init
  <2>5. done \in BOOLEAN /\ processed \in Nat /\ outcome \in {"open", "end", "malformed", "io"}
    BY DEF Init
  <2> QED
    BY <2>1, <2>2, <2>3, <2>4, <2>5, InitialLocals DEF TypeOK, Init
<1>2. Positions
  BY ClientAssumption DEF Init, PosIsOffset, Checked
<1>3. Locals /\ BoundedEntry /\ Bounded
  BY InitialLocals DEF Init
<1> QED BY <1>1, <1>2, <1>3

LEMMA FramingFinish ==
  ASSUME FramingInv, NEW r \in {"end", "malformed", "io"}, Finish(r), next' \in U64
  PROVE  FramingInv'
<1> USE DEF Finish, Return, reader, client
<1>1. TypeOK'
  BY InitialLocals, WidthAssumption DEF TypeOK, Pcs, U64
<1>2. Positions' /\ Locals' /\ Bounded'
  BY DEF TypeOK
<1>3. BoundedEntry'
  BY InitialLocals
<1> QED BY <1>1, <1>2, <1>3

LEMMA FramingPanic ==
  ASSUME FramingInv, Panic
  PROVE  FramingInv'
BY DEF Panic, TypeOK, Pcs, reader, call, client

LEMMA FramingDeliver ==
  ASSUME FramingInv, NEW e \in Entry, \A j \in DOMAIN e.data : ChunkOK(e.data[j]), Deliver(e)
  PROVE  FramingInv'
<1> USE DEF Deliver, Return, reader
<1> DEFINE d == [e EXCEPT !.start = rd, !.end = next]
<1>1. d \in Entry /\ d.data = e.data
  BY DEF TypeOK, Entry
<1>2. TypeOK'
  BY <1>1, InitialLocals, WidthAssumption DEF TypeOK, Pcs, U64
<1>3. Positions' /\ Locals'
  OBVIOUS
<1>4. Bounded'
  BY <1>1 DEF TypeOK
<1>5. BoundedEntry'
  BY InitialLocals
<1> QED BY <1>2, <1>3, <1>4, <1>5

\* The size of a valid member is a u64, wherever it comes from.
LEMMA MemberSize ==
  ASSUME TypeOK, Valid(BlockRead)
  PROVE  BlockRead \in Block /\ SizeOf(BlockRead) \in U64
<1>1. BlockRead \in Block
  BY BlockAtType, BlockSizeAssumption DEF BlockRead, TypeOK, U64
<1>2. PaxSize \in U64 \cup {None}
  <2>1. pend.pax # None => BlockAt(stream.blocks, pend.pax) \in Block
    BY BlockAtType, SentinelAssumption DEF TypeOK, Pending, U64
  <2> QED
    BY <2>1 DEF PaxSize, Block
<1>3. SizeOf(BlockRead) \in U64
  BY <1>1, <1>2 DEF Valid, SizeOf, Block, Field
<1> QED
  BY <1>1, <1>3

\* A slot that add_block accepts fits the file and what is left of the data.
LEMMA SlotBounds ==
  ASSUME FramingInv, pc = "map", NEW slot \in [offset : U64, length : U64], Fits(slot)
  PROVE  /\ Used \in U64 /\ Used + slot.length <= MaxU64 /\ slot.length <= sparse.remaining
         /\ Used + slot.length <= entry.size
         /\ sparse.remaining - slot.length \in U64
         /\ slot.offset + slot.length \in U64 /\ slot.offset - sparse.cur \in U64
         /\ sparse.cur + (slot.offset - sparse.cur) = slot.offset
<1>1. /\ entry.size \in U64 /\ sparse.remaining \in U64 /\ sparse.cur \in U64
      /\ sparse.remaining <= entry.size
  BY DEF TypeOK, Entry, SparseMap
<1>2. /\ slot.offset \in U64 /\ slot.length \in U64 /\ slot.length <= sparse.remaining
      /\ sparse.cur <= slot.offset /\ slot.offset + slot.length <= MaxU64
  BY DEF Fits
<1>3. \A o, l \in U64 :
        l <= sparse.remaining /\ sparse.cur <= o /\ o + l <= MaxU64 =>
          /\ Used \in U64 /\ Used + l <= MaxU64 /\ Used + l <= entry.size
          /\ sparse.remaining - l \in U64
          /\ o + l \in U64 /\ o - sparse.cur \in U64 /\ sparse.cur + (o - sparse.cur) = o
  BY <1>1, WidthAssumption DEF Used, U64
<1> QED
  BY <1>2, <1>3

LEMMA FramingStep ==
  ASSUME FramingInv, Step
  PROVE  FramingInv'
<1> USE DEF reader, client, call
<1>1. CASE SeekPanic
  BY <1>1, FramingPanic DEF SeekPanic
<1>2. CASE StartSkip
  BY <1>2, WidthAssumption DEF StartSkip, Delta, TypeOK, Pcs, ReadPcs, U64
<1>3. CASE Seek
  BY <1>3, BlockSizeAssumption, WidthAssumption DEF Seek, Delta, TypeOK, Pcs, ReadPcs, U64
<1>4. CASE SeekRefused
  BY <1>4, FramingFinish DEF SeekRefused, Fail, TypeOK
<1>5. CASE ReadSome
  <2>1. PICK n \in 1..Least(amt, stream.len - rd) : Reads(n) /\ amt' = amt - n
    BY <1>5 DEF ReadSome
  <2>2. n \in Nat /\ n <= amt /\ n <= stream.len - rd
    BY DEF Least, TypeOK, U64
  <2>3. rd' \in U64 /\ pos' \in U64 /\ amt' \in U64 /\ pos' = rd' /\ rd' + amt' = rd + amt
    BY <2>1, <2>2, WidthAssumption DEF Reads, TypeOK, U64
  <2> QED
    BY <1>5, <2>3 DEF ReadSome, TypeOK
<1>6. CASE SkipEof
  BY <1>6, FramingFinish DEF SkipEof, Fail, TypeOK
<1>7. CASE SkipDone
  BY <1>7, BlockSizeAssumption, WidthAssumption, SMTT(30) DEF SkipDone, TypeOK, Pcs, ReadPcs, U64
<1>8. CASE HeaderEof
  BY <1>8, FramingFinish DEF HeaderEof, NoHeader, Fail, TypeOK
<1>9. CASE ZeroEnd
  BY <1>9, FramingFinish DEF ZeroEnd, NoHeader, Fail, TypeOK
<1>10. CASE ZeroSkip
  BY <1>10, BlockSizeAssumption, WidthAssumption DEF ZeroSkip, TypeOK, Pcs, ReadPcs, U64
<1>11. CASE HeaderInvalid
  BY <1>11, FramingFinish, BlockSizeAssumption, WidthAssumption DEF HeaderInvalid, TypeOK, U64
<1>12. CASE Header
  <2> DEFINE size == SizeOf(BlockRead)
  <2>1. BlockRead \in Block /\ size \in U64
    BY <1>12, MemberSize DEF Header
  <2>4. Round(size) \in Nat
    BY <2>1, RoundBounds DEF U64
  <2>5. next' \in U64 /\ next + BlockSize \in U64
    BY <1>12, <2>1, <2>4, BlockSizeAssumption, WidthAssumption, SMTT(30) DEF Header, Valid, TypeOK, U64
  <2>6. Data(size, 0, 0) \in Chunk /\ ChunkOK(Data(size, 0, 0))
    BY <2>1, WidthAssumption DEF Data, Chunk, ChunkOK, U64
  <2>7. entry' \in Entry /\ entry'.data = <<Data(size, 0, 0)>>
    <3>1. 0 \in U64 /\ <<Data(size, 0, 0)>> \in Seq(Chunk)
      BY <2>6, WidthAssumption DEF U64
    <3> QED
      BY <1>12, <2>1, <2>5, <3>1, InitialLocals DEF Header, TypeOK, Entry
  <2>8. TypeOK'
    BY <1>12, <2>5, <2>7 DEF Header, TypeOK, Pcs
  <2> QED
    BY <1>12, <2>6, <2>7, <2>8 DEF Header
<1>13. CASE Duplicate
  BY <1>13, FramingFinish DEF Duplicate, Fail, TypeOK
<1>14. CASE StartSlurp
  BY <1>14 DEF StartSlurp, TypeOK, Pcs, ReadPcs, Entry
<1>15. CASE SlurpDone
  <2>1. pend' \in Pending /\ headerPos' \in U64
    BY <1>15 DEF SlurpDone, TypeOK, Entry, Pending
  <2>2. 0 \in U64
    BY WidthAssumption DEF U64
  <2>3. TypeOK'
    BY <1>15, <2>1, <2>2, InitialLocals DEF SlurpDone, TypeOK, Pcs
  <2>4. Positions' /\ Locals' /\ BoundedEntry' /\ Bounded'
    BY <1>15, InitialLocals DEF SlurpDone
  <2> QED
    BY <2>3, <2>4
<1>16. CASE DeliverPlain
  BY <1>16, FramingDeliver DEF DeliverPlain, TypeOK, Entry
<1>17. CASE StartSparse
  <2>0. /\ entry.header.map \in Seq(Slot) /\ entry.header.extended \in BOOLEAN
        /\ entry.size \in U64 /\ 0 \in U64
    <3>1. entry.header \in Block /\ entry.size \in U64
      BY DEF TypeOK, Entry
    <3>2. 0 \in U64
      BY WidthAssumption DEF U64
    <3> QED
      BY <3>1, <3>2 DEF Block
  <2>1. entry' \in Entry /\ entry'.data = <<>> /\ entry'.size = entry.size
    <3> DEFINE empty == [entry EXCEPT !.data = <<>>]
    <3>1. empty \in Entry /\ empty.data = <<>> /\ empty.size = entry.size
      <4>1. <<>> \in Seq(Chunk) /\ entry \in Entry
        BY DEF TypeOK
      <4> QED
        BY <4>1 DEF Entry
    <3>2. entry' = [empty EXCEPT !.pend = pend] /\ pend \in Pending
      BY <1>17 DEF StartSparse, TypeOK
    <3> HIDE DEF empty
    <3> QED
      BY <3>1, <3>2 DEF Entry
  <2>2. sparse' \in SparseMap /\ sparse'.remaining = entry.size
    BY <1>17, <2>0 DEF StartSparse, SparseMap
  <2>3. TypeOK'
    BY <1>17, <2>1, <2>2 DEF StartSparse, TypeOK, Pcs, ReadPcs
  <2>4. Positions' /\ Locals' /\ BoundedEntry' /\ Bounded'
    BY <1>17, <2>0, <2>1, <2>2 DEF StartSparse, U64
  <2> QED
    BY <2>3, <2>4
<1>18. CASE SparseNotGnu
  BY <1>18, FramingFinish DEF SparseNotGnu, Fail, TypeOK
<1>19. CASE SkipSlot
  <2>1. sparse' \in SparseMap /\ sparse'.remaining = sparse.remaining
    <3>1. Tail(sparse.todo) \in Seq(Slot)
      BY <1>19 DEF SkipSlot, TypeOK, SparseMap
    <3> QED
      BY <1>19, <3>1 DEF SkipSlot, TypeOK, SparseMap
  <2> QED
    BY <1>19, <2>1 DEF SkipSlot, TypeOK
<1>20. CASE AddBlock
  <2> DEFINE slot == Head(sparse.todo)
             added == Data(slot.length, Used, slot.offset)
  <2>1. slot \in [offset : U64, length : U64] /\ Tail(sparse.todo) \in Seq(Slot)
    BY <1>20 DEF AddBlock, TypeOK, SparseMap, Slot, Field, Fits
  <2>0. /\ entry.size \in U64 /\ sparse.remaining \in U64 /\ sparse.cur \in U64
        /\ sparse.remaining <= entry.size /\ Fits(slot)
    BY <1>20 DEF AddBlock, TypeOK, Entry, SparseMap
  <2>2. /\ Used \in U64 /\ Used + slot.length <= MaxU64 /\ slot.length <= sparse.remaining
        /\ sparse.remaining - slot.length \in U64
    BY <1>20, <2>0, <2>1, SlotBounds DEF AddBlock
  <2>3. /\ slot.offset + slot.length \in U64 /\ slot.offset - sparse.cur \in U64
        /\ sparse.cur + (slot.offset - sparse.cur) = slot.offset
    BY <1>20, <2>0, <2>1, SlotBounds DEF AddBlock
  <2>4. added \in Chunk /\ ChunkOK(added)
    BY <2>1, <2>2, <2>3 DEF Data, Chunk, ChunkOK, U64
  <2>5. Hole(slot) \in Seq(Chunk) /\ \A j \in DOMAIN Hole(slot) : ChunkOK(Hole(slot)[j])
    <3> DEFINE hole == Pad(slot.offset - sparse.cur, Used, sparse.cur)
    <3>1. CASE sparse.cur < slot.offset
      <4>1. hole \in Chunk /\ ChunkOK(hole)
        BY <2>0, <2>1, <2>2, <2>3 DEF Pad, Chunk, ChunkOK, U64
      <4> QED
        BY <3>1, <4>1 DEF Hole
    <3>2. CASE ~(sparse.cur < slot.offset)
      BY <3>2 DEF Hole
    <3> QED
      BY <3>1, <3>2
  <2>6. entry.data \in Seq(Chunk)
    BY DEF TypeOK, Entry
  <2> DEFINE grown == Append(entry.data \o Hole(slot), added)
  <2>7. grown \in Seq(Chunk) /\ \A j \in DOMAIN grown : ChunkOK(grown[j])
    <3> HIDE DEF added, slot
    <3> QED
      BY <2>4, <2>5, <2>6
  <2>8. entry' \in Entry /\ entry'.data = grown /\ entry'.size = entry.size
    BY <1>20, <2>7 DEF AddBlock, TypeOK, Entry
  <2>9. sparse' \in SparseMap /\ sparse'.remaining <= entry.size
    <3>1. sparse' = [sparse EXCEPT !.cur = slot.offset + slot.length,
                                   !.remaining = sparse.remaining - slot.length,
                                   !.todo = Tail(sparse.todo)]
      BY <1>20 DEF AddBlock
    <3>2. sparse' = [cur |-> slot.offset + slot.length,
                     remaining |-> sparse.remaining - slot.length,
                     todo |-> Tail(sparse.todo), more |-> sparse.more]
      BY <3>1 DEF TypeOK, SparseMap
    <3>3. sparse.more \in BOOLEAN
      BY DEF TypeOK, SparseMap
    <3>4. sparse.remaining - slot.length <= entry.size
      BY <2>0, <2>1 DEF U64
    <3> HIDE DEF slot
    <3> QED
      BY <2>1, <2>2, <2>3, <3>2, <3>3, <3>4 DEF SparseMap
  <2>10. TypeOK'
    BY <1>20, <2>8, <2>9 DEF AddBlock, TypeOK
  <2> QED
    BY <1>20, <2>7, <2>8, <2>9, <2>10 DEF AddBlock
<1>21. CASE BadSlot
  BY <1>21, FramingFinish DEF BadSlot, Fail, TypeOK
<1>22. CASE StartExt
  BY <1>22, BlockSizeAssumption, WidthAssumption DEF StartExt, TypeOK, Pcs, ReadPcs, U64
<1>23. CASE ExtEof
  BY <1>23, FramingFinish DEF ExtEof, Fail, TypeOK
<1>24. CASE ExtPanic
  BY <1>24, FramingPanic DEF ExtPanic
<1>25. CASE ExtDone
  <2>1. BlockRead \in Block
    BY BlockAtType, BlockSizeAssumption DEF BlockRead, TypeOK, U64
  <2>2. next' \in U64
    BY <1>25, BlockSizeAssumption, WidthAssumption, SMTT(30) DEF ExtDone, TypeOK, U64
  <2>3. sparse' \in SparseMap /\ sparse'.remaining = sparse.remaining
    BY <1>25, <2>1, MapOfType DEF ExtDone, TypeOK, SparseMap, Block
  <2> QED
    BY <1>25, <2>2, <2>3 DEF ExtDone, TypeOK, Pcs, ReadPcs
<1>26. CASE SparseDone
  <2> DEFINE e == [entry EXCEPT !.size = sparse.cur]
  <2>1. e \in Entry /\ e.data = entry.data
    BY DEF TypeOK, Entry, SparseMap
  <2>2. CASE MapComplete
    BY <1>26, <2>1, <2>2, FramingDeliver DEF SparseDone
  <2>3. CASE ~MapComplete
    BY <1>26, <2>3, FramingFinish DEF SparseDone, Fail, TypeOK
  <2> QED
    BY <2>2, <2>3
<1>27. CASE DropChunk
  <2> DEFINE i == reading.entry
  <2>1. i \in DOMAIN entries /\ entries[i] \in Entry /\ entries[i].data \in Seq(Chunk)
    <3>1. i \in DOMAIN entries /\ entries[i] \in Entry
      BY <1>27 DEF DropChunk, TypeOK
    <3> QED
      BY <3>1 DEF Entry
  <2>2. /\ Tail(Chunks) \in Seq(Chunk)
        /\ \A j \in DOMAIN Tail(Chunks) : ChunkOK(Tail(Chunks)[j])
    BY <1>27, <2>1 DEF DropChunk, Chunks
  <2>3. /\ entries' = [entries EXCEPT ![i] = [entries[i] EXCEPT !.data = Tail(Chunks)]]
        /\ [entries[i] EXCEPT !.data = Tail(Chunks)] \in Entry
    BY <1>27, <2>1, <2>2 DEF DropChunk, Chunks, Entry
  <2>4. entries' \in Seq(Entry) /\ DOMAIN entries' = DOMAIN entries
    BY <2>1, <2>3 DEF TypeOK
  <2>5. Bounded'
    BY <2>1, <2>2, <2>3 DEF TypeOK, Entry
  <2> QED
    BY <1>27, <2>4, <2>5 DEF DropChunk, TypeOK
<1>28. CASE ReadChunk
  <2> DEFINE i == reading.entry
             c == Head(Chunks)
  <2>1. i \in DOMAIN entries /\ entries[i] \in Entry /\ Chunks \in Seq(Chunk) /\ Chunks # <<>>
    <3>1. i \in DOMAIN entries /\ entries[i] \in Entry
      BY <1>28 DEF ReadChunk, TypeOK
    <3> QED
      BY <1>28, <3>1 DEF ReadChunk, Chunks, Entry
  <2>2. c \in Chunk /\ ChunkOK(c) /\ c = Chunks[1]
    BY <2>1 DEF Chunks
  <2>3. PICK n \in Gives(c) \ {0} :
          /\ entries' = [entries EXCEPT ![i] = Given(entries[i], n)]
          /\ IF c.kind = "data" THEN Reads(n) ELSE UNCHANGED <<rd, pos>>
    BY <1>28 DEF ReadChunk
  <2>4. /\ n \in Nat \ {0} /\ n <= c.left
        /\ c.kind = "data" => n <= stream.len - rd
    BY <2>2, <2>3, SMTT(30) DEF Gives, Least, TypeOK, Chunk, U64
  <2>5. After(c, n) \in Chunk /\ ChunkOK(After(c, n))
    BY <2>2, <2>4, WidthAssumption DEF Chunk, ChunkOK, After, U64
  <2> DEFINE e == Given(entries[i], n)
  <2>6. entries' = [entries EXCEPT ![i] = e]
    BY <2>3
  <2>8. e \in Entry /\ e.data = [Chunks EXCEPT ![1] = After(c, n)]
    <3>1. Chunks = entries[i].data /\ entries[i].data # <<>> /\ entries[i].data[1] = c
      BY <2>1, <2>2 DEF Chunks
    <3> HIDE DEF i, c
    <3>2. n \in Nat /\ After(entries[i].data[1], n) \in Chunk
      BY <2>4, <2>5, <3>1
    <3> QED
      BY <2>1, <3>1, <3>2, GivenType
  <2> HIDE DEF e
  <2>7. \A j \in DOMAIN e.data : ChunkOK(e.data[j])
    BY <2>1, <2>5, <2>8 DEF Chunks
  <2>9. entries' \in Seq(Entry) /\ DOMAIN entries' = DOMAIN entries
    BY <2>1, <2>6, <2>8 DEF TypeOK
  <2>10. Bounded'
    BY <2>1, <2>6, <2>7, <2>8 DEF TypeOK
  <2>11. rd' \in U64 /\ pos' = rd'
    <3>1. CASE c.kind = "data"
      <4>1. rd' = rd + n /\ pos' = pos + n /\ n <= stream.len - rd /\ n \in Nat
        BY <2>3, <2>4, <3>1 DEF Reads
      <4>2. rd \in U64 /\ stream.len \in U64
        BY DEF TypeOK
      <4> QED
        BY <4>1, <4>2, WidthAssumption DEF U64
    <3>2. CASE c.kind # "data"
      BY <2>3, <3>2 DEF TypeOK
    <3> QED
      BY <3>1, <3>2
  <2> QED
    BY <1>28, <2>9, <2>10, <2>11 DEF ReadChunk, ReadReturn, TypeOK, Pcs
<1>29. CASE ReadEnd
  BY <1>29 DEF ReadEnd, ReadReturn, TypeOK, Pcs
<1> QED
  BY <1>1, <1>2, <1>3, <1>4, <1>5, <1>6, <1>7, <1>8, <1>9, <1>10, <1>11, <1>12, <1>13,
     <1>14, <1>15, <1>16, <1>17, <1>18, <1>19, <1>20, <1>21, <1>22, <1>23, <1>24, <1>25,
     <1>26, <1>27, <1>28, <1>29 DEF Step

LEMMA FramingNext ==
  ASSUME FramingInv, [Next]_vars
  PROVE  FramingInv'
<1> USE DEF reader, client, call
<1>1. CASE Step
  BY <1>1, FramingStep
<1>2. CASE ReadError
  BY <1>2, FramingFinish DEF ReadError, Fail, TypeOK
<1>3. CASE ReadFails
  BY <1>3 DEF ReadFails, ReadReturn, TypeOK, Pcs
<1>4. CASE Reopen
  <2>1. next' \in U64 /\ mode' \in [raw : BOOLEAN, seek : BOOLEAN, zeros : BOOLEAN, checks : BOOLEAN]
    BY <1>4, WidthAssumption DEF Reopen, TypeOK, U64
  <2>2. mode'.seek = mode.seek /\ mode'.checks = mode.checks
    BY <1>4 DEF Reopen, TypeOK
  <2>3. entries' \in Seq(Entry) /\ DOMAIN entries' = {} /\ pc' = "idle"
    BY <1>4 DEF Reopen
  <2>4. TypeOK'
    BY <1>4, <2>1, <2>3 DEF Reopen, TypeOK
  <2>5. Positions' /\ Locals' /\ BoundedEntry' /\ Bounded'
    BY <1>4, <2>2, <2>3 DEF Reopen
  <2> QED
    BY <2>4, <2>5
<1>5. CASE \E r \in Raws : SetRaw(r)
  <2>1. PICK r \in Raws : SetRaw(r)
    BY <1>5
  <2>2. r \in BOOLEAN
    BY ClientAssumption
  <2>3. mode' \in [raw : BOOLEAN, seek : BOOLEAN, zeros : BOOLEAN, checks : BOOLEAN] /\ mode'.seek = mode.seek /\ mode'.checks = mode.checks
    BY <2>1, <2>2 DEF SetRaw, TypeOK
  <2> QED
    BY <2>1, <2>3 DEF SetRaw, TypeOK
<1>6. CASE Exhausted \/ UNCHANGED vars
  BY <1>6 DEF Exhausted, vars, TypeOK, ChunkOK
<1>7. CASE CallNext
  BY <1>7, InitialLocals DEF CallNext, TypeOK, Pcs
<1>8. CASE \E i \in DOMAIN entries, want \in Bufs : CallRead(i, want)
  <2>1. PICK i \in DOMAIN entries, want \in Bufs : CallRead(i, want)
    BY <1>8
  <2>2. i \in Nat /\ want \in Nat
    BY ClientAssumption DEF TypeOK
  <2> QED
    BY <2>1, <2>2 DEF CallRead, TypeOK, Pcs
<1> QED
  BY <1>1, <1>2, <1>3, <1>4, <1>5, <1>6, <1>7, <1>8 DEF Next, Failure, Client

\* The archive's count is where the reader really is, and the bytes that a call
\* still has to skip or read end where the header begins or ends, for any
\* archive and any client, failures and seeks included (archive.rs:303, 572).
THEOREM FramingAlways ==
  ASSUME PosIsOffset
  PROVE  Spec => []FramingInv
<1>1. Init => FramingInv
  BY FramingInit
<1>2. FramingInv /\ [Next]_vars => FramingInv'
  BY FramingNext
<1> QED
  BY <1>1, <1>2, PTL DEF Spec

\* Every counter and offset of the reader stays within a u64, for any archive
\* and any client, as long as the archive counts from its reader's start.
THEOREM TypeCorrect ==
  ASSUME PosIsOffset
  PROVE  Spec => []TypeOK
<1>1. FramingInv => TypeOK
  OBVIOUS
<1> QED
  BY <1>1, FramingAlways, PTL

\* Headers are decoded from where the iterator expects them, also when entries
\* are read out of sequence and also in a build whose subtraction wraps.
THEOREM HeadersWhereExpected ==
  ASSUME PosIsOffset
  PROVE  Spec => []HeaderWhereExpected
<1>1. FramingInv => HeaderWhereExpected
  BY BlockSizeAssumption DEF HeaderWhereExpected, TypeOK, U64
<1> QED
  BY <1>1, FramingAlways, PTL

-----------------------------------------------------------------------------
(* One describing member of each kind.                                     *)

LEMMA CountFinish ==
  ASSUME NEW r, Finish(r)
  PROVE  CountInv'
BY DEF Finish, Return, CountInv

LEMMA CountDeliver ==
  ASSUME NEW e, Deliver(e)
  PROVE  CountInv'
BY DEF Deliver, Return, CountInv

\* A member that was read becomes the one of its kind.
LEMMA CountSlurp ==
  ASSUME FramingInv, CountInv, SlurpDone
  PROVE  CountInv'
<1> DEFINE kind == entry.header.type
<1>1. /\ kind \in {"longname", "longlink", "pax"} /\ pend[kind] = None
      /\ processed = 1 + Found("longname") + Found("longlink") + Found("pax")
  BY DEF SlurpDone, CountInv, NoPend
<1>2. entry.headerPos # None
  BY SentinelAssumption DEF TypeOK, Entry, U64
<1>3. pend \in [{"longname", "longlink", "pax"} -> U64 \cup {None}]
  BY DEF TypeOK, Pending
<1>4. /\ pend' = [pend EXCEPT ![kind] = entry.headerPos]
      /\ processed' = processed + 1 /\ pc' = "seek"
  BY DEF SlurpDone
<1> HIDE DEF kind
<1>5. /\ pend'[kind] # None
      /\ \A k \in {"longname", "longlink", "pax"} \ {kind} : pend'[k] = pend[k]
  BY <1>1, <1>2, <1>3, <1>4
<1>6. processed' = 1 + Found("longname")' + Found("longlink")' + Found("pax")'
  <2>1. CASE kind = "longname"
    BY <1>1, <1>4, <1>5, <2>1 DEF Found
  <2>2. CASE kind = "longlink"
    BY <1>1, <1>4, <1>5, <2>2 DEF Found
  <2>3. CASE kind = "pax"
    BY <1>1, <1>4, <1>5, <2>3 DEF Found
  <2> QED
    BY <1>1, <2>1, <2>2, <2>3
<1> QED
  BY <1>4, <1>6 DEF CountInv

LEMMA CountNext ==
  ASSUME FramingInv, CountInv, [Next]_vars
  PROVE  CountInv'
<1> USE DEF reader, client, call, CountInv, Found
<1>1. CASE SlurpDone
  BY <1>1, CountSlurp
<1>2. CASE SeekRefused \/ SkipEof \/ HeaderEof \/ ZeroEnd \/ HeaderInvalid \/ Duplicate
           \/ SparseNotGnu \/ BadSlot \/ ExtEof \/ ReadError
  BY <1>2, CountFinish
     DEF SeekRefused, SkipEof, HeaderEof, ZeroEnd, HeaderInvalid, Duplicate, SparseNotGnu,
         BadSlot, ExtEof, ReadError, Fail, NoHeader
<1>3. CASE DeliverPlain \/ SparseDone
  BY <1>3, CountDeliver, CountFinish DEF DeliverPlain, SparseDone, Fail
<1>4. CASE SeekPanic \/ ExtPanic
  BY <1>4 DEF SeekPanic, ExtPanic, Panic
<1>5. CASE StartSkip \/ Seek \/ SkipDone \/ ZeroSkip \/ Header
  BY <1>5 DEF StartSkip, Seek, SkipDone, ZeroSkip, Header
<1>6. CASE ReadSome
  BY <1>6 DEF ReadSome
<1>7. CASE StartSlurp
  BY <1>7 DEF StartSlurp, Describes
<1>8. CASE StartSparse \/ SkipSlot \/ AddBlock \/ StartExt \/ ExtDone
  BY <1>8 DEF StartSparse, SkipSlot, AddBlock, StartExt, ExtDone
<1>9. CASE DropChunk \/ ReadChunk \/ ReadEnd \/ ReadFails
  BY <1>9 DEF DropChunk, ReadChunk, ReadEnd, ReadFails, ReadReturn
<1>10. CASE Reopen \/ \E r \in Raws : SetRaw(r)
  BY <1>10 DEF Reopen, SetRaw
<1>11. CASE Exhausted \/ UNCHANGED vars
  BY <1>11 DEF Exhausted, vars
<1>12. CASE CallNext
  BY <1>12 DEF CallNext, NoPend
<1>13. CASE \E i \in DOMAIN entries, want \in Bufs : CallRead(i, want)
  BY <1>13 DEF CallRead
<1> QED
  BY <1>1, <1>2, <1>3, <1>4, <1>5, <1>6, <1>7, <1>8, <1>9, <1>10, <1>11, <1>12, <1>13
  DEF Next, Step, Failure, Client

\* A call has counted exactly the describing members it keeps, and reads one
\* only when it keeps none of that kind.
THEOREM CountAlways ==
  ASSUME PosIsOffset
  PROVE  Spec => []CountInv
<1>1. Init => CountInv
  BY DEF Init, CountInv
<1>2. FramingInv /\ CountInv /\ [Next]_vars => CountInv'
  BY CountNext
<1> HIDE DEF FramingInv
<1> QED
  BY <1>1, <1>2, FramingAlways, PTL DEF Spec

\* A call of next() reads at most three describing members before the member
\* it returns, whatever the archive holds.
THEOREM OneOfEachKind ==
  ASSUME PosIsOffset
  PROVE  Spec => []DescribedOnce
<1>1. CountInv => DescribedOnce
  BY DEF CountInv, DescribedOnce, Found
<1> QED
  BY <1>1, CountAlways, PTL

-----------------------------------------------------------------------------
(* A client that reads each entry before it asks for the next: the         *)
(* subtraction of next_entry_raw does not go below zero, the bytes of an   *)
(* entry are its own, and none is lost or repeated.  The archives, the     *)
(* buffer sizes and the way requests are cut short are arbitrary.          *)

-----------------------------------------------------------------------------
(* Lists of chunks.                                                        *)

\* Going on where a list ends keeps it linked and moves its end.
LEMMA Grown ==
  ASSUME NEW d \in Seq(Chunk), NEW c \in Chunk, NEW bytes \in U64,
         Linked(d), Within(d, bytes), Span(c) <= bytes,
         d # <<>> => /\ c.off = Span(d[Len(d)])
                     /\ c.log = d[Len(d)].log + d[Len(d)].left
  PROVE  /\ Append(d, c) \in Seq(Chunk) /\ Append(d, c) # <<>>
         /\ Linked(Append(d, c)) /\ Within(Append(d, c), bytes)
         /\ EndsAt(Append(d, c), c.log + c.left)
         /\ Append(d, c)[Len(Append(d, c))] = c
         /\ Append(d, c)[1] = IF d = <<>> THEN c ELSE d[1]
<1> DEFINE g == Append(d, c)
<1>1. /\ g \in Seq(Chunk) /\ Len(g) = Len(d) + 1 /\ g[Len(d) + 1] = c
      /\ \A j \in 1..Len(d) : g[j] = d[j]
  OBVIOUS
<1>2. d # <<>> => Len(d) >= 1
  OBVIOUS
<1> HIDE DEF g
<1>3. Linked(g)
  BY <1>1, <1>2 DEF Linked
<1>4. Within(g, bytes)
  BY <1>1 DEF Within
<1>5. g # <<>> /\ g[1] = IF d = <<>> THEN c ELSE d[1]
  BY <1>1, <1>2
<1> QED
  BY <1>1, <1>3, <1>4, <1>5 DEF g, EndsAt

\* What is left after the head is the same list from its second chunk on.
LEMMA Dropped ==
  ASSUME NEW d \in Seq(Chunk), d # <<>>, NEW bytes \in U64, NEW size \in U64,
         Linked(d), Within(d, bytes), EndsAt(d, size)
  PROVE  /\ Tail(d) \in Seq(Chunk)
         /\ Linked(Tail(d)) /\ Within(Tail(d), bytes) /\ EndsAt(Tail(d), size)
         /\ Tail(d) # <<>> => /\ Tail(d)[1].off = Span(d[1])
                              /\ Tail(d)[1].log = d[1].log + d[1].left
         /\ Tail(d) = <<>> => d[1].log + d[1].left = size
<1> DEFINE t == Tail(d)
<1>1. /\ t \in Seq(Chunk) /\ Len(t) = Len(d) - 1 /\ Len(d) >= 1
      /\ \A j \in 1..Len(t) : t[j] = d[j + 1]
  OBVIOUS
<1>2. t # <<>> => Len(t) >= 1
  OBVIOUS
<1>3. t = <<>> => Len(d) = 1
  BY <1>1
<1> HIDE DEF t
<1>4. Linked(t)
  BY <1>1, SMTT(30) DEF Linked
<1>5. Within(t, bytes)
  BY <1>1 DEF Within
<1>6. EndsAt(t, size)
  BY <1>1, <1>2 DEF EndsAt
<1>7. t # <<>> => t[1].off = Span(d[1]) /\ t[1].log = d[1].log + d[1].left
  BY <1>1, <1>2 DEF Linked
<1>8. t = <<>> => d[1].log + d[1].left = size
  BY <1>3 DEF EndsAt
<1> QED
  BY <1>1, <1>4, <1>5, <1>6, <1>7, <1>8 DEF t

\* Giving bytes of the head moves its start and not its end.
LEMMA Eaten ==
  ASSUME NEW d \in Seq(Chunk), d # <<>>, NEW bytes \in U64, NEW size \in U64,
         NEW n \in Nat, After(d[1], n) \in Chunk,
         Linked(d), Within(d, bytes), EndsAt(d, size)
  PROVE  LET g == [d EXCEPT ![1] = After(d[1], n)]
         IN  /\ g \in Seq(Chunk) /\ g # <<>> /\ g[1] = After(d[1], n)
             /\ Linked(g) /\ Within(g, bytes) /\ EndsAt(g, size)
<1> DEFINE g == [d EXCEPT ![1] = After(d[1], n)]
<1>1. /\ g \in Seq(Chunk) /\ Len(g) = Len(d) /\ Len(d) >= 1 /\ g[1] = After(d[1], n)
      /\ \A j \in 2..Len(g) : g[j] = d[j]
  OBVIOUS
<1>2. d[1] \in Chunk
  OBVIOUS
<1>3. Span(g[1]) = Span(d[1]) /\ g[1].log + g[1].left = d[1].log + d[1].left
  BY <1>1, <1>2 DEF After, Span, Chunk, U64
<1> HIDE DEF g
<1>4. \A j \in 1..Len(g) : Span(g[j]) = Span(d[j]) /\ g[j].log + g[j].left = d[j].log + d[j].left
  BY <1>1, <1>3
<1>5. Linked(g)
  BY <1>1, <1>4 DEF Linked
<1>6. Within(g, bytes)
  BY <1>1, <1>4 DEF Within
<1>7. EndsAt(g, size)
  BY <1>1, <1>4 DEF EndsAt
<1> QED
  BY <1>1, <1>5, <1>6, <1>7 DEF g

-----------------------------------------------------------------------------
(* The invariant of a sequential client, action by action.                 *)

USE DEF FramingInv, Positions, Locals, Bounded, BoundedEntry
USE DEF SequenceInv, NotPast, Building, InHand

\* The counters are numbers.
LEMMA Numbers ==
  ASSUME FramingInv
  PROVE  /\ rd \in Nat /\ pos \in Nat /\ next \in Nat /\ amt \in Nat /\ stream.len \in Nat
         /\ entry.size \in Nat /\ entry.bytes \in Nat
         /\ sparse.cur \in Nat /\ sparse.remaining \in Nat
         /\ BlockSize \in Nat /\ MaxU64 \in Nat /\ next <= MaxU64 /\ rd <= MaxU64
<1>1. /\ rd \in U64 /\ pos \in U64 /\ next \in U64 /\ amt \in U64 /\ stream.len \in U64
      /\ entry \in Entry /\ sparse \in SparseMap
  BY DEF TypeOK
<1>2. entry.size \in U64 /\ entry.bytes \in U64 /\ sparse.cur \in U64 /\ sparse.remaining \in U64
  BY <1>1 DEF Entry, SparseMap
<1> QED
  BY <1>1, <1>2, BlockSizeAssumption, WidthAssumption DEF U64

LEMMA SequenceInit ==
  ASSUME Init
  PROVE  SequenceInv
BY DEF Init

\* Once done nothing is promised of the entries: the client asked for another.
LEMMA SequenceFinish ==
  ASSUME FramingInv, SequenceInv, NEW r, Finish(r)
  PROVE  SequenceInv'
BY DEF Finish, Return

\* An entry is returned where its data starts.
LEMMA SequenceDeliver ==
  ASSUME FramingInv, SequenceInv, NEW e \in Entry, Deliver(e), pc # "read",
         rd + e.bytes <= next, e.got = 0,
         Linked(e.data), Within(e.data, e.bytes), EndsAt(e.data, e.size),
         e.data # <<>> => e.data[1].off = 0 /\ e.data[1].log = 0,
         e.data = <<>> => e.size = 0
  PROVE  SequenceInv'
<1>0. PICK d : d = [e EXCEPT !.start = rd, !.end = next]
  OBVIOUS
<1>1. /\ d.start = rd /\ d.end = next /\ d.bytes = e.bytes /\ d.size = e.size
      /\ d.data = e.data /\ d.got = e.got
  BY <1>0 DEF Entry
<1>2. entries' = Append(entries, d) /\ pc' = "idle" /\ UNCHANGED <<stream, rd, pos, next, done>>
  BY <1>0 DEF Deliver, Return, reader
<1>3. entries'[Len(entries')] = d
  BY <1>2 DEF TypeOK
<1>4. rd \in Nat /\ next \in Nat /\ e.bytes \in Nat
  <2>1. e.bytes \in U64
    BY DEF Entry
  <2> QED
    BY <2>1, Numbers DEF U64
<1>5. Current(d)'
  <2>2. d.end = next /\ d.start + d.bytes <= next
    BY <1>1
  <2>3. d.data # <<>> => rd = d.start + d.data[1].off /\ d.got = d.data[1].log
    BY <1>1, <1>4
  <2>4. d.data = <<>> => d.got = d.size
    BY <1>1
  <2>5. Linked(d.data) /\ Within(d.data, d.bytes) /\ EndsAt(d.data, d.size)
    BY <1>1
  <2> QED
    BY <1>2, <2>2, <2>3, <2>4, <2>5 DEF Current
<1>6. rd <= next
  BY <1>4
<1> QED
  <2>1. NotPast' /\ Building'
    BY <1>2, <1>6
  <2>2. InHand'
    BY <1>2, <1>3, <1>5
  <2> QED
    BY <2>1, <2>2

\* A bound on where chunks end can be raised.
LEMMA Longer ==
  ASSUME NEW d \in Seq(Chunk), NEW m \in Nat, NEW n \in Nat, m <= n, Within(d, m)
  PROVE  Within(d, n)
<1>1. \A j \in DOMAIN d : Span(d[j]) \in Nat
  <2>1. \A c \in Chunk : Span(c) \in Nat
    BY DEF Span, Chunk, U64
  <2> QED
    BY <2>1
<1> QED
  BY <1>1 DEF Within

\* The hole and the data of a slot go on where the chunks before them end.
LEMMA Covered ==
  ASSUME FramingInv, SequenceInv, pc = "map",
         NEW slot \in [offset : U64, length : U64], Fits(slot)
  PROVE  LET grown == Append(entry.data \o Hole(slot), Data(slot.length, Used, slot.offset))
         IN  /\ grown # <<>> /\ Linked(grown) /\ Within(grown, Used + slot.length)
             /\ EndsAt(grown, slot.offset + slot.length)
             /\ grown[1].off = 0 /\ grown[1].log = 0
             /\ Span(grown[Len(grown)]) = Used + slot.length
<1> DEFINE d == entry.data
           hole == Pad(slot.offset - sparse.cur, Used, sparse.cur)
           c == Data(slot.length, Used, slot.offset)
           used == Used + slot.length
           first == d \o Hole(slot)
           grown == Append(first, c)
<1>1. /\ Used \in U64 /\ used \in U64 /\ Used <= used
      /\ slot.offset - sparse.cur \in U64
      /\ sparse.cur + (slot.offset - sparse.cur) = slot.offset
      /\ slot.offset \in U64 /\ slot.length \in U64 /\ sparse.cur \in U64
      /\ sparse.cur <= slot.offset
  <2>1. slot.offset \in U64 /\ slot.length \in U64 /\ sparse.cur <= slot.offset
    BY DEF Fits
  <2>2. sparse.cur \in U64
    BY DEF TypeOK, SparseMap
  <2>3. Used \in U64 /\ Used + slot.length <= MaxU64
    BY SlotBounds
  <2>4. \A l \in U64 : Used + l <= MaxU64 => Used + l \in U64 /\ Used <= Used + l
    BY <2>3, WidthAssumption DEF U64
  <2> QED
    BY <2>1, <2>2, <2>3, <2>4, SlotBounds
<1>2. /\ hole \in Chunk /\ hole.off = Used /\ Span(hole) = Used /\ hole.log = sparse.cur
      /\ hole.left = slot.offset - sparse.cur
      /\ c \in Chunk /\ c.off = Used /\ Span(c) = used /\ c.log = slot.offset
      /\ c.left = slot.length
  BY <1>1 DEF Pad, Data, Chunk, Span
<1>3. d \in Seq(Chunk) /\ Linked(d) /\ Within(d, Used) /\ EndsAt(d, sparse.cur)
  BY DEF TypeOK, Entry
<1>4. /\ d = <<>> => sparse.cur = 0 /\ Used = 0
      /\ d # <<>> => /\ d[1].off = 0 /\ d[1].log = 0 /\ Span(d[Len(d)]) = Used
                     /\ d[Len(d)].log + d[Len(d)].left = sparse.cur
  BY <1>3 DEF EndsAt
<1>5. /\ first \in Seq(Chunk) /\ Linked(first) /\ Within(first, Used)
      /\ first = <<>> => slot.offset = 0 /\ Used = 0
      /\ first # <<>> => /\ first[1].off = 0 /\ first[1].log = 0
                         /\ Span(first[Len(first)]) = Used
                         /\ first[Len(first)].log + first[Len(first)].left = slot.offset
  <2>1. CASE sparse.cur < slot.offset
    <3>1. first = Append(d, hole)
      <4>1. Hole(slot) = <<hole>>
        BY <2>1 DEF Hole
      <4> HIDE DEF hole
      <4> QED
        BY <1>2, <1>3, <4>1
    <3>3. Used <= Used /\ Used \in U64
      BY <1>1 DEF U64
    <3> HIDE DEF hole, d, first
    <3>2. /\ Append(d, hole) \in Seq(Chunk) /\ Append(d, hole) # <<>>
          /\ Linked(Append(d, hole)) /\ Within(Append(d, hole), Used)
          /\ Append(d, hole)[Len(Append(d, hole))] = hole
          /\ Append(d, hole)[1] = IF d = <<>> THEN hole ELSE d[1]
      BY <1>2, <1>3, <1>4, <3>3, Grown
    <3> QED
      BY <1>1, <1>2, <1>4, <3>1, <3>2
  <2>2. CASE sparse.cur = slot.offset
    <3>2. Hole(slot) = <<>>
      BY <2>2, <1>1 DEF Hole, U64
    <3>1. first = d
      BY <1>3, <3>2
    <3> QED
      BY <1>3, <1>4, <2>2, <3>1
  <2> QED
    BY <1>1, <2>1, <2>2, SMTT(30) DEF U64
<1>6. Within(first, used)
  <2> HIDE DEF first, used
  <2> QED
    BY <1>1, <1>5, Longer DEF U64
<1> HIDE DEF hole, c, first, used, d
<1>7. /\ grown # <<>> /\ Linked(grown) /\ Within(grown, used)
      /\ EndsAt(grown, c.log + c.left)
      /\ grown[Len(grown)] = c
      /\ grown[1] = IF first = <<>> THEN c ELSE first[1]
  <2>1. Span(c) <= used
    BY <1>1, <1>2 DEF U64
  <2> QED
    BY <1>1, <1>2, <1>5, <1>6, <2>1, Grown
<1>8. grown[1].off = 0 /\ grown[1].log = 0
  BY <1>2, <1>5, <1>7
<1> HIDE DEF grown
<1>9. EndsAt(grown, slot.offset + slot.length) /\ Span(grown[Len(grown)]) = used
  BY <1>2, <1>7
<1> QED
  BY <1>7, <1>8, <1>9 DEF grown, first, c, d, used

\* The entry being read, its chunks and what the client has of it.
LEMMA HeadInHand ==
  ASSUME FramingInv, SequenceInv, pc = "read", Chunks # <<>>
  PROVE  LET e == entries[Len(entries)]
             c == Head(Chunks)
         IN  /\ ~done /\ reading.entry = Len(entries) /\ Len(entries) \in DOMAIN entries
             /\ e \in Entry /\ Chunks = e.data /\ Current(e) /\ e.data \in Seq(Chunk)
             /\ c = e.data[1] /\ c \in Chunk
             /\ Span(c) <= e.bytes
             /\ c.kind \in {"pad", "data"} /\ c.off \in Nat /\ c.log \in Nat /\ c.left \in Nat
             /\ e.start \in Nat /\ e.bytes \in Nat /\ e.size \in U64 /\ e.got \in Nat
             /\ reading.want \in Nat \ {0}
<1> DEFINE e == entries[Len(entries)]
<1>1. /\ ~done /\ reading.entry = Len(entries) /\ Len(entries) \in DOMAIN entries
      /\ e \in Entry /\ Chunks = e.data
  BY DEF TypeOK, Chunks
<1>2. Current(e)
  BY <1>1
<1>3. /\ e.data \in Seq(Chunk) /\ e.start \in U64 /\ e.bytes \in U64 /\ e.size \in U64
      /\ e.got \in Nat
  BY <1>1 DEF Entry
<1>4. reading.want \in Nat \ {0}
  BY DEF TypeOK
<1> HIDE DEF e
<1>5. Head(Chunks) = e.data[1] /\ Head(Chunks) \in Chunk /\ 1 \in DOMAIN e.data
  BY <1>1, <1>3
<1>6. Span(Head(Chunks)) <= e.bytes
  BY <1>2, <1>5 DEF Current, Within
<1>7. \A c \in Chunk : /\ c.kind \in {"pad", "data"}
                        /\ c.off \in Nat /\ c.log \in Nat /\ c.left \in Nat
  BY DEF Chunk, U64
<1> QED
  BY <1>1, <1>2, <1>3, <1>4, <1>5, <1>6, <1>7 DEF e, U64

LEMMA SequenceDrop ==
  ASSUME FramingInv, SequenceInv, DropChunk
  PROVE  SequenceInv'
<1>0. pc = "read" /\ Chunks # <<>> /\ 0 \in Gives(Head(Chunks))
  BY DEF DropChunk
<1>1. PICK e, c : e = entries[Len(entries)] /\ c = Head(Chunks)
  OBVIOUS
<1>2. /\ ~done /\ reading.entry = Len(entries) /\ Len(entries) \in DOMAIN entries
      /\ e \in Entry /\ Chunks = e.data /\ Current(e) /\ e.data \in Seq(Chunk)
      /\ c = e.data[1] /\ c \in Chunk /\ Span(c) <= e.bytes
      /\ c.kind \in {"pad", "data"} /\ c.off \in Nat /\ c.log \in Nat /\ c.left \in Nat
      /\ e.start \in Nat /\ e.bytes \in Nat /\ e.size \in U64 /\ e.got \in Nat
      /\ reading.want \in Nat \ {0}
  BY <1>0, <1>1, HeadInHand
<1>14. rd \in Nat /\ next \in Nat /\ stream.len \in Nat
  BY Numbers
<1> HIDE DEF FramingInv, SequenceInv
<1>16. /\ c.off \in Nat /\ c.log \in Nat /\ c.left \in Nat
       /\ e.start \in Nat /\ e.bytes \in Nat /\ e.got \in Nat
  BY <1>2
<1>3. c.left = 0 \/ (c.kind = "data" /\ rd >= stream.len)
  <2>1. 0 \in Gives(c) /\ Least(c.left, reading.want) \in Nat
    BY <1>0, <1>1, <1>2 DEF Least
  <2>2. Least(c.left, reading.want) = 0 => c.left = 0
    BY <1>2 DEF Least
  <2>3. Least(c.left, reading.want) # 0 => c.kind = "data" /\ rd >= stream.len
    BY <1>2, <2>1, <1>14, SMTT(30) DEF Gives
  <2> QED
    BY <2>2, <2>3
<1>4. PICK t, f : t = Tail(e.data) /\ f = [e EXCEPT !.data = t]
  OBVIOUS
<1>5. /\ f.data = t /\ f.start = e.start /\ f.bytes = e.bytes /\ f.end = e.end
      /\ f.size = e.size /\ f.got = e.got
  BY <1>2, <1>4 DEF Entry
<1>6. /\ Linked(t) /\ Within(t, e.bytes) /\ EndsAt(t, e.size)
      /\ t # <<>> => t[1].off = Span(c) /\ t[1].log = c.log + c.left
      /\ t = <<>> => c.log + c.left = e.size
  <2>1. e.bytes \in U64
    BY <1>2 DEF Entry
  <2> QED
    BY <1>0, <1>2, <1>4, <2>1, Dropped DEF Current
<1>7. /\ e.end = next /\ e.start + e.bytes <= next
      /\ rd = e.start + c.off \/ rd >= stream.len
      /\ e.start + e.bytes <= stream.len => rd = e.start + c.off /\ e.got = c.log
  BY <1>0, <1>2, <1>14 DEF Current, Truncated
<1>8. /\ c.left = 0 => Span(c) = c.off
      /\ c.kind = "data" => Span(c) = c.off + c.left
  BY <1>2 DEF Span
<1>9. ASSUME e.start + e.bytes <= stream.len
      PROVE  c.left = 0
  <2>1. rd = e.start + c.off
    BY <1>7, <1>9
  <2>2. CASE c.kind = "data" /\ rd >= stream.len
    <3>1. c.off + c.left <= e.bytes /\ e.start + e.bytes <= e.start + c.off
      BY <1>2, <1>8, <1>9, <2>1, <2>2, <1>14, SMTT(30)
    <3> QED
      BY <3>1, <1>16
  <2> QED
    BY <1>3, <2>2
<1>10. Current(f)'
  <2>1. UNCHANGED <<rd, next, stream>>
    BY DEF DropChunk, reader
  <2>2. t # <<>> =>
          /\ rd = f.start + t[1].off \/ rd >= stream.len
          /\ e.start + e.bytes <= stream.len => rd = f.start + t[1].off /\ f.got = t[1].log
    BY <1>2, <1>3, <1>5, <1>6, <1>7, <1>8, <1>9
  <2>3. t = <<>> /\ e.start + e.bytes <= stream.len => f.got = f.size
    BY <1>2, <1>5, <1>6, <1>7, <1>9
  <2>4. ~Truncated(f) <=> e.start + e.bytes <= stream.len
    BY <1>2, <1>5, <1>14 DEF Truncated
  <2>5. Truncated(f)' <=> Truncated(f)
    BY <2>1 DEF Truncated
  <2> QED
    BY <1>5, <1>6, <1>7, <2>1, <2>2, <2>3, <2>4, <2>5 DEF Current
<1>11. /\ entries' = [entries EXCEPT ![Len(entries)] = f]
       /\ UNCHANGED <<rd, next, done, pc, reading>>
  BY <1>1, <1>2, <1>4 DEF DropChunk, Chunks, reader
<1>12. Len(entries') = Len(entries) /\ entries'[Len(entries)] = f
  BY <1>2, <1>11 DEF FramingInv, TypeOK
<1> QED
  BY <1>0, <1>2, <1>10, <1>11, <1>12 DEF SequenceInv

LEMMA SequenceRead ==
  ASSUME FramingInv, SequenceInv, ReadChunk
  PROVE  SequenceInv'
<1>0. pc = "read" /\ Chunks # <<>>
  BY DEF ReadChunk
<1>1. PICK e, c : e = entries[Len(entries)] /\ c = Head(Chunks)
  OBVIOUS
<1>2. /\ ~done /\ reading.entry = Len(entries) /\ Len(entries) \in DOMAIN entries
      /\ e \in Entry /\ Chunks = e.data /\ Current(e) /\ e.data \in Seq(Chunk)
      /\ c = e.data[1] /\ c \in Chunk /\ Span(c) <= e.bytes
      /\ c.kind \in {"pad", "data"} /\ c.off \in Nat /\ c.log \in Nat /\ c.left \in Nat
      /\ e.start \in Nat /\ e.bytes \in Nat /\ e.size \in U64 /\ e.got \in Nat
      /\ reading.want \in Nat \ {0}
  BY <1>0, <1>1, HeadInHand
<1>14. rd \in Nat /\ next \in Nat /\ stream.len \in Nat
  BY Numbers
<1> HIDE DEF FramingInv, SequenceInv
<1>16. /\ c.off \in Nat /\ c.log \in Nat /\ c.left \in Nat
       /\ e.start \in Nat /\ e.bytes \in Nat /\ e.got \in Nat
  BY <1>2
<1>3. PICK n \in Gives(c) \ {0} :
        /\ entries' = [entries EXCEPT ![Len(entries)] = Given(e, n)]
        /\ IF c.kind = "data" THEN Reads(n) ELSE UNCHANGED <<rd, pos>>
  BY <1>1, <1>2 DEF ReadChunk
<1>4. /\ n \in Nat \ {0} /\ n <= c.left
      /\ c.kind = "data" => rd < stream.len
  <2> DEFINE most == Least(c.left, reading.want)
  <2>1. most \in Nat /\ most <= c.left
    BY <1>2, <1>16 DEF Least
  <2>2. /\ n \in {0, most} \/ (rd < stream.len /\ n \in 1..Least(most, stream.len - rd))
        /\ n # 0
        /\ c.kind = "data" => rd < stream.len
    <3> HIDE DEF most
    <3>1. n \in Gives(c) /\ n # 0 /\ (rd >= stream.len \/ rd < stream.len)
      BY <1>3, <1>14
    <3>2. Gives(c) = (IF most = 0 THEN {0}
                      ELSE IF c.kind = "pad" THEN {most}
                      ELSE IF rd >= stream.len THEN {0}
                      ELSE 1..Least(most, stream.len - rd))
      BY DEF Gives, most
    <3> QED
      BY <1>2, <3>1, <3>2
  <2>3. rd < stream.len => Least(most, stream.len - rd) \in Nat /\ Least(most, stream.len - rd) <= most
    BY <1>14, <2>1 DEF Least
  <2> HIDE DEF most
  <2> QED
    BY <1>16, <2>1, <2>2, <2>3
<1>5. PICK a, f : a = After(c, n) /\ f = Given(e, n)
  OBVIOUS
<1>6. /\ a \in Chunk /\ a.log = c.log + n
      /\ a.off = IF c.kind = "data" THEN c.off + n ELSE c.off
  <2>1. ChunkOK(c)
    BY <1>0, <1>1, <1>2 DEF FramingInv
  <2>2. /\ c.kind \in {"pad", "data"} /\ c.left \in 0..MaxU64 /\ c.off \in 0..MaxU64
        /\ c.log \in 0..MaxU64 /\ c.log + c.left <= MaxU64
        /\ c.kind = "data" => c.off + c.left <= MaxU64
    BY <1>2, <2>1 DEF Chunk, ChunkOK, U64
  <2>3. a = [kind |-> c.kind, left |-> c.left - n, log |-> c.log + n,
             off |-> IF c.kind = "data" THEN c.off + n ELSE c.off]
    BY <1>5 DEF After
  <2>4. /\ c.left - n \in U64 /\ c.log + n \in U64
        /\ c.kind = "data" => c.off + n \in U64
    BY <1>4, <2>2, WidthAssumption DEF U64
  <2> QED
    BY <2>2, <2>3, <2>4 DEF Chunk, U64
<1>7. /\ f.data = [e.data EXCEPT ![1] = a] /\ f.got = e.got + n
      /\ f.start = e.start /\ f.bytes = e.bytes /\ f.end = e.end /\ f.size = e.size
  BY <1>0, <1>2, <1>4, <1>5, <1>6, GivenType
<1>8. /\ f.data # <<>> /\ f.data[1] = a
      /\ Linked(f.data) /\ Within(f.data, e.bytes) /\ EndsAt(f.data, e.size)
  <2>1. e.bytes \in U64
    BY <1>2 DEF Entry
  <2>2. Linked(e.data) /\ Within(e.data, e.bytes) /\ EndsAt(e.data, e.size)
    BY <1>2 DEF Current
  <2>3. e.data # <<>> /\ After(e.data[1], n) \in Chunk /\ a = After(e.data[1], n) /\ n \in Nat
    BY <1>0, <1>2, <1>4, <1>5, <1>6
  <2>4. e.data \in Seq(Chunk) /\ e.size \in U64
    BY <1>2
  <2> QED
    BY <1>7, <2>1, <2>2, <2>3, <2>4, Eaten
<1>9. /\ e.end = next /\ e.start + e.bytes <= next
      /\ rd = e.start + c.off \/ rd >= stream.len
      /\ e.start + e.bytes <= stream.len => rd = e.start + c.off /\ e.got = c.log
  BY <1>0, <1>2, <1>14 DEF Current, Truncated
<1>10. /\ pc' = "idle" /\ UNCHANGED <<stream, next, done>>
       /\ rd' = IF c.kind = "data" THEN rd + n ELSE rd
  BY <1>3 DEF ReadChunk, ReadReturn, Reads
<1>15. c.kind = "data" => /\ rd = e.start + c.off /\ rd < stream.len
                          /\ c.off + c.left <= e.bytes
  <2>1. c.kind = "data" => c.off + c.left <= e.bytes
    BY <1>2 DEF Span
  <2>2. c.kind = "data" => rd < stream.len /\ ~(rd >= stream.len)
    BY <1>4, <1>14
  <2> QED
    BY <1>9, <2>1, <2>2
<1>11. rd' <= next
  <2>1. CASE c.kind = "data"
    <3>1. rd' = e.start + c.off + n /\ n <= c.left /\ c.off + c.left <= e.bytes
          /\ e.start + e.bytes <= next
      BY <1>4, <1>9, <1>10, <1>15, <2>1
    <3>2. n \in Nat
      BY <1>4
    <3> QED
      BY <1>14, <1>16, <3>1, <3>2
  <2>2. CASE c.kind # "data"
    BY <1>0, <1>2, <1>10, <2>2 DEF SequenceInv
  <2> QED
    BY <2>1, <2>2
<1>12. Current(f)'
  <2>1. /\ rd' = f.start + a.off \/ rd' >= stream.len
        /\ e.start + e.bytes <= stream.len => rd' = f.start + a.off /\ f.got = a.log
    <3>1. CASE c.kind = "data"
      <4>1. rd' = rd + n /\ rd = e.start + c.off /\ a.off = c.off + n
        BY <1>6, <1>10, <1>15, <3>1
      <4>3. f.start = e.start /\ n \in Nat
        BY <1>4, <1>7
      <4>2. rd' = f.start + a.off
        BY <1>14, <1>16, <4>1, <4>3
      <4> QED
        BY <1>6, <1>7, <1>9, <4>2
    <3>2. CASE c.kind # "data"
      BY <1>6, <1>7, <1>9, <1>10, <3>2
    <3> QED
      BY <3>1, <3>2
  <2>2. ~Truncated(f)' <=> e.start + e.bytes <= stream.len
    BY <1>2, <1>7, <1>10, <1>14 DEF Truncated
  <2> QED
    BY <1>7, <1>8, <1>9, <1>10, <2>1, <2>2 DEF Current
<1>13. Len(entries') = Len(entries) /\ entries'[Len(entries)] = f
  BY <1>2, <1>3, <1>5 DEF FramingInv, TypeOK
<1> QED
  BY <1>2, <1>10, <1>11, <1>12, <1>13 DEF SequenceInv

LEMMA SequenceStep ==
  ASSUME Considerate, FramingInv, SequenceInv, Step
  PROVE  SequenceInv'
<1> USE DEF reader, client, call
<1>1. CASE SeekPanic
  BY <1>1 DEF SeekPanic, Panic
<1>2. CASE StartSkip
  BY <1>2, Numbers DEF StartSkip, Delta, Considerate
<1>3. CASE Seek
  BY <1>3 DEF Seek
<1>4. CASE SeekRefused
  BY <1>4, SequenceFinish DEF SeekRefused, Fail
<1>5. CASE ReadSome
  <2>1. PICK n \in 1..Least(amt, stream.len - rd) : Reads(n) /\ amt' = amt - n
    BY <1>5 DEF ReadSome
  <2>2. n \in Nat /\ n <= amt /\ n <= stream.len - rd
    BY Numbers DEF Least
  <2>4. rd' = rd + n /\ amt' = amt - n
    BY <2>1 DEF Reads
  <2>5. rd \in Nat /\ amt \in Nat
    BY Numbers
  <2>3. rd' + amt' = rd + amt /\ rd' \in Int /\ amt' \in Int
    BY <2>2, <2>4, <2>5
  <2> QED
    BY <1>5, <2>3, Numbers DEF ReadSome, ReadPcs, Used
<1>6. CASE SkipEof
  BY <1>6, SequenceFinish DEF SkipEof, Fail
<1>7. CASE SkipDone
  BY <1>7 DEF SkipDone
<1>8. CASE HeaderEof
  BY <1>8, SequenceFinish DEF HeaderEof, NoHeader, Fail
<1>9. CASE ZeroEnd
  BY <1>9, SequenceFinish DEF ZeroEnd, NoHeader, Fail
<1>10. CASE ZeroSkip
  BY <1>10, Numbers DEF ZeroSkip
<1>11. CASE HeaderInvalid
  BY <1>11, SequenceFinish DEF HeaderInvalid
<1>12. CASE Header
  <2> DEFINE size == SizeOf(BlockRead)
  <2>1. size \in U64
    BY <1>12, MemberSize DEF Header
  <2>2. Round(size) \in Nat /\ size <= Round(size) /\ size \in Nat
    BY <2>1, RoundBounds DEF U64
  <2>3. entry'.size = size /\ entry'.bytes = size /\ entry'.got = 0 /\ entry'.data = <<Data(size, 0, 0)>>
    BY <1>12 DEF Header
  <2>4. next' = rd + Round(size) /\ rd' = rd
    BY <1>12, <2>2, Numbers DEF Header
  <2>5. rd' + entry'.bytes <= next'
    BY <2>2, <2>3, <2>4, Numbers
  <2> QED
    BY <1>12, <2>3, <2>5 DEF Header
<1>13. CASE Duplicate
  BY <1>13, SequenceFinish DEF Duplicate, Fail
<1>14. CASE StartSlurp
  BY <1>14 DEF StartSlurp
<1>15. CASE SlurpDone
  BY <1>15, Numbers DEF SlurpDone
<1>16. CASE DeliverPlain
  <2> DEFINE e == [entry EXCEPT !.pend = pend]
             c == Data(entry.size, 0, 0)
  <2>1. /\ e \in Entry /\ e.bytes = entry.size /\ e.size = entry.size /\ e.got = 0
        /\ e.data = <<c>>
    BY <1>16 DEF DeliverPlain, TypeOK, Entry
  <2>2. rd + e.bytes <= next
    BY <1>16, <2>1 DEF DeliverPlain
  <2>6. c.off = 0 /\ c.log = 0 /\ c.left = entry.size /\ c.kind = "data"
    BY DEF Data
  <2>7. e.bytes \in Nat /\ e.bytes = c.left /\ e.size = c.left
    BY <1>16, <2>1, <2>6, Numbers DEF DeliverPlain
  <2>3. Len(e.data) = 1 /\ e.data[1] = c
    <3> HIDE DEF c, e
    <3> QED
      BY <2>1
  <2>4. Linked(e.data) /\ Within(e.data, e.bytes) /\ EndsAt(e.data, e.size)
    <3> HIDE DEF c, e
    <3> QED
      BY <2>1, <2>3, <2>6, <2>7 DEF Linked, Within, EndsAt, Span
  <2>5. Deliver(e) /\ pc = "classify" /\ e.data # <<>>
    BY <1>16, <2>1 DEF DeliverPlain
  <2> HIDE DEF e, c
  <2> QED
    BY <2>1, <2>2, <2>3, <2>4, <2>5, <2>6, SequenceDeliver
<1>17. CASE StartSparse
  <2>1. /\ entry'.data = <<>> /\ entry'.size = entry.size /\ entry'.bytes = entry.bytes
        /\ entry'.got = entry.got
    BY <1>17 DEF StartSparse, TypeOK, Entry
  <2>2. sparse'.remaining = entry.size /\ sparse'.cur = 0
    BY <1>17 DEF StartSparse
  <2>3. Used' = 0
    BY <2>1, <2>2, Numbers DEF Used
  <2>4. Linked(entry'.data) /\ Within(entry'.data, Used') /\ EndsAt(entry'.data, sparse'.cur)
    BY <2>1 DEF Linked, Within, EndsAt
  <2> QED
    BY <1>17, <2>1, <2>2, <2>3, <2>4 DEF StartSparse
<1>18. CASE SparseNotGnu
  BY <1>18, SequenceFinish DEF SparseNotGnu, Fail
<1>19. CASE SkipSlot
  BY <1>19 DEF SkipSlot, TypeOK, SparseMap, Used
<1>20. CASE AddBlock
  <2> DEFINE slot == Head(sparse.todo)
             grown == Append(entry.data \o Hole(slot), Data(slot.length, Used, slot.offset))
  <2>1. slot \in [offset : U64, length : U64] /\ pc = "map" /\ Fits(slot)
    BY <1>20 DEF AddBlock, TypeOK, SparseMap, Slot, Field, Fits
  <2>2. /\ entry'.data = grown /\ entry'.size = entry.size /\ entry'.bytes = entry.bytes
        /\ entry'.got = entry.got
    BY <1>20 DEF AddBlock, TypeOK, Entry
  <2>3. /\ sparse'.remaining = sparse.remaining - slot.length
        /\ sparse'.cur = slot.offset + slot.length
    BY <1>20 DEF AddBlock, TypeOK, SparseMap
  <2>4. UNCHANGED <<rd, next, pc, done, entries, reading, stream>>
    BY <1>20 DEF AddBlock
  <2>5. Used' = Used + slot.length
    <3>1. slot.length \in Nat /\ entry.size \in Nat /\ sparse.remaining \in Nat
      BY <2>1, Numbers DEF U64
    <3> HIDE DEF slot
    <3> QED
      BY <2>2, <2>3, <3>1 DEF Used
  <2>6. /\ grown # <<>> /\ Linked(grown) /\ Within(grown, Used + slot.length)
        /\ EndsAt(grown, slot.offset + slot.length)
        /\ grown[1].off = 0 /\ grown[1].log = 0
        /\ Span(grown[Len(grown)]) = Used + slot.length
    BY <2>1, Covered
  <2> HIDE DEF slot, grown
  <2>7. Building'
    BY <2>1, <2>2, <2>3, <2>4, <2>5, <2>6
  <2> QED
    BY <2>1, <2>4, <2>7
<1>21. CASE BadSlot
  BY <1>21, SequenceFinish DEF BadSlot, Fail
<1>22. CASE StartExt
  BY <1>22, Numbers DEF StartExt, Used
<1>23. CASE ExtEof
  BY <1>23, SequenceFinish DEF ExtEof, Fail
<1>24. CASE ExtPanic
  BY <1>24 DEF ExtPanic, Panic
<1>25. CASE ExtDone
  <2>1. sparse'.cur = sparse.cur /\ sparse'.remaining = sparse.remaining
    BY <1>25 DEF ExtDone, TypeOK, SparseMap
  <2>2. next' = next + BlockSize /\ rd' = rd /\ amt = 0
    BY <1>25, Numbers DEF ExtDone, Considerate
  <2>3. rd' + entry.bytes <= next'
    BY <1>25, <2>2, Numbers DEF ExtDone
  <2> QED
    BY <1>25, <2>1, <2>3 DEF ExtDone, Used
<1>26. CASE SparseDone
  <2> DEFINE e == [entry EXCEPT !.size = sparse.cur]
  <2>1. /\ e \in Entry /\ e.bytes = entry.bytes /\ e.size = sparse.cur /\ e.got = entry.got
        /\ e.data = entry.data
    BY DEF TypeOK, Entry, SparseMap
  <2>2. CASE MapComplete
    <3>1. Used = entry.bytes
      BY <1>26, <2>2, Numbers DEF SparseDone, MapComplete, Used
    <3>2. Deliver(e) /\ pc = "map"
      BY <1>26, <2>2 DEF SparseDone
    <3> HIDE DEF e
    <3> QED
      BY <2>1, <3>1, <3>2, SequenceDeliver
  <2>3. CASE ~MapComplete
    BY <1>26, <2>3, SequenceFinish DEF SparseDone, Fail
  <2> QED
    BY <2>2, <2>3
<1>27. CASE DropChunk
  BY <1>27, SequenceDrop
<1>28. CASE ReadChunk
  BY <1>28, SequenceRead
<1>29. CASE ReadEnd
  BY <1>29 DEF ReadEnd, ReadReturn, Current, Truncated
<1> QED
  BY <1>1, <1>2, <1>3, <1>4, <1>5, <1>6, <1>7, <1>8, <1>9, <1>10, <1>11, <1>12, <1>13,
     <1>14, <1>15, <1>16, <1>17, <1>18, <1>19, <1>20, <1>21, <1>22, <1>23, <1>24, <1>25,
     <1>26, <1>27, <1>28, <1>29 DEF Step

LEMMA SequenceNext ==
  ASSUME Considerate, FramingInv, SequenceInv, [Next]_vars
  PROVE  SequenceInv'
<1> USE DEF reader, client, call
<1>1. CASE Step
  BY <1>1, SequenceStep
<1>2. CASE ReadError
  BY <1>2, SequenceFinish DEF ReadError, Fail
<1>3. CASE ReadFails
  BY <1>3 DEF ReadFails, ReadReturn, Current, Truncated
<1>4. CASE Reopen
  <2>1. rd = 0 /\ rd' = 0 /\ next' = 0 /\ entries' = <<>> /\ pc' = "idle"
    BY <1>4 DEF Reopen
  <2> QED
    BY <2>1
<1>5. CASE \E r \in Raws : SetRaw(r)
  BY <1>5 DEF SetRaw, Current, Truncated
<1>6. CASE Exhausted \/ UNCHANGED vars
  BY <1>6 DEF Exhausted, vars, Current, Truncated, Used
<1>7. CASE CallNext
  BY <1>7 DEF CallNext
<1>8. CASE \E i \in DOMAIN entries, want \in Bufs : CallRead(i, want)
  <2>1. PICK i \in DOMAIN entries, want \in Bufs : CallRead(i, want)
    BY <1>8
  <2>2. want # 0 /\ i = Len(entries) /\ ~done
    BY <2>1 DEF Considerate, CallRead, Readable
  <2> QED
    BY <2>1, <2>2 DEF CallRead, Current, Truncated
<1> QED
  BY <1>1, <1>2, <1>3, <1>4, <1>5, <1>6, <1>7, <1>8 DEF Next, Failure, Client

LEMMA SequenceAlways ==
  ASSUME PosIsOffset, Considerate
  PROVE  Spec => [](FramingInv /\ SequenceInv)
<1>1. Init => FramingInv /\ SequenceInv
  BY FramingInit, SequenceInit
<1>2. FramingInv /\ SequenceInv /\ [Next]_vars => FramingInv' /\ SequenceInv'
  BY FramingNext, SequenceNext
<1> HIDE DEF FramingInv, SequenceInv
<1> QED
  BY <1>1, <1>2, PTL DEF Spec

-----------------------------------------------------------------------------

\* For a client that keeps to the sequence the reader is never past the next
\* header, and stands at the head of a list of chunks that cover the entry and
\* its data without a gap; this also while the list is made (entry.rs:954,
\* archive.rs:455).
THEOREM ChunksInStep ==
  ASSUME PosIsOffset, Considerate
  PROVE  Spec => []SequenceInv
<1> HIDE DEF FramingInv, SequenceInv
<1> QED
  BY SequenceAlways, PTL

\* The subtraction of next_entry_raw never goes below zero for a client that
\* reads an entry only until it asks for the next one.
THEOREM SubtractionIsSafe ==
  ASSUME PosIsOffset, Considerate
  PROVE  Spec => []NoUnderflow
<1>1. FramingInv /\ SequenceInv => NoUnderflow
  BY DEF NoUnderflow
<1> HIDE DEF FramingInv, SequenceInv
<1> QED
  BY <1>1, SequenceAlways, PTL

\* What such a client is given of an entry are the bytes of that entry.
THEOREM BytesAreOwn ==
  ASSUME PosIsOffset, Considerate
  PROVE  Spec => []OwnBytes
<1>1. FramingInv /\ SequenceInv => OwnBytes
  <2> SUFFICES ASSUME FramingInv, SequenceInv, pc = "read", Chunks # <<>>, rd < stream.len
               PROVE  rd = entries[reading.entry].start + Head(Chunks).off
    BY DEF OwnBytes
  <2>1. rd >= stream.len => FALSE
    BY Numbers
  <2> QED
    BY <2>1, HeadInHand DEF Current
<1> HIDE DEF FramingInv, SequenceInv
<1> QED
  BY <1>1, SequenceAlways, PTL

\* And it is given them in order, all of them before it is told that the entry
\* is over.
THEOREM BytesInOrder ==
  ASSUME PosIsOffset, Considerate
  PROVE  Spec => []InOrder
<1>1. FramingInv /\ SequenceInv => InOrder
  <2> SUFFICES ASSUME FramingInv, SequenceInv, pc = "read",
                      ~Truncated(entries[reading.entry])
               PROVE  entries[reading.entry].got =
                        (IF Chunks = <<>> THEN entries[reading.entry].size
                         ELSE Head(Chunks).log)
    BY DEF InOrder
  <2>1. CASE Chunks = <<>>
    BY <2>1 DEF Chunks, Current, TypeOK
  <2>2. CASE Chunks # <<>>
    BY <2>2, HeadInHand DEF Current
  <2> QED
    BY <2>1, <2>2
<1> HIDE DEF FramingInv, SequenceInv
<1> QED
  BY <1>1, SequenceAlways, PTL
=============================================================================
