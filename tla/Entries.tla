------------------------------- MODULE Entries -------------------------------
(***************************************************************************)
(* Reading an archive: Archive::entries and entries_with_seek, the         *)
(* EntriesFields iterator, and reading the contents of the entries it      *)
(* returns (src/src/archive.rs, and the Read impls of src/src/entry.rs).   *)
(*                                                                         *)
(* The iterator and every entry share one reader.  The iterator knows      *)
(* where the next header is ("next"), the archive counts the bytes read    *)
(* ("pos"), and each entry holds a list of limited views of the reader     *)
(* ("data"): nothing but the order of the client's calls keeps the three   *)
(* in step.  A call of next() or of read() is a sequence of steps, one for *)
(* each request to the reader, because every request may be cut short,     *)
(* reach the end of the stream or fail.                                    *)
(***************************************************************************)
EXTENDS TarBlocks

CONSTANTS
  Streams,        \* archives: records [blocks, len]
  Modes,          \* records [seek, zeros, checks]: entries_with_seek(),
                  \* set_ignore_zeros(), and a build with overflow checks
  Raws,           \* what the client may pass to raw()
  Bases,          \* offsets the reader may have when Archive::new takes it
  Bufs,           \* sizes of the buffers the client reads into
  InSequence      \* the client reads an entry only until it asks for the next

ASSUME StreamsAssumption ==
  \A s \in Streams : s \in [blocks : Seq(Block), len : U64]

ASSUME ClientAssumption ==
  /\ Modes \subseteq [seek : BOOLEAN, zeros : BOOLEAN, checks : BOOLEAN]
  /\ Raws \subseteq BOOLEAN
  /\ Bases \subseteq U64
  /\ Bufs \subseteq Nat
  /\ InSequence \in BOOLEAN

VARIABLES
  stream,     \* the archive being read and the base offset of the reader
  mode,       \* the flags raw, seek, zeros and checks
  rd,         \* bytes between the start of the archive and the reader
  pos,        \* ArchiveInner.pos
  next,       \* EntriesFields.next
  done,       \* EntriesFields.done
  pc,         \* what the call in progress does next
  amt,        \* bytes that the loop in progress still has to read
  headerPos,  \* header_pos of the header being looked for
  processed,  \* members read by this call of next()
  pend,       \* gnu_longname, gnu_longlink and pax_extensions of this call
  entry,      \* the entry under construction
  sparse,     \* the locals of parse_sparse_header
  entries,    \* the entries returned so far
  reading,    \* the client's read(): the entry and the size of its buffer
  outcome     \* "open" until next() reports the end or an error

reader == <<stream, rd, pos>>
call   == <<amt, headerPos, processed, pend, entry, sparse>>
client == <<entries, reading>>
vars   == <<reader, mode, next, done, pc, call, client, outcome>>

Least(m, n) == IF m <= n THEN m ELSE n

NoPend == [longname |-> None, longlink |-> None, pax |-> None]
NoEntry == [headerPos |-> 0, filePos |-> 0, size |-> 0, header |-> Other,
            data |-> <<>>, pend |-> NoPend,
            start |-> 0, bytes |-> 0, end |-> 0, got |-> 0]
NoMap == [cur |-> 0, remaining |-> 0, todo |-> <<>>, more |-> FALSE]

\* EntryIo.  off and log are history: where the chunk's next byte is among the
\* data bytes of the entry, and in the file the entry describes.
Pad(left, off, log)  == [kind |-> "pad",  left |-> left, off |-> off, log |-> log]
Data(left, off, log) == [kind |-> "data", left |-> left, off |-> off, log |-> log]

Chunk == [kind : {"pad", "data"}, left : U64, off : U64, log : U64]

\* The describing members found so far: where their headers are.
Pending == [longname : U64 \cup {None}, longlink : U64 \cup {None}, pax : U64 \cup {None}]

\* start, bytes, end and got are history: where the data begins, how many bytes
\* of it the archive declares, where the iterator went on to, and how many bytes
\* the client was given.
Entry == [headerPos : U64, filePos : U64, size : U64, header : Block,
          data : Seq(Chunk), pend : Pending,
          start : U64, bytes : U64, end : U64, got : Nat]

SparseMap == [cur : U64, remaining : U64, todo : Seq(Slot), more : BOOLEAN]

ReadPcs == {"skip", "header", "slurp", "ext"}
Pcs == ReadPcs \cup {"idle", "seek", "classify", "map", "read", "panicked"}

-----------------------------------------------------------------------------
(* Opening.                                                                *)

Init ==
  /\ \E s \in Streams, b \in Bases :
       stream = [blocks |-> s.blocks, len |-> s.len, base |-> b]
  /\ \E m \in Modes : 
       mode = [raw |-> FALSE, seek |-> m.seek, zeros |-> m.zeros, checks |-> m.checks]
  /\ rd = 0 /\ pos = 0 /\ next = 0 /\ done = FALSE
  /\ pc = "idle" /\ amt = 0 /\ headerPos = 0 /\ processed = 0
  /\ pend = NoPend /\ entry = NoEntry /\ sparse = NoMap
  /\ entries = <<>> /\ reading = [entry |-> 0, want |-> 0]
  /\ outcome = "open"

\* Archive::entries again: refused unless nothing was read.
Reopen ==
  /\ pc = "idle" /\ pos = 0
  /\ next' = 0 /\ done' = FALSE /\ mode' = [mode EXCEPT !.raw = FALSE]
  /\ entries' = <<>> /\ outcome' = "open"
  /\ UNCHANGED <<reader, pc, call, reading>>

\* Entries::raw, which may be called between two calls of next().
SetRaw(r) ==
  /\ pc = "idle"
  /\ mode' = [mode EXCEPT !.raw = r]
  /\ UNCHANGED <<reader, next, done, pc, call, client, outcome>>

-----------------------------------------------------------------------------
(* How a call of next() ends: its locals go out of scope.                  *)

Return ==
  /\ pc' = "idle"
  /\ amt' = 0 /\ headerPos' = 0 /\ processed' = 0
  /\ pend' = NoPend /\ entry' = NoEntry /\ sparse' = NoMap

\* Ok(None) or Err(_): the iterator is done for good.
Finish(result) ==
  /\ outcome' = result /\ done' = TRUE
  /\ Return
  /\ UNCHANGED <<reader, mode, client>>

Fail(error) == Finish(error) /\ UNCHANGED next

\* next_entry_raw found no header: an error when members wait for theirs.
NoHeader == Fail(IF processed > 1 THEN "malformed" ELSE "end")

\* Ok(Some(entry)).
Deliver(e) ==
  /\ entries' = Append(entries, [e EXCEPT !.start = rd, !.end = next])
  /\ Return
  /\ UNCHANGED <<reader, mode, next, done, reading, outcome>>

Panic ==
  /\ pc' = "panicked"
  /\ UNCHANGED <<reader, mode, next, done, call, client, outcome>>

\* EntriesFields::next once done: None, and nothing changes.
Exhausted == pc = "idle" /\ done /\ UNCHANGED vars

CallNext ==
  /\ pc = "idle" /\ ~done
  /\ pc' = "seek" /\ headerPos' = next /\ processed' = 1 /\ pend' = NoPend
  /\ UNCHANGED <<reader, mode, next, done, amt, entry, sparse, client, outcome>>

-----------------------------------------------------------------------------
(* next_entry_raw: going to the next header.                               *)

\* self.next - self.archive.inner.pos.get(): a u64, which wraps in a build
\* without overflow checks.
Delta == IF pos <= next THEN next - pos ELSE next - pos + MaxU64 + 1

SeekPanic == pc = "seek" /\ mode.checks /\ pos > next /\ Panic

\* skip, when the archive cannot seek.
StartSkip ==
  /\ pc = "seek" /\ ~mode.seek
  /\ mode.checks => pos <= next
  /\ pc' = "skip" /\ amt' = Delta
  /\ UNCHANGED <<reader, mode, next, done, headerPos, processed, pend, entry, sparse,
                 client, outcome>>

\* skip, when it can: a relative seek of the reader, whose absolute offset
\* becomes the position.  A reader takes a seek past its end.
Seek ==
  /\ pc = "seek" /\ mode.seek
  /\ mode.checks => pos <= next
  /\ Delta <= MaxI64 /\ stream.base + rd + Delta <= MaxU64
  /\ rd' = rd + Delta /\ pos' = stream.base + rd + Delta
  /\ pc' = "header" /\ amt' = BlockSize
  /\ UNCHANGED <<stream, mode, next, done, headerPos, processed, pend, entry, sparse,
                 client, outcome>>

\* i64::try_from fails.
SeekRefused ==
  /\ pc = "seek" /\ mode.seek
  /\ mode.checks => pos <= next
  /\ Delta > MaxI64
  /\ Fail("malformed")

\* Faulty: the archive does not count what is read.
ReadsUncounted(n) == rd' = rd + n /\ UNCHANGED pos

\* Read for ArchiveInner: the archive counts what its reader gives.
Reads(n) == rd' = rd + n /\ pos' = pos + n

\* One request of skip, try_read_all or read_all that yields some bytes.
ReadSome ==
  /\ pc \in ReadPcs
  /\ \E n \in 1..Least(amt, stream.len - rd) :
       Reads(n) /\ amt' = amt - n
  /\ UNCHANGED <<stream, mode, next, done, pc, headerPos, processed, pend, entry, sparse,
                 client, outcome>>

AtEof == amt > 0 /\ rd >= stream.len

\* Faulty: skip asks again at the end of the stream.
SkipEofRetries == pc = "skip" /\ AtEof /\ UNCHANGED vars
SkipEof == pc = "skip" /\ AtEof /\ Fail("malformed")

SkipDone ==
  /\ pc = "skip" /\ amt = 0
  /\ pc' = "header" /\ amt' = BlockSize
  /\ UNCHANGED <<reader, mode, next, done, headerPos, processed, pend, entry, sparse,
                 client, outcome>>

\* Any request may fail (an offset may be one the reader refuses), and the error
\* ends the iteration.
ReadError ==
  \/ pc \in ReadPcs /\ amt > 0 /\ Fail("io")
  \/ pc = "seek" /\ mode.seek /\ (mode.checks => pos <= next) /\ Fail("io")

-----------------------------------------------------------------------------
(* next_entry_raw: the block that was read.                                *)

\* try_read_all says false only when it read nothing at all.
HeaderEof ==
  /\ pc = "header" /\ AtEof
  /\ IF amt = BlockSize THEN NoHeader ELSE Fail("malformed")

BlockRead == BlockAt(stream.blocks, rd - BlockSize)

\* A block of zeros ends the archive, unless zeros are ignored.
ZeroEnd ==
  /\ pc = "header" /\ amt = 0 /\ BlockRead.kind = "zeros" /\ ~mode.zeros
  /\ NoHeader

ZeroSkip ==
  /\ pc = "header" /\ amt = 0 /\ BlockRead.kind = "zeros" /\ mode.zeros
  /\ next' = next + BlockSize /\ headerPos' = next + BlockSize
  /\ pc' = "seek"
  /\ UNCHANGED <<reader, mode, done, amt, processed, pend, entry, sparse, client, outcome>>

\* Faulty: the size record is forgotten.
NoPaxSize == None

\* The size of a member: a size in the pax records overrides the header's.
PaxSize ==
  IF pend.pax = None THEN None ELSE BlockAt(stream.blocks, pend.pax).paxsize
SizeOf(block) == IF PaxSize = None THEN block.size ELSE PaxSize

\* Faulty: the sum of next and the rounded size is not checked.
ValidUnchecked(block) ==
  /\ block.kind = "header" /\ block.size # Bad
  /\ SizeOf(block) + BlockSize - 1 <= MaxU64

\* The checksum holds, the size parses, and the next header has an offset.
Valid(block) ==
  /\ block.kind = "header" /\ block.size # Bad
  /\ SizeOf(block) + BlockSize - 1 <= MaxU64
  /\ next + BlockSize + Round(SizeOf(block)) <= MaxU64

HeaderInvalid ==
  /\ pc = "header" /\ amt = 0 /\ BlockRead.kind # "zeros" /\ ~Valid(BlockRead)
  /\ next' = next + BlockSize
  /\ Finish("malformed")

Header ==
  /\ pc = "header" /\ amt = 0 /\ BlockRead.kind # "zeros" /\ Valid(BlockRead)
  /\ LET size == SizeOf(BlockRead)
     IN  /\ next' = next + BlockSize + Round(size)
         /\ entry' = [headerPos |-> headerPos, filePos |-> next + BlockSize,
                      size |-> size, header |-> BlockRead,
                      data |-> <<Data(size, 0, 0)>>, pend |-> NoPend,
                      start |-> 0, bytes |-> size, end |-> 0, got |-> 0]
  /\ pc' = "classify"
  /\ UNCHANGED <<reader, mode, done, amt, headerPos, processed, pend, sparse, client, outcome>>

-----------------------------------------------------------------------------
(* next_entry: members that describe the member after them.                *)

Describes ==
  ~mode.raw /\ Recognized(entry.header) /\ entry.header.type \in DOMAIN NoPend

Duplicate ==
  /\ pc = "classify" /\ Describes /\ pend[entry.header.type] # None
  /\ Fail("malformed")

\* Faulty: a second member of a kind is not refused.
StartSlurpAgain ==
  /\ pc = "classify" /\ Describes
  /\ pc' = "slurp" /\ amt' = entry.size
  /\ UNCHANGED <<reader, mode, next, done, headerPos, processed, pend, entry, sparse,
                 client, outcome>>

\* read_all on the member.
StartSlurp ==
  /\ pc = "classify" /\ Describes /\ pend[entry.header.type] = None
  /\ pc' = "slurp" /\ amt' = entry.size
  /\ UNCHANGED <<reader, mode, next, done, headerPos, processed, pend, entry, sparse,
                 client, outcome>>

\* Faulty: header_pos stays at the describing member.
SlurpDoneStale ==
  /\ pc = "slurp" /\ (amt = 0 \/ rd >= stream.len)
  /\ pend' = [pend EXCEPT ![entry.header.type] = entry.headerPos]
  /\ processed' = processed + 1 /\ pc' = "seek"
  /\ amt' = 0 /\ entry' = NoEntry
  /\ UNCHANGED <<reader, mode, next, done, headerPos, sparse, client, outcome>>

\* read_all stops at the limit or, without an error, at the end of the stream.
SlurpDone ==
  /\ pc = "slurp" /\ (amt = 0 \/ rd >= stream.len)
  /\ pend' = [pend EXCEPT ![entry.header.type] = entry.headerPos]
  /\ processed' = processed + 1 /\ headerPos' = next /\ pc' = "seek"
  /\ amt' = 0 /\ entry' = NoEntry
  /\ UNCHANGED <<reader, mode, next, done, sparse, client, outcome>>

DeliverPlain ==
  /\ pc = "classify" /\ ~Describes
  /\ mode.raw \/ entry.header.type # "sparse"
  /\ Deliver([entry EXCEPT !.pend = pend])

-----------------------------------------------------------------------------
(* parse_sparse_header: the chunks of a sparse file.                       *)

StartSparse ==
  /\ pc = "classify" /\ ~mode.raw /\ entry.header.type = "sparse"
  /\ entry.header.format = "gnu"
  /\ entry' = [entry EXCEPT !.data = <<>>, !.pend = pend]
  /\ sparse' = [cur |-> 0, remaining |-> entry.size,
                todo |-> entry.header.map, more |-> entry.header.extended]
  /\ pc' = "map"
  /\ UNCHANGED <<reader, mode, next, done, amt, headerPos, processed, pend, client, outcome>>

SparseNotGnu ==
  /\ pc = "classify" /\ ~mode.raw /\ entry.header.type = "sparse"
  /\ entry.header.format # "gnu"
  /\ Fail("malformed")

Used == entry.size - sparse.remaining

\* add_block accepts the slot.
Fits(slot) ==
  /\ slot.offset # Bad /\ slot.length # Bad
  /\ slot.length # 0 => Used % BlockSize = 0
  /\ sparse.cur <= slot.offset
  /\ slot.offset + slot.length <= MaxU64
  /\ slot.length <= sparse.remaining

\* Faulty: a hole has the length of the slot's offset.
HoleFromStart(slot) ==
  IF sparse.cur < slot.offset THEN <<Pad(slot.offset, Used, sparse.cur)>> ELSE <<>>

Hole(slot) ==
  IF sparse.cur < slot.offset
  THEN <<Pad(slot.offset - sparse.cur, Used, sparse.cur)>> ELSE <<>>

SkipSlot ==
  /\ pc = "map" /\ sparse.todo # <<>> /\ Head(sparse.todo) = None
  /\ sparse' = [sparse EXCEPT !.todo = Tail(@)]
  /\ UNCHANGED <<reader, mode, next, done, pc, amt, headerPos, processed, pend, entry,
                 client, outcome>>

AddBlock ==
  /\ pc = "map" /\ sparse.todo # <<>>
  /\ LET slot == Head(sparse.todo)
     IN  /\ slot # None /\ Fits(slot)
         /\ entry' = [entry EXCEPT !.data =
                        Append(@ \o Hole(slot), Data(slot.length, Used, slot.offset))]
         /\ sparse' = [sparse EXCEPT !.cur = slot.offset + slot.length,
                                     !.remaining = @ - slot.length,
                                     !.todo = Tail(@)]
  /\ UNCHANGED <<reader, mode, next, done, pc, amt, headerPos, processed, pend, client, outcome>>

BadSlot ==
  /\ pc = "map" /\ sparse.todo # <<>>
  /\ Head(sparse.todo) # None /\ ~Fits(Head(sparse.todo))
  /\ Fail("malformed")

StartExt ==
  /\ pc = "map" /\ sparse.todo = <<>> /\ sparse.more
  /\ pc' = "ext" /\ amt' = BlockSize
  /\ UNCHANGED <<reader, mode, next, done, headerPos, processed, pend, entry, sparse,
                 client, outcome>>

\* Nothing is left, or only part of a block.
ExtEof == pc = "ext" /\ AtEof /\ Fail("malformed")

ExtPanic ==
  pc = "ext" /\ amt = 0 /\ mode.checks /\ next + BlockSize > MaxU64 /\ Panic

\* An extension lies between the header and the data, and is not part of the
\* size in the header.
ExtDone ==
  /\ pc = "ext" /\ amt = 0
  /\ mode.checks => next + BlockSize <= MaxU64
  /\ next' = IF next + BlockSize <= MaxU64 THEN next + BlockSize
             ELSE next + BlockSize - (MaxU64 + 1)
  /\ sparse' = [sparse EXCEPT !.todo = MapOf(BlockRead), !.more = BlockRead.extended]
  /\ pc' = "map"
  /\ UNCHANGED <<reader, mode, done, amt, headerPos, processed, pend, entry, client, outcome>>

\* Faulty: data that the map leaves over is not refused.
MapCovers == sparse.cur = entry.header.real

MapComplete == sparse.cur = entry.header.real /\ sparse.remaining = 0

SparseDone ==
  /\ pc = "map" /\ sparse.todo = <<>> /\ ~sparse.more
  /\ IF MapComplete THEN Deliver([entry EXCEPT !.size = sparse.cur]) ELSE Fail("malformed")

-----------------------------------------------------------------------------
(* The client reads an entry: Read for EntryFields.                        *)

\* The entries the client may read: any, or only the one it got last and only
\* until it calls next() again.
Readable(i) ==
  /\ i \in DOMAIN entries
  /\ InSequence => i = Len(entries) /\ ~done

CallRead(i, want) ==
  /\ pc = "idle" /\ Readable(i)
  /\ pc' = "read" /\ reading' = [entry |-> i, want |-> want]
  /\ UNCHANGED <<reader, mode, next, done, call, entries, outcome>>

Chunks == entries[reading.entry].data

\* Faulty: the reader is not limited to the chunk.
GivesUnlimited(chunk) ==
  IF rd >= stream.len THEN {0} ELSE 1..Least(reading.want, stream.len - rd)

\* Faulty: the reader may answer 0 before the chunk is spent.
GivesEarlyZero(chunk) == 0..Least(chunk.left, Least(reading.want, stream.len - rd))

\* What the head chunk can give: a hole fills the buffer, the reader may give
\* less than there is, and a spent limit or an empty buffer gives nothing.
Gives(chunk) ==
  LET most == Least(chunk.left, reading.want)
  IN  IF most = 0 THEN {0}
      ELSE IF chunk.kind = "pad" THEN {most}
      ELSE IF rd >= stream.len THEN {0}
      ELSE 1..Least(most, stream.len - rd)

ReadReturn ==
  /\ pc' = "idle" /\ reading' = [entry |-> 0, want |-> 0]
  /\ UNCHANGED <<stream, mode, next, done, call, outcome>>

\* Ok(0) of the head chunk: the chunk is dropped and the next one is asked.
DropChunk ==
  /\ pc = "read" /\ Chunks # <<>> /\ 0 \in Gives(Head(Chunks))
  /\ entries' = [entries EXCEPT ![reading.entry].data = Tail(@)]
  /\ UNCHANGED <<reader, mode, next, done, pc, call, reading, outcome>>

\* A chunk, and an entry, after n bytes of it were given.
After(c, n) == [kind |-> c.kind, left |-> c.left - n, log |-> c.log + n,
                off |-> IF c.kind = "data" THEN c.off + n ELSE c.off]
Given(e, n) == [e EXCEPT !.got = e.got + n,
                         !.data = [e.data EXCEPT ![1] = After(e.data[1], n)]]

ReadChunk ==
  /\ pc = "read" /\ Chunks # <<>>
  /\ \E n \in Gives(Head(Chunks)) \ {0} :
       /\ entries' = [entries EXCEPT ![reading.entry] = Given(@, n)]
       /\ IF Head(Chunks).kind = "data" THEN Reads(n) ELSE UNCHANGED <<rd, pos>>
  /\ ReadReturn

\* No chunk is left: Ok(0), the end of the entry.
ReadEnd ==
  /\ pc = "read" /\ Chunks = <<>>
  /\ UNCHANGED <<rd, pos, entries>>
  /\ ReadReturn

\* The reader fails; the entry keeps its chunks and can be read again.
ReadFails ==
  /\ pc = "read" /\ Chunks # <<>>
  /\ Head(Chunks).kind = "data" /\ Head(Chunks).left # 0 /\ reading.want # 0
  /\ UNCHANGED <<rd, pos, entries>>
  /\ ReadReturn

-----------------------------------------------------------------------------

\* The steps of a call in progress; each needs the one before it.
Step ==
  \/ SeekPanic \/ StartSkip \/ Seek \/ SeekRefused
  \/ ReadSome \/ SkipEof \/ SkipDone
  \/ HeaderEof \/ ZeroEnd \/ ZeroSkip \/ HeaderInvalid \/ Header
  \/ Duplicate \/ StartSlurp \/ SlurpDone \/ DeliverPlain
  \/ StartSparse \/ SparseNotGnu \/ SkipSlot \/ AddBlock \/ BadSlot
  \/ StartExt \/ ExtEof \/ ExtPanic \/ ExtDone \/ SparseDone
  \/ DropChunk \/ ReadChunk \/ ReadEnd

Failure == ReadError \/ ReadFails

Client ==
  \/ Reopen
  \/ \E r \in Raws : SetRaw(r)
  \/ Exhausted \/ CallNext
  \/ \E i \in DOMAIN entries, want \in Bufs : CallRead(i, want)

Next == Step \/ Failure \/ Client

Spec == Init /\ [][Next]_vars

\* A call runs to its end; the client owes nothing.
FairSpec == Spec /\ WF_vars(Step)

-----------------------------------------------------------------------------
(* Properties.                                                             *)

\* Every variable has its type: the counters of the code fit a u64, and the
\* offsets of chunks fit the file they describe.
TypeOK ==
  /\ stream \in [blocks : Seq(Block), len : U64, base : U64]
  /\ mode \in [raw : BOOLEAN, seek : BOOLEAN, zeros : BOOLEAN, checks : BOOLEAN]
  /\ rd \in U64 /\ pos \in U64 /\ next \in U64 /\ done \in BOOLEAN
  /\ pc \in Pcs /\ amt \in U64 /\ headerPos \in U64 /\ processed \in Nat
  /\ pend \in Pending /\ entry \in Entry /\ sparse \in SparseMap
  /\ entries \in Seq(Entry)
  /\ reading \in [entry : Nat, want : Nat]
  /\ outcome \in {"open", "end", "malformed", "io"}

\* The subtraction in next_entry_raw (archive.rs:303) never goes below zero.
\* It is unchecked, and it is safe only if no entry, member or sparse map makes
\* the archive read past the header that the iterator goes to next.
NoUnderflow == pc = "seek" => pos <= next

\* A header is decoded only from the offset the entry will report as its
\* header_pos, and the data of the entry starts where the reader is, whatever
\* the client read, skipped or failed to read in between.
HeaderWhereExpected ==
  pc = "header" /\ amt = 0 => rd = headerPos + BlockSize

\* A byte of data handed to the client comes from the data of the entry it
\* reads, at the position the entry's limits say (the doc of Archive::entries
\* promises it of entries considered in sequence).
OwnBytes ==
  pc = "read" /\ Chunks # <<>> /\ rd < stream.len =>
    LET chunk == Head(Chunks)
    IN  chunk.kind = "data" /\ chunk.left # 0 =>
          rd = entries[reading.entry].start + chunk.off

\* The stream ends before the data that the header of the entry declares.
Truncated(e) == e.start + e.bytes > stream.len

\* Nothing of an entry is lost or repeated: the next chunk, a hole or data,
\* continues the file where the client's bytes end, and the client is told that
\* the entry is over only when it has all of it.  A stream cut off inside the
\* data is read as an entry that is shorter than declared.
InOrder ==
  pc = "read" /\ ~Truncated(entries[reading.entry]) =>
    entries[reading.entry].got =
      (IF Chunks = <<>> THEN entries[reading.entry].size ELSE Head(Chunks).log)

\* One call of next() reads at most one long name, one long link and one set of
\* pax records before the member they describe, which bounds the work and the
\* memory of a call (next_entry refuses a second one of each).
DescribedOnce == processed <= 4

\* Sizes that no u64 can add up are an error and not a panic
\* (test header_size_overflow, tests/all.rs:1790: they "also don't panic").
SizesDoNotPanic == pc # "panicked"

\* Every call of next() and of read() returns, however the reader splits its
\* answers and whatever the archive says, once the reader answers.
AlwaysReturns == pc # "idle" ~> pc \in {"idle", "panicked"}

=============================================================================
