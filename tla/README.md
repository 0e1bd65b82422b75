# A verification project for tar-rs

TLA+ models of the `tar` crate, checked with TLC on small instances, and proofs
checked with TLAPS for every instance. Source lines are those of the crate
(`archive.rs`, `entry.rs`, ... are its `src/` directory).

## The system

`tar` reads and writes tar archives. It keeps no state outside the values the
client holds and starts no threads; what is hard about it is that several values
share one stream and that every request to the stream may be short, end early or
fail.

| Part | Source | State | Operations | What makes it correct | Modelled by |
| --- | --- | --- | --- | --- | --- |
| Archive reader | `archive.rs` | position `pos`, next header `next`, `done`, the members collected by a call | `entries`, `entries_with_seek`, `raw`, `next` | every member is listed once, in order, with its own description; headers are only decoded where headers are; bad archives are errors | `Entries`, `Listing` |
| Entry contents | `entry.rs` | a list of limited views of the shared reader | `read`, `read_all` | an entry's bytes are its own, complete and in order | `Entries` |
| Entry names | `entry.rs` | long name, long link, pax records | `path`, `link_name`, `pax_extensions` | the right source of a name wins | `ArchiveTrip` |
| Unpacking | `archive.rs`, `entry.rs` | the file system, delayed directories | `unpack`, `unpack_in` | files land inside the destination, with their contents and permissions | `Unpack`, in part |
| Builder | `builder.rs` | the stream written so far, `finished` | `append*`, `append_link`, `append_writer`, `finish`, `into_inner`, drop | what is written is what a reader lists, also after a failed append | `Builder`, `ArchiveTrip` |
| Sparse writer | `builder.rs` | the extents of a file | `find_sparse_entries`, `prepare_header_sparse`, `append_extended_sparse_headers` | the reader gets the same file back, also if the file changes meanwhile | `SparseScan`, `Builder`, `ArchiveTrip` |
| Header fields | `header.rs` | 512 bytes | getters and setters of numbers, paths, links | what is set is what is read, or an error | `HeaderFields`, `Names`, in part |
| PAX records | `pax.rs`, `builder.rs` | none | parse, append | records survive a round trip; the length counts itself | `PaxRecords`, `Entries` |
| Entry types | `entry_type.rs` | none | byte to type and back | total and inverse | `HeaderFields` |
| Errors, crate root, platform branches, examples, fuzz targets, xtask | | | | | not modelled: wording, re-exports, wrappers of platform calls, clients |

How they interact: `EntriesFields` (the iterator) and every `Entry` borrow the
archive's one reader (`RefCell`), and the archive counts what all of them read in
`pos`. The iterator finds the next header by the difference `next - pos`. An entry
owns a list of `Take` views of the reader, so its bytes are its own only while the
reader stands where the view expects it. A member of type `L`, `K` or `x` is read
whole by the iterator and handed to the member after it. The builder writes
members to one stream, and a name that does not fit costs a member of its own.
Unpacking is a client of the iterator, and `append_path` one of the file system.

## Modules

| Module | What it is |
| --- | --- |
| `TarBlocks` | Blocks, numeric fields and rounding: an archive as the reader tells it apart. |
| `Entries` | The iterator and the reading of contents, one action for each request to the reader. |
| `Listing` | What iteration promises: the members of the archive, found by looking at all of it. |
| `EntriesRefinement` | `Entries` implements `Listing`; `ListingInv` says why. |
| `EntriesInvariants` | The inductive invariants `FramingInv`, `CountInv` and `SequenceInv`. |
| `NaturalFacts` | Facts about natural numbers, folds and sequences that several proofs use. |
| `EntriesProofs` | What holds for any client, and for one that reads each entry before it asks for the next. |
| `EntriesRefinementProofs` | The proof of the refinement. |
| `Names` | Paths in the fields of a header: which are accepted, what is stored, what is read back. |
| `NamesProofs` | A stored path is the path that was set, in one field or divided in two. |
| `HeaderFields` | One header that a client fills in and reads; numeric fields byte by byte, entry types. |
| `HeaderFieldsProofs` | A header gives back the numbers and the text it was given. |
| `PaxRecords` | The lines of a pax member, with the length that counts itself. |
| `Builder` | The calls that write an archive, over a stream that may fail between any two bytes. |
| `BuilderInvariants` | Where in the stream the entries are, and the inductive invariant `BuilderInv`. |
| `BuilderProofs` | What was appended stays where it was put, whatever fails. |
| `ArchiveTrip` | `Builder` composed with `Listing`: what a reader finds in what was written. |
| `SparseScan` | `append_file` on a file that another process changes, one action for each system call. |
| `SparseScanProofs` | The map made of such a file is ordered; a file nobody changes is archived whole. |
| `FileSystem` | Names, inodes and the lookup of paths: the file system that is unpacked into. |
| `Unpack` | `Archive::unpack` over it, one action for each system call. |
| `UnpackInvariants` | The inductive invariants `PlaceInv` and `EntryInv`. |
| `UnpackProofs` | What is unpacked stays inside the destination and is what the archive says. |
| `MCEntries`, `MCBuilder`, `MCHeaderFields`, `MCSparseScan`, `MCUnpack` | The inputs of the runs. |

`ArchiveTrip` takes the reader to be `Listing`, which it is by `EntriesListTheArchive`;
so the two halves of the crate meet in one abstract specification, which knows
neither how the reader gets its bytes nor how the writer makes them.

### Entries

The variables are the fields of the code: `pos`, `next` and `done` have their
names, `mode` is `raw`, the presence of `seekable_archive`, `ignore_zeros` and
whether the build has overflow checks; `headerPos`, `processed`, `pend`, `entry`
and `sparse` are the locals of `next_entry_raw`, `next_entry` and
`parse_sparse_header`; `entries` are the values returned and not yet dropped.
`rd` is where the reader really is, as opposed to `pos`, where the archive thinks
it is. `pc` says what the call in progress does next and `amt` how many bytes its
loop still wants.

| Actions | Code |
| --- | --- |
| `Reopen`, `SetRaw`, `CallNext`, `Exhausted` | `_entries`, `raw`, `next` |
| `StartSkip`, `Seek`, `SeekRefused`, `SeekPanic`, `SkipDone`, `SkipEof` | the subtraction and `skip` |
| `ReadSome`, `ReadError` | one `read` of the reader in `skip`, `try_read_all` or `read_all` |
| `HeaderEof`, `ZeroEnd`, `ZeroSkip`, `HeaderInvalid`, `Header` | the rest of `next_entry_raw` |
| `Duplicate`, `StartSlurp`, `SlurpDone`, `DeliverPlain` | the loop of `next_entry` |
| `StartSparse`, `SparseNotGnu`, `SkipSlot`, `AddBlock`, `BadSlot`, `StartExt`, `ExtEof`, `ExtDone`, `ExtPanic`, `SparseDone` | `parse_sparse_header` |
| `CallRead`, `DropChunk`, `ReadChunk`, `ReadEnd`, `ReadFails` | `Read for EntryFields` |

A request may give any positive number of bytes up to what is asked and what the
stream has (`ReadSome`, `ReadChunk`), may fail at any time (`ReadError`,
`ReadFails`), and gives nothing only at the end of the stream. Names, owners,
times and the bytes of contents are left out: nothing the iterator decides depends
on them. A checksum either matches or not, a field is a number or `Bad`, and a
pax member carries the size record it would be parsed to.

`off`, `log`, `start`, `bytes`, `end` and `got` are history variables. They say
where a chunk belongs in the data and in the file, and what the client was given.

An operator whose comment starts with "Faulty" is not part of the model: it is a
plausible bug in the operator that follows it, and substituting it makes a named
property fail. That shows each property can fail.

### Listing

`Listing` has the archive, the flags and the list of members returned. Its one
interesting definition, `After`, finds what a call may return by looking at the whole
archive: which members describe the next one, whether its sparse map is valid, where
its data starts and where the member behind it is. `After` is a function of a place, an
offset and the describing members that were passed on the way to it; it goes on to
another place only through a describing member of a kind it has not passed. `Slots` are
those of the header and of all extension blocks, and `Laid` says what makes them a map:
no parser goes through them. `Refused`: an archive that seeks may give up on a distance
that does not fit a signed 64-bit number, which one that skips never does.

The refinement maps `entries` to the list of members. Reads of contents, positions and
partial requests have no counterpart and stutter.

### Builder and ArchiveTrip

`out` and `at` are the stream and the position in it; `finished` has its name; `writer`
is the open `EntryWriter`, `stack` the stack of `append_dir_all`, `closed` that the
builder was dropped or taken apart. A byte of the stream is a pair: which header it
belongs to, and which byte of the header or of its contents it is. So two entries that
are mixed up, bytes out of place and a block that was never overwritten can be told
apart although no real byte is in the model. `headers` says what each header holds.

| Actions | Code |
| --- | --- |
| `AppendWhole`, `AppendData`, `AppendLink` | `append`, `append_data`, `append_link` |
| `AppendPath` | `append_path`, `append_path_with_name`, `append_file`, `append_dir` and what they call: `append_fs`, `append_special`, `prepare_header_sparse`, `append_extended_sparse_headers` |
| `AppendPax` | `append_pax_extensions` |
| `StartWalk`, `WalkNode` | `append_dir_all`, one node of its stack at a time |
| `StartWriter`, `WriteChunk`, `FinishWriter`, `PadFails`, `HeaderFails` | `EntryWriter::start`, `write`, `do_finish` and the points where it may fail |
| `Finish`, `Close` | `finish`; `into_inner` and drop |

A call is worked out as a request: the bytes it writes, whether it is refused in the
end, and the entry it would be. It is then done, refused after what it had written
before the refusal, or broken off by the stream after `Cuts` bytes. `entries` and
`failed` are history: what was appended with `Ok` before the first failure. So is
`orphaned`: a call that is refused may have written the member of a long name by then, and
`orphaned` is how many entries there were when one first did.

`BuilderInvariants` states what the stream has to look like for that: every entry lies where
it was put, behind the one before it, and no later call changes a byte of it or of its header
(`EntriesStay`); and without a failure each call begins at the end of the stream, on a block
boundary (`OnBoundary`).

`ArchiveTrip` cuts `out` into blocks, asks `Listing` for the members, and compares each
with what was appended: name, link, records, size, the place of each byte of data.

### HeaderFields, Names and PaxRecords

A numeric field is a sequence of bytes in a small base: octal text and binary with a
flag, both written and read as the code does, digit by digit: `DigitAt` is a shift and a
mask, `Number` the loop that reads them.

A path is a list of components, each a stretch of a name, so that a path cut in two fields, cut
at the end of one, or read with a byte too few is not the path that was set. `header` holds the
texts in this form, which is what `Names` decides by. `text` holds the bytes of the same fields:
`Spelled` is what a path is in bytes, `CopyInto` overwrites a field with them and a NUL, and
leaves what is behind. That the two agree is not a matter of form: it is `FieldsSpell`,
that nothing of a longer text is read behind a shorter one.

Any call may be made in any state, also `set_path` on a header that has a path. `LeftPrefix` and
`BehindRoot` are the two cases in which the path that is read is not the one that was set, and
`TextKept` says what holds in them; `Divided` names the paths whose division, if they need one,
is at a separator.

A pax record has the length of its key and of the lines of its value, which decide how long its length is.

### SparseScan

`file` is what is on disk: bytes, and the grains that are allocated. `pc` is the system
call that comes next; `stat`, `off`, `slots` and the position are the locals of
`find_sparse_entries`. `Overwrite`, `Resize` and `Punch` are the other process; they
may happen between any two calls. `GrainAssumption` says that the file system's holes
are whole blocks of an archive. Without it the map is one that the reader refuses
(`archive.rs:497`): the code does not check it.

### Unpack

`disk.names` maps real paths to inodes, so hard links, links to directories and files that
are replaced behave as they do: a path is canonicalised by `Walk`, a file that is removed
lives on under its other names. A walk ends after `MaxLookups` names, as the system's does
after a number of links. `pc` goes through `unpack_in` (`path`, `ensure`), and `unpack`
(`place`, `data`, `owner`, `mode`); `deferred` are the directories that wait. `Io` is a
system call, or the archive, that fails; a refusal of the code is in the action that
refuses. `expect` is history: what each path got from the archive. A path is forgotten
while something is unpacked to it again, also a directory that is there already, whose
owner and mode may be set before a later call fails. `SetOwner` sets the owner of a link and
its time in one step; the time is not in the model, so there is no state in between.

## Runs

In the runs of `Entries` blocks have 2 bytes and a u64 five bits (`MaxU64 = 31`,
`MaxI64 = 15`), so that a size can be less than a block, a block, and several, and every
overflow in the code is reached by archives of a few blocks. The other bound is the set
of archives of each run; the number of calls is bounded by the archive. No run has a
symmetry set or a state constraint.

| Run | What it shows |
| --- | --- |
| `entriesContents` | Every archive of up to four blocks out of three files, zeros and data; over a thousand sparse maps; a sparse file with holes before, between and after its data, cut off after every byte. In sequence, buffers of 1 and 3 bytes. `NoUnderflow`, `OwnBytes`, `InOrder`, the refinement, and the invariants the proofs rest on (`FramingInv`, `SequenceInv`, `ListingInv`). |
| `entriesListing` | Up to four describing members and files in every order, every value of every size, `raw()` at any time, a member that a seek does not reach. `DescribedOnce`, `CountInv`, `TypeOK`, the refinement. |
| `entriesDisorder` | Any order of calls, with checked and with wrapping arithmetic, empty buffers, archives cut off, a size near the largest u64. `HeaderWhereExpected`, and `AlwaysReturns` under fairness. |
| `builderTrip` | Any two calls of a builder with the streams failing in them, steps of an `EntryWriter` and of a directory walk in between. `EarlierSurvive`: whatever fails, what was appended before is read first and whole. What a refused call may leave behind disturbs only what comes after it. `ListsWhatWasAppended`: as long as nothing failed and no refused call left a member behind, nothing else is read. `EntriesStay`, `OnBoundary`, and `BuilderInv`, the invariant behind their proofs. |
| `headerFields` | Any three calls on a header of each format. `NumbersKept`, `TextKept`: what was accepted is read back, with two exceptions, of an old prefix and of a path behind the root. `FieldsSpell`: no byte of an earlier text is read in a later one. |
| `sparseScan` | A file with any holes, and two changes by another process anywhere. `GivesTheFile`, `SteadyInv`: a file nobody changes is archived whole. `MapOrdered`, `ScanInv`: a changed one makes no map that is out of order or longer than announced. `AppendEnds`: the call returns. |
| `unpack` | Archives of up to three entries, an empty and a used file system, any call failing. `UnpackedWhole`: what was unpacked is and stays what the archive says, and `Ok` means nothing is missing. `ElsewhereKept`: nothing outside changes. `EntryInv`: the invariant behind both. `PlainDirectoriesInOrder`: a sane archive is unpacked whatever the modes of its directories. |
| `entriesEmptyBuffer` | A read into an empty buffer removes the head chunk: the client loses the rest of the entry (`entry.rs:957`). |
| `entriesSeekBase` | `entries_with_seek` on a reader that is not at offset 0 lists something else than `entries` (`archive.rs:610`). |
| `entriesHugeSparse` | A sparse extension behind a size near the largest u64 panics where a test says such sizes do not (`archive.rs:534`, `tests/all.rs:1790`). |
| `builderOrphan` | `append_link` with a long name and a target that is refused leaves the long-name member behind, and the next entry is read under that name (`builder.rs:281`; the comment at `builder.rs:809` says this must not happen). |
| `unpackOrder` | A directory `d` and one named `./d/d`: sorting the names by their bytes applies the parent's mode first, and the child cannot be created (`archive.rs:262`; the comment above it says parents come last). |

The last five are expected to end in a violation; they are the disagreements between
code and documentation that a run shows.

### Bounds

* `builderTrip`: blocks of 2 bytes, names of 2 and prefixes of 3, one slot of a sparse
  map in a header and two in an extension block, record lengths in base 3. The eleven
  appends and fifteen files have names that fit, that need the prefix, that need a member
  of their own and that are refused, links alike; a link and a file are refused behind a
  long name that is written already; sizes 0 to 9, maps of one to four slots
  (no extension block, a full one, one more with a single slot), a file that fails, shrinks, or
  grows. Two calls are enough for one call to disturb the next; the walk and the writer
  are calls of several steps. A call breaks off after 1, 2 or 5 bytes: inside the header,
  after it, and behind the first member of two.
* `headerFields`: short fields of 3 bytes, long ones of 5, octal digits in base 2 and
  bytes of 8 values; the numbers are those around each change of encoding. Names of 3
  bytes, prefixes of 4, owners of 2. Paths fit the name, need the prefix or fit neither,
  with `.`, `..`, a NUL, a final slash; some are absolute, and some of these are divided
  behind the root. Three calls: setting a field, disturbing it, setting another.
* `sparseScan`: grains of one block, files of 0, 3 and 7 bytes, every set of holes; up to
  two extents and a tail that is cut off. With two changes a file can be truncated and
  grow again in one search.
* `unpack`: names `d`, `f`, `l`; twenty entries that are files, directories with closed
  modes, links inside and outside, hard links, entries with `..`, contents that are cut
  off; three sets of options. Three entries: a link, something through it or over it, and
  a directory above. At most 12 names are looked up for one path (`MaxLookups`), which is
  more than two links in it take.

Deadlock is checked for `Entries` except where a panic stops the program; a client whose
iterator is done may call `next` for ever, which is a step that changes nothing. The other
models stop when their bounded client has made its calls, or the call under way has
returned, so their runs say `CHECK_DEADLOCK FALSE`. That `SparseScan` never stops
half-way is `AppendEnds`.

### Fairness

`FairSpec` of `Entries` has weak fairness of `Step`, the library's own steps. They run in
the client's thread, one after the other, and each is enabled until it is taken, so a
call that is not preempted for ever takes them; that a request to the reader returns is
part of it. The client's calls and the reader's failures have no fairness. `FairSpec` of
`SparseScan` is the same for `append_file`: its steps are fair, errors and the other
process are not. The other process makes finitely many changes, as a file that grows for
ever is copied for ever. Liveness of `Unpack` is not checked: deciding which of its
actions are enabled in each state is out of TLC's reach at this size.

### What the passing runs leave out

In these cases the code does not do what a property says. The models have the behaviour of
the code. Where the inputs of a passing run reach it the property says what holds instead:

* A ustar header that is used again keeps the prefix of a longer path when a path is set that
  fits the name, and is read with it (`header.rs:1034`). `TextKept` says that the name alone is
  the path then (`LeftPrefix`). Where `a` is set after `bb/a` in a name of 3 bytes, `bb/a` is
  read.
* `set_path_absolute` on a ustar header, of a long path whose only parent that fits the
  prefix is the root, loses the first byte of the name (`header.rs:1064`): `/dddd` is read
  as `/ddd`. `TextKept` leaves such a path out (`BehindRoot`), and says of the rest of the
  header what it says of any other.
* What is appended after a call that was refused behind a long-name member (`builder.rs:281`
  for a link, `builder.rs:725` for a file) is read under that name. `EarlierSurvive` asks only
  for the entries before such a call, `ListsWhatWasAppended` only for calls without one.
  `builderOrphan` shows what happens, of a link; a file is the same.

The inputs of the passing runs do not reach the others:

* Reading an entry after asking for the next one underflows the subtraction of
  `archive.rs:303`, where the documentation (`archive.rs:78`) speaks of corrupted contents
  only. `NoUnderflow` needs `InSequence`.
* Raw iteration over a sparse member with extension blocks looks for the next header inside
  the member (`archive.rs:389`).
* `append_path_with_name` gives a special file the path it was found at (`builder.rs:659`).
* A pax size record is applied to a long-name member that follows it, and a pax path record
  loses to a long name; clients of `Builder` give no path record to an entry that needs
  a long name (`PaxPath`).
* A pax value with a newline reads as malformed records.
* The top bit of an 8-byte binary number is the flag (`header.rs:1533`), and octal digits
  that do not fit are dropped; `Holds` names the numbers that a field can hold.
* After a `finish` that fails a second one reports `Ok` and writes nothing
  (`builder.rs:493`); `ListsWhatWasAppended` asks for a clean end only as long as
  nothing failed.
* A name with a trailing slash in an old header is a directory that gets its mode at once
  (`entry.rs:622`); such archives are outside `PlainDirectoriesInOrder`. To the sort `d` and `d/`
  are two directories, which does no harm: both come before what is inside.

## Proofs

`tlapm` checks these for every archive, block size, integer width, file system and client
that the named assumptions admit.

| Theorem | Statement | Assumes |
| --- | --- | --- |
| `FramingAlways` | `Spec => []FramingInv` (`Entries`) | `PosIsOffset` |
| `CountAlways` | `Spec => []CountInv` | `PosIsOffset` |
| `TypeCorrect` | `Spec => []TypeOK` | `PosIsOffset` |
| `HeadersWhereExpected` | `Spec => []HeaderWhereExpected` | `PosIsOffset` |
| `OneOfEachKind` | `Spec => []DescribedOnce` | `PosIsOffset` |
| `ChunksInStep` | `Spec => []SequenceInv` | `PosIsOffset`, `Considerate` |
| `SubtractionIsSafe` | `Spec => []NoUnderflow` | `PosIsOffset`, `Considerate` |
| `BytesAreOwn` | `Spec => []OwnBytes` | `PosIsOffset`, `Considerate` |
| `BytesInOrder` | `Spec => []InOrder` | `PosIsOffset`, `Considerate` |
| `ListingAlways` | `Spec => []ListingInv` | `PosIsOffset`, `Checked` |
| `EntriesListTheArchive` | `Spec => ListsTheArchive`: `Entries` implements `Listing` | `PosIsOffset`, `Checked`, `NoRawExtensions` |
| `PlacesAlways` | `Spec => []PlaceInv` (`Unpack`) | |
| `ElsewhereAlways` | `Spec => []ElsewhereKept` (`Unpack`) | |
| `EntriesAlways` | `Spec => []EntryInv` (`Unpack`) | |
| `WholeAlways` | `Spec => []UnpackedWhole` (`Unpack`) | |
| `SearchIsOrdered` | `Spec => []ScanInv` (`SparseScan`) | |
| `MapIsOrdered` | `Spec => []MapOrdered` (`SparseScan`) | |
| `SteadyAlways` | `Spec => []SteadyInv` (`SparseScan`) | |
| `FileIsGiven` | `Spec => []GivesTheFile` (`SparseScan`) | |
| `HeaderTypeCorrect` | `Spec => []TypeOK` (`HeaderFields`) | |
| `NumbersAreKept` | `Spec => []NumbersKept` (`HeaderFields`) | |
| `TextIsKept` | `Spec => []TextKept` (`HeaderFields`) | |
| `SpellingIsKept` | `Spec => []FieldsSpell` (`HeaderFields`) | |
| `BuilderAlways` | `Spec => []BuilderInv` (`Builder`) | |
| `EntriesAreKept` | `Spec => []EntriesStay` (`Builder`) | |
| `BoundaryIsKept` | `Spec => []OnBoundary` (`Builder`) | |

All of them rest on the assumptions of the modules on their constants, which TLC evaluates
on every run. `BlockSizeAssumption`, `WidthAssumption` and `SentinelAssumption`: a block has
a byte, the widths are those of some u64 and i64, and the sentinels are no numbers, slots or types.
`StreamsAssumption` and `ClientAssumption` give archives and clients their types.
`PlacesAssumption`, `ArchiveAssumption` and `LookupsAssumption`: the file system names
each directory once, and the entries and options have their types. `LengthsAssumption`
of `SparseScan`: file sizes fit a u64. `GrainAssumption`: holes are whole blocks of an archive; only
`SteadyAlways` and `FileIsGiven` use it. `EncodingAssumption` of a header: a byte is even in
size and half of it holds every octal digit, a short field is a u64 of at least two bytes
and a long one is longer; `LengthAssumption`: a name and a
prefix have room for a byte; `SeparatorAssumption`: the name that ends with a NUL is neither a
separator nor what is left of a text that was cut. `LengthsAssumption` of `PaxRecords`: lengths are written in a
base of at least 2. `TreeAssumption`: a directory holds finitely many files, each under a
name; `WriterAssumption`: no writer is not a writer. The `ClientAssumption` of each module gives
the requests their types.

`PosIsOffset`: an archive that seeks was given a reader at offset 0 (without it the
properties fail, see `entriesSeekBase`). `Checked`: the build has overflow checks, and so
panics where a sparse extension takes `next` past a u64; the client may still read in
any order. `Considerate`: in addition the client reads an entry only until it asks for the
next, and never into an empty buffer (without these two they fail, see
`entriesEmptyBuffer` and the note above). `NoRawExtensions`: if the client ever asks for
raw iteration, no GNU sparse member of the archive has extension blocks; the code takes
these for headers (`archive.rs:389`).

### The iterator

`FramingInv` strengthens `TypeOK` with `pos = rd`, and with what a call in progress
knows: while skipping, the reader plus what is left to skip is the header, possibly
one wrap of a u64 later; while reading a header, the reader plus what is left of the
block is the end of the header. That the wrap is harmless is then arithmetic: a
reader that is at most `MaxU64` cannot reach the wrapped target, so the header found
is the one expected. Chunks need a bound of their own (`ChunkOK`), because their
limits are added to the reader's position.

`CountInv` ties `processed` to the members collected.

`SequenceInv` says where the reader is relative to `next`, and that the chunks of
the entry under construction, and of the last entry returned, are *linked*: each
begins in the data and in the file where the one before it ends, the first begins
where the client is, and the last ends at the entry's size. `Grown`, `Dropped` and
`Eaten` are the three things that happen to such a list: the parser appends,
a spent head is dropped, a read shortens the head. A stream that is cut off keeps
`OwnBytes` but not `got`, which is why `InOrder` excludes it.

### The refinement of Listing

`ListingInv` compares what a call in progress may still return with what `Listing` would
have returned when the call began (`Due`). `Looking`: the answers that the archive gives
from `next`, with the members collected in `pend`, are among those that are due.
`Taken`: the same of the header that was taken, and the locals are those of that header.
`Resting`: between two calls the iterator is where the last member ended. `Reached`: a
reader that skips does not leave the stream, and one that seeks leaves it only between
two blocks, which tells an end from a cut. Each step of the code then keeps the answers or
gives one of them away, and the call ends with one of them.

The steps are those of `After`. A block of zeros that is ignored (`AnswersPassZeros`), a
header that is refused, a plain member or a sparse one is what `Results` says at the place
(`AnswersHere`); a describing member is passed on to the place behind it
(`ListingSlurpDone`). `AfterIs` shows that `After` is determined by this at all, although
it is defined by recursion over places that are not ordered: every step of the recursion
collects a member of a new kind, so four rounds reach its value and no round changes it
(`UnfoldedAgree`).

A sparse map is checked by the code slot by slot and by `Listing` all at once. `Mapped(k)`
says that the parser has read k extension blocks, that the slots it still has to see are
the last of the slots of k + 1 blocks (`Left`), and that those it has seen are laid out for
as many bytes as it counts (`Laid`). `LaidNext` adds one slot; `LaidRefused` shows that a
slot which the code refuses is laid out in no longer map, so that the whole map is one that
`Listing` refuses; `LaidOnce` that slots are laid out for one size only, so the sizes at
the end agree or there is no map. That the chain of blocks is the one `Listing` finds is
`ChainFrom`.

Since a call is several steps and `Listing` has one for it, all steps but the last are
shown to stutter (`StepsUnlisted`), reads of entries as well: they change nothing that
`Seen` shows.

### Unpacking

`PlaceInv` says that every name outside is the one there was before, for the same inode,
which has not changed; and that the entry at work goes inside: its parent, canonicalised,
is inside the destination (`ParentInside`), and the inode it writes to is a directory with
one name, or is new and has one name, which is inside. That a directory has one name is
`DirsOnce`. The code canonicalises a parent, compares, and uses the path afterwards, so a
step in between must not turn it elsewhere: a path that leads somewhere leads there still
when names are added (`Within`, `CanonicalWithin`), and to the same place or nowhere when
one is removed. And nothing is written to a file that was there, which may have other
names outside: what is in the way is removed.

`EntryInv` adds what the inode of the entry at work is so far (`SoFar`), that every path
of `expect` still holds what it got, and that no entry is lost (`NoneLost`). The steps
write to the entry's own inode or to none, so what is expected elsewhere stays.

### Sparse files

`ScanInv` strengthens `MapOrdered` to the search that makes the map: while data is
searched for, the last extent ends where the search is; while a hole is searched for, it
ends before. So an extent is never empty and never touches the one before it, whatever the
other process does between the two calls, because the code gives up when either search
does not advance. Nothing is assumed of the file system but that `lseek` answers with an
offset at or after the one it was given. That an offset found is the least one rests on the
order of the natural numbers being well-founded (`LeastExists`).

`SteadyInv` speaks of a file nobody has changed yet: the extents hold all data below the
place where the search is, are whole blocks except at the end of the file, and what was
copied of each is what is on disk there. At the end this makes the map one that the
reader accepts, with the sizes that the header announces, and the file it describes the
one on disk. The sums and concatenations in that are folds, and what a fold does in one step
is proved by induction on the length of a sequence that is fixed in the theorem
(`FoldExists`, `FoldSteps`).

### Headers

The digits of a number make it again (`NumberOf`): by induction on the digits read,
what has been read is the number divided by a power of the base, and a division by the next
power is a division of that (`DivisionTwice`, `DigitStep`). With nothing before the first
digit this reads back octal text (`OctalKept`) and binary (`ExtendedKept`), and the two
tell each other apart by the first byte: a digit is below the flag. The choice
between them at a power of the base (`header.rs:1503`) is where both are wide enough.
The invariant behind this, `HeaderInv`, is in the module of the proofs: every numeric field has
the bytes of what was last asked for, which no other call changes. That a name, prefix or link
is never longer than its field is `SetPathFits` and `SetLinkFits`, whatever the path.

`TextKept` needs that the components that were copied into the fields, read back, are those
of the path, but for `.` (`Reads`). In one field that is so because a path that was accepted was
not cut (`NameRead`); the prefix is then the one that was there before (`LeftPrefix`), or none.
For two fields, the code takes the longest parent that fits the prefix and
starts the name one byte behind it; that byte is a separator unless the parent is the
root alone (`BehindRoot`), and then prefix, separator and name are the
path again (`DividedRead`). `SetPathRead` puts the cases together for a header in any state.

`FieldsSpell` is about bytes: a field that a call changes gets a text that fits it
(`StoredWritable`, `SetPathWritable`), also when the call is refused half-way, and that has no
NUL in it (`SpelledClear`); and what such a text overwrites is, up to the first NUL, the text
(`CopyTruncated`).

### The builder

`BuilderInv` gives each entry a place in the stream that nothing written later can reach.
`Frontier` is where the next thing goes: the position, or, while an `EntryWriter` is open,
the header it has reserved, because that is where it seeks back to. `Apart` says that
all entries end before the frontier, lie there in order with the extension blocks of their
sparse maps, and have headers of their own. `WriterInv` says what an open writer relies on:
no directory is walked meanwhile, its header is the last, belongs to no entry and is not
sealed, and what it wrote of the contents is behind the block it reserved.

Calls then come in two kinds. Those that append write a request at the position, the whole
of it or a part (`Forward`, `Performed`): the bytes before the position stay, the headers
are added to those there are, and if the call returns `Ok` its entry is the last member
of the request (`Carries`). That each kind of request carries its entry, and is whole blocks
if it is refused, is `Sound`: for the members of names that do not fit (`EntrySound`), for
links, special files and directories, for a file of the announced size or one that came
up short (`PlainSound`), and for a sparse file with its chain of extension blocks
(`SparseSound`, where the number of the blocks is that of the slots that do not fit the
header). The length of a pax record that counts itself exists because a power grows
faster than its exponent (`RecordLengthIs`, `PowerIs`). The directory walk finds nothing
but nodes of the tree under paths (`FoundIs`).

The calls of a writer change bytes behind the frontier (`Keeps`), seek back to the reserved
header and forward again; `Patched` shows that what this overwrites is the reserved block and
nothing else, `SealedIs` that afterwards the entry is complete, with the size that was
written. When the padding or the header fails the entry is not in `entries`, and
whatever is left in the stream is behind the others (`PadFailsKeeps`, `HeaderFailsKeeps`).

### What proving found

* `UnpackedWhole` was false of the code as it had been modelled first: a directory that is
  unpacked where one is already gets its owner before its mode, and a failure between the
  two leaves neither what the first nor what the second entry says. The model now forgets
  what was expected there, as it does for a file that is replaced.
* `Listing` allowed an archive that seeks to refuse a far seek only in front of a header; the
  code refuses it wherever the distance is too large, also at an end and in front of a
  block that is no header. The small runs had no archive that long; one is among
  them now.
* That a path is read back is false for one that is divided right behind its root, where the
  proof of `DividedRead` stops, and for a path that is set where an earlier one has left a
  prefix, which `SetPathRead` has to allow for. Both are stated in `TextKept`.
* The places of the entries are not kept by an `EntryWriter` in every state one can write
  down: one that was opened in the middle of a directory walk, or whose header belongs to
  an entry, would overwrite what is there. That neither happens is part of `WriterInv`.

### Only model-checked

* `EarlierSurvive` and `ListsWhatWasAppended`: the reader's half. `EntriesAreKept` and
  `BoundaryIsKept` prove for every set of requests that what was appended stays in the
  stream, in order and on block boundaries. That a reader who looks at all of the stream
  finds each entry, with its name and records, is an induction over the blocks of the
  archive, and the records it gets are selected by `SelectSeq`, a recursive definition that
  the prover cannot look into.
* `PlainDirectoriesInOrder`: it needs that a sort by bytes puts a parent before
  its child, which is an induction over the names.
* `AlwaysReturns` and `AppendEnds`: liveness under fairness is out of the prover's reach.

## Not modelled

* The arithmetic of checksums: a checksum matches or not.
* Extended attributes; access and change times of GNU headers; `set_link_name_literal`.
* `Entry::unpack` to a path of the client's own, and what other processes do to the
  directory that is unpacked into.
* `set_ignore_zeros` in the middle of an iteration; `pax_extensions` of a member that is
  itself a pax member (raw iteration); names and values that are no UTF-8.
* Windows and wasm: names, metadata and permissions go through other platform calls.
* `get_ref` and `get_mut` of the builder: they give the stream away.
* Errors, examples, fuzz targets and `xtask`: no state of the library's own.

## Plan

1. `EarlierSurvive` from `EntriesStay` and `After`: an entry that lies at a place is what
   `After` finds there, for every sequence of entries.
2. That the sort of `unpack` puts a parent before its child for names without a leading `./`,
   which gives `PlainDirectoriesInOrder` for those.
