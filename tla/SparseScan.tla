----------------------------- MODULE SparseScan -----------------------------
(***************************************************************************)
(* append_file: the metadata of a file is taken, its data is found with    *)
(* lseek, and the data is copied, while another process may change the     *)
(* file between any two system calls.                                      *)
(***************************************************************************)
EXTENDS TarBlocks, SequencesExt

CONSTANTS
  Grain,       \* bytes that a file system allocates or leaves out together
  Lengths,     \* lengths of the files
  MaxChanges   \* bound: changes by the other process

\* What the reader asks of a map (archive.rs:497) the file system provides: holes are whole
\* blocks of an archive.
ASSUME GrainAssumption == Grain \in Nat \ {0} /\ Grain % BlockSize = 0

ASSUME LengthsAssumption == Lengths \subseteq U64

VARIABLES
  file,        \* the bytes and the grains that are allocated; a hole reads as zeros
  seeks,       \* whether the file system has SEEK_HOLE
  sparse,      \* BuilderOptions.sparse
  pc,          \* the system call that comes next, or how the call ended
  stat,        \* the metadata: size and blocks
  pos,         \* the position in the file
  off,         \* off_s
  slots,       \* the sparse entries found; None for a file that is not sparse
  piece,       \* the entry being copied
  copied,      \* what was copied of each
  changes,     \* changes by the other process
  steady       \* history: none since the metadata was taken

vars == <<file, seeks, sparse, pc, stat, pos, off, slots, piece, copied, changes, steady>>

-----------------------------------------------------------------------------
(* The file and the other process.                                          *)

Size == Len(file.bytes)
Allocated(o) == o \div Grain \in file.grains
DataFrom(o)  == {d \in o..(Size - 1) : Allocated(d)}
HoleFrom(o)  == {h \in o..(Size - 1) : ~Allocated(h)} \cup {Size}
Least(S) == CHOOSE n \in S : \A m \in S : n <= m
Grains(n) == {g \in 0..n : g * Grain < n}

ChangedTo(bytes, grains) ==
  /\ changes < MaxChanges /\ changes' = changes + 1
  /\ pc # "done" /\ pc # "error"
  /\ file' = [bytes |-> bytes, grains |-> grains] /\ steady' = FALSE
  /\ UNCHANGED <<seeks, sparse, pc, stat, pos, off, slots, piece, copied>>

\* write of one byte, after the end too
Overwrite(o) ==
  ChangedTo([i \in 1..(IF o < Size THEN Size ELSE o + 1) |->
               IF i = o + 1 THEN changes + 2 ELSE IF i <= Size THEN file.bytes[i] ELSE 0],
            file.grains \cup {o \div Grain})

\* ftruncate, to a greater length too
Resize(n) ==
  ChangedTo([i \in 1..n |-> IF i <= Size THEN file.bytes[i] ELSE 0], file.grains \cap Grains(n))

\* fallocate(FALLOC_FL_PUNCH_HOLE)
Punch(g) ==
  ChangedTo([i \in 1..Size |-> IF (i - 1) \div Grain = g THEN 0 ELSE file.bytes[i]],
            file.grains \ {g})

-----------------------------------------------------------------------------
(* append_file.                                                             *)

Same == UNCHANGED <<file, seeks, sparse, changes>>

Slice(offset, length) == [offset |-> offset, length |-> length]
OnDisk == FoldLeft(LAMBDA sum, slot : sum + slot.length, 0, slots)

\* The map is complete and the file is copied from its beginning.
Start(map) ==
  /\ slots' = map /\ pc' = "copy" /\ piece' = 1
  /\ copied' = IF map = None THEN <<<<>>>> ELSE [i \in DOMAIN map |-> <<>>]

\* file.metadata(), and whether its data is searched for at all.
Stat ==
  /\ pc = "stat" /\ steady' = TRUE
  /\ stat' = [size |-> Size, blocks |-> Cardinality(file.grains)]
  /\ IF ~sparse \/ (stat'.blocks = 0 /\ Size = 0) THEN Start(None)
     ELSE IF stat'.blocks = 0 THEN Start(<<Slice(Size, 0)>>)
     ELSE pc' = "probe" /\ UNCHANGED <<slots, piece, copied>>
  /\ UNCHANGED <<pos, off>> /\ Same

\* The first lseek only asks whether the file system knows holes, but it moves.
Probe ==
  /\ pc = "probe"
  /\ IF Size = 0 \/ ~seeks THEN Start(None) /\ UNCHANGED pos
     ELSE /\ pos' = Least(HoleFrom(0))
          /\ pc' = "data" /\ UNCHANGED <<slots, piece, copied>>
  /\ UNCHANGED <<stat, off, steady>> /\ Same

Fail == pc' = "error" /\ UNCHANGED <<stat, pos, off, slots, piece, copied, steady>> /\ Same

\* Faulty: a second extent that begins where the first one ended is taken.
SeekDataAnyway ==
  /\ pc = "data" /\ DataFrom(off) # {}
  /\ off' = Least(DataFrom(off)) /\ pos' = off'
  /\ pc' = "hole"
  /\ UNCHANGED <<stat, slots, piece, copied, steady>> /\ Same

\* lseek(SEEK_DATA): off is 0 or the end of an extent, where data may only be at the start.
SeekData ==
  /\ pc = "data" /\ DataFrom(off) # {}
  /\ off' = Least(DataFrom(off)) /\ pos' = off'
  /\ pc' = IF off' = off /\ off > 0 THEN "error" ELSE "hole"
  /\ UNCHANGED <<stat, slots, piece, copied, steady>> /\ Same

\* ENXIO: an empty entry, at the size of the metadata, ends the map.
NoMoreData ==
  /\ pc = "data" /\ DataFrom(off) = {}
  /\ IF off > stat.size THEN pc' = "error" /\ UNCHANGED <<pos, slots, piece, copied>>
     ELSE Start(Append(slots, Slice(stat.size, 0))) /\ pos' = 0
  /\ UNCHANGED <<stat, off, steady>> /\ Same

\* Faulty: the position of a plain file stays where lseek left it.
SeekHoleUnwound ==
  LET end == Least(HoleFrom(off))
  IN  /\ pc = "hole" /\ off < Size /\ pos' = end
      /\ IF off = 0 /\ end = stat.size THEN Start(None) /\ UNCHANGED off
         ELSE /\ IF end = off THEN pc' = "error" /\ UNCHANGED <<off, slots>>
                 ELSE /\ slots' = Append(slots, Slice(off, end - off))
                      /\ off' = end /\ pc' = "data"
              /\ UNCHANGED <<piece, copied>>
      /\ UNCHANGED <<stat, steady>> /\ Same

\* lseek(SEEK_HOLE): an extent ends, or the whole file is one.
SeekHole ==
  LET end == Least(HoleFrom(off))
  IN  /\ pc = "hole" /\ off < Size
      /\ IF off = 0 /\ end = stat.size THEN Start(None) /\ pos' = 0 /\ UNCHANGED off
         ELSE /\ pos' = end
              /\ IF end = off THEN pc' = "error" /\ UNCHANGED <<off, slots>>
                 ELSE /\ slots' = Append(slots, Slice(off, end - off))
                      /\ off' = end /\ pc' = "data"
              /\ UNCHANGED <<piece, copied>>
      /\ UNCHANGED <<stat, steady>> /\ Same

\* ENXIO: the file ends before the data that was there a moment ago.
DataGone == pc = "hole" /\ off >= Size /\ Fail

\* Any other error of lseek, and an error while the file is read.
Io == pc \in {"data", "hole", "copy"} /\ Fail

\* io::copy, one read: of a piece of the file, or of a plain file up to its end.
Wanted == IF slots = None THEN Size - pos
          ELSE slots[piece].length - Len(copied[piece])
From == IF slots = None \/ copied[piece] # <<>> THEN pos ELSE slots[piece].offset

CopySome ==
  /\ pc = "copy" /\ piece \in DOMAIN copied
  /\ \E n \in 1..Wanted :
       /\ From + n <= Size
       /\ copied' = [copied EXCEPT ![piece] = @ \o SubSeq(file.bytes, From + 1, From + n)]
       /\ pos' = From + n
  /\ UNCHANGED <<pc, stat, off, slots, piece, steady>> /\ Same

\* Faulty: a read that gives nothing is made again.
CopyEndsWhole ==
  /\ pc = "copy" /\ piece \in DOMAIN copied
  /\ Wanted <= 0
  /\ piece' = piece + 1
  /\ pc' = IF piece = Len(copied) THEN "done" ELSE pc
  /\ UNCHANGED <<stat, pos, off, slots, copied, steady>> /\ Same

\* The piece is there, or the file ends.
CopyEnds ==
  /\ pc = "copy" /\ piece \in DOMAIN copied
  /\ Wanted <= 0 \/ From >= Size
  /\ piece' = piece + 1
  /\ pc' = IF piece = Len(copied) THEN "done" ELSE pc
  /\ UNCHANGED <<stat, pos, off, slots, copied, steady>> /\ Same

Init ==
  /\ \E n \in Lengths : \E grains \in SUBSET Grains(n) :
       file = [bytes  |-> [i \in 1..n |-> IF (i - 1) \div Grain \in grains THEN 1 ELSE 0],
               grains |-> grains]
  /\ seeks \in BOOLEAN /\ sparse \in BOOLEAN
  /\ pc = "stat" /\ stat = None /\ pos = 0 /\ off = 0
  /\ slots = <<>> /\ piece = 0 /\ copied = <<>>
  /\ changes = 0 /\ steady = TRUE

Changes ==
  \/ \E o \in 0..Size : (\E n \in Lengths : o < n) /\ Overwrite(o)
  \/ \E n \in Lengths : Resize(n)
  \/ \E g \in file.grains : Punch(g)

Step ==
  \/ Stat \/ Probe \/ SeekData \/ NoMoreData \/ SeekHole \/ DataGone
  \/ CopySome \/ CopyEnds

Next == Step \/ Io \/ Changes

Spec == Init /\ [][Next]_vars

\* The steps of append_file follow one another in the client's thread.
FairSpec == Spec /\ WF_vars(Step)

-----------------------------------------------------------------------------
(* Properties.                                                              *)

L == INSTANCE Listing WITH stream <- None, mode <- None, listed <- <<>>, outcome <- "open"

Real == Last(slots).offset + Last(slots).length

\* What a reader makes of the map and the data.
Rebuilt ==
  IF slots = None THEN copied[1]
  ELSE [i \in 1..Real |->
          LET in == {k \in DOMAIN slots : slots[k].offset < i /\ i <= slots[k].offset + slots[k].length}
          IN  IF in = {} THEN 0 ELSE LET k == Least(in) IN copied[k][i - slots[k].offset]]

\* A file that nobody changes is archived whole: the map is one that the reader accepts
\* (archive.rs:491, 541), the header announces the size of the data and of the file, and map
\* and data together are the file, however it is cut in pieces (builder.rs:1025, 1100, 1151).
GivesTheFile ==
  pc = "done" /\ steady =>
    /\ Rebuilt = file.bytes
    /\ slots # None => /\ L!ValidMap(slots, OnDisk, Real)
                       /\ Real = stat.size

\* Whatever happens to the file, the pieces of a map are ordered, apart, not empty but for the
\* last one, which is the end of the file as its metadata had it, and no piece has more data
\* than the map announces: a change can spoil this entry but not make it longer than its
\* header says (builder.rs:1079, 1110, 1140).
MapOrdered ==
  pc \in {"copy", "done"} /\ slots # None =>
    /\ Last(slots) = Slice(stat.size, 0)
    /\ \A i \in DOMAIN slots \ {Len(slots)} :
         /\ slots[i].length > 0
         /\ slots[i].offset + slots[i].length <= slots[i + 1].offset
         /\ i + 1 < Len(slots) => slots[i].offset + slots[i].length < slots[i + 1].offset
    /\ \A i \in DOMAIN slots : Len(copied[i]) <= slots[i].length

\* However the file changes, the search and the copy come to an end: the search moves forward
\* or gives up, and a piece that is no longer there is not waited for (builder.rs:736, 1070).
AppendEnds == <>(pc \in {"done", "error"})

-----------------------------------------------------------------------------
(* An inductive invariant that implies MapOrdered.                          *)

Extent == [offset : Nat, length : Nat]
EndOf(slot) == slot.offset + slot.length

\* Where the search has come to.
Reached == IF slots = <<>> THEN 0 ELSE EndOf(slots[Len(slots)])

\* The extents found so far have bytes, and holes between them.
Extents(found) ==
  /\ found \in Seq(Extent)
  /\ \A i \in DOMAIN found : found[i].length > 0
  /\ \A i \in DOMAIN found : i + 1 \in DOMAIN found => EndOf(found[i]) < found[i + 1].offset

\* The map that ends at the end of the file, and what was copied of each of its pieces.
Complete ==
  /\ slots \in Seq(Extent) /\ slots # <<>>
  /\ copied \in [DOMAIN slots -> Seq(Nat)]
  /\ MapOrdered

\* The file and the counters have their types; while data is searched for the extents end where
\* the search is, and while a hole is searched for before it (builder.rs:1070, 1100).
ScanInv ==
  /\ file.bytes \in Seq(Nat)
  /\ pos \in Nat /\ off \in Nat /\ changes \in Nat
  /\ pc \in {"stat", "probe", "data", "hole", "copy", "done", "error"}
  /\ pc \notin {"stat", "error"} => stat.size \in Nat
  /\ pc \in {"stat", "probe"} => slots = <<>> /\ off = 0
  /\ pc \in {"data", "hole"} => Extents(slots)
  /\ pc = "data" => Reached = off
  /\ pc = "hole" => Reached < off \/ slots = <<>>
  /\ pc \in {"copy", "done"} /\ slots # None => Complete
\* Whoever changes a file, it has holes where nothing is allocated, and holes are zeros.
FileOK ==
  /\ file.bytes \in Seq(Nat) /\ Size \in U64 /\ IsFiniteSet(file.grains)
  /\ \A o \in 0..(Size - 1) : ~Allocated(o) => file.bytes[o + 1] = 0

\* The data below an offset is in the extents found, which are whole blocks but for the last.
Found(end, whole) ==
  /\ \A o \in 0..(end - 1) :
       Allocated(o) => \E k \in DOMAIN slots : slots[k].offset <= o /\ o < EndOf(slots[k])
  /\ \A i \in DOMAIN slots : EndOf(slots[i]) <= end
  /\ \A i \in DOMAIN slots : slots[i].length % BlockSize = 0 \/ i > whole

\* What was copied of a piece is what is there, and the position is behind it.
CopiedFrom(k, offset) ==
  \A j \in 1..Len(copied[k]) : offset + j <= Size /\ copied[k][j] = file.bytes[offset + j]

PlainCopied ==
  /\ copied \in Seq(Seq(Nat)) /\ Len(copied) = 1
  /\ CopiedFrom(1, 0) /\ pos = Len(copied[1])
  /\ IF pc = "copy" THEN piece = 1 ELSE pos >= Size

MapCopied ==
  /\ Found(Size, Len(slots) - 2)
  /\ \A k \in DOMAIN slots : CopiedFrom(k, slots[k].offset)
  /\ \A k \in DOMAIN slots : k < piece => Len(copied[k]) = slots[k].length
  /\ IF pc = "copy"
     THEN /\ piece \in DOMAIN slots
          /\ copied[piece] # <<>> => pos = slots[piece].offset + Len(copied[piece])
          /\ \A k \in DOMAIN slots : k > piece => copied[k] = <<>>
     ELSE piece = Len(slots) + 1

\* As long as nobody changes the file: the search has seen all of the data it has passed, and
\* stands where a grain begins or at the end; the copy has what is on disk (builder.rs:1046).
SteadyInv ==
  /\ FileOK
  /\ pc \in {"stat", "probe"} => pos = 0
  /\ steady /\ pc \notin {"stat", "error"} =>
       /\ stat.size = Size
       /\ pc = "data" => off = Size \/ (off % Grain = 0 /\ Found(off, Len(slots)))
       /\ pc = "data" => Found(off, Len(slots) - 1) /\ off <= Size
       /\ pc = "hole" => off % Grain = 0 /\ Found(off, Len(slots)) /\ off < Size /\ Allocated(off)
       /\ pc \in {"copy", "done"} => IF slots = None THEN PlainCopied ELSE MapCopied
=============================================================================
