------------------------------ MODULE TarBlocks ------------------------------
(***************************************************************************)
(* The bytes of an archive, as the reader of src/src/archive.rs tells them *)
(* apart.  An archive is a sequence of blocks; a block is a header, the    *)
(* continuation of a sparse map, a run of zeros, or anything else.  Names, *)
(* owners and times of a header are left out: no decision of the iterator  *)
(* depends on them.                                                        *)
(***************************************************************************)
EXTENDS Integers, Sequences

CONSTANTS
  BlockSize,   \* bytes in a block (512 in the code)
  MaxU64,      \* largest u64
  MaxI64,      \* largest i64: the farthest a relative seek can reach
  Bad,         \* a numeric field that does not parse
  None         \* no value

ASSUME BlockSizeAssumption == BlockSize \in Nat \ {0}

ASSUME WidthAssumption ==
  /\ MaxU64 \in Nat
  /\ MaxI64 \in Nat
  /\ BlockSize <= MaxU64
  /\ MaxI64 <= MaxU64

U64 == 0..MaxU64

\* What num_field_wrapper_from makes of a numeric field.
Field == U64 \cup {Bad}

\* Neither is a number, and no value is not a slot of a sparse map either.
ASSUME SentinelAssumption ==
  /\ Bad \notin Int /\ None \notin Int /\ Bad # None
  /\ None \notin [offset : Field, length : Field]

\* One (offset, length) pair of a sparse map; None is a slot that is_empty.
Slot == {None} \cup [offset : Field, length : Field]

(***************************************************************************)
(* kind "header" is a block whose checksum matches; "zeros" a block of     *)
(* zeros; "extension" and "other" are neither.  map and extended are the   *)
(* sparse slots and the continuation flag of the block; real is the real   *)
(* size of a GNU sparse header.  paxsize is the "size" record of the data  *)
(* that follows a header of type "pax", None when it has no such record.   *)
(***************************************************************************)
Block == [kind     : {"zeros", "header", "extension", "other"},
          format   : {"gnu", "ustar", "old"},
          type     : {"file", "longname", "longlink", "pax", "sparse"},
          size     : Field,
          map      : Seq(Slot),
          extended : BOOLEAN,
          real     : Field,
          paxsize  : U64 \cup {None}]

\* Data, or a block seen from an offset that is not a block boundary.
Other == [kind |-> "other", format |-> "old", type |-> "file", size |-> Bad,
          map |-> <<[offset |-> Bad, length |-> Bad]>>, extended |-> FALSE,
          real |-> Bad, paxsize |-> None]

Zeros == [Other EXCEPT !.kind = "zeros", !.map = <<>>]

\* Header::as_gnu().is_some() || Header::as_ustar().is_some()
Recognized(block) == block.format \in {"gnu", "ustar"}

\* Rounding a size up to whole blocks.
Round(n) == ((n + BlockSize - 1) \div BlockSize) * BlockSize

\* The block of a stream that starts at a byte offset.
BlockAt(blocks, offset) ==
  LET i == (offset \div BlockSize) + 1
  IN  IF offset % BlockSize = 0 /\ i \in DOMAIN blocks THEN blocks[i] ELSE Other

\* The sparse map found in a block that is read as a GnuExtSparseHeader.
MapOf(block) == IF block.kind \in {"zeros", "extension"} THEN block.map ELSE Other.map
==============================================================================
