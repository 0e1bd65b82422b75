-------------------------- MODULE EntriesRefinement --------------------------
(***************************************************************************)
(* The iterator of Entries implements Listing: whatever the client reads   *)
(* in between and however the reader splits its answers, the members that  *)
(* next() returns are those of the archive.                                *)
(***************************************************************************)
EXTENDS Entries

\* What the client sees of an entry, and where it and its successor start.
Seen(e) == [headerPos |-> e.headerPos, header |-> e.header, size |-> e.size,
            pend |-> e.pend, start |-> e.start, end |-> e.end]

Abstract == INSTANCE Listing
  WITH stream <- [blocks |-> stream.blocks, len |-> stream.len],
       mode <- [raw |-> mode.raw, seek |-> mode.seek, zeros |-> mode.zeros],
       listed <- [i \in DOMAIN entries |-> Seen(entries[i])]

\* Archive::entries and entries_with_seek list the members of the archive: none
\* is missed, invented or taken from the data of another, each has its names and
\* its size, and the end is reported only at the end.
ListsTheArchive == Abstract!Spec

-----------------------------------------------------------------------------
(* Why it does: what a call in progress may still return is what Listing   *)
(* would have returned when the call began.                                *)

Answers(at, describing) == Abstract!After[[at |-> at, pend |-> describing]]
Due == Answers(Abstract!Here, NoPend)

Calling == {"seek", "skip", "header", "classify", "slurp", "map", "ext"}

\* A reader that skips never leaves the stream, one that seeks does so only between blocks.
Reached ==
  /\ ~mode.seek => rd <= stream.len
  /\ pc = "header" => amt <= BlockSize
  /\ pc \in {"header", "ext"} /\ amt < BlockSize => rd <= stream.len
  /\ pc = "skip" => ~mode.seek /\ (mode.checks => rd + amt = next)
  /\ pc \in {"classify", "slurp", "map", "ext"} \/ entries # <<>> => rd > 0

\* Between two calls the iterator is where the last member ended, unless it is done.
Resting ==
  /\ pc \in Calling => outcome = "open" /\ ~done
  /\ pc \in {"idle", "read"} => /\ done <=> outcome # "open"
                                /\ ~done => next = Abstract!Here

\* The parser of a sparse map has read k extension blocks, and the slots before those
\* that are left are laid out as far as the parser says.
Mapped(k) ==
  LET slots == Abstract!Slots(headerPos, k)
      seen  == Len(slots) - Len(sparse.todo)
  IN  /\ ~mode.raw /\ entry.header.type = "sparse" /\ entry.header.format = "gnu"
      /\ entry.pend = pend
      /\ next = headerPos + BlockSize * (k + 1) + Round(entry.size)
      /\ headerPos + BlockSize * (k + 1) <= stream.len
      /\ \A m \in 0..(k - 1) : BlockAt(stream.blocks, headerPos + m * BlockSize).extended
      /\ sparse.more = BlockAt(stream.blocks, headerPos + k * BlockSize).extended
      /\ pc = "map" => rd = headerPos + BlockSize * (k + 1)
      /\ pc = "ext" => /\ amt <= BlockSize /\ rd + amt = headerPos + BlockSize * (k + 2)
                       /\ sparse.todo = <<>> /\ sparse.more
      /\ seen >= 0 /\ \A i \in DOMAIN sparse.todo : sparse.todo[i] = slots[seen + i]
      /\ Abstract!Laid(slots, seen, entry.size - sparse.remaining, sparse.cur)

\* What is left to find is among what there was to find when the call began.
Looking == pc \in {"seek", "skip", "header"} => Answers(next, pend) \subseteq Due

\* A header that was taken is the one at headerPos, with the size Listing gives it.
Taken ==
  pc \in {"classify", "slurp", "map", "ext"} =>
    /\ Answers(headerPos, pend) \subseteq Due
    /\ entry.header = BlockAt(stream.blocks, headerPos) /\ entry.headerPos = headerPos
    /\ headerPos + BlockSize <= stream.len
    /\ Abstract!WellFormed(entry.header, headerPos, pend)
    /\ entry.size = SizeOf(entry.header)
    /\ pc \in {"classify", "slurp"} => next = headerPos + BlockSize + Round(entry.size)
    /\ pc = "classify" => rd = headerPos + BlockSize
    /\ pc = "slurp" => Describes
    /\ pc \in {"map", "ext"} => \E k \in 0..Len(stream.blocks) : Mapped(k)

\* A call of next() keeps to what Listing promises: the place it looks at and the members
\* it has collected leave no answer that the archive as a whole does not give, and a
\* sparse map is read as the slots of all its blocks (archive.rs:300, 394, 460).
ListingInv == Reached /\ Resting /\ Looking /\ Taken
=============================================================================
