------------------------------- MODULE Listing -------------------------------
(***************************************************************************)
(* What iterating over an archive promises: one member after the other, in *)
(* the order and at the offsets the archive has them, until its end, its   *)
(* first flaw, or an error of the reader.  A member is found here by       *)
(* looking at the whole archive at once; there is no reader position, no   *)
(* request that is cut short and no client that reads contents.            *)
(***************************************************************************)
EXTENDS TarBlocks, SequencesExt

VARIABLES
  stream,    \* the archive
  mode,      \* how it is iterated
  listed,    \* the members returned so far
  outcome    \* "open", or how the iteration ended

vars == <<stream, mode, listed, outcome>>

NoPend == [longname |-> None, longlink |-> None, pax |-> None]
Offsets == 0..MaxU64
Pending == [longname : Offsets \cup {None}, longlink : Offsets \cup {None},
            pax : Offsets \cup {None}]

In(offset) == BlockAt(stream.blocks, offset)
Present(offset) == offset + BlockSize <= stream.len
IsZeros(offset) == Present(offset) /\ In(offset).kind = "zeros"

\* The first offset from here on that is not a block of zeros to ignore.
FirstFrom(offset) ==
  IF ~mode.zeros THEN offset
  ELSE offset + BlockSize * (CHOOSE n \in 0..Len(stream.blocks) :
         /\ ~IsZeros(offset + n * BlockSize)
         /\ \A m \in 0..(n - 1) : IsZeros(offset + m * BlockSize))

-----------------------------------------------------------------------------
(* Sparse members.                                                         *)

\* How many extension blocks follow the header at an offset.
Chains(offset) ==
  { n \in 0..Len(stream.blocks) :
      /\ Present(offset + n * BlockSize) /\ ~In(offset + n * BlockSize).extended
      /\ \A m \in 0..(n - 1) : In(offset + m * BlockSize).extended }

\* The slots of the header and of n extension blocks, the empty ones too.
Slots(offset, n) ==
  LET upTo[m \in 0..n] ==
        IF m = 0 THEN In(offset).map
        ELSE upTo[m - 1] \o MapOf(In(offset + m * BlockSize))
  IN  upTo[n]

EndOf(slot) == slot.offset + slot.length
Bytes(slot) == IF slot = None \/ slot.length = Bad THEN 0 ELSE slot.length

\* The bytes of data before each slot.
Used(slots) ==
  LET used[i \in 0..Len(slots)] == IF i = 0 THEN 0 ELSE used[i - 1] + Bytes(slots[i])
  IN  used

\* The first m slots are sorted and disjoint, every piece of data starts on a block,
\* and together they are data of one size for a file of another.
Laid(slots, m, size, real) ==
  LET pieces == {i \in 1..m : slots[i] # None}
      ends   == {EndOf(slots[i]) : i \in pieces}
  IN  /\ \A i \in pieces : Bad \notin {slots[i].offset, slots[i].length}
      /\ \A end \in ends : end <= MaxU64
      /\ \A i, j \in pieces : i < j => EndOf(slots[i]) <= slots[j].offset
      /\ \A i \in pieces : slots[i].length # 0 => Used(slots)[i - 1] % BlockSize = 0
      /\ Used(slots)[m] = size
      /\ real \in ends \cup {0} /\ \A end \in ends : end <= real

\* The map describes the data and the file that the header announces.
ValidMap(slots, size, real) == Laid(slots, Len(slots), size, real)

-----------------------------------------------------------------------------
(* The next member.                                                        *)

Closed(how) == {[outcome |-> how, item |-> None]}

Describes(block) == ~mode.raw /\ Recognized(block) /\ block.type \in DOMAIN NoPend
IsSparse(block) == block.type = "sparse" /\ (block.format = "gnu" \/ ~mode.raw)

SizeIn(block, pend) ==
  IF pend.pax = None THEN block.size
  ELSE IF In(pend.pax).paxsize = None THEN block.size ELSE In(pend.pax).paxsize

WellFormed(block, offset, pend) ==
  /\ block.kind = "header" /\ block.size # Bad
  /\ SizeIn(block, pend) + BlockSize - 1 <= MaxU64
  /\ offset + BlockSize + Round(SizeIn(block, pend)) <= MaxU64

Item(offset, size, pend, extensions, end) ==
  [outcome |-> "open",
   item    |-> [headerPos |-> offset, header |-> In(offset), size |-> size, pend |-> pend,
                start |-> offset + (1 + extensions) * BlockSize, end |-> end]]

\* A plain member, and the extensions of a raw sparse one, which are its own.
PlainItem(offset, pend) ==
  LET size == SizeIn(In(offset), pend)
      more == {n \in Chains(offset) : IsSparse(In(offset))}
      end  == offset + BlockSize + Round(size)
              + BlockSize * (IF more = {} THEN 0 ELSE CHOOSE n \in more : TRUE)
  IN  {Item(offset, size, pend, 0, end)}

SparseItem(offset, pend) ==
  LET size == SizeIn(In(offset), pend)
      good == {n \in Chains(offset) :
                 /\ In(offset).format = "gnu"
                 /\ ValidMap(Slots(offset, n), size, In(offset).real)
                 /\ offset + BlockSize * (n + 1) + Round(size) <= MaxU64}
  IN  IF good = {} THEN Closed("malformed")
      ELSE { Item(offset, In(offset).real, pend, n,
                  offset + BlockSize * (n + 1) + Round(size)) : n \in good }

\* The archive ends here.  A reader that skips notices that it is cut off in the
\* last member; one that seeks does not.
AtEnd(offset, pend) ==
  Closed(IF pend # NoPend \/ (offset > stream.len /\ ~mode.seek) THEN "malformed" ELSE "end")

\* A seek has a signed distance, so one to an offset beyond its reach may be refused.
Refused(offset) == IF mode.seek /\ offset > MaxI64 THEN Closed("malformed") ELSE {}

\* What next() may return, given what it may return from places further on.
Results(after, place) ==
  LET offset == FirstFrom(place.at)
      pend   == place.pend
      block  == In(offset)
  IN  Refused(offset) \cup
      IF offset >= stream.len THEN AtEnd(offset, pend)
      ELSE IF ~Present(offset) THEN Closed("malformed")
      ELSE IF IsZeros(offset) THEN Closed(IF pend = NoPend THEN "end" ELSE "malformed")
      ELSE IF ~WellFormed(block, offset, pend) THEN Closed("malformed")
      ELSE IF IsSparse(block) /\ ~mode.raw THEN SparseItem(offset, pend)
      ELSE IF ~Describes(block) THEN PlainItem(offset, pend)
      ELSE IF pend[block.type] # None THEN Closed("malformed")
      ELSE after[[at   |-> offset + BlockSize + Round(SizeIn(block, pend)),
                  pend |-> [pend EXCEPT ![block.type] = offset]]]

\* What next() may return when the members in pend describe the one to come.
Places == [at : Nat, pend : Pending]
After[place \in Places] == Results(After, place)

-----------------------------------------------------------------------------

Init ==
  /\ stream \in [blocks : Seq(Block), len : U64]
  /\ mode \in [raw : {FALSE}, seek : BOOLEAN, zeros : BOOLEAN]
  /\ listed = <<>> /\ outcome = "open"

Here == IF listed = <<>> THEN 0 ELSE Last(listed).end

ListNext ==
  /\ outcome = "open"
  /\ \E result \in After[[at |-> Here, pend |-> NoPend]] :
       /\ outcome' = result.outcome
       /\ listed' = IF result.outcome = "open" THEN Append(listed, result.item) ELSE listed
  /\ UNCHANGED <<stream, mode>>

\* The reader fails.
ListError ==
  /\ outcome = "open" /\ outcome' = "io"
  /\ UNCHANGED <<stream, mode, listed>>

\* The archive may be iterated again when nothing of it was read.
Restart ==
  /\ listed = <<>> /\ outcome' = "open" /\ mode' = [mode EXCEPT !.raw = FALSE]
  /\ UNCHANGED <<stream, listed>>

SetRaw ==
  /\ \E r \in BOOLEAN : mode' = [mode EXCEPT !.raw = r]
  /\ UNCHANGED <<stream, listed, outcome>>

Next == ListNext \/ ListError \/ Restart \/ SetRaw

Spec == Init /\ [][Next]_vars
=============================================================================
