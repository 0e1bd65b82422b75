----------------------------- MODULE ArchiveTrip -----------------------------
(***************************************************************************)
(* Builder composed with the reader: what Listing finds in the stream that *)
(* Builder wrote, at any moment and after any failure.                     *)
(***************************************************************************)
EXTENDS BuilderInvariants

\* Some bytes of the stream, fewer when it ends.
Bytes(offset, n) == [i \in 1..Min({n, Len(out) - offset}) |-> out[offset + i]]

\* The stream as the reader tells its blocks apart.
Seen(offset) ==
  LET bytes == Bytes(offset, BlockSize)
      h     == Head(bytes)[1]
  IN  IF h > 0 /\ bytes = HeaderBytes(h) THEN headers[h]
      ELSE IF bytes = Zero(BlockSize) THEN Zeros ELSE Other

Stream == [blocks |-> [i \in 1..((Len(out) + BlockSize - 1) \div BlockSize) |->
                         Seen((i - 1) * BlockSize)],
           len    |-> Len(out)]

L(stream) == INSTANCE Listing WITH
               mode    <- [raw |-> FALSE, seek |-> FALSE, zeros |-> FALSE],
               listed  <- <<>>,
               outcome <- "open"

NoPend == [longname |-> None, longlink |-> None, pax |-> None]

\* All that iteration returns.
Listed ==
  LET stream == Stream
      From[offset \in Nat] ==
        LET result == CHOOSE r \in L(stream)!After[[at |-> offset, pend |-> NoPend]] : TRUE
        IN  IF result.item = None THEN <<result>> ELSE <<result>> \o From[result.item.end]
  IN  From[0]

-----------------------------------------------------------------------------
(* What a client gets from an entry.                                        *)

Records(item) == IF item.pend.pax = None THEN <<>> ELSE Readable(Seen(item.pend.pax).lines)
Valued(item, key) == SelectSeq(Records(item), LAMBDA record : record.key = key)

\* EntryFields::path_bytes: the long name, then the record, then the header.
PathRead(item) ==
  IF item.pend.longname # None THEN Seen(item.pend.longname).text
  ELSE IF Valued(item, "path") # <<>> THEN Head(Valued(item, "path")).path
  ELSE PathOf(item.header)

\* EntryFields::link_name_bytes
LinkRead(item) ==
  IF item.pend.longlink # None THEN Seen(item.pend.longlink).text
  ELSE IF Valued(item, "linkpath") # <<>> THEN Head(Valued(item, "linkpath")).path
  ELSE item.header.link

\* Where the bytes of its contents belong in the file.
Labels(item) ==
  IF item.header.type # "sparse" THEN Upto(item.size)
  ELSE LET slots == L(Stream)!Slots(item.headerPos, (item.start - item.headerPos) \div BlockSize - 1)
       IN  FlattenSeq([i \in DOMAIN slots |->
                         IF slots[i] = None THEN <<>>
                         ELSE [j \in 1..slots[i].length |-> slots[i].offset + j]])

\* The member that describes this one was read whole.
Whole(offset) ==
  offset # None =>
    Bytes(offset + BlockSize, Seen(offset).size)
      = Contents(out[offset + 1][1], Upto(Seen(offset).size))

PathAsked(entry) ==
  LET paths == SelectSeq(entry.pax, LAMBDA record : record.key = "path")
  IN  IF paths # <<>> THEN Head(paths).path ELSE entry.path

Gives(item, entry) ==
  /\ Bytes(item.headerPos, BlockSize) = HeaderBytes(entry.h)
  /\ item.header.type = entry.type
  /\ Clean(PathRead(item)) = Clean(PathAsked(entry))
  /\ Clean(LinkRead(item)) = Clean(entry.link)
  /\ item.size = entry.size
  /\ Records(item) = entry.pax
  /\ \A kind \in DOMAIN item.pend : Whole(item.pend[kind])
  /\ Labels(item) = entry.data
  /\ Bytes(item.start, Len(entry.data)) = Contents(entry.h, entry.data)

-----------------------------------------------------------------------------
(* Properties.                                                              *)

\* A reader gets the first n entries first, with their names, links, records, sizes and contents.
Given(n) ==
  LET listed == Listed
  IN  /\ Len(listed) > n
      /\ \A i \in 1..n : Gives(listed[i].item, entries[i])

\* What was appended with Ok before the first failure is what a reader gets first: through
\* failed writes that leave the stream off a block boundary, an EntryWriter that is open,
\* abandoned or half finished, later calls, and a crash at any point (builder.rs:533, 557,
\* 598).  A call that is refused after it wrote a long name, for a link target (builder.rs:281)
\* or a file that cannot be searched (builder.rs:725), names the next entry wrongly; it never
\* costs an entry before it.
EarlierSurvive == Given(IF orphaned = None THEN Len(entries) ELSE orphaned)

\* As long as the stream works and no call that was refused has left a member behind, the
\* reader gets what was appended and nothing else: what is appended after finish is not listed
\* (builder.rs:489), a name that is refused before its long-name member is written leaves no
\* trace (builder.rs:809), and only records without an entry are an error.
ListsWhatWasAppended ==
  ~failed /\ orphaned = None /\ writer = None =>
    LET listed == Listed
    IN  /\ Len(listed) = Len(entries) + 1
        /\ \A i \in DOMAIN entries : Gives(listed[i].item, entries[i])
        /\ finished \/ Last(listed).outcome = IF pax = <<>> THEN "end" ELSE "malformed"

\* No call that is refused corrupts the entries that are appended after it, as the check of a
\* name before its member is written is there to prevent (builder.rs:809): not true of a link
\* whose target is refused (builder.rs:281), nor of a file that cannot be searched for holes
\* (builder.rs:725).
RefusedCorruptsNothing == Given(Len(entries))
==============================================================================
