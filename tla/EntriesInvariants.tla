-------------------------- MODULE EntriesInvariants --------------------------
(***************************************************************************)
(* What is true in every state of Entries, in a form that every step       *)
(* preserves.  FramingInv and CountInv hold for any client.  SequenceInv  *)
(* needs one that keeps to the sequence, and ties the reader, the iterator *)
(* and the chunks of the entry being read together.                                *)
(***************************************************************************)
EXTENDS Entries

\* The archive counts from the place where its reader stood.
PosIsOffset == \A m \in Modes, b \in Bases : m.seek => b = 0

\* What entries are promised to: in sequence, buffers that hold something, and
\* a build in which no offset wraps.
Checked == \A m \in Modes : m.checks
Considerate == InSequence /\ 0 \notin Bufs /\ Checked

-----------------------------------------------------------------------------

\* Chunks stay within the data and within the file.
ChunkOK(c) ==
  /\ c.log + c.left <= MaxU64
  /\ c.kind = "data" => c.off + c.left <= MaxU64

\* pos counts the bytes before the reader, and the bytes a call still has to
\* skip or read end where the header begins or ends.
Positions ==
  /\ stream.base = 0 \/ ~mode.seek
  /\ Checked => mode.checks
  /\ pos = rd
  /\ pc = "seek" => headerPos = next
  /\ pc = "skip" => headerPos = next /\ rd + amt \in {next, next + MaxU64 + 1}
  /\ pc = "header" => headerPos = next /\ rd + amt = next + BlockSize

\* The locals of a call are what its next step needs.
Locals ==
  /\ pc \in {"map", "ext"} => sparse.remaining <= entry.size
  /\ pc = "read" => reading.entry \in DOMAIN entries

Bounded == \A i \in DOMAIN entries : \A j \in DOMAIN entries[i].data : ChunkOK(entries[i].data[j])
BoundedEntry == \A j \in DOMAIN entry.data : ChunkOK(entry.data[j])

FramingInv == TypeOK /\ Positions /\ Locals /\ BoundedEntry /\ Bounded

-----------------------------------------------------------------------------
(* What a call has collected.                                              *)

Found(kind) == IF pend[kind] = None THEN 0 ELSE 1

\* A call counts the describing members it keeps, and reads one only when it
\* has none of its kind.
CountInv ==
  /\ pc \in {"seek", "skip", "header", "classify", "slurp", "map", "ext"} =>
       processed = 1 + Found("longname") + Found("longlink") + Found("pax")
  /\ pc \notin {"seek", "skip", "header", "classify", "slurp", "map", "ext"} => processed <= 4
  /\ pc = "slurp" => entry.header.type \in DOMAIN NoPend /\ pend[entry.header.type] = None

-----------------------------------------------------------------------------
(* What a client that keeps to the sequence sees.                          *)

\* Where a chunk ends in the data, and that each chunk goes on where the one
\* before it ends, in the data and in the file.
Span(c) == IF c.kind = "data" THEN c.off + c.left ELSE c.off
Linked(data) ==
  \A j \in 1..(Len(data) - 1) :
    /\ data[j + 1].off = Span(data[j])
    /\ data[j + 1].log = data[j].log + data[j].left
Within(data, bytes) == \A j \in DOMAIN data : Span(data[j]) <= bytes
EndsAt(data, size) ==
  data # <<>> => data[Len(data)].log + data[Len(data)].left = size

\* The reader is never past the next header, and stops at it when it skips.
NotPast ==
  /\ pc \in {"idle", "read"} /\ ~done => rd <= next
  /\ pc = "seek" => rd <= next
  /\ pc = "skip" => rd + amt = next

\* The data of the member under construction ends before the next header, and
\* the chunks found so far cover the file and the data up to here.
Building ==
  /\ pc = "classify" => /\ entry.bytes = entry.size /\ rd + entry.bytes <= next
                        /\ entry.data = <<Data(entry.size, 0, 0)>>
  /\ pc = "slurp" => rd + amt <= next
  /\ pc = "map" => rd + entry.bytes <= next
  /\ pc = "ext" => rd + amt + entry.bytes <= next + BlockSize
  /\ pc \in {"map", "ext"} =>
       /\ entry.bytes = entry.size
       /\ Linked(entry.data) /\ Within(entry.data, Used)
       /\ EndsAt(entry.data, sparse.cur)
       /\ entry.data = <<>> => sparse.cur = 0 /\ Used = 0
       /\ entry.data # <<>> =>
            /\ entry.data[1].off = 0 /\ entry.data[1].log = 0
            /\ Span(entry.data[Len(entry.data)]) = Used
  /\ pc \in {"classify", "slurp", "map", "ext"} => entry.got = 0

\* The reader stands at the head chunk of the entry, or at the end of a stream
\* that ends inside the entry.
Current(e) ==
  /\ e.end = next /\ e.start + e.bytes <= next
  /\ Linked(e.data) /\ Within(e.data, e.bytes) /\ EndsAt(e.data, e.size)
  /\ e.data # <<>> =>
       /\ rd = e.start + e.data[1].off \/ rd >= stream.len
       /\ ~Truncated(e) => rd = e.start + e.data[1].off /\ e.got = e.data[1].log
  /\ e.data = <<>> /\ ~Truncated(e) => e.got = e.size

InHand ==
  /\ pc = "read" => ~done /\ reading.entry = Len(entries) /\ reading.want # 0
  /\ pc \in {"idle", "read"} /\ ~done /\ entries # <<>> => Current(entries[Len(entries)])

SequenceInv == NotPast /\ Building /\ InHand
=============================================================================
