------------------------------- MODULE Builder -------------------------------
(***************************************************************************)
(* Builder: an archive is written to a stream that may fail between any    *)
(* two bytes.  Each action is one call of the client, or one step of a     *)
(* call that walks a directory or that leaves an entry open.               *)
(*                                                                         *)
(* A byte of the stream is <<h, i>>, byte i of what belongs to headers[h]: *)
(* the header itself for i <= BlockSize, then its contents; <<0, 0>> is a  *)
(* byte of padding.                                                        *)
(***************************************************************************)
EXTENDS TarBlocks, PaxRecords

CONSTANTS
  InHeader,    \* slots of a sparse map in a header (4)
  InExtension, \* slots in an extension block (21)
  Options,     \* the options of builders: [absolute, follow, sparse]
  Appends,     \* what clients append: [call, format, path, target, size]
  RecordLists, \* what they pass to append_pax_extensions
  Files,       \* what they name to append_path: [object, path, name]
  Tree,        \* directories for append_dir_all: node -> [object, part, children]
  Roots,       \* where clients put a directory with append_dir_all
  Chunks,      \* the numbers of bytes an EntryWriter is given
  Cuts,        \* bound: after how many bytes of a call the stream may fail
  MaxCalls     \* bound: calls of the client

\* What the metadata of a file says, what reading it finds, and where its data is: the search
\* for holes stays within the file.
IsFile(object) ==
  /\ object.len \in Nat /\ object.left \in Nat /\ object.link \in Path
  /\ object.slots \in Seq([offset : Nat, length : Nat])
  /\ \A i \in DOMAIN object.slots : object.slots[i].offset + object.slots[i].length <= object.len

ASSUME ClientAssumption ==
  /\ InHeader \in Nat /\ InExtension \in Nat \ {0}
  /\ \A a \in Appends : a.path \in Path /\ a.target \in Path /\ a.size \in Nat
  /\ \A records \in RecordLists : records \in Seq(Record)
  /\ \A f \in Files : IsFile(f.object) /\ f.path \in Path /\ f.name \in Path
  /\ Roots \subseteq Path /\ Chunks \subseteq Nat /\ Cuts \subseteq Nat /\ MaxCalls \in Nat

\* A directory holds finitely many files, each under a name.
ASSUME TreeAssumption ==
  /\ "root" \in DOMAIN Tree
  /\ \A n \in DOMAIN Tree :
       /\ IsFile(Tree[n].object)
       /\ Tree[n].part \in Part /\ 1 <= Tree[n].part.from /\ Tree[n].part.from <= Tree[n].part.to
       /\ Tree[n].children \subseteq DOMAIN Tree /\ IsFiniteSet(Tree[n].children)

ASSUME WriterAssumption == None \notin [h : Nat, path : Path, written : Nat]

VARIABLES
  options,
  out, at,     \* the stream, and the position in it
  headers,     \* the headers and extension blocks written so far
  finished,    \* Builder.finished
  closed,      \* the builder was dropped or taken apart
  writer,      \* the EntryWriter that is open
  stack,       \* the stack of append_dir_all
  pax,         \* the records that describe the next entry
  entries,     \* history: what was appended before the first failure and before finish
  failed,      \* history: the stream failed, or a file changed while it was read
  orphaned,    \* history: how many entries there were when a call that was refused first left
               \* a member behind; None when none has
  calls

vars == <<options, out, at, headers, finished, closed, writer, stack, pax, entries, failed,
          orphaned, calls>>

-----------------------------------------------------------------------------
(* Bytes.                                                                   *)

Upto(n) == [i \in 1..n |-> i]
Zero(n) == [i \in 1..n |-> <<0, 0>>]
HeaderBytes(h) == [i \in 1..BlockSize |-> <<h, i>>]
Contents(h, data) == [i \in DOMAIN data |-> <<h, BlockSize + data[i]>>]

\* pad_zeroes
Pad(len) ==
  LET remaining == BlockSize - (len % BlockSize)
  IN  IF remaining < BlockSize THEN Zero(remaining) ELSE <<>>

\* append: the header, the contents, the padding.
Appended(h, data) == HeaderBytes(h) \o Contents(h, data) \o Pad(Len(data))

\* The stream after a write at the position.
Put(bytes) ==
  [i \in 1..(IF at + Len(bytes) > Len(out) THEN at + Len(bytes) ELSE Len(out)) |->
     IF i \in (at + 1)..(at + Len(bytes)) THEN bytes[i - at] ELSE out[i]]

Write(bytes) == out' = Put(bytes) /\ at' = at + Len(bytes)

\* A write that fails before the last byte.
Breaks(bytes) == \E n \in Cuts : n < Len(bytes) /\ Write(SubSeq(bytes, 1, n))

-----------------------------------------------------------------------------
(* Headers.                                                                 *)

New(format) ==
  [kind |-> "other", format |-> format, type |-> "file", size |-> 0, map |-> <<>>,
   extended |-> FALSE, real |-> 0, paxsize |-> None, name |-> NoPath, prefix |-> NoPath,
   link |-> NoPath, text |-> NoPath, lines |-> <<>>]

\* set_cksum
Seal(header) == [header EXCEPT !.kind = "header"]

\* prepare_header: a member whose contents are a path and a NUL.
Describing(type, path) ==
  Seal([New("gnu") EXCEPT !.type = type, !.size = Length(path) + 1, !.text = path])

\* prepare_header_path: long is the member to write before the header, if any.
PreparePath(header, path) ==
  LET Short(cut) ==
        IF cut.ok
        THEN [ok |-> TRUE, header |-> cut.header, long |-> <<Describing("longname", path)>>]
        ELSE [ok |-> FALSE, header |-> header, long |-> <<>>]
      Whole(set) ==
        IF set.ok THEN [ok |-> TRUE, header |-> set.header, long |-> <<>>]
        ELSE IF Length(path) < NameLen THEN [ok |-> FALSE, header |-> header, long |-> <<>>]
        ELSE Short(SetPath(set.header, Cut(path, NameLen), options.absolute, TRUE))
  IN  Whole(SetPath(header, path, options.absolute, FALSE))

\* prepare_header_link
PrepareLink(header, target) ==
  LET Whole(set) ==
        IF set.ok THEN [ok |-> TRUE, header |-> set.header, long |-> <<>>]
        ELSE IF Length(target) < NameLen
        THEN [ok |-> FALSE, header |-> set.header, long |-> <<>>]
        ELSE [ok |-> TRUE, header |-> set.header, long |-> <<Describing("longlink", target)>>]
  IN  Whole(SetLink(header, target))

NoLink(header) == [ok |-> TRUE, header |-> header, long |-> <<>>]

\* The bytes of a member that describes, as headers[h].
Long(h, long) == IF long = <<>> THEN <<>> ELSE Appended(h, Upto(long[1].size))

-----------------------------------------------------------------------------
(* How a call ends.  A request is what it writes: bytes, the headers these   *)
(* are of, whether it is refused in the end, and the entry it would be.      *)

Refusal(bytes, new) ==
  [ok |-> FALSE, bytes |-> bytes, headers |-> new, entry |-> None, steady |-> TRUE]
Nothing == Refusal(<<>>, <<>>)

\* The call returns Ok.
Done(request) ==
  /\ request.ok
  /\ Write(request.bytes)
  /\ failed' = (failed \/ ~request.steady)
  /\ entries' = IF failed' \/ finished THEN entries
                ELSE Append(entries, [request.entry EXCEPT !.pax = pax, !.end = at'])
  /\ pax' = <<>>
  /\ UNCHANGED orphaned

\* The stream fails before the last byte of what the call writes.
Fails(request) ==
  /\ Breaks(request.bytes)
  /\ failed' = TRUE
  /\ UNCHANGED <<entries, pax, orphaned>>

\* The call is refused for its arguments, or for a file it cannot read.  What it has written
\* by then stays.
Refused(request) ==
  /\ ~request.ok
  /\ Write(request.bytes)
  /\ orphaned' = IF request.bytes = <<>> \/ orphaned # None THEN orphaned ELSE Len(entries)
  /\ UNCHANGED <<entries, pax, failed>>

Perform(request) ==
  /\ Done(request) \/ Fails(request) \/ Refused(request)
  /\ headers' = headers \o request.headers

\* What to expect of the entry of a header: its contents are data, of the size given.
Expected(h, header, path, target, size, data) ==
  [h |-> h, type |-> header.type, path |-> path, link |-> target, size |-> size,
   data |-> data, pax |-> <<>>, end |-> 0]

\* An entry whose path and link are prepared, with its contents.
Entry(path, target, p, l, header, data) ==
  LET h == Len(headers) + Len(p.long) + Len(l.long) + 1
  IN  [ok |-> TRUE, steady |-> TRUE,
       bytes   |-> Long(Len(headers) + 1, p.long) \o Long(Len(headers) + Len(p.long) + 1, l.long)
                   \o Appended(h, Upto(data)),
       headers |-> p.long \o l.long \o <<Seal(header)>>,
       entry   |-> Expected(h, header, path, target, data, Upto(data))]

-----------------------------------------------------------------------------
(* Sparse files.                                                            *)

\* prepare_header_sparse
SparseHeader(header, slots) ==
  [header EXCEPT !.type = "sparse",
                 !.size = Sum([i \in DOMAIN slots |-> slots[i].length]),
                 !.real = Last(slots).offset + Last(slots).length,
                 !.map = SubSeq(slots, 1, Min({InHeader, Len(slots)})),
                 !.extended = Len(slots) > InHeader]

\* Faulty: the last extension block announces one more when it is full.
ExtensionsFull(slots) ==
  LET rest == SubSeq(slots, InHeader + 1, Len(slots))
  IN  [k \in 1..((Len(rest) + InExtension - 1) \div InExtension) |->
         [New("old") EXCEPT
            !.kind = "extension",
            !.map = SubSeq(rest, (k - 1) * InExtension + 1, Min({k * InExtension, Len(rest)})),
            !.extended = k * InExtension <= Len(rest)]]

\* append_extended_sparse_headers: the slots that are left, some to a block.
Extensions(slots) ==
  LET rest == SubSeq(slots, InHeader + 1, Len(slots))
  IN  [k \in 1..((Len(rest) + InExtension - 1) \div InExtension) |->
         [New("old") EXCEPT
            !.kind = "extension",
            !.map = SubSeq(rest, (k - 1) * InExtension + 1, Min({k * InExtension, Len(rest)})),
            !.extended = k * InExtension < Len(rest)]]

\* The bytes of a file that a slot stands for, as far as the file goes.
Piece(slot, len) ==
  [i \in 1..(Min({slot.offset + slot.length, Max({len, slot.offset})}) - slot.offset) |->
     slot.offset + i]

-----------------------------------------------------------------------------
(* Files.  An object has a kind and a length, as its metadata says, a link   *)
(* target if it is a symbolic link, and if it is a sparse file its slots;    *)
(* left is its length when its contents are read.                            *)

\* append_file, with its path prepared.
AppendFile(object, path, p) ==
  LET h     == Len(headers) + Len(p.long) + 1
      ext   == Extensions(object.slots)
      data  == FlattenSeq([i \in DOMAIN object.slots |-> Piece(object.slots[i], object.left)])
      head  == Seal(SparseHeader(p.header, object.slots))
      plain == [p.header EXCEPT !.size = object.len]
  IN  IF ~p.ok THEN Nothing
      ELSE IF options.sparse /\ object.scan = "fails"
      THEN Refusal(Long(Len(headers) + 1, p.long), p.long)
      ELSE IF options.sparse /\ object.slots # <<>>
      THEN [ok |-> TRUE, steady |-> object.left = object.len,
            bytes   |-> Long(Len(headers) + 1, p.long) \o HeaderBytes(h)
                        \o FlattenSeq([k \in DOMAIN ext |-> HeaderBytes(h + k)])
                        \o Contents(h, data) \o Pad(head.size),
            headers |-> p.long \o <<head>> \o ext,
            entry   |-> Expected(h, head, path, NoPath, object.len, data)]
      ELSE [Entry(path, NoPath, p, NoLink(plain), plain, object.left)
              EXCEPT !.steady = object.left = object.len]

\* An entry without contents, with its path prepared and the link of a symlink to prepare.
LinkEntry(type, path, target, p) ==
  LET Linked(l) ==
        IF ~l.ok THEN Refusal(Long(Len(headers) + 1, p.long), p.long)
        ELSE Entry(path, target, p, l, [l.header EXCEPT !.type = type], 0)
  IN  IF ~p.ok THEN Nothing
      ELSE Linked(IF type = "symlink" THEN PrepareLink(p.header, target) ELSE NoLink(p.header))

\* append_fs: directories, and symbolic links that are not followed.
AppendFs(type, path, target) ==
  LinkEntry(type, path, target, PreparePath(New("gnu"), path))

\* append_special
AppendSpecial(kind, path) ==
  IF kind = "socket" THEN Nothing
  ELSE LinkEntry(kind, path, NoPath, PreparePath(New("gnu"), path))

KindOf(object) == IF object.link # NoPath /\ ~options.follow THEN "symlink" ELSE object.kind

\* append_path_with_name: a file that is special keeps the path it was found at.
AppendObject(object, path, name) ==
  CASE KindOf(object) = "missing" -> Nothing
    [] KindOf(object) = "file"    -> AppendFile(object, name, PreparePath(New("gnu"), name))
    [] KindOf(object) = "dir"     -> AppendFs("dir", name, NoPath)
    [] KindOf(object) = "symlink" -> AppendFs("symlink", name, object.link)
    [] OTHER                      -> AppendSpecial(KindOf(object), path)

-----------------------------------------------------------------------------
(* The calls.                                                               *)

Open == ~closed /\ writer = None /\ stack = <<>>
Call == Open /\ calls < MaxCalls /\ calls' = calls + 1
Idle == UNCHANGED <<options, finished, closed>>

\* append, with a header that is complete.
AppendWhole(a) ==
  /\ Call /\ a.call = "append"
  /\ \E set \in {SetPath(New(a.format), a.path, options.absolute, FALSE)} :
       /\ set.ok
       /\ Perform(Entry(a.path, NoPath, NoLink(set.header), NoLink(set.header),
                        [set.header EXCEPT !.size = a.size], a.size))
  /\ UNCHANGED <<writer, stack>> /\ Idle

\* The path that pax records give the next entry; the client gives it no long name.
PaxPath == {i \in DOMAIN pax : pax[i].key = "path"}

\* append_data
AppendData(a) ==
  /\ Call /\ a.call = "append_data"
  /\ \E p \in {PreparePath(New(a.format), a.path)} :
       /\ PaxPath # {} => p.long = <<>>
       /\ Perform(IF ~p.ok THEN Nothing
                  ELSE Entry(a.path, NoPath, p, NoLink(p.header),
                             [p.header EXCEPT !.size = a.size], a.size))
  /\ UNCHANGED <<writer, stack>> /\ Idle

\* append_link
AppendLink(a) ==
  /\ Call /\ a.call = "append_link" /\ PaxPath = {}
  /\ Perform(LinkEntry("symlink", a.path, a.target, PreparePath(New(a.format), a.path)))
  /\ UNCHANGED <<writer, stack>> /\ Idle

\* append_path, append_path_with_name, append_file and append_dir
AppendPath(f) ==
  /\ Call /\ PaxPath = {}
  /\ Perform(AppendObject(f.object, f.path, f.name))
  /\ UNCHANGED <<writer, stack>> /\ Idle

\* append_pax_extensions; a client gives the records of an entry in one call.
AppendPax(records) ==
  LET lines  == Format(records)
      header == Seal([New("ustar") EXCEPT !.type = "pax", !.size = DataLength(lines),
                                          !.lines = lines])
      bytes  == Appended(Len(headers) + 1, Upto(header.size))
  IN  /\ Call /\ pax = <<>>
      /\ IF records = <<>> THEN UNCHANGED <<out, at, headers, pax, failed>>
         ELSE /\ headers' = Append(headers, header)
              /\ \/ Write(bytes) /\ pax' = records /\ UNCHANGED failed
                 \/ /\ Breaks(bytes)
                    /\ failed' = TRUE /\ UNCHANGED pax
      /\ UNCHANGED <<writer, stack, entries, orphaned>> /\ Idle

-----------------------------------------------------------------------------
(* append_dir_all.                                                          *)

StartWalk(path) ==
  /\ Call /\ PaxPath = {}
  /\ stack' = <<[node |-> "root", dest |-> [path EXCEPT !.slash = path.parts # <<>>]]>>
  /\ UNCHANGED <<out, at, headers, writer, pax, entries, failed, orphaned>> /\ Idle

\* One node: what read_dir finds in a directory goes on the stack, in any order, and the
\* directory is appended itself unless it is the root of the archive.
WalkNode ==
  LET top      == Last(stack)
      object   == Tree[top.node].object
      child(n) == [node |-> n, dest |-> [top.dest EXCEPT !.parts = Append(@, Tree[n].part),
                                                         !.slash = FALSE]]
      Found    == \E order \in SetToSeqs(IF KindOf(object) = "dir" THEN Tree[top.node].children
                                         ELSE {}) :
                    stack' = Front(stack) \o [i \in DOMAIN order |-> child(order[i])]
  IN  /\ stack # <<>>
      /\ \/ /\ KindOf(object) = "dir" /\ top.dest = NoPath
            /\ Found /\ UNCHANGED <<out, at, headers, pax, entries, failed, orphaned>>
         \/ /\ KindOf(object) = "dir" => top.dest # NoPath
            /\ \E request \in {AppendObject(object, top.dest, top.dest)} :
                 /\ headers' = headers \o request.headers
                 /\ \/ Done(request) /\ Found
                    \/ (Fails(request) \/ Refused(request)) /\ stack' = <<>>
      /\ UNCHANGED <<writer, calls>> /\ Idle

-----------------------------------------------------------------------------
(* append_writer.                                                           *)

\* EntryWriter::start: a block of zeros keeps the place of the header.
StartWriter(a) ==
  /\ Call /\ a.call = "append_writer"
  /\ \E p \in {PreparePath(New(a.format), a.path)} :
       /\ PaxPath # {} => p.long = <<>>
       /\ IF ~p.ok THEN UNCHANGED <<out, at, headers, writer, failed>>
          ELSE LET bytes == Long(Len(headers) + 1, p.long) \o Zero(BlockSize)
               IN  /\ headers' = headers \o p.long \o <<p.header>>
                   /\ \/ /\ Write(bytes)
                         /\ writer' = [h |-> Len(headers'), path |-> a.path, written |-> 0]
                         /\ UNCHANGED failed
                      \/ /\ Breaks(bytes)
                         /\ failed' = TRUE /\ UNCHANGED writer
  /\ UNCHANGED <<stack, pax, entries, orphaned>> /\ Idle

\* Write for EntryWriter: the stream takes some of the bytes.
WriteChunk ==
  /\ writer # None
  /\ \E n \in Chunks :
       /\ writer.written + n <= Max(Chunks)
       /\ Write(Contents(writer.h, [i \in 1..n |-> writer.written + i]))
       /\ writer' = [writer EXCEPT !.written = @ + n]
  /\ UNCHANGED <<headers, stack, pax, entries, failed, orphaned, calls>> /\ Idle

\* Faulty: the size stays what it was when the header was prepared.
WriterHeaderUnsized == Seal(headers[writer.h])

\* The header that do_finish writes.
WriterHeader == Seal([headers[writer.h] EXCEPT !.size = writer.written])

\* Faulty: the entry ends where its contents end.
PaddingForgotten == 0

\* How much is missing to a whole block.
Padding == (BlockSize - (writer.written % BlockSize)) % BlockSize

\* Faulty: the block that was reserved is forgotten.
HeaderAtContents == at - writer.written

HeaderAt == at - writer.written - BlockSize

\* do_finish, from finish or from drop: pad, seek back, write the header, seek forward.
FinishWriter ==
  /\ writer # None
  /\ headers' = [headers EXCEPT ![writer.h] = WriterHeader]
  /\ at' = at + Padding
  /\ out' = [i \in 1..(IF at' > Len(out) THEN at' ELSE Len(out)) |->
               IF i \in (HeaderAt + 1)..(HeaderAt + BlockSize) THEN <<writer.h, i - HeaderAt>>
               ELSE IF i \in (at + 1)..at' THEN <<0, 0>> ELSE out[i]]
  /\ entries' = IF failed \/ finished THEN entries
                ELSE Append(entries, [Expected(writer.h, headers'[writer.h], writer.path, NoPath,
                                               writer.written, Upto(writer.written))
                                        EXCEPT !.pax = pax, !.end = at'])
  /\ writer' = None /\ pax' = <<>>
  /\ UNCHANGED <<stack, failed, orphaned, calls>> /\ Idle

\* do_finish fails while it pads or before it seeks back.
PadFails ==
  /\ writer # None
  /\ \E n \in 0..Padding : Write(Zero(n))
  /\ writer' = None /\ failed' = TRUE
  /\ UNCHANGED <<headers, stack, pax, entries, orphaned, calls>> /\ Idle

\* do_finish fails while it writes the header or before it seeks forward; the padding is there.
HeaderFails ==
  /\ writer # None
  /\ headers' = [headers EXCEPT ![writer.h] = WriterHeader]
  /\ \E n \in 0..BlockSize :
       /\ at' = HeaderAt + n
       /\ out' = [i \in 1..(IF at + Padding > Len(out) THEN at + Padding ELSE Len(out)) |->
                    IF i \in (HeaderAt + 1)..at' THEN <<writer.h, i - HeaderAt>>
                    ELSE IF i \in (at + 1)..(at + Padding) THEN <<0, 0>> ELSE out[i]]
  /\ writer' = None /\ failed' = TRUE
  /\ UNCHANGED <<stack, pax, entries, orphaned, calls>> /\ Idle

-----------------------------------------------------------------------------
(* The end of the archive.                                                  *)

\* Builder::finish: finished is set before the two blocks are written.
Terminate ==
  IF finished THEN UNCHANGED <<out, at, finished, failed>>
  ELSE /\ finished' = TRUE
       /\ \/ Write(Zero(2 * BlockSize)) /\ UNCHANGED failed
          \/ Breaks(Zero(2 * BlockSize)) /\ failed' = TRUE

Finish ==
  /\ Open /\ Terminate
  /\ UNCHANGED <<options, headers, closed, writer, stack, pax, entries, orphaned, calls>>

\* into_inner and drop.
Close ==
  /\ Open /\ closed' = TRUE /\ Terminate
  /\ UNCHANGED <<options, headers, writer, stack, pax, entries, orphaned, calls>>

Init ==
  /\ options \in Options
  /\ out = <<>> /\ at = 0 /\ headers = <<>>
  /\ finished = FALSE /\ closed = FALSE /\ writer = None /\ stack = <<>>
  /\ pax = <<>> /\ entries = <<>> /\ failed = FALSE /\ orphaned = None /\ calls = 0

Next ==
  \/ \E a \in Appends : AppendWhole(a) \/ AppendData(a) \/ AppendLink(a) \/ StartWriter(a)
  \/ \E f \in Files : AppendPath(f)
  \/ \E r \in RecordLists : AppendPax(r)
  \/ \E p \in Roots : StartWalk(p)
  \/ WalkNode \/ WriteChunk \/ FinishWriter \/ PadFails \/ HeaderFails \/ Finish \/ Close

Spec == Init /\ [][Next]_vars
==============================================================================
