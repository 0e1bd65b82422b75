------------------------------ MODULE MCBuilder ------------------------------
(***************************************************************************)
(* Small instances of ArchiveTrip.  A block has 2 bytes, a name 2, a       *)
(* prefix 3; a header has 1 slot of a sparse map and an extension block 2; *)
(* lengths in pax records have base 3.                                     *)
(***************************************************************************)
EXTENDS ArchiveTrip

Widths == [a |-> 1, bb |-> 2, ccc |-> 3] @@ (Dots :> 3) @@ (Nul :> 2)
Keys == [comment |-> 2, path |-> 4]

Full(n) == [name |-> n, from |-> 1, to |-> Widths[n]]
Rel(names) == [NoPath EXCEPT !.parts = [i \in DOMAIN names |-> Full(names[i])]]
Parent == [name |-> Dots, from |-> 1, to |-> 2]
Up(path) == [path EXCEPT !.parts = <<Parent>> \o @]

A == Rel(<<"a">>)
C == Rel(<<"ccc">>)

With(call, format, path, target, size) ==
  [call |-> call, format |-> format, path |-> path, target |-> target, size |-> size]

\* Names that fit, that need the prefix, that need a member of their own and that are
\* refused; targets that fit, that need a member of their own and that are refused, also
\* behind a name that needed one.
SomeAppends ==
  {With("append", "ustar", Rel(<<"a", "bb">>), NoPath, 2),
   With("append_data", "gnu", A, NoPath, 3), With("append_data", "old", C, NoPath, 2),
   With("append_data", "ustar", C, NoPath, 0), With("append_data", "gnu", Up(C), NoPath, 1),
   With("append_link", "gnu", C, C, 0), With("append_link", "ustar", A, A, 0),
   With("append_link", "gnu", A, NoPath, 0), With("append_link", "gnu", C, NoPath, 0),
   With("append_writer", "gnu", C, NoPath, 0), With("append_writer", "gnu", Up(A), NoPath, 0)}

\* An entry with a short name, and a link that is refused after its long name was written.
ShortAppend == {With("append_data", "gnu", A, NoPath, 0)}
OrphanAppends == ShortAppend \cup {With("append_link", "gnu", C, NoPath, 0)}

SomeRecords ==
  {<<>>, <<[key |-> "comment", value |-> <<1>>, path |-> NoPath],
           [key |-> "path", value |-> <<3>>, path |-> C]>>,
   <<[key |-> "comment", value |-> <<2>>, path |-> NoPath]>>}

Object(kind, len) ==
  [kind |-> kind, len |-> len, left |-> len, link |-> NoPath, slots |-> <<>>, scan |-> "ok"]
At(offset, length) == [offset |-> offset, length |-> length]
SparseFile == [Object("file", 7) EXCEPT !.slots = <<At(1, 2), At(4, 2), At(7, 0)>>]
HoleyFile  == [Object("file", 9) EXCEPT !.slots = <<At(0, 2), At(3, 2), At(6, 2), At(9, 0)>>]
EmptyTail  == [Object("file", 4) EXCEPT !.slots = <<At(4, 0)>>]
Symlink(kind, target) == [Object(kind, 1) EXCEPT !.link = target]

Unsearchable == [Object("file", 2) EXCEPT !.scan = "fails"]

Named(object, path) == [object |-> object, path |-> path, name |-> path]

SomeFiles ==
  {Named(SparseFile, C), Named(HoleyFile, A), Named(EmptyTail, A), Named(Object("file", 3), A),
   Named(Unsearchable, A), Named(Unsearchable, C),
   Named([Object("file", 2) EXCEPT !.left = 3], A), Named([SparseFile EXCEPT !.left = 5], A),
   Named(Symlink("file", C), A), Named(Symlink("dir", A), C), Named(Symlink("missing", A), A),
   Named(Object("dir", 5), C), Named(Object("fifo", 0), A), Named(Object("socket", 0), A),
   [object |-> Object("file", 1), path |-> C, name |-> A]}

Node(object, part, children) == [object |-> object, part |-> part, children |-> children]
SmallTree ==
  [root |-> Node(Object("dir", 1), Full("a"), {"x", "d"}),
   x    |-> Node(Object("file", 1), Full("bb"), {}),
   d    |-> Node(Symlink("dir", C), Full("a"), {"y"}),
   y    |-> Node(Object("socket", 0), Full("a"), {})]

AllOptions == {[absolute |-> FALSE, follow |-> b, sparse |-> b] : b \in BOOLEAN}
OneOption  == {[absolute |-> FALSE, follow |-> FALSE, sparse |-> TRUE]}
Starts == {NoPath, A}
==============================================================================
