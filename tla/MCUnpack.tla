------------------------------ MODULE MCUnpack ------------------------------
(***************************************************************************)
(* Small instances of Unpack: names of one letter, archives of up to three *)
(* entries, an empty file system and one that is in use.                   *)
(***************************************************************************)
EXTENDS UnpackInvariants, TLC

Codes == ("." :> <<1>>) @@ (".." :> <<1, 1>>) @@ [d |-> <<3>>, f |-> <<4>>, l |-> <<5>>]

Names == {".", "..", "d", "f", "l", "dst", "out"}

P(parts) == [root |-> FALSE, parts |-> parts, slash |-> FALSE]
Rooted(parts) == [P(parts) EXCEPT !.root = TRUE]
Dir(parts) == [P(parts) EXCEPT !.slash = TRUE]

All == {"w", "x"}
Closed == {"x"}
Data(n) == [hole |-> FALSE, len |-> n, have |-> n]
Hole(n) == [hole |-> TRUE, len |-> n, have |-> n]

Member(type, path, target, pieces, mode) ==
  [type |-> type, ustar |-> TRUE, path |-> path, target |-> target, pieces |-> pieces,
   mode |-> mode, mtime |-> 0, owner |-> 1]
File(path) == Member("file", path, P(<<>>), <<Data(1)>>, {"w", "s"})
Directory(path, mode) == Member("dir", path, P(<<>>), <<>>, mode)
Link(type, path, target) == Member(type, path, target, <<>>, None)

SomeMembers ==
  {File(P(<<"f">>)), File(P(<<"d", "f">>)), File(P(<<"l", "f">>)), File(P(<<"..", "f">>)),
   [File(P(<<"f">>)) EXCEPT !.pieces = <<Hole(1), [Data(2) EXCEPT !.have = 1]>>, !.mode = None],
   [File(P(<<"d", "d", "f">>)) EXCEPT !.pieces = <<Hole(1), Data(1), Hole(1)>>, !.mtime = None],
   [File(P(<<"l">>)) EXCEPT !.owner = None, !.mtime = 2],
   [File(Dir(<<"d">>)) EXCEPT !.ustar = FALSE],
   Directory(Dir(<<"d">>), Closed), [Directory(P(<<"d">>), None) EXCEPT !.owner = 2],
   Directory(Dir(<<"d", "d">>), {}),
   Directory(P(<<"d", "f">>), All),
   Link("link", P(<<"l">>), P(<<"d">>)), Link("link", P(<<"d", "l">>), Rooted(<<"out">>)),
   Link("link", P(<<"f">>), P(<<>>)), Link("link", P(<<"d">>), P(<<".", "l", "..", "d">>)),
   Link("hard", P(<<"l">>), P(<<"f">>)), Link("hard", P(<<"d", "l">>), P(<<"d", "f">>)),
   Link("hard", P(<<"l">>), Rooted(<<"out", "f">>)),
   Member("global", P(<<"f">>), P(<<>>), <<>>, None)}

\* Directories named in more than one way.
DirMembers ==
  {Directory(P(<<"d">>), Closed), Directory(P(<<".", "d", "d">>), All),
   Directory(P(<<"d", "d">>), All), File(P(<<"d", "f">>))}

OneFile == [Inode("file", {"w"}) EXCEPT !.data = <<0>>]
OneDir  == Inode("dir", All)

Empty == [names  |-> (<<"out">> :> 1) @@ (<<"out", "f">> :> 2), inodes |-> <<OneDir, OneFile>>]

\* dst/f is also out/f, dst/l leads outside, dst/d/l inside.
Used ==
  [names  |-> Empty.names @@ (<<"dst">> :> 3) @@ (<<"dst", "f">> :> 2) @@ (<<"dst", "l">> :> 4)
              @@ (<<"dst", "d">> :> 5) @@ (<<"dst", "d", "l">> :> 6),
   inodes |-> <<OneDir, OneFile, OneDir, [Inode("link", {}) EXCEPT !.target = Rooted(<<"out">>)],
                OneDir, [Inode("link", {}) EXCEPT !.target = P(<<"..", "d">>)]>>]

BothWorlds == {Empty, Used}
EmptyWorld == {Empty}

Choice(overwrite, b, mask) ==
  [overwrite |-> overwrite, preserve |-> b, owners |-> b, mtimes |-> b, mask |-> mask]
SomeOptions == {Choice(TRUE, TRUE, {}), Choice(TRUE, FALSE, {"x"}), Choice(FALSE, TRUE, {})}
OneOption == {Choice(TRUE, TRUE, {})}
Top == <<"dst">>
=============================================================================
