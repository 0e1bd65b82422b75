------------------------------- MODULE Unpack -------------------------------
(***************************************************************************)
(* Archive::unpack: the entries of an archive become files, directories    *)
(* and links of a file system, one system call at a time, and any of these *)
(* may fail.  The file system belongs to this process alone.               *)
(***************************************************************************)
EXTENDS FileSystem

CONSTANTS
  Dst,         \* the real path that is unpacked into
  Worlds,      \* file systems before: [names: path -> inode number, inodes: Seq]
  Options,     \* options: [overwrite, preserve, owners, mtimes, mask]
  Members,     \* the entries an archive may have
  Code,        \* the bytes of a name, as numbers
  Slash,       \* the byte "/"
  MaxMembers   \* bound: entries of an archive

VARIABLES
  world,       \* the file system before
  options,
  archive,     \* the entries taken from the archive
  disk,        \* the file system now
  deferred,    \* the directories that wait for the end
  pc,          \* the step that comes next
  ended,       \* the archive has no more entries
  current,     \* the entry being unpacked
  open,        \* the file being written: its inode and how many pieces it has
  expect,      \* history: what each path got from the archive
  unpacked,    \* history: the entries that were unpacked
  broken       \* history: a system call failed for a reason of its own

vars == <<world, options, archive, disk, deferred, pc, ended, current, open, expect, unpacked,
          broken>>

-----------------------------------------------------------------------------
(* A piece of an entry's data has len bytes, of which the archive has have. *)

Piece == {p \in [hole : BOOLEAN, len : Nat, have : Nat] : p.have <= p.len}

Entry ==
  [type : {"file", "dir", "link", "hard", "global"}, ustar : BOOLEAN, path : Path, target : Path,
   pieces : Seq(Piece), mode : (SUBSET Bit) \cup {None}, mtime : Nat \cup {None},
   owner : Nat \cup {None}]

Option ==
  [overwrite : BOOLEAN, preserve : BOOLEAN, owners : BOOLEAN, mtimes : BOOLEAN, mask : SUBSET Bit]

ASSUME PlacesAssumption ==
  Dst \in Seq(Name) /\ \A w \in Worlds : Disk(w) /\ DirsOnce(w)
ASSUME ArchiveAssumption ==
  (\A entry \in Members : entry \in Entry) /\ (\A o \in Options : o \in Option)

Inside(path) == IsPrefix(Dst, path)

E == archive[current]
Normal(path) ==
  FlattenSeq([i \in DOMAIN path.parts |->
                IF path.parts[i] = "." THEN <<>> ELSE <<path.parts[i]>>])
FileDst == Dst \o Normal(E.path)
Parent == Front(FileDst)

\* Names with a trailing slash are directories in old archives.
OldDir(entry) == entry.type = "file" /\ ~entry.ustar /\ entry.path.slash
MakesDir(entry) == entry.type = "dir" \/ OldDir(entry)

\* The bytes of a path, and their order.
PathBytes(path) ==
  (IF path.root THEN <<Slash>> ELSE <<>>)
    \o FlattenSeq([i \in DOMAIN path.parts |->
                     (IF i > 1 THEN <<Slash>> ELSE <<>>) \o Code[path.parts[i]]])
    \o (IF path.slash THEN <<Slash>> ELSE <<>>)

After(a, b) ==
  \E n \in 0..Len(b) :
    /\ n < Len(a) /\ SubSeq(a, 1, n) = SubSeq(b, 1, n)
    /\ n = Len(b) \/ a[n + 1] > b[n + 1]

\* sort_by is stable.
Before(i, j) ==
  \/ After(PathBytes(archive[i].path), PathBytes(archive[j].path))
  \/ PathBytes(archive[i].path) = PathBytes(archive[j].path) /\ i <= j

-----------------------------------------------------------------------------
(* Archive::_unpack.                                                        *)

Fixed == UNCHANGED <<world, options, broken>>
Same == UNCHANGED <<archive, deferred, ended, current>> /\ Fixed
History == UNCHANGED <<expect, unpacked>>

\* dst is created when it is not there.
Start ==
  /\ pc = "start" /\ pc' = "entry"
  /\ IF Exists(disk, Dst) THEN UNCHANGED disk
     ELSE disk' = Created(disk, Dst, Inode("dir", {"w", "x"}))
  /\ UNCHANGED open /\ Same /\ History

\* An entry that is a directory waits.
NextEntry(entry) ==
  /\ pc = "entry" /\ ~ended /\ Len(archive) < MaxMembers
  /\ archive' = Append(archive, entry)
  /\ IF entry.type = "dir"
     THEN deferred' = deferred \cup {Len(archive')} /\ UNCHANGED <<current, pc>>
     ELSE current' = Len(archive') /\ pc' = "path" /\ UNCHANGED deferred
  /\ UNCHANGED <<disk, ended, open>> /\ Fixed /\ History

NoMoreEntries ==
  /\ pc = "entry" /\ ~ended /\ ended' = TRUE
  /\ UNCHANGED <<disk, archive, deferred, current, pc, open>> /\ Fixed /\ History

\* Faulty: the directories are unpacked in the order of their paths.
NextDirForward ==
  /\ pc = "entry" /\ ended
  /\ \E i \in {k \in deferred : \A j \in deferred : Before(j, k)} :
       current' = i /\ deferred' = deferred \ {i}
  /\ pc' = "path"
  /\ UNCHANGED <<disk, archive, ended, open>> /\ Fixed /\ History

\* The directories, the greatest path first.
NextDir ==
  /\ pc = "entry" /\ ended
  /\ \E i \in {k \in deferred : \A j \in deferred : Before(k, j)} :
       current' = i /\ deferred' = deferred \ {i}
  /\ pc' = "path"
  /\ UNCHANGED <<disk, archive, ended, open>> /\ Fixed /\ History

Finish ==
  /\ pc = "entry" /\ ended /\ deferred = {} /\ pc' = "done"
  /\ UNCHANGED <<disk, open>> /\ Same /\ History

Goto(step) == pc' = step /\ Same
Error == Goto("error") /\ UNCHANGED <<disk, open>> /\ History

\* A system call or the archive fails; a clean failure of the code is an action of its own.
Io ==
  /\ pc \notin {"path", "done", "error"}
  /\ pc' = "error" /\ broken' = TRUE
  /\ UNCHANGED <<disk, open, world, options, archive, deferred, ended, current>> /\ History

-----------------------------------------------------------------------------
(* EntryFields::unpack_in.                                                  *)

\* Paths with ".." are skipped, and paths with no name at all.
CheckPath ==
  /\ pc = "path"
  /\ Goto(IF ".." \in {E.path.parts[i] : i \in DOMAIN E.path.parts} \/ Normal(E.path) = <<>>
          THEN "entry" ELSE "ensure")
  /\ UNCHANGED <<disk, open>> /\ History

\* Faulty: the path is taken as it is written.
ValidInsideAsWritten(path) == Inside(path)

\* validate_inside_dst
ValidInside(path) == Canonical(disk, path) # None /\ Inside(Canonical(disk, path))

\* ensure_dir_created: the ancestors that are missing, the highest one first.
EnsureDir ==
  LET up(n)   == SubSeq(Parent, 1, n)
      missing == {n \in 1..Len(Parent) : \A m \in n..Len(Parent) : ~Found(disk, up(m))}
      top     == CHOOSE n \in missing : \A m \in missing : n <= m
  IN  /\ pc = "ensure"
      /\ IF missing = {}
         THEN Goto(IF ValidInside(Parent) THEN "place" ELSE "error") /\ UNCHANGED disk
         ELSE IF ValidInside(up(top - 1)) /\ CanCreate(disk, up(top))
         THEN /\ disk' = Created(disk, Place(disk, up(top)), Inode("dir", {"w", "x"}))
              /\ Goto(pc)
         ELSE Goto("error") /\ UNCHANGED disk
      /\ UNCHANGED open /\ History

-----------------------------------------------------------------------------
(* EntryFields::unpack.                                                     *)

\* Where the entry goes, and the inode that owner and mode are set of.
Spot == Place(disk, FileDst)
Target == IF MakesDir(E) THEN disk.names[Spot] ELSE open.ino

Masked(mode) == (IF options.preserve THEN mode ELSE mode \ {"s"}) \ options.mask

\* The first n bytes of a piece.
Bytes(piece, n) == [i \in 1..n |-> IF piece.hole THEN 0 ELSE current]

\* The inode that the entry and the options ask for, whatever was there before.
Asked ==
  LET whole == FlattenSeq([i \in DOMAIN E.pieces |-> Bytes(E.pieces[i], E.pieces[i].len)])
  IN  [kind   |-> CASE MakesDir(E) -> "dir" [] E.type = "link" -> "link" [] OTHER -> "file",
       mode   |-> IF E.type = "link" THEN {}
                  ELSE IF E.mode = None THEN disk.inodes[Target].mode ELSE Masked(E.mode),
       data   |-> IF MakesDir(E) \/ E.type = "link" THEN <<>> ELSE whole,
       target |-> IF E.type = "link" THEN E.target ELSE None,
       mtime  |-> IF MakesDir(E) \/ ~options.mtimes \/ E.mtime = None THEN 0
                  ELSE IF E.mtime = 0 THEN 1 ELSE E.mtime,
       owner  |-> IF options.owners THEN E.owner ELSE disk.inodes[Target].owner]

\* The entry is there: from now on its path is expected to be what the archive says.
Placed(path, inode) ==
  /\ expect' = [p \in DOMAIN expect \cup {path} |-> IF p = path THEN inode ELSE expect[p]]
  /\ unpacked' = unpacked \cup {current}

\* Something is unpacked to where it was.
Forget(path) ==
  expect' = [p \in DOMAIN expect \ {path} |-> expect[p]] /\ UNCHANGED unpacked

\* unpack_dir: a directory may be there already.
PlaceDir ==
  /\ pc = "place" /\ MakesDir(E)
  /\ \/ /\ CanCreate(disk, FileDst) /\ Goto("owner")
        /\ disk' = Created(disk, Spot, Inode("dir", {"w", "x"})) /\ History
     \/ /\ Found(disk, FileDst) /\ IsDir(disk, Spot) /\ Goto("owner")
        /\ Forget(Spot) /\ UNCHANGED disk
     \/ /\ ~CanCreate(disk, FileDst) /\ ~(Found(disk, FileDst) /\ IsDir(disk, Spot))
        /\ Goto("error") /\ UNCHANGED disk /\ History
  /\ UNCHANGED open

\* A hard link is made where nothing is yet, to something inside that is no directory.
PlaceHardLink ==
  LET source == IF E.target.root THEN E.target.parts ELSE Dst \o E.target.parts
      good   == /\ E.target.parts # <<>> /\ ValidInside(source)
                /\ Found(disk, source) /\ ~IsDir(disk, Place(disk, source))
                /\ CanCreate(disk, FileDst)
      ino    == disk.names[Place(disk, source)]
  IN  /\ pc = "place" /\ E.type = "hard"
      /\ IF ~good THEN Error
         ELSE /\ disk' = Named(disk, Spot, ino)
              /\ Placed(Spot, disk.inodes[ino])
              /\ Goto("entry") /\ UNCHANGED open

PlaceSymlink ==
  /\ pc = "place" /\ E.type = "link"
  /\ \/ /\ CanCreate(disk, FileDst) /\ (E.target.parts # <<>> \/ E.target.root)
        /\ disk' = Created(disk, Spot, [Inode("link", {}) EXCEPT !.target = E.target])
        /\ open' = [ino |-> Len(disk.inodes) + 1, pieces |-> 0] /\ Goto("owner") /\ History
     \/ E.target.parts = <<>> /\ ~E.target.root /\ Error

\* A describing member is no file.
PlaceNothing ==
  /\ pc = "place" /\ E.type = "global" /\ Goto("entry")
  /\ UNCHANGED <<disk, open>> /\ History

\* Faulty: a file that is there is written over in its place.
PlaceFileInPlace ==
  /\ pc = "place" /\ E.type = "file" /\ ~OldDir(E)
  /\ \/ /\ CanCreate(disk, FileDst)
        /\ disk' = Created(disk, Spot, Inode("file", {"w"}))
        /\ open' = [ino |-> Len(disk.inodes) + 1, pieces |-> 0]
     \/ /\ Found(disk, FileDst) /\ At(disk, Spot).kind = "file"
        /\ disk' = Changed(disk, disk.names[Spot], Inode("file", {"w"}))
        /\ open' = [ino |-> disk.names[Spot], pieces |-> 0]
  /\ Goto("data") /\ History

\* open with create_new
PlaceFile ==
  /\ pc = "place" /\ E.type = "file" /\ ~OldDir(E) /\ CanCreate(disk, FileDst)
  /\ disk' = Created(disk, Spot, Inode("file", {"w"}))
  /\ open' = [ino |-> Len(disk.inodes) + 1, pieces |-> 0]
  /\ Goto("data") /\ History

\* Something is there already: a file or a link is removed, and the call is made again.
Replace ==
  /\ pc = "place" /\ E.type \in {"file", "link"} /\ ~OldDir(E)
  /\ E.type = "link" => E.target.parts # <<>> \/ E.target.root
  /\ ~CanCreate(disk, FileDst)
  /\ IF options.overwrite /\ CanRemove(disk, FileDst)
     THEN /\ disk' = Removed(disk, Spot)
          /\ Forget(Spot) /\ Goto(pc) /\ UNCHANGED open
     ELSE Error

\* The pieces of the contents: data, and holes that a seek leaves.
WritePiece ==
  LET piece == E.pieces[open.pieces + 1]
      file  == disk.inodes[open.ino]
  IN  /\ pc = "data" /\ open.pieces < Len(E.pieces)
      /\ disk' = Changed(disk, open.ino, [file EXCEPT !.data = @ \o Bytes(piece, piece.have)])
      /\ open' = [open EXCEPT !.pieces = @ + 1]
      /\ Goto(IF piece.have < piece.len THEN "error" ELSE pc)
      /\ History

\* A file gets its time before its owner and its mode; a time of 0 becomes 1.
WithMtime(inode) ==
  IF ~options.mtimes \/ E.mtime = None THEN inode
  ELSE [inode EXCEPT !.mtime = IF E.mtime = 0 THEN 1 ELSE E.mtime]

SetTime ==
  /\ pc = "data" /\ open.pieces = Len(E.pieces)
  /\ disk' = Changed(disk, open.ino, WithMtime(disk.inodes[open.ino]))
  /\ Goto("owner") /\ UNCHANGED open /\ History

\* chown takes the set-user-id bit from a file.
Chowned(inode) ==
  IF ~options.owners THEN inode
  ELSE [inode EXCEPT !.owner = E.owner, !.mode = IF inode.kind = "file" THEN @ \ {"s"} ELSE @]

\* set_ownerships; a link has no mode and gets its time now.
SetOwner ==
  LET new == Chowned(disk.inodes[Target])
  IN  /\ pc = "owner"
      /\ IF options.owners /\ E.owner = None THEN Error
         ELSE IF E.type = "link"
         THEN /\ disk' = Changed(disk, Target, WithMtime(new))
              /\ Placed(Spot, Asked) /\ Goto("entry") /\ UNCHANGED open
         ELSE /\ disk' = Changed(disk, Target, new)
              /\ Goto("mode") /\ UNCHANGED open /\ History

\* Faulty: the mode is set first and the owner second.
SetModeFirst ==
  LET mode == IF E.mode = None THEN disk.inodes[Target].mode ELSE Masked(E.mode)
  IN  /\ pc = "mode"
      /\ disk' = Changed(disk, Target, Chowned([disk.inodes[Target] EXCEPT !.mode = mode]))
      /\ Placed(Spot, Asked)
      /\ Goto("entry") /\ UNCHANGED open

\* set_perms, if the header has a mode.
SetMode ==
  LET mode == IF E.mode = None THEN disk.inodes[Target].mode ELSE Masked(E.mode)
  IN  /\ pc = "mode"
      /\ disk' = Changed(disk, Target, [disk.inodes[Target] EXCEPT !.mode = mode])
      /\ Placed(Spot, Asked)
      /\ Goto("entry") /\ UNCHANGED open

Init ==
  /\ world \in Worlds /\ options \in Options
  /\ archive = <<>> /\ disk = world
  /\ deferred = {} /\ pc = "start" /\ ended = FALSE /\ current = 0 /\ open = None
  /\ expect = [p \in {} |-> None] /\ unpacked = {} /\ broken = FALSE

Next ==
  \/ Start \/ NoMoreEntries \/ NextDir \/ Finish \/ Io \/ CheckPath \/ EnsureDir
  \/ \E entry \in Members : NextEntry(entry)
  \/ PlaceDir \/ PlaceHardLink \/ PlaceSymlink \/ PlaceNothing \/ PlaceFile \/ Replace
  \/ WritePiece \/ SetTime \/ SetOwner \/ SetMode

Spec == Init /\ [][Next]_vars

-----------------------------------------------------------------------------
(* Properties.                                                              *)

Skipped(entry) ==
  ".." \in {entry.path.parts[i] : i \in DOMAIN entry.path.parts} \/ Normal(entry.path) = <<>>
    \/ entry.type = "global"

\* What was unpacked stays as the archive has it, contents, holes, mode, owner, time and target,
\* whatever is unpacked after it, over other names of it, in directories that are deferred, and
\* whatever fails later, until an entry for the very same place comes; and when unpack returns
\* Ok nothing is missing (entry.rs:473, 622, 654).
UnpackedWhole ==
  /\ \A p \in DOMAIN expect : Exists(disk, p) /\ At(disk, p) = expect[p]
  /\ pc = "done" => \A i \in DOMAIN archive : i \in unpacked \/ Skipped(archive[i])

\* Nothing outside of dst comes, goes or changes, not even a file that has another name inside
\* (entry.rs:437, 647, 924).
ElsewhereKept ==
  \A p \in DOMAIN disk.names \cup DOMAIN world.names :
    Inside(p) \/ (Exists(disk, p) /\ Exists(world, p) /\ At(disk, p) = At(world, p))

\* An archive that makes sense on its own: a path is used once, but for directories; only
\* directories have something below; contents are whole; links have targets, hard links
\* earlier files; owners are numbers.
Sane ==
  /\ \A i, j \in {k \in DOMAIN archive : ~Skipped(archive[k])} :
       i # j /\ IsPrefix(Normal(archive[i].path), Normal(archive[j].path))
         => /\ MakesDir(archive[i])
            /\ Normal(archive[i].path) = Normal(archive[j].path) => MakesDir(archive[j])
  /\ \A i \in DOMAIN archive : LET entry == archive[i] IN
       /\ \A k \in DOMAIN entry.pieces : entry.pieces[k].have = entry.pieces[k].len
       /\ options.owners => entry.owner # None
       /\ entry.type = "link" => entry.target.parts # <<>>
       /\ entry.type = "hard" =>
            /\ ~entry.target.root
            /\ \E k \in 1..(i - 1) :
                 /\ archive[k].type = "file" /\ ~OldDir(archive[k]) /\ ~Skipped(archive[k])
                 /\ Normal(archive[k].path) = entry.target.parts

Fresh == \A p \in DOMAIN world.names : ~IsStrictPrefix(Dst, p)

\* A sane archive is unpacked, in whatever order its members come and whatever the modes of its
\* directories are (archive.rs:262), as long as the system does not fail.
DirectoriesInOrder == Sane /\ Fresh /\ ~broken => pc # "error"

\* The same for archives whose directories are all named in the one way that sorting by bytes
\* puts parents last, and none is named as a file with a trailing slash.
PlainDirectoriesInOrder ==
  (\A i \in DOMAIN archive : /\ ~OldDir(archive[i])
                             /\ archive[i].type = "dir" =>
                                  ~archive[i].path.root /\ archive[i].path.parts = Normal(archive[i].path))
    => DirectoriesInOrder
=============================================================================
