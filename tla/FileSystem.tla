----------------------------- MODULE FileSystem -----------------------------
(***************************************************************************)
(* The file system that an archive is unpacked into, as far as its calls   *)
(* are used: real paths name inodes, paths are looked up one name after    *)
(* the other, and names and inodes come, change and go.                    *)
(*                                                                         *)
(* A real path is the sequence of names from the root; a directory has one *)
(* real path, a file as many as it has hard links.  Of a mode only three   *)
(* bits are kept: "w" and "x" of the owner and "s", which stands for those *)
(* above 0o777.                                                            *)
(***************************************************************************)
EXTENDS Integers, Sequences, SequencesExt

CONSTANTS
  Name,        \* the names that a path can be made of
  MaxLookups,  \* names that the system looks up for one path, those in links included
  None

ASSUME LookupsAssumption == MaxLookups \in Nat

Path == [root : BOOLEAN, parts : Seq(Name), slash : BOOLEAN]
Bit  == {"w", "x", "s"}

\* A link leads somewhere; the time of a directory is not kept.
InodeType ==
  {inode \in [kind : {"dir", "file", "link"}, mode : SUBSET Bit, data : Seq(Nat),
              target : Path \cup {None}, mtime : Nat, owner : Nat] :
     /\ inode.kind = "link" => inode.target \in Path
     /\ inode.kind = "dir" => inode.data = <<>> /\ inode.target = None /\ inode.mtime = 0}

\* names : real path -> inode number.
Disk(fs) ==
  /\ DOMAIN fs.names \subseteq Seq(Name)
  /\ fs.names \in [DOMAIN fs.names -> DOMAIN fs.inodes]
  /\ fs.inodes \in Seq(InodeType)

Inode(kind, mode) ==
  [kind |-> kind, mode |-> mode, data |-> <<>>, target |-> None, mtime |-> 0, owner |-> 0]

-----------------------------------------------------------------------------
(* What is there.                                                          *)

At(fs, path) == fs.inodes[fs.names[path]]

\* Only files and links have more than one name.
DirsOnce(fs) ==
  \A p, q \in DOMAIN fs.names :
    fs.names[p] = fs.names[q] /\ At(fs, p).kind = "dir" => p = q

Exists(fs, path) == path \in DOMAIN fs.names
IsDir(fs, path) == path = <<>> \/ (Exists(fs, path) /\ At(fs, path).kind = "dir")
Searchable(fs, path) == IsDir(fs, path) /\ (path = <<>> \/ "x" \in At(fs, path).mode)
Writable(fs, path) == Searchable(fs, path) /\ (path = <<>> \/ "w" \in At(fs, path).mode)

\* The first name of parts is looked up in a directory: the real path that is reached and
\* what is still to be looked up, None if this fails.
Enter(fs, at, parts) ==
  LET here == Append(at, Head(parts))
      rest == Tail(parts)
      link == At(fs, here).target
  IN  IF Head(parts) = "." THEN [at |-> at, parts |-> rest]
      ELSE IF Head(parts) = ".."
      THEN [at |-> IF at = <<>> THEN at ELSE Front(at), parts |-> rest]
      ELSE IF ~Exists(fs, here) THEN None
      ELSE IF At(fs, here).kind # "link" THEN [at |-> here, parts |-> rest]
      ELSE [at |-> IF link.root THEN <<>> ELSE at, parts |-> link.parts \o rest]

Follow(fs, walk) ==
  IF walk = None \/ walk.parts = <<>> THEN walk
  ELSE IF Searchable(fs, walk.at) THEN Enter(fs, walk.at, walk.parts)
  ELSE None

Walk(fs, path) ==
  LET after[n \in 0..MaxLookups] ==
        IF n = 0 THEN [at |-> <<>>, parts |-> path] ELSE Follow(fs, after[n - 1])
  IN  after[MaxLookups]

\* The real path of a path, None when it cannot be followed to its end.
Reached(walk) == IF walk = None \/ walk.parts # <<>> THEN None ELSE walk.at
Canonical(fs, path) == Reached(Walk(fs, path))

\* Where a path is, without following it when it is a link itself.
Place(fs, path) ==
  LET dir == Canonical(fs, Front(path))
  IN  IF dir = None \/ ~Searchable(fs, dir) THEN None ELSE Append(dir, Last(path))

Found(fs, path) == path = <<>> \/ (Place(fs, path) # None /\ Exists(fs, Place(fs, path)))

CanCreate(fs, path) ==
  /\ Place(fs, path) # None
  /\ ~Exists(fs, Place(fs, path)) /\ Writable(fs, Front(Place(fs, path)))

CanRemove(fs, path) ==
  /\ Found(fs, path) /\ At(fs, Place(fs, path)).kind # "dir"
  /\ Writable(fs, Front(Place(fs, path)))

-----------------------------------------------------------------------------
(* What a call changes.                                                    *)

\* A name for an inode, which may have others.
Named(fs, place, ino) ==
  [names  |-> [p \in DOMAIN fs.names \cup {place} |-> IF p = place THEN ino ELSE fs.names[p]],
   inodes |-> fs.inodes]

\* A name for a new inode.
Created(fs, place, inode) ==
  [names  |-> Named(fs, place, Len(fs.inodes) + 1).names,
   inodes |-> Append(fs.inodes, inode)]

Removed(fs, place) ==
  [names |-> [p \in DOMAIN fs.names \ {place} |-> fs.names[p]], inodes |-> fs.inodes]

Changed(fs, ino, inode) ==
  [names |-> fs.names, inodes |-> [fs.inodes EXCEPT ![ino] = inode]]
=============================================================================
