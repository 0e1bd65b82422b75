-------------------------- MODULE UnpackInvariants --------------------------
(***************************************************************************)
(* What is true in every state of Unpack, in a form that every step        *)
(* preserves, whatever the archive and the file system are.                *)
(***************************************************************************)
EXTENDS Unpack

Working == pc \in {"path", "ensure", "place", "data", "owner", "mode"}
Filling == pc \in {"data", "owner", "mode"}

TypeOK ==
  /\ world \in Worlds /\ options \in Options /\ archive \in Seq(Members)
  /\ Disk(disk)
  /\ deferred \subseteq DOMAIN archive /\ unpacked \subseteq DOMAIN archive
  /\ current \in Nat /\ (Working => current \in DOMAIN archive)
  /\ pc \in {"start", "entry", "path", "ensure", "place", "data", "owner", "mode", "done", "error"}
  /\ open \in [ino : Nat, pieces : Nat] \cup {None}

-----------------------------------------------------------------------------
(* Where things are.                                                       *)

\* The names outside are those of before, for the same inodes, and nobody wrote to these.
SameOutside ==
  /\ Len(world.inodes) <= Len(disk.inodes)
  /\ \A p \in DOMAIN disk.names \cup DOMAIN world.names :
       Inside(p) \/ /\ Exists(disk, p) /\ Exists(world, p)
                    /\ disk.names[p] = world.names[p] /\ At(disk, p) = At(world, p)

\* Where an entry goes: inside, as long as there is a way to it; what is written to is there,
\* and is a directory or an inode that is new and has no other name.
ParentInside == Canonical(disk, Parent) = None \/ Inside(Canonical(disk, Parent))

GoesInside ==
  /\ Working /\ pc # "path" => Normal(E.path) # <<>>
  /\ pc = "place" => ParentInside
  /\ pc = "data" => E.type = "file" /\ ~OldDir(E)
  /\ Filling =>
       /\ Spot # None /\ Inside(Spot) /\ Exists(disk, Spot) /\ Target = disk.names[Spot]
       /\ MakesDir(E) <=> At(disk, Spot).kind = "dir"
       /\ ~MakesDir(E) => /\ open \in [ino : Nat, pieces : Nat] /\ Len(world.inodes) < open.ino
                          /\ \A p \in DOMAIN disk.names : disk.names[p] = open.ino => p = Spot

PlaceInv == TypeOK /\ DirsOnce(disk) /\ SameOutside /\ GoesInside

-----------------------------------------------------------------------------
(* What things are.                                                        *)

\* What the first n pieces of the entry make.
Written(n) == FlattenSeq([i \in 1..n |-> Bytes(E.pieces[i], E.pieces[i].len)])

\* The inode of the entry so far, as long as nothing failed; a directory may have been there.
SoFar ==
  LET inode == disk.inodes[Target]
  IN  /\ MakesDir(E) \/ E.type \in {"file", "link"}
      /\ ~MakesDir(E) =>
           /\ inode.kind = E.type
           /\ inode.target = IF E.type = "link" THEN E.target ELSE None
           /\ E.type = "link" => pc = "owner" /\ inode.data = <<>> /\ inode.mode = {}
           /\ pc = "data" => open.pieces <= Len(E.pieces) /\ inode.data = Written(open.pieces)
           /\ E.type = "file" /\ pc # "data" => inode.data = Written(Len(E.pieces))
           /\ inode.mtime = IF pc = "data" \/ E.type = "link" \/ ~options.mtimes \/ E.mtime = None
                            THEN 0 ELSE IF E.mtime = 0 THEN 1 ELSE E.mtime
      /\ pc = "mode" /\ options.owners => inode.owner = E.owner

\* No entry is lost on the way.
NoneLost ==
  /\ pc # "error" => \A i \in DOMAIN archive :
       i \in unpacked \cup deferred \/ Skipped(archive[i]) \/ (Working /\ i = current)
  /\ pc = "done" => deferred = {}

EntryInv ==
  /\ PlaceInv /\ NoneLost
  /\ \A p \in DOMAIN expect : Exists(disk, p) /\ At(disk, p) = expect[p]
  /\ Filling => SoFar /\ Spot \notin DOMAIN expect
=============================================================================
