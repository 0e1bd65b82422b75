---------------------------- MODULE UnpackProofs ----------------------------
(***************************************************************************)
(* Nothing outside of the directory that is unpacked into changes, for     *)
(* every archive, every file system and every set of options.              *)
(***************************************************************************)
EXTENDS UnpackInvariants, NaturalFacts

-----------------------------------------------------------------------------
(* What the calls of a file system keep: where paths lead, which names     *)
(* there are, and what is under them.                                      *)

-----------------------------------------------------------------------------
(* Walks.                                                                  *)

Walks == [at : Seq(Name), parts : Seq(Name)] \cup {None}
First(path) == [at |-> <<>>, parts |-> path]

LEMMA FollowType ==
  ASSUME NEW fs, Disk(fs), NEW walk \in Walks
  PROVE  Follow(fs, walk) \in Walks
<1> SUFFICES ASSUME walk # None, walk.parts # <<>>
             PROVE  Enter(fs, walk.at, walk.parts) \in Walks
  BY DEF Follow, Walks
<1> DEFINE at == walk.at
           here == Append(at, Head(walk.parts))
           link == At(fs, here).target
<1>1. at \in Seq(Name) /\ walk.parts \in Seq(Name)
  BY DEF Walks
<1>2. Head(walk.parts) \in Name /\ Tail(walk.parts) \in Seq(Name) /\ here \in Seq(Name)
  BY <1>1, HeadTailProperties, AppendProperties
<1>3. at # <<>> => Front(at) \in Seq(Name)
  BY <1>1 DEF Front
<1>4. Exists(fs, here) /\ At(fs, here).kind = "link" =>
        link \in Path /\ link.parts \o Tail(walk.parts) \in Seq(Name)
  <2> SUFFICES ASSUME Exists(fs, here), At(fs, here).kind = "link"
               PROVE  link \in Path /\ link.parts \o Tail(walk.parts) \in Seq(Name)
    OBVIOUS
  <2>1. fs.names[here] \in DOMAIN fs.inodes
    BY DEF Disk, Exists
  <2>2. link \in Path
    BY <2>1, SMTT(30) DEF Disk, At, InodeType
  <2>3. link.parts \in Seq(Name)
    BY <2>2 DEF Path
  <2> QED BY <2>2, <2>3, <1>2
<1>5. Enter(fs, at, walk.parts) =
        IF Head(walk.parts) = "." THEN [at |-> at, parts |-> Tail(walk.parts)]
        ELSE IF Head(walk.parts) = ".."
        THEN [at |-> IF at = <<>> THEN at ELSE Front(at), parts |-> Tail(walk.parts)]
        ELSE IF ~Exists(fs, here) THEN None
        ELSE IF At(fs, here).kind # "link" THEN [at |-> here, parts |-> Tail(walk.parts)]
        ELSE [at |-> IF link.root THEN <<>> ELSE at, parts |-> link.parts \o Tail(walk.parts)]
  BY DEF Enter
<1>6. <<>> \in Seq(Name)
  OBVIOUS
<1> HIDE DEF here, link
<1>7. CASE Head(walk.parts) = "."
  BY <1>7, <1>1, <1>2, <1>5 DEF Walks
<1>8. CASE Head(walk.parts) # "." /\ Head(walk.parts) = ".."
  BY <1>8, <1>1, <1>2, <1>3, <1>5, <1>6 DEF Walks
<1>9. CASE Head(walk.parts) \notin {".", ".."} /\ ~Exists(fs, here)
  BY <1>9, <1>5 DEF Walks
<1>10. CASE /\ Head(walk.parts) \notin {".", ".."} /\ Exists(fs, here)
            /\ At(fs, here).kind # "link"
  BY <1>10, <1>1, <1>2, <1>5 DEF Walks
<1>11. CASE /\ Head(walk.parts) \notin {".", ".."} /\ Exists(fs, here)
            /\ At(fs, here).kind = "link"
  <2>1. PICK to \in Seq(Name) : to = IF link.root THEN <<>> ELSE at
    BY <1>1, <1>6
  <2>2. PICK more \in Seq(Name) : more = link.parts \o Tail(walk.parts)
    BY <1>4, <1>11
  <2>3. Enter(fs, at, walk.parts) = [at |-> to, parts |-> more]
    BY <1>5, <1>11, <2>1, <2>2
  <2> QED BY <2>3 DEF Walks
<1> QED BY <1>7, <1>8, <1>9, <1>10, <1>11

\* The recursive function of Walk is one that satisfies its equation.
LEMMA WalkSteps ==
  ASSUME NEW fs, Disk(fs), NEW path \in Seq(Name)
  PROVE  \E after \in [0..MaxLookups -> Walks] :
           /\ after[0] = First(path)
           /\ \A n \in 1..MaxLookups : after[n] = Follow(fs, after[n - 1])
           /\ Walk(fs, path) = after[MaxLookups]
<1> DEFINE M == MaxLookups
           body(f) == [n \in 0..M |-> IF n = 0 THEN First(path) ELSE Follow(fs, f[n - 1])]
           step == [n \in 1..M |-> [walk \in Walks |-> Follow(fs, walk)]]
           after == CHOOSE f : f = body(f)
<1>1. M \in Nat
  BY LookupsAssumption
<1>2. step \in [1..M -> [Walks -> Walks]] /\ First(path) \in Walks
  BY FollowType DEF Walks, First
<1> HIDE DEF M, body, step, after
<1>3. PICK f : Iterates(f, Walks, step, First(path), M)
  BY <1>1, <1>2, Iteration
<1>4. f = body(f)
  <2>1. ASSUME NEW n \in 0..M
        PROVE  f[n] = IF n = 0 THEN First(path) ELSE Follow(fs, f[n - 1])
    <3>1. CASE n = 0
      BY <1>3, <3>1 DEF Iterates
    <3>2. CASE n \in 1..M
      <4>1. f[n] = step[n][f[n - 1]] /\ f[n - 1] \in Walks
        BY <1>1, <1>3, <3>2 DEF Iterates
      <4> QED BY <4>1, <3>2 DEF step
    <3> QED BY <3>1, <3>2, <1>1
  <2> QED BY <2>1, <1>3 DEF body, Iterates
<1>5. after = body(after)
  BY <1>4 DEF after
<1>6. Walk(fs, path) = after[M]
  BY DEF Walk, First, after, body, M
<1>7. /\ after[0] = First(path)
      /\ \A n \in 1..M : after[n] = Follow(fs, after[n - 1])
      /\ DOMAIN after = 0..M
  BY <1>1, <1>5 DEF body
<1>8. \A n \in 0..M : after[n] \in Walks
  <2> DEFINE S == {n \in Nat : n <= M => after[n] \in Walks}
  <2>1. 0 \in S
    BY <1>2, <1>7
  <2>2. ASSUME NEW n \in Nat, n \in S
        PROVE  n + 1 \in S
    <3>1. CASE n + 1 <= M
      <4>1. after[n + 1] = Follow(fs, after[n]) /\ after[n] \in Walks
        BY <1>1, <1>7, <2>2, <3>1
      <4> QED BY <4>1, FollowType
    <3> QED BY <3>1
  <2>3. \A n \in Nat : n \in S => n + 1 \in S
    BY <2>2
  <2> HIDE DEF S
  <2>4. Nat \subseteq S
    BY <2>1, <2>3, Induction
  <2> QED BY <1>1, <2>4 DEF S
<1>9. after \in [0..M -> Walks]
  BY <1>5, <1>8 DEF body
<1> QED BY <1>6, <1>7, <1>9 DEF M

\* Where a path leads is a real path.
LEMMA CanonicalType ==
  ASSUME NEW fs, Disk(fs), NEW path \in Seq(Name), Canonical(fs, path) # None
  PROVE  Canonical(fs, path) \in Seq(Name)
<1>1. Walk(fs, path) \in Walks
  BY WalkSteps, LookupsAssumption
<1> QED BY <1>1 DEF Canonical, Reached, Walks

\* What is in the one file system is in the other: its names with what they are, where they
\* lead, and what can be searched.
Within(fs, other) ==
  \A p \in DOMAIN fs.names :
    /\ p \in DOMAIN other.names
    /\ At(other, p).kind = At(fs, p).kind
    /\ At(fs, p).kind = "link" => At(other, p).target = At(fs, p).target
    /\ At(fs, p).kind = "dir" /\ "x" \in At(fs, p).mode => "x" \in At(other, p).mode

\* A step that is taken in the one is taken in the other.
LEMMA FollowWithin ==
  ASSUME NEW fs, NEW other, Within(fs, other), NEW walk, walk # None, Follow(fs, walk) # None
  PROVE  Follow(other, walk) = Follow(fs, walk)
<1>1. CASE walk.parts = <<>>
  BY <1>1 DEF Follow
<1>2. CASE walk.parts # <<>>
  <2>1. Searchable(fs, walk.at) /\ Enter(fs, walk.at, walk.parts) # None
    BY <1>2 DEF Follow
  <2>2. Searchable(other, walk.at)
    BY <2>1 DEF Searchable, IsDir, Exists, Within
  <2> DEFINE here == Append(walk.at, Head(walk.parts))
  <2>3. CASE Head(walk.parts) \in {".", ".."}
    <3>1. Enter(fs, walk.at, walk.parts) = Enter(other, walk.at, walk.parts)
      BY <2>3 DEF Enter
    <3> QED BY <3>1, <1>2, <2>1, <2>2 DEF Follow
  <2>4. CASE Head(walk.parts) \notin {".", ".."}
    <3>1. here \in DOMAIN fs.names
      BY <2>1, <2>4 DEF Enter, Exists
    <3>2. /\ here \in DOMAIN other.names
          /\ At(other, here).kind = At(fs, here).kind
          /\ At(fs, here).kind = "link" => At(other, here).target = At(fs, here).target
      BY <3>1 DEF Within
    <3>3. Enter(fs, walk.at, walk.parts) = Enter(other, walk.at, walk.parts)
      BY <2>4, <3>1, <3>2 DEF Enter, Exists
    <3> QED BY <3>3, <1>2, <2>1, <2>2 DEF Follow
  <2> QED BY <2>3, <2>4
<1> QED BY <1>1, <1>2

\* A path that leads somewhere leads there still when there is more.
LEMMA CanonicalWithin ==
  ASSUME NEW fs, Disk(fs), NEW other, Disk(other), Within(fs, other),
         NEW path \in Seq(Name), Canonical(fs, path) # None
  PROVE  Canonical(other, path) = Canonical(fs, path)
<1> DEFINE M == MaxLookups
<1>1. PICK a \in [0..M -> Walks] :
        /\ a[0] = First(path) /\ Walk(fs, path) = a[M]
        /\ \A n \in 1..M : a[n] = Follow(fs, a[n - 1])
  BY WalkSteps
<1>2. PICK b \in [0..M -> Walks] :
        /\ b[0] = First(path) /\ Walk(other, path) = b[M]
        /\ \A n \in 1..M : b[n] = Follow(other, b[n - 1])
  BY WalkSteps
<1>3. M \in Nat
  BY LookupsAssumption
<1> DEFINE S == {n \in Nat : n <= M /\ a[n] # None => b[n] = a[n]}
<1>4. 0 \in S
  BY <1>1, <1>2
<1>5. ASSUME NEW n \in Nat, n \in S
      PROVE  n + 1 \in S
  <2> SUFFICES ASSUME n + 1 <= M, a[n + 1] # None
               PROVE  b[n + 1] = a[n + 1]
    OBVIOUS
  <2>1. a[n + 1] = Follow(fs, a[n]) /\ b[n + 1] = Follow(other, b[n])
    BY <1>1, <1>2, <1>3
  <2>2. a[n] # None
    BY <2>1 DEF Follow
  <2>3. b[n] = a[n]
    BY <1>5, <2>2, <1>3
  <2> QED BY <2>1, <2>2, <2>3, FollowWithin
<1>6. M \in S
  <2>1. \A n \in Nat : n \in S => n + 1 \in S
    BY <1>5
  <2> HIDE DEF S
  <2> QED BY <1>3, <1>4, <2>1, Induction
<1>7. a[M] # None
  BY <1>1 DEF Canonical, Reached
<1>8. b[M] = a[M]
  BY <1>3, <1>6, <1>7
<1> QED BY <1>1, <1>2, <1>8 DEF Canonical

-----------------------------------------------------------------------------
(* Places.                                                                 *)

\* A place is a name in a directory that can be searched.
LEMMA PlaceIs ==
  ASSUME NEW fs, Disk(fs), NEW path \in Seq(Name), path # <<>>, Place(fs, path) # None
  PROVE  /\ Place(fs, path) = Append(Canonical(fs, Front(path)), Last(path))
         /\ Canonical(fs, Front(path)) # None
         /\ Canonical(fs, Front(path)) \in Seq(Name)
         /\ Place(fs, path) \in Seq(Name) /\ Place(fs, path) # <<>>
<1>1. /\ Place(fs, path) = Append(Canonical(fs, Front(path)), Last(path))
      /\ Canonical(fs, Front(path)) # None
  BY DEF Place
<1>2. Front(path) \in Seq(Name) /\ Last(path) \in Name
  <2>1. Len(path) \in 1..Len(path)
    BY LenProperties, EmptySeq
  <2> QED BY <2>1, FrontProperties, ElementOfSeq DEF Last
<1>3. Canonical(fs, Front(path)) \in Seq(Name)
  BY <1>1, <1>2, CanonicalType
<1> QED BY <1>1, <1>2, <1>3, AppendProperties

\* A place stays where it is when there is more.
LEMMA PlaceWithin ==
  ASSUME NEW fs, Disk(fs), NEW other, Disk(other), Within(fs, other),
         NEW path \in Seq(Name), path # <<>>, Place(fs, path) # None
  PROVE  Place(other, path) = Place(fs, path)
<1>1. /\ Canonical(fs, Front(path)) # None
      /\ Searchable(fs, Canonical(fs, Front(path)))
  BY DEF Place
<1>2. Front(path) \in Seq(Name)
  BY FrontProperties
<1>3. Canonical(other, Front(path)) = Canonical(fs, Front(path))
  BY <1>1, <1>2, CanonicalWithin
<1>4. Searchable(other, Canonical(fs, Front(path)))
  BY <1>1 DEF Searchable, IsDir, Exists, Within
<1> QED BY <1>1, <1>3, <1>4 DEF Place

-----------------------------------------------------------------------------
(* Calls.                                                                  *)

\* What is named is in the table of inodes.
LEMMA AtType ==
  ASSUME NEW fs, Disk(fs), NEW p \in DOMAIN fs.names
  PROVE  fs.names[p] \in 1..Len(fs.inodes) /\ At(fs, p) \in InodeType
BY DEF Disk, At

\* A name for a new inode.
LEMMA CreatedKeeps ==
  ASSUME NEW fs, Disk(fs), NEW place \in Seq(Name), place \notin DOMAIN fs.names,
         NEW inode \in InodeType
  PROVE  LET new == Created(fs, place, inode) IN
         /\ Disk(new) /\ DOMAIN new.names = DOMAIN fs.names \cup {place}
         /\ Len(new.inodes) = Len(fs.inodes) + 1 /\ Len(fs.inodes) \in Nat
         /\ new.names[place] = Len(fs.inodes) + 1 /\ At(new, place) = inode
         /\ \A p \in DOMAIN fs.names : /\ new.names[p] = fs.names[p] /\ At(new, p) = At(fs, p)
                                       /\ new.names[p] <= Len(fs.inodes)
         /\ \A i \in DOMAIN fs.inodes : new.inodes[i] = fs.inodes[i]
         /\ Within(fs, new)
         /\ DirsOnce(fs) => DirsOnce(new)
<1> DEFINE new == Created(fs, place, inode)
           N == Len(fs.inodes)
<1>1. fs.inodes \in Seq(InodeType) /\ N \in Nat
  BY LenProperties DEF Disk
<1>2. /\ new.inodes \in Seq(InodeType) /\ Len(new.inodes) = N + 1
      /\ new.inodes[N + 1] = inode /\ \A i \in 1..N : new.inodes[i] = fs.inodes[i]
  BY <1>1, AppendProperties DEF Created
<1>3. /\ DOMAIN new.names = DOMAIN fs.names \cup {place} /\ new.names[place] = N + 1
      /\ \A p \in DOMAIN fs.names : new.names[p] = fs.names[p]
  BY DEF Created, Named
<1>4. \A p \in DOMAIN fs.names : fs.names[p] \in 1..N
  BY AtType
<1>5. new.names \in [DOMAIN new.names -> DOMAIN new.inodes]
  <2>1. DOMAIN new.inodes = 1..(N + 1)
    BY <1>2, LenProperties
  <2>2. \A p \in DOMAIN new.names : new.names[p] \in DOMAIN new.inodes
    BY <2>1, <1>1, <1>3, <1>4
  <2>3. new.names = [p \in DOMAIN new.names |-> new.names[p]]
    BY DEF Created, Named
  <2> HIDE DEF new
  <2> QED BY <2>2, <2>3
<1> HIDE DEF new, N
<1>6. Disk(new)
  BY <1>2, <1>3, <1>5 DEF Disk
<1>7. \A p \in DOMAIN fs.names : At(new, p) = At(fs, p)
  BY <1>2, <1>3, <1>4 DEF At
<1>8. At(new, place) = inode
  BY <1>2, <1>3 DEF At
<1>9. Within(fs, new)
  BY <1>3, <1>7 DEF Within
<1>10. DirsOnce(fs) => DirsOnce(new)
  <2>1. \A p \in DOMAIN fs.names : new.names[p] # N + 1
    BY <1>1, <1>3, <1>4
  <2> QED BY <2>1, <1>3, <1>7 DEF DirsOnce
<1>11. DOMAIN fs.inodes = 1..N
  BY <1>1, LenProperties DEF N
<1>12. \A p \in DOMAIN fs.names : new.names[p] <= N
  BY <1>1, <1>3, <1>4
<1> QED BY <1>1, <1>2, <1>3, <1>6, <1>7, <1>8, <1>9, <1>10, <1>11, <1>12 DEF new, N

\* A name for an inode that is there and is no directory.
LEMMA NamedKeeps ==
  ASSUME NEW fs, Disk(fs), NEW place \in Seq(Name), place \notin DOMAIN fs.names,
         NEW ino \in DOMAIN fs.inodes, fs.inodes[ino].kind # "dir"
  PROVE  LET new == Named(fs, place, ino) IN
         /\ Disk(new) /\ DOMAIN new.names = DOMAIN fs.names \cup {place}
         /\ new.inodes = fs.inodes /\ new.names[place] = ino
         /\ \A p \in DOMAIN fs.names : new.names[p] = fs.names[p] /\ At(new, p) = At(fs, p)
         /\ At(new, place) = fs.inodes[ino]
         /\ DirsOnce(fs) => DirsOnce(new)
<1> DEFINE new == Named(fs, place, ino)
<1>1. /\ DOMAIN new.names = DOMAIN fs.names \cup {place}
      /\ new.inodes = fs.inodes /\ new.names[place] = ino
      /\ \A p \in DOMAIN fs.names : new.names[p] = fs.names[p]
      /\ new.names = [p \in DOMAIN new.names |-> new.names[p]]
  BY DEF Named
<1> HIDE DEF new
<1>2. \A p \in DOMAIN fs.names : fs.names[p] \in DOMAIN fs.inodes
  BY DEF Disk
<1>3. \A p \in DOMAIN new.names : new.names[p] \in DOMAIN new.inodes
  BY <1>1, <1>2
<1>4. new.names \in [DOMAIN new.names -> DOMAIN new.inodes]
  BY <1>1, <1>3
<1>5. Disk(new)
  BY <1>1, <1>4 DEF Disk
<1>6. /\ \A p \in DOMAIN fs.names : At(new, p) = At(fs, p)
      /\ At(new, place) = fs.inodes[ino]
  BY <1>1 DEF At
<1>7. DirsOnce(fs) => DirsOnce(new)
  <2> SUFFICES ASSUME DirsOnce(fs), NEW p \in DOMAIN new.names, NEW q \in DOMAIN new.names,
                      new.names[p] = new.names[q], At(new, p).kind = "dir"
               PROVE  p = q
    BY DEF DirsOnce
  <2>1. p # place /\ At(new, q) = At(new, p)
    BY <1>6 DEF At
  <2>2. q # place
    BY <1>6, <2>1
  <2> QED BY <1>1, <1>6, <2>1, <2>2 DEF DirsOnce
<1> QED BY <1>1, <1>5, <1>6, <1>7 DEF new

LEMMA RemovedKeeps ==
  ASSUME NEW fs, Disk(fs), NEW place
  PROVE  LET new == Removed(fs, place) IN
         /\ Disk(new) /\ DOMAIN new.names = DOMAIN fs.names \ {place} /\ new.inodes = fs.inodes
         /\ \A p \in DOMAIN new.names : new.names[p] = fs.names[p] /\ At(new, p) = At(fs, p)
         /\ Within(new, fs)
         /\ DirsOnce(fs) => DirsOnce(new)
<1> DEFINE new == Removed(fs, place)
<1>1. /\ DOMAIN new.names = DOMAIN fs.names \ {place} /\ new.inodes = fs.inodes
      /\ \A p \in DOMAIN new.names : new.names[p] = fs.names[p]
      /\ new.names = [p \in DOMAIN new.names |-> new.names[p]]
  BY DEF Removed
<1> HIDE DEF new
<1>2. \A p \in DOMAIN new.names : new.names[p] \in DOMAIN new.inodes
  BY <1>1 DEF Disk
<1>3. new.names \in [DOMAIN new.names -> DOMAIN new.inodes]
  BY <1>1, <1>2
<1>4. Disk(new)
  BY <1>1, <1>3 DEF Disk
<1>5. \A p \in DOMAIN new.names : At(new, p) = At(fs, p)
  BY <1>1 DEF At
<1> QED BY <1>1, <1>4, <1>5 DEF new, Within, DirsOnce

\* Another inode of the same kind under a number.
LEMMA ChangedKeeps ==
  ASSUME NEW fs, Disk(fs), NEW ino \in DOMAIN fs.inodes, NEW inode \in InodeType,
         inode.kind = fs.inodes[ino].kind
  PROVE  LET new == Changed(fs, ino, inode) IN
         /\ Disk(new) /\ new.names = fs.names /\ Len(new.inodes) = Len(fs.inodes)
         /\ DOMAIN new.inodes = DOMAIN fs.inodes
         /\ new.inodes[ino] = inode
         /\ \A i \in DOMAIN fs.inodes \ {ino} : new.inodes[i] = fs.inodes[i]
         /\ \A p \in DOMAIN fs.names :
              At(new, p) = IF fs.names[p] = ino THEN inode ELSE At(fs, p)
         /\ DirsOnce(fs) => DirsOnce(new)
         /\ /\ inode.target = fs.inodes[ino].target
            /\ inode.mode = fs.inodes[ino].mode \/ inode.kind # "dir"
            => Within(fs, new)
<1> DEFINE new == Changed(fs, ino, inode)
<1>1. fs.inodes \in Seq(InodeType)
  BY DEF Disk
<1>2. /\ new.names = fs.names /\ new.inodes \in Seq(InodeType)
      /\ Len(new.inodes) = Len(fs.inodes) /\ DOMAIN new.inodes = DOMAIN fs.inodes
      /\ new.inodes[ino] = inode
      /\ \A i \in DOMAIN fs.inodes \ {ino} : new.inodes[i] = fs.inodes[i]
  BY <1>1, ExceptSeq DEF Changed
<1> HIDE DEF new
<1>3. Disk(new)
  BY <1>2 DEF Disk
<1>4. ASSUME NEW p \in DOMAIN fs.names
      PROVE  /\ At(new, p) = IF fs.names[p] = ino THEN inode ELSE At(fs, p)
             /\ At(new, p).kind = At(fs, p).kind
  <2>1. fs.names[p] \in DOMAIN fs.inodes
    BY DEF Disk
  <2> QED BY <1>2, <2>1 DEF At
<1>5. DirsOnce(fs) => DirsOnce(new)
  BY <1>2, <1>4 DEF DirsOnce
<1>6. ASSUME inode.target = fs.inodes[ino].target,
             inode.mode = fs.inodes[ino].mode \/ inode.kind # "dir"
      PROVE  Within(fs, new)
  <2>1. ASSUME NEW p \in DOMAIN fs.names
        PROVE  /\ At(new, p).target = At(fs, p).target
               /\ At(new, p).mode = At(fs, p).mode \/ At(new, p).kind # "dir"
    BY <1>4, <1>6 DEF At
  <2> QED BY <1>2, <1>4, <2>1 DEF Within
<1> QED BY <1>2, <1>3, <1>4, <1>5, <1>6 DEF new

-----------------------------------------------------------------------------
(* Paths.                                                                  *)

\* The names of a path, without those that stand for the same directory.
LEMMA NormalType ==
  ASSUME NEW path \in Path
  PROVE  Normal(path) \in Seq(Name)
<1> DEFINE part(i) == IF path.parts[i] = "." THEN <<>> ELSE <<path.parts[i]>>
           S == Seq(Name)
<1>1. path.parts \in Seq(Name)
  BY DEF Path
<1>2. \A i \in 1..Len(path.parts) : part(i) \in S
  <2> TAKE i \in 1..Len(path.parts)
  <2>1. path.parts[i] \in Name
    BY <1>1, ElementOfSeq
  <2> QED BY <2>1
<1>3. DOMAIN path.parts = 1..Len(path.parts) /\ Len(path.parts) \in Nat
  BY <1>1, LenProperties
<1>4. Normal(path) = FlattenSeq([i \in 1..Len(path.parts) |-> part(i)])
  BY <1>3 DEF Normal
<1> HIDE DEF part, S
<1>5. [i \in 1..Len(path.parts) |-> part(i)] \in Seq(S)
  BY <1>2, <1>3, IsASeq
<1> QED BY <1>4, <1>5, FlattenLast DEF S

LEMMA InsideAppend ==
  ASSUME NEW path \in Seq(Name), Inside(path), NEW name \in Name
  PROVE  Inside(Append(path, name))
BY PlacesAssumption, PrefixAppend DEF Inside

\* What the entry is and where it goes.
LEMMA EntryType ==
  ASSUME TypeOK, Working
  PROVE  /\ E \in Entry /\ options \in Option
         /\ Normal(E.path) \in Seq(Name) /\ FileDst \in Seq(Name)
         /\ Normal(E.path) # <<>> => FileDst # <<>> /\ Parent \in Seq(Name)
<1>1. E \in Members
  BY DEF TypeOK, E
<1>2. E \in Entry /\ options \in Option
  BY <1>1, ArchiveAssumption DEF TypeOK
<1>3. Normal(E.path) \in Seq(Name)
  <2>1. E.path \in Path
    BY <1>2 DEF Entry
  <2> QED BY <2>1, NormalType
<1>4. FileDst \in Seq(Name) /\ Len(FileDst) = Len(Dst) + Len(Normal(E.path))
  BY <1>3, PlacesAssumption, ConcatProperties DEF FileDst
<1>5. ASSUME Normal(E.path) # <<>>
      PROVE  FileDst # <<>> /\ Parent \in Seq(Name)
  <2>1. Len(Dst) \in Nat /\ Len(Normal(E.path)) \in Nat \ {0}
    BY <1>3, <1>5, PlacesAssumption, LenProperties, EmptySeq
  <2>2. FileDst # <<>>
    BY <1>4, <2>1, EmptySeq
  <2> QED BY <1>4, <2>2, FrontProperties DEF Parent
<1> QED BY <1>2, <1>3, <1>4, <1>5

\* The place of the entry is inside when the directory it goes into is.
LEMMA SpotInside ==
  ASSUME TypeOK, Working, Normal(E.path) # <<>>, ParentInside, Spot # None
  PROVE  /\ Spot \in Seq(Name) /\ Spot # <<>> /\ Inside(Spot)
<1>1. FileDst \in Seq(Name) /\ FileDst # <<>> /\ Disk(disk)
  BY EntryType DEF TypeOK
<1>2. /\ Spot = Append(Canonical(disk, Parent), Last(FileDst))
      /\ Canonical(disk, Parent) # None
      /\ Canonical(disk, Parent) \in Seq(Name)
      /\ Spot \in Seq(Name) /\ Spot # <<>>
  BY <1>1, PlaceIs DEF Spot, Parent
<1>3. Last(FileDst) \in Name
  BY <1>1, LastType
<1>4. Inside(Canonical(disk, Parent))
  BY <1>2 DEF ParentInside
<1> QED BY <1>2, <1>3, <1>4, InsideAppend

-----------------------------------------------------------------------------
(* What is outside.                                                        *)

LEMMA OutsideCreated ==
  ASSUME TypeOK, SameOutside, UNCHANGED world, NEW inode \in InodeType,
         NEW place \in Seq(Name), place \notin DOMAIN disk.names, Inside(place),
         disk' = Created(disk, place, inode)
  PROVE  SameOutside'
<1>1. /\ DOMAIN disk'.names = DOMAIN disk.names \cup {place}
      /\ Len(disk'.inodes) = Len(disk.inodes) + 1 /\ Len(disk.inodes) \in Nat
      /\ \A p \in DOMAIN disk.names : disk'.names[p] = disk.names[p] /\ At(disk', p) = At(disk, p)
  BY CreatedKeeps DEF TypeOK
<1>2. Len(world.inodes) \in Nat
  BY PlacesAssumption, LenProperties DEF TypeOK, Disk
<1> QED BY <1>1, <1>2 DEF SameOutside, Exists

LEMMA OutsideChanged ==
  ASSUME TypeOK, SameOutside, UNCHANGED world,
         NEW ino \in DOMAIN disk.inodes, NEW inode \in InodeType,
         inode.kind = disk.inodes[ino].kind,
         \A p \in DOMAIN disk.names : disk.names[p] = ino => Inside(p),
         disk' = Changed(disk, ino, inode)
  PROVE  SameOutside'
<1>1. /\ disk'.names = disk.names /\ Len(disk'.inodes) = Len(disk.inodes)
      /\ \A p \in DOMAIN disk.names :
           At(disk', p) = IF disk.names[p] = ino THEN inode ELSE At(disk, p)
  BY ChangedKeeps DEF TypeOK
<1> QED BY <1>1 DEF SameOutside, Exists

\* The inode that is being filled has no name but the one of the entry, which is inside.
LEMMA TargetInside ==
  ASSUME TypeOK, DirsOnce(disk), GoesInside, Filling
  PROVE  /\ Target \in DOMAIN disk.inodes /\ disk.inodes[Target] = At(disk, Spot)
         /\ Spot \in DOMAIN disk.names /\ Target = disk.names[Spot]
         /\ \A p \in DOMAIN disk.names : disk.names[p] = Target => p = Spot /\ Inside(p)
<1>1. /\ Inside(Spot) /\ Spot \in DOMAIN disk.names /\ Target = disk.names[Spot]
      /\ MakesDir(E) <=> At(disk, Spot).kind = "dir"
      /\ ~MakesDir(E) => \A p \in DOMAIN disk.names : disk.names[p] = open.ino => p = Spot
  BY DEF GoesInside, Exists
<1>2. Target \in DOMAIN disk.inodes /\ disk.inodes[Target] = At(disk, Spot)
  BY <1>1 DEF TypeOK, Disk, At
<1>3. ASSUME NEW p \in DOMAIN disk.names, disk.names[p] = Target
      PROVE  p = Spot
  <2>1. CASE MakesDir(E)
    BY <1>1, <1>3, <2>1 DEF DirsOnce
  <2>2. CASE ~MakesDir(E)
    BY <1>1, <1>3, <2>2 DEF Target
  <2> QED BY <2>1, <2>2
<1> QED BY <1>1, <1>2, <1>3

-----------------------------------------------------------------------------
(* Steps.                                                                   *)

LEMMA InodeIs ==
  ASSUME NEW kind \in {"dir", "file"}, NEW mode \in SUBSET Bit
  PROVE  Inode(kind, mode) \in InodeType /\ Inode(kind, mode).kind = kind
<1>1. <<>> \in Seq(Nat) /\ 0 \in Nat
  OBVIOUS
<1> QED BY <1>1 DEF Inode, InodeType

LEMMA LinkIs ==
  ASSUME NEW path \in Path
  PROVE  LET link == [Inode("link", {}) EXCEPT !.target = path] IN
         /\ link \in InodeType /\ link.kind = "link" /\ link.data = <<>> /\ link.mtime = 0
         /\ link.mode = {} /\ link.target = path
<1> DEFINE plain == Inode("link", {})
           link  == [plain EXCEPT !.target = path]
<1>1. plain \in [kind : {"link"}, mode : SUBSET Bit, data : Seq(Nat), target : {None}, mtime : Nat,
                 owner : Nat]
  <2>1. <<>> \in Seq(Nat) /\ 0 \in Nat /\ {} \in SUBSET Bit
    OBVIOUS
  <2> QED BY <2>1 DEF Inode
<1> HIDE DEF plain
<1>2. link \in InodeType /\ link.kind = "link"
  BY <1>1 DEF InodeType
<1>3. plain.data = <<>> /\ plain.mtime = 0 /\ plain.mode = {}
  BY DEF plain, Inode
<1>4. link.data = <<>> /\ link.mtime = 0 /\ link.mode = {} /\ link.target = path
  BY <1>1, <1>3
<1> QED BY <1>2, <1>4 DEF plain

\* Steps after which nothing is being unpacked.
LEMMA Quiet ==
  ASSUME PlaceInv, UNCHANGED <<world, disk>>, TypeOK', pc' \in {"entry", "path", "done", "error"}
  PROVE  PlaceInv'
<1>1. GoesInside'
  BY DEF GoesInside, Working, Filling
<1> QED BY <1>1 DEF PlaceInv, SameOutside, DirsOnce, At, Exists

\* The entry is made where nothing was.
LEMMA CreatedFills ==
  ASSUME PlaceInv, pc = "place", CanCreate(disk, FileDst), NEW inode \in InodeType,
         MakesDir(E) <=> inode.kind = "dir", disk' = Created(disk, Spot, inode), Same,
         open' = IF MakesDir(E) THEN open ELSE [ino |-> Len(disk.inodes) + 1, pieces |-> 0],
         pc' = IF E.type = "file" /\ ~OldDir(E) THEN "data" ELSE "owner",
         UNCHANGED unpacked
  PROVE  /\ PlaceInv' /\ E' = E /\ Spot' = Spot /\ Spot \notin DOMAIN disk.names
         /\ disk'.inodes[Target'] = inode
         /\ \A p \in DOMAIN disk.names : p \in DOMAIN disk'.names /\ At(disk', p) = At(disk, p)
<1>1. /\ TypeOK /\ DirsOnce(disk) /\ SameOutside /\ ParentInside /\ Working
      /\ Normal(E.path) # <<>> /\ Disk(disk)
  BY DEF PlaceInv, GoesInside, Working, TypeOK
<1>2. /\ Spot # None /\ Spot \notin DOMAIN disk.names
  BY DEF CanCreate, Spot, Exists
<1>3. Spot \in Seq(Name) /\ Spot # <<>> /\ Inside(Spot)
  BY <1>1, <1>2, SpotInside
<1>4. /\ Disk(disk') /\ DOMAIN disk'.names = DOMAIN disk.names \cup {Spot}
      /\ Len(disk.inodes) \in Nat
      /\ disk'.names[Spot] = Len(disk.inodes) + 1 /\ At(disk', Spot) = inode
      /\ \A p \in DOMAIN disk.names : disk'.names[p] <= Len(disk.inodes) /\ At(disk', p) = At(disk, p)
      /\ \A p \in DOMAIN disk.names : disk'.names[p] \in Nat
      /\ Within(disk, disk') /\ DirsOnce(disk')
  <2>1. \A p \in DOMAIN disk.names : disk.names[p] \in Nat
    BY <1>1, AtType
  <2> QED BY <1>1, <1>2, <1>3, <2>1, CreatedKeeps
<1>5. SameOutside'
  BY <1>1, <1>2, <1>3, OutsideCreated DEF Same, Fixed
<1>6. E' = E /\ FileDst' = FileDst
  BY DEF Same, E, FileDst
<1>7. Spot' = Spot
  <2>1. FileDst \in Seq(Name) /\ FileDst # <<>>
    BY <1>1, EntryType
  <2> QED BY <1>1, <1>2, <1>4, <1>6, <2>1, PlaceWithin DEF Spot
<1>8. TypeOK'
  BY <1>1, <1>4 DEF TypeOK, Same, Fixed, Working
<1>9. Len(world.inodes) \in Nat /\ Len(world.inodes) <= Len(disk.inodes)
  BY <1>1, PlacesAssumption, LenProperties DEF TypeOK, Disk, SameOutside
<1>10. Target' = disk'.names[Spot]
  BY <1>4, <1>6, <1>7 DEF Target, MakesDir, OldDir
<1>11. GoesInside'
  <2>2. ~MakesDir(E) =>
          /\ open' = [ino |-> Len(disk.inodes) + 1, pieces |-> 0]
          /\ open' \in [ino : Nat, pieces : Nat]
    BY <1>4
  <2>3. ~MakesDir(E) => /\ Len(world'.inodes) < open'.ino
                        /\ \A p \in DOMAIN disk'.names : disk'.names[p] = open'.ino => p = Spot
    BY <2>2, <1>4, <1>9 DEF Same, Fixed
  <2> QED BY <1>1, <1>2, <1>3, <1>4, <1>6, <1>7, <1>10, <2>2, <2>3
          DEF GoesInside, Working, Filling, Exists, MakesDir, OldDir, Normal
<1>12. disk'.inodes[Target'] = inode
  BY <1>4, <1>10 DEF At
<1> QED BY <1>2, <1>4, <1>5, <1>6, <1>7, <1>8, <1>11, <1>12 DEF PlaceInv

\* The inode of the entry changes.
LEMMA ChangedFills ==
  ASSUME PlaceInv, Filling, NEW inode \in InodeType, inode.kind = disk.inodes[Target].kind,
         disk' = Changed(disk, Target, inode), Same,
         open' = open \/ (pc = "data" /\ open' = [open EXCEPT !.pieces = @ + 1]),
         pc' \in {"data", "owner", "mode", "entry", "error"}, pc' = "data" => pc = "data",
         pc' \in {"data", "owner", "mode"} =>
           /\ inode.target = disk.inodes[Target].target
           /\ inode.mode = disk.inodes[Target].mode \/ ~MakesDir(E),
         unpacked' \in {unpacked, unpacked \cup {current}}
  PROVE  /\ PlaceInv' /\ E' = E /\ Spot \in DOMAIN disk.names /\ disk'.names = disk.names
         /\ disk'.inodes[Target] = inode /\ At(disk', Spot) = inode
         /\ \A p \in DOMAIN disk.names \ {Spot} : At(disk', p) = At(disk, p)
         /\ pc' \in {"data", "owner", "mode"} => Spot' = Spot /\ Target' = Target
<1>1. /\ TypeOK /\ DirsOnce(disk) /\ SameOutside /\ GoesInside /\ Working /\ Disk(disk)
      /\ Normal(E.path) # <<>>
  BY DEF PlaceInv, GoesInside, Working, Filling, TypeOK
<1>2. /\ Target \in DOMAIN disk.inodes /\ disk.inodes[Target] = At(disk, Spot)
      /\ Spot \in DOMAIN disk.names /\ Target = disk.names[Spot]
      /\ \A p \in DOMAIN disk.names : disk.names[p] = Target => p = Spot /\ Inside(p)
  BY <1>1, TargetInside
<1>3. /\ Disk(disk') /\ disk'.names = disk.names /\ DirsOnce(disk') /\ disk'.inodes[Target] = inode
      /\ \A p \in DOMAIN disk.names :
           At(disk', p) = IF disk.names[p] = Target THEN inode ELSE At(disk, p)
  BY <1>1, <1>2, ChangedKeeps
<1>4. SameOutside'
  BY <1>1, <1>2, OutsideChanged DEF Same, Fixed
<1>5. E' = E /\ FileDst' = FileDst
  BY DEF Same, E, FileDst
<1>6. /\ Spot # None /\ Inside(Spot) /\ Spot \in DOMAIN disk.names /\ Target = disk.names[Spot]
      /\ MakesDir(E) <=> At(disk, Spot).kind = "dir"
      /\ ~MakesDir(E) => /\ open \in [ino : Nat, pieces : Nat] /\ Len(world.inodes) < open.ino
                         /\ \A p \in DOMAIN disk.names : disk.names[p] = open.ino => p = Spot
      /\ pc = "data" => E.type = "file" /\ ~OldDir(E)
  BY <1>1 DEF GoesInside, Exists
<1>7. /\ open' \in [ino : Nat, pieces : Nat] \cup {None}
      /\ ~MakesDir(E) => open' \in [ino : Nat, pieces : Nat] /\ open'.ino = open.ino
  BY <1>1, <1>6 DEF TypeOK, MakesDir
<1>8. TypeOK'
  BY <1>1, <1>3, <1>7 DEF TypeOK, Same, Fixed, Working
<1>9. ASSUME pc' \in {"data", "owner", "mode"}
      PROVE  GoesInside' /\ Spot' = Spot /\ Target' = Target
  <2>1. Within(disk, disk')
    <3>1. inode.mode = disk.inodes[Target].mode \/ inode.kind # "dir"
      BY <1>2, <1>6, <1>9
    <3> QED BY <1>1, <1>2, <1>9, <3>1, ChangedKeeps
  <2>2. Spot' = Spot
    <3>1. FileDst \in Seq(Name) /\ FileDst # <<>>
      BY <1>1, EntryType
    <3> QED BY <1>1, <1>3, <1>5, <1>6, <2>1, <3>1, PlaceWithin DEF Spot
  <2>3. Target' = Target
    BY <1>3, <1>5, <1>6, <1>7, <2>2 DEF Target, MakesDir, OldDir
  <2>4. At(disk', Spot).kind = At(disk, Spot).kind
    BY <1>2, <1>3, <1>6
  <2> QED BY <1>1, <1>3, <1>5, <1>6, <1>7, <1>9, <2>2, <2>3, <2>4
          DEF GoesInside, Working, Filling, Exists, MakesDir, OldDir, Normal, Same, Fixed
<1>10. ASSUME pc' \notin {"data", "owner", "mode"}
       PROVE  GoesInside'
  BY <1>10 DEF GoesInside, Working, Filling
<1> QED BY <1>2, <1>3, <1>4, <1>5, <1>8, <1>9, <1>10 DEF PlaceInv

LEMMA InitPlaces == Init => PlaceInv
<1> SUFFICES ASSUME Init PROVE PlaceInv
  OBVIOUS
<1>1. Disk(world) /\ DirsOnce(world) /\ disk = world
  BY PlacesAssumption DEF Init
<1>2. Len(world.inodes) \in Nat
  BY <1>1, LenProperties DEF Disk
<1>3. TypeOK
  BY <1>1 DEF TypeOK, Init, Working
<1> QED BY <1>1, <1>2, <1>3
        DEF PlaceInv, Init, SameOutside, GoesInside, Working, Filling, Exists

LEMMA StartKeeps ==
  ASSUME PlaceInv, Start
  PROVE  PlaceInv'
<1>1. CASE Exists(disk, Dst)
  <2>1. UNCHANGED <<world, disk>> /\ TypeOK'
    BY <1>1 DEF Start, Same, Fixed, History, PlaceInv, TypeOK, Working
  <2> QED BY <2>1, Quiet DEF Start
<1>2. CASE ~Exists(disk, Dst)
  <2> DEFINE inode == Inode("dir", {"w", "x"})
  <2>1. inode \in InodeType /\ disk' = Created(disk, Dst, inode)
    BY <1>2, InodeIs DEF Start, Bit
  <2>2. Dst \in Seq(Name) /\ Dst \notin DOMAIN disk.names /\ Inside(Dst) /\ Disk(disk)
    BY <1>2, PlacesAssumption, LenProperties DEF Exists, Inside, IsPrefix, PlaceInv, TypeOK
  <2>3. Disk(disk') /\ DirsOnce(disk')
    BY <2>1, <2>2, CreatedKeeps DEF PlaceInv
  <2>4. SameOutside'
    BY <2>1, <2>2, OutsideCreated DEF Start, Same, Fixed, PlaceInv
  <2>5. TypeOK'
    BY <2>3 DEF Start, Same, Fixed, History, PlaceInv, TypeOK, Working
  <2>6. GoesInside'
    BY DEF Start, GoesInside, Working, Filling
  <2> QED BY <2>3, <2>4, <2>5, <2>6 DEF PlaceInv
<1> QED BY <1>1, <1>2

LEMMA NextEntryKeeps ==
  ASSUME PlaceInv, NEW entry \in Members, NextEntry(entry)
  PROVE  PlaceInv'
<1>1. archive \in Seq(Members) /\ deferred \subseteq DOMAIN archive /\ unpacked \subseteq DOMAIN archive
  BY DEF PlaceInv, TypeOK
<1>2. /\ archive' \in Seq(Members) /\ Len(archive') \in Nat
      /\ DOMAIN archive \cup {Len(archive')} \subseteq DOMAIN archive'
  BY <1>1, AppendProperties, LenProperties DEF NextEntry
<1>3. pc' \in {"entry", "path"} /\ UNCHANGED <<world, disk>>
  BY DEF NextEntry, Fixed
<1>4. /\ deferred' \subseteq DOMAIN archive' /\ unpacked' \subseteq DOMAIN archive'
      /\ current' \in Nat /\ (pc' = "path" => current' \in DOMAIN archive')
  BY <1>1, <1>2 DEF NextEntry, History, PlaceInv, TypeOK
<1>5. TypeOK'
  BY <1>2, <1>3, <1>4 DEF NextEntry, Fixed, History, PlaceInv, TypeOK, Working
<1> QED BY <1>3, <1>5, Quiet

LEMMA NextDirKeeps ==
  ASSUME PlaceInv, NextDir
  PROVE  PlaceInv'
<1>1. PICK i \in deferred : current' = i /\ deferred' = deferred \ {i}
  BY DEF NextDir
<1>2. i \in DOMAIN archive /\ i \in Nat
  BY <1>1, LenProperties DEF PlaceInv, TypeOK
<1>3. TypeOK'
  BY <1>1, <1>2 DEF NextDir, Fixed, History, PlaceInv, TypeOK, Working
<1> QED BY <1>3, Quiet DEF NextDir, Fixed

\* The other steps that leave the file system alone and what is being unpacked.
LEMMA StillKeeps ==
  ASSUME PlaceInv, NoMoreEntries \/ Finish \/ Io \/ PlaceNothing \/ Error
  PROVE  PlaceInv'
<1>1. UNCHANGED <<world, disk, options, archive, deferred, unpacked, current, open>>
  BY DEF NoMoreEntries, Finish, Io, PlaceNothing, Error, Same, Fixed, History, Goto
<1>2. pc' \in {"entry", "done", "error"}
  BY DEF NoMoreEntries, Finish, Io, PlaceNothing, Error, Goto
<1>3. TypeOK'
  BY <1>1, <1>2 DEF PlaceInv, TypeOK, Working
<1> QED BY <1>1, <1>2, <1>3, Quiet

LEMMA CheckPathKeeps ==
  ASSUME PlaceInv, CheckPath
  PROVE  PlaceInv'
<1>1. UNCHANGED <<world, disk, options, archive, deferred, unpacked, current, open>>
  BY DEF CheckPath, Goto, Same, Fixed, History
<1>2. pc' = "entry" \/ (pc' = "ensure" /\ Normal(E.path) # <<>>)
  BY DEF CheckPath, Goto
<1>3. TypeOK'
  BY <1>1, <1>2 DEF PlaceInv, TypeOK, Working, CheckPath
<1>4. CASE pc' = "entry"
  BY <1>1, <1>3, <1>4, Quiet
<1>5. CASE pc' = "ensure" /\ Normal(E.path) # <<>>
  <2>1. Normal(E.path)' = Normal(E.path)
    BY <1>1 DEF Normal, E
  <2>2. GoesInside'
    BY <1>5, <2>1 DEF GoesInside, Working, Filling
  <2> QED BY <1>1, <1>3, <2>2 DEF PlaceInv, SameOutside, DirsOnce, At, Exists
<1> QED BY <1>2, <1>4, <1>5

LEMMA EnsureDirKeeps ==
  ASSUME PlaceInv, EnsureDir
  PROVE  PlaceInv'
<1> DEFINE up(n)   == SubSeq(Parent, 1, n)
           missing == {n \in 1..Len(Parent) : \A m \in n..Len(Parent) : ~Found(disk, up(m))}
           top     == CHOOSE n \in missing : \A m \in missing : n <= m
<1>1. /\ pc = "ensure" /\ Same /\ History /\ UNCHANGED open
      /\ IF missing = {}
         THEN pc' = (IF ValidInside(Parent) THEN "place" ELSE "error") /\ UNCHANGED disk
         ELSE IF ValidInside(up(top - 1)) /\ CanCreate(disk, up(top))
         THEN /\ disk' = Created(disk, Place(disk, up(top)), Inode("dir", {"w", "x"}))
              /\ pc' = pc
         ELSE pc' = "error" /\ UNCHANGED disk
  BY DEF EnsureDir, Goto
<1>2. /\ TypeOK /\ Disk(disk) /\ Working /\ Normal(E.path) # <<>>
  BY <1>1 DEF PlaceInv, TypeOK, Working, GoesInside
<1>3. Parent \in Seq(Name)
  BY <1>2, EntryType
<1> HIDE DEF up, missing, top
<1>4. E' = E /\ FileDst' = FileDst /\ Parent' = Parent /\ Normal(E.path)' = Normal(E.path)
  BY <1>1 DEF Same, E, FileDst, Parent, Normal
<1>5. pc' \in {"place", "error", "ensure"}
  BY <1>1
<1>6. Disk(disk') => TypeOK'
  BY <1>1, <1>2, <1>5 DEF TypeOK, Same, Fixed, History, Working
<1>7. CASE missing = {}
  <2>1. UNCHANGED <<world, disk>>
    BY <1>1, <1>7 DEF Same, Fixed
  <2>2. GoesInside'
    BY <1>1, <1>2, <1>4, <1>7, <2>1
       DEF GoesInside, Working, Filling, ParentInside, ValidInside
  <2> QED BY <1>2, <1>6, <2>1, <2>2 DEF PlaceInv, SameOutside, DirsOnce, At, Exists
<1>8. CASE missing # {} /\ ValidInside(up(top - 1)) /\ CanCreate(disk, up(top))
  <2> DEFINE place == Place(disk, up(top))
             inode == Inode("dir", {"w", "x"})
  <2>1. top \in missing
    <3>1. missing \subseteq Nat
      BY <1>3, LenProperties DEF missing
    <3>2. \E n \in missing : \A m \in missing : n <= m
      BY <1>8, <3>1, LeastExists
    <3> QED BY <3>2 DEF top
  <2>2. /\ up(top) \in Seq(Name) /\ up(top) # <<>> /\ Front(up(top)) = up(top - 1)
    BY <1>3, <2>1, SubSeqFront DEF up, missing
  <2>3. place # None /\ place \notin DOMAIN disk.names
    BY <1>8 DEF CanCreate, Exists
  <2>4. /\ place = Append(Canonical(disk, up(top - 1)), Last(up(top)))
        /\ Canonical(disk, up(top - 1)) \in Seq(Name) /\ place \in Seq(Name)
    BY <1>2, <2>2, <2>3, PlaceIs
  <2>5. Inside(place)
    <3>1. Last(up(top)) \in Name
      BY <2>2, LastType
    <3>2. Inside(Canonical(disk, up(top - 1)))
      BY <1>8 DEF ValidInside
    <3> QED BY <2>4, <3>1, <3>2, InsideAppend
  <2>6. inode \in InodeType
    BY InodeIs DEF Bit
  <2>7. disk' = Created(disk, place, inode) /\ pc' = "ensure"
    BY <1>1, <1>8
  <2> HIDE DEF place, inode
  <2>8. Disk(disk') /\ DirsOnce(disk')
    BY <1>2, <2>3, <2>4, <2>6, <2>7, CreatedKeeps DEF PlaceInv
  <2>9. SameOutside'
    BY <1>1, <2>3, <2>4, <2>5, <2>6, <2>7, OutsideCreated DEF PlaceInv, Same, Fixed
  <2>10. GoesInside'
    BY <1>2, <1>4, <2>7 DEF GoesInside, Working, Filling
  <2> QED BY <1>6, <2>8, <2>9, <2>10 DEF PlaceInv
<1>9. CASE missing # {} /\ ~(ValidInside(up(top - 1)) /\ CanCreate(disk, up(top)))
  <2>1. UNCHANGED <<world, disk>> /\ pc' = "error"
    BY <1>1, <1>9 DEF Same, Fixed
  <2> QED BY <1>2, <1>6, <2>1, Quiet
<1> QED BY <1>7, <1>8, <1>9

LEMMA PlaceDirKeeps ==
  ASSUME PlaceInv, PlaceDir
  PROVE  PlaceInv'
<1>1. /\ pc = "place" /\ MakesDir(E) /\ UNCHANGED <<open, unpacked>> /\ Same
      /\ ~(E.type = "file" /\ ~OldDir(E))
  BY DEF PlaceDir, Goto, History, Forget, MakesDir
<1>2. CASE CanCreate(disk, FileDst) /\ pc' = "owner"
             /\ disk' = Created(disk, Spot, Inode("dir", {"w", "x"}))
  <2>1. PICK inode \in InodeType : inode = Inode("dir", {"w", "x"}) /\ inode.kind = "dir"
    <3>1. /\ Inode("dir", {"w", "x"}) \in InodeType
          /\ Inode("dir", {"w", "x"}).kind = "dir"
      BY InodeIs DEF Bit
    <3> QED BY <3>1, Zenon
  <2> QED BY <1>1, <1>2, <2>1, CreatedFills
<1>3. CASE /\ Found(disk, FileDst) /\ IsDir(disk, Spot) /\ pc' = "owner" /\ UNCHANGED disk
  <2>1. TypeOK /\ Working /\ ParentInside /\ Normal(E.path) # <<>> /\ Disk(disk)
    BY <1>1 DEF PlaceInv, TypeOK, Working, GoesInside
  <2>2. FileDst # <<>>
    BY <2>1, EntryType
  <2>3. Spot # None
    BY <1>3, <2>2 DEF Found, Spot
  <2>4. Spot # <<>> /\ Inside(Spot)
    BY <2>1, <2>3, SpotInside
  <2>5. Spot \in DOMAIN disk.names /\ At(disk, Spot).kind = "dir"
    BY <1>3, <2>4 DEF IsDir, Exists
  <2>6. E' = E /\ FileDst' = FileDst /\ Spot' = Spot /\ Target' = disk.names[Spot]
    BY <1>1, <1>3 DEF Same, E, FileDst, Spot, Target, MakesDir, OldDir
  <2>7. GoesInside'
    BY <1>1, <1>3, <2>1, <2>3, <2>4, <2>5, <2>6
       DEF GoesInside, Working, Filling, Exists, MakesDir, OldDir, Normal
  <2>8. TypeOK'
    BY <1>1, <1>3 DEF PlaceInv, TypeOK, Same, Fixed, Working
  <2> QED BY <1>1, <1>3, <2>7, <2>8
          DEF PlaceInv, SameOutside, DirsOnce, At, Exists, Same, Fixed
<1>4. CASE pc' = "error" /\ UNCHANGED disk
  <2>1. TypeOK' /\ UNCHANGED world
    BY <1>1, <1>4 DEF PlaceInv, TypeOK, Same, Fixed, Working
  <2> QED BY <1>4, <2>1, Quiet
<1> QED BY <1>2, <1>3, <1>4 DEF PlaceDir, Goto

LEMMA PlaceHardLinkKeeps ==
  ASSUME PlaceInv, PlaceHardLink
  PROVE  PlaceInv'
<1> DEFINE source == IF E.target.root THEN E.target.parts ELSE Dst \o E.target.parts
           ino == disk.names[Place(disk, source)]
<1>1. TypeOK /\ Working /\ ParentInside /\ Normal(E.path) # <<>> /\ Disk(disk)
  BY DEF PlaceHardLink, PlaceInv, TypeOK, Working, GoesInside
<1>2. CASE Error
  BY <1>2, StillKeeps
<1>3. CASE /\ E.target.parts # <<>> /\ Found(disk, source) /\ ~IsDir(disk, Place(disk, source))
           /\ CanCreate(disk, FileDst) /\ disk' = Named(disk, Spot, ino)
           /\ Placed(Spot, disk.inodes[ino]) /\ Goto("entry") /\ UNCHANGED open
  <2>1. E.target.parts \in Seq(Name)
    BY <1>1, EntryType DEF Entry, Path
  <2>2. source # <<>>
    <3>1. Len(Dst) \in Nat /\ Len(E.target.parts) \in Nat \ {0}
      BY <1>3, <2>1, PlacesAssumption, LenProperties, EmptySeq
    <3>2. Len(Dst \o E.target.parts) = Len(Dst) + Len(E.target.parts)
      BY <2>1, PlacesAssumption, ConcatProperties
    <3>3. Dst \o E.target.parts # <<>>
      BY <3>1, <3>2
    <3> QED BY <1>3, <3>3
  <2> HIDE DEF source
  <2>3. Place(disk, source) \in DOMAIN disk.names
    BY <1>3, <2>2 DEF Found, Exists
  <2>4. ino \in DOMAIN disk.inodes /\ disk.inodes[ino].kind # "dir"
    BY <1>1, <1>3, <2>3 DEF Disk, IsDir, Exists, At
  <2>5. Spot # None /\ Spot \notin DOMAIN disk.names
    BY <1>3 DEF CanCreate, Spot, Exists
  <2>6. Spot \in Seq(Name) /\ Inside(Spot)
    BY <1>1, <2>5, SpotInside
  <2> HIDE DEF ino
  <2>7. /\ Disk(disk') /\ DOMAIN disk'.names = DOMAIN disk.names \cup {Spot} /\ DirsOnce(disk')
        /\ disk'.inodes = disk.inodes
        /\ \A p \in DOMAIN disk.names : disk'.names[p] = disk.names[p] /\ At(disk', p) = At(disk, p)
    BY <1>1, <1>3, <2>4, <2>5, <2>6, NamedKeeps DEF PlaceInv
  <2>8. SameOutside'
    BY <1>3, <2>6, <2>7 DEF PlaceInv, SameOutside, Exists, Goto, Same, Fixed
  <2>9. TypeOK' /\ GoesInside'
    BY <1>1, <1>3, <2>7
       DEF TypeOK, GoesInside, Working, Filling, Goto, Same, Fixed, Placed
  <2> QED BY <2>7, <2>8, <2>9 DEF PlaceInv
<1> QED BY <1>2, <1>3 DEF PlaceHardLink

LEMMA PlaceSymlinkKeeps ==
  ASSUME PlaceInv, PlaceSymlink
  PROVE  PlaceInv'
<1>1. TypeOK /\ Working /\ pc = "place" /\ E.type = "link"
  BY DEF PlaceSymlink, PlaceInv, Working
<1>2. CASE Error
  BY <1>2, StillKeeps
<1>3. CASE /\ CanCreate(disk, FileDst)
           /\ disk' = Created(disk, Spot, [Inode("link", {}) EXCEPT !.target = E.target])
           /\ open' = [ino |-> Len(disk.inodes) + 1, pieces |-> 0] /\ Goto("owner") /\ History
  <2>1. E.target \in Path
    BY <1>1, EntryType DEF Entry
  <2>3. PICK inode \in InodeType :
          inode = [Inode("link", {}) EXCEPT !.target = E.target] /\ inode.kind = "link"
    BY <2>1, LinkIs, Zenon
  <2>4. ~MakesDir(E)
    BY <1>1 DEF MakesDir, OldDir
  <2> QED BY <1>1, <1>3, <2>3, <2>4, CreatedFills DEF Goto, History
<1> QED BY <1>2, <1>3 DEF PlaceSymlink

LEMMA PlaceFileKeeps ==
  ASSUME PlaceInv, PlaceFile
  PROVE  PlaceInv'
<1>1. PICK inode \in InodeType : inode = Inode("file", {"w"}) /\ inode.kind = "file"
  <2>1. Inode("file", {"w"}) \in InodeType /\ Inode("file", {"w"}).kind = "file"
    BY InodeIs DEF Bit
  <2> QED BY <2>1, Zenon
<1>2. ~MakesDir(E)
  BY DEF PlaceFile, MakesDir
<1> QED BY <1>1, <1>2, CreatedFills DEF PlaceFile, Goto, History

LEMMA ReplaceKeeps ==
  ASSUME PlaceInv, Replace
  PROVE  PlaceInv'
<1>1. CASE Error
  BY <1>1, StillKeeps
<1>2. CASE /\ CanRemove(disk, FileDst) /\ disk' = Removed(disk, Spot)
           /\ Goto(pc) /\ UNCHANGED <<open, unpacked>>
  <2>1. /\ TypeOK /\ Working /\ pc = "place" /\ ParentInside /\ Normal(E.path) # <<>> /\ Disk(disk)
        /\ E.type \in {"file", "link"} /\ pc' = "place"
    BY <1>2 DEF Replace, PlaceInv, TypeOK, Working, GoesInside, Goto
  <2>2. FileDst # <<>> /\ Parent \in Seq(Name)
    BY <2>1, EntryType
  <2>3. Inside(Spot)
    <3>1. Spot # None
      BY <1>2, <2>2 DEF CanRemove, Found, Spot
    <3> QED BY <2>1, <3>1, SpotInside
  <2>4. /\ Disk(disk') /\ DOMAIN disk'.names = DOMAIN disk.names \ {Spot}
        /\ disk'.inodes = disk.inodes /\ Within(disk', disk) /\ DirsOnce(disk')
        /\ \A p \in DOMAIN disk'.names : disk'.names[p] = disk.names[p] /\ At(disk', p) = At(disk, p)
    BY <1>2, <2>1, RemovedKeeps DEF PlaceInv
  <2>5. SameOutside'
    BY <1>2, <2>3, <2>4 DEF PlaceInv, SameOutside, Exists, Goto, Same, Fixed
  <2>6. E' = E /\ Parent' = Parent /\ Normal(E.path)' = Normal(E.path)
    BY <1>2 DEF Goto, Same, E, FileDst, Parent, Normal
  <2>7. ParentInside'
    <3>1. CASE Canonical(disk', Parent) = None
      BY <2>6, <3>1 DEF ParentInside
    <3>2. CASE Canonical(disk', Parent) # None
      <4>1. Canonical(disk, Parent) = Canonical(disk', Parent)
        BY <2>1, <2>2, <2>4, <3>2, CanonicalWithin
      <4> QED BY <2>1, <2>6, <3>2, <4>1 DEF ParentInside
    <3> QED BY <3>1, <3>2
  <2>8. GoesInside'
    BY <2>1, <2>6, <2>7 DEF GoesInside, Working, Filling
  <2>9. TypeOK'
    BY <1>2, <2>1, <2>4 DEF TypeOK, Working, Goto, Same, Fixed
  <2> QED BY <2>4, <2>5, <2>8, <2>9 DEF PlaceInv
<1> QED BY <1>1, <1>2 DEF Replace, Forget

-----------------------------------------------------------------------------
(* What is written to the inode of the entry.                              *)

LEMMA TargetType ==
  ASSUME PlaceInv, Filling
  PROVE  /\ Target \in DOMAIN disk.inodes /\ disk.inodes[Target] \in InodeType
         /\ E \in Entry /\ options \in Option /\ current \in Nat
         /\ disk.inodes[Target].kind = "dir" <=> MakesDir(E)
         /\ pc = "data" => ~MakesDir(E) /\ Target = open.ino /\ E.type = "file"
<1>1. TypeOK /\ Working /\ GoesInside /\ DirsOnce(disk)
  BY DEF PlaceInv, Working, Filling
<1>2. Target \in DOMAIN disk.inodes /\ disk.inodes[Target] = At(disk, Spot)
  BY <1>1, TargetInside
<1>3. disk.inodes[Target] \in InodeType
  <2>1. disk.inodes \in Seq(InodeType)
    BY <1>1 DEF TypeOK, Disk
  <2> QED BY <1>2, <2>1
<1>4. At(disk, Spot).kind = "dir" <=> MakesDir(E)
  BY <1>1 DEF GoesInside
<1>5. pc = "data" => ~MakesDir(E) /\ Target = open.ino /\ E.type = "file"
  BY <1>1 DEF GoesInside, Target, MakesDir
<1>6. E \in Entry /\ options \in Option /\ current \in Nat
  BY <1>1, EntryType DEF TypeOK
<1> QED BY <1>2, <1>3, <1>4, <1>5, <1>6

LEMMA WithMtimeType ==
  ASSUME PlaceInv, Filling, ~MakesDir(E), NEW inode \in InodeType, inode.kind # "dir"
  PROVE  /\ WithMtime(inode) \in InodeType /\ WithMtime(inode).kind = inode.kind
         /\ WithMtime(inode).mode = inode.mode /\ WithMtime(inode).target = inode.target
<1>1. E.mtime \in Nat \cup {None}
  BY TargetType DEF Entry
<1> QED BY <1>1 DEF WithMtime, InodeType

LEMMA ChownedType ==
  ASSUME PlaceInv, Filling, ~(options.owners /\ E.owner = None), NEW inode \in InodeType
  PROVE  /\ Chowned(inode) \in InodeType /\ Chowned(inode).kind = inode.kind
         /\ Chowned(inode).target = inode.target
         /\ Chowned(inode).mode = inode.mode \/ inode.kind = "file"
<1>1. E.owner \in Nat \cup {None}
  BY TargetType DEF Entry
<1> QED BY <1>1 DEF Chowned, InodeType

LEMMA BytesType ==
  ASSUME NEW piece, NEW n \in Nat, current \in Nat
  PROVE  Bytes(piece, n) \in Seq(Nat)
<1>1. \A i \in 1..n : (IF piece.hole THEN 0 ELSE current) \in Nat
  OBVIOUS
<1> QED BY <1>1, IsASeq DEF Bytes

\* The piece that is written next and the file after it.
LEMMA PieceWritten ==
  ASSUME PlaceInv, WritePiece
  PROVE  LET piece == E.pieces[open.pieces + 1]
             file  == disk.inodes[Target]
             new   == [file EXCEPT !.data = @ \o Bytes(piece, piece.have)]
         IN  /\ Filling /\ Target = open.ino /\ piece \in Piece /\ open.pieces \in Nat
             /\ open.pieces + 1 \in 1..Len(E.pieces) /\ E.pieces \in Seq(Piece)
             /\ file \in InodeType /\ file.data \o Bytes(piece, piece.have) \in Seq(Nat)
             /\ new \in InodeType /\ new.kind = file.kind /\ new.target = file.target
             /\ new.mode = file.mode /\ disk' = Changed(disk, Target, new)
             /\ Same /\ open' = [open EXCEPT !.pieces = @ + 1]
             /\ History /\ pc' = IF piece.have < piece.len THEN "error" ELSE "data"
<1> DEFINE piece == E.pieces[open.pieces + 1]
           bytes == Bytes(piece, piece.have)
           file  == disk.inodes[Target]
           new   == [file EXCEPT !.data = @ \o bytes]
<1>1. /\ Filling /\ pc = "data" /\ Target = open.ino /\ ~MakesDir(E) /\ E \in Entry /\ current \in Nat
      /\ file \in InodeType /\ file.kind # "dir"
  BY TargetType DEF WritePiece, Filling
<1>2. open \in [ino : Nat, pieces : Nat]
  BY <1>1 DEF PlaceInv, GoesInside
<1>3. /\ piece \in Piece /\ open.pieces + 1 \in 1..Len(E.pieces) /\ open.pieces \in Nat
      /\ E.pieces \in Seq(Piece)
  <2>1. E.pieces \in Seq(Piece)
    BY <1>1 DEF Entry
  <2>2. open.pieces + 1 \in 1..Len(E.pieces)
    BY <1>2, <2>1, LenProperties DEF WritePiece
  <2> QED BY <1>2, <2>1, <2>2, ElementOfSeq
<1>4. disk' = Changed(disk, Target, new)
  BY <1>1 DEF WritePiece
<1>5. /\ Same /\ open' = [open EXCEPT !.pieces = @ + 1] /\ History
      /\ pc' = IF piece.have < piece.len THEN "error" ELSE "data"
  BY <1>1 DEF WritePiece, Goto
<1> HIDE DEF piece, file
<1>6. bytes \in Seq(Nat)
  BY <1>1, <1>3, BytesType DEF Piece
<1> HIDE DEF bytes
<1>7. file.data \o bytes \in Seq(Nat)
  BY <1>1, <1>6, ConcatProperties DEF InodeType
<1>8. PICK data \in Seq(Nat) : data = file.data \o bytes
  BY <1>7
<1>9. new \in InodeType /\ new.kind = file.kind /\ new.target = file.target /\ new.mode = file.mode
  <2>1. new = [file EXCEPT !.data = data]
    BY <1>8
  <2> QED BY <1>1, <2>1 DEF InodeType
<1> QED BY <1>1, <1>3, <1>4, <1>5, <1>7, <1>9 DEF piece, file, bytes

LEMMA WritePieceKeeps ==
  ASSUME PlaceInv, WritePiece
  PROVE  PlaceInv'
<1> DEFINE piece == E.pieces[open.pieces + 1]
           new == [disk.inodes[Target] EXCEPT !.data = @ \o Bytes(piece, piece.have)]
<1>1. /\ Filling /\ new \in InodeType /\ new.kind = disk.inodes[Target].kind
      /\ new.target = disk.inodes[Target].target /\ new.mode = disk.inodes[Target].mode
      /\ disk' = Changed(disk, Target, new) /\ Same /\ open' = [open EXCEPT !.pieces = @ + 1]
      /\ unpacked' = unpacked /\ pc' \in {"data", "error"} /\ pc = "data"
  BY PieceWritten DEF History, WritePiece
<1> HIDE DEF new
<1> QED BY <1>1, ChangedFills

LEMMA SetTimeKeeps ==
  ASSUME PlaceInv, SetTime
  PROVE  PlaceInv'
<1> DEFINE file == disk.inodes[Target]
<1>1. /\ Filling /\ pc = "data" /\ Target = open.ino /\ ~MakesDir(E)
      /\ file \in InodeType /\ file.kind # "dir"
  BY TargetType DEF SetTime, Filling
<1>2. disk' = Changed(disk, Target, WithMtime(file))
  BY <1>1 DEF SetTime
<1> HIDE DEF file
<1>3. PICK new \in InodeType : /\ new = WithMtime(file) /\ new.kind = file.kind
                               /\ new.mode = file.mode /\ new.target = file.target
  BY <1>1, WithMtimeType
<1>4. Same /\ open' = open /\ unpacked' = unpacked /\ pc' = "owner"
  BY DEF SetTime, Goto, History
<1> QED BY <1>1, <1>2, <1>3, <1>4, ChangedFills DEF file

LEMMA SetOwnerKeeps ==
  ASSUME PlaceInv, SetOwner
  PROVE  PlaceInv'
<1> DEFINE old == disk.inodes[Target]
<1>1. Filling /\ old \in InodeType /\ (old.kind = "dir" <=> MakesDir(E))
  BY TargetType DEF SetOwner, Filling
<1>2. CASE Error
  BY <1>2, StillKeeps
<1>3. CASE ~(options.owners /\ E.owner = None)
  <2>1. /\ IF E.type = "link"
           THEN /\ disk' = Changed(disk, Target, WithMtime(Chowned(old)))
                /\ unpacked' = unpacked \cup {current} /\ pc' = "entry"
           ELSE /\ disk' = Changed(disk, Target, Chowned(old))
                /\ unpacked' = unpacked /\ pc' = "mode"
        /\ Same /\ open' = open
    BY <1>3 DEF SetOwner, Goto, History, Placed
  <2> HIDE DEF old
  <2>2. PICK new \in InodeType : /\ new = Chowned(old) /\ new.kind = old.kind
                                 /\ new.target = old.target
                                 /\ new.mode = old.mode \/ new.kind = "file"
    BY <1>1, <1>3, ChownedType
  <2>3. CASE E.type = "link"
    <3>1. ~MakesDir(E)
      BY <2>3 DEF MakesDir, OldDir
    <3>2. PICK timed \in InodeType : timed = WithMtime(new) /\ timed.kind = new.kind
      BY <1>1, <2>2, <3>1, WithMtimeType
    <3> QED BY <1>1, <2>1, <2>2, <2>3, <3>2, ChangedFills DEF old
  <2>4. CASE E.type # "link"
    BY <1>1, <2>1, <2>2, <2>4, ChangedFills DEF old
  <2> QED BY <2>3, <2>4
<1> QED BY <1>2, <1>3 DEF SetOwner

LEMMA SetModeKeeps ==
  ASSUME PlaceInv, SetMode
  PROVE  PlaceInv'
<1> DEFINE old  == disk.inodes[Target]
           mode == IF E.mode = None THEN old.mode ELSE Masked(E.mode)
           new  == [old EXCEPT !.mode = mode]
<1>1. Filling /\ old \in InodeType /\ E \in Entry /\ options \in Option
  BY TargetType DEF SetMode, Filling
<1>2. /\ disk' = Changed(disk, Target, new) /\ Same /\ open' = open
      /\ unpacked' = unpacked \cup {current} /\ pc' = "entry"
  BY DEF SetMode, Goto, Placed
<1> HIDE DEF old
<1>3. mode \in SUBSET Bit
  BY <1>1 DEF Masked, Entry, InodeType
<1> HIDE DEF mode
<1>4. new \in InodeType /\ new.kind = old.kind
  BY <1>1, <1>3 DEF InodeType
<1> HIDE DEF new
<1> QED BY <1>1, <1>2, <1>4, ChangedFills DEF old

-----------------------------------------------------------------------------
(* Entries.                                                                *)

LEMMA NoneLostStep ==
  ASSUME NoneLost, Same, pc # "error", pc' # "done", unpacked \subseteq unpacked',
         \/ pc' = "error" \/ Working' \/ ~Working
         \/ current \in unpacked' \/ Skipped(E)
  PROVE  NoneLost'
<1>1. /\ archive' = archive /\ deferred' = deferred /\ current' = current
  BY DEF Same
<1> SUFFICES ASSUME pc' # "error", NEW i \in DOMAIN archive
             PROVE  i \in unpacked' \cup deferred \/ Skipped(archive[i]) \/ (Working' /\ i = current)
  BY <1>1 DEF NoneLost
<1> QED BY DEF NoneLost, E

\* Steps that leave the files alone and do not begin to write one.
LEMMA Calm ==
  ASSUME EntryInv, PlaceInv', NoneLost', UNCHANGED <<disk, expect>>, ~Filling'
  PROVE  EntryInv'
BY DEF EntryInv

LEMMA InitEntries == Init => EntryInv
<1> SUFFICES ASSUME Init PROVE EntryInv
  OBVIOUS
<1> QED BY InitPlaces DEF EntryInv, Init, NoneLost, Filling

LEMMA StartWhole ==
  ASSUME EntryInv, Start
  PROVE  EntryInv'
<1>1. PlaceInv /\ PlaceInv' /\ NoneLost
  BY StartKeeps DEF EntryInv
<1>2. NoneLost'
  BY <1>1, NoneLostStep DEF Start, History, Working
<1>3. ~Filling'
  BY DEF Start, Filling
<1>4. CASE UNCHANGED disk
  BY <1>1, <1>2, <1>3, <1>4, Calm DEF Start, History
<1>5. CASE disk' = Created(disk, Dst, Inode("dir", {"w", "x"})) /\ ~Exists(disk, Dst)
  <2>1. \A p \in DOMAIN disk.names : p \in DOMAIN disk'.names /\ At(disk', p) = At(disk, p)
    BY <1>1, <1>5, PlacesAssumption, CreatedKeeps, InodeIs DEF Bit, Exists, PlaceInv, TypeOK
  <2> QED BY <1>1, <1>2, <1>3, <2>1 DEF EntryInv, Exists, Start, History
<1> QED BY <1>4, <1>5 DEF Start

LEMMA NextEntryWhole ==
  ASSUME EntryInv, NEW entry \in Members, NextEntry(entry)
  PROVE  EntryInv'
<1>1. PlaceInv /\ PlaceInv' /\ NoneLost
  BY NextEntryKeeps DEF EntryInv
<1>2. NoneLost'
  <2>1. archive \in Seq(Members)
    BY <1>1 DEF PlaceInv, TypeOK
  <2>2. /\ DOMAIN archive' = DOMAIN archive \cup {Len(archive')}
        /\ \A i \in DOMAIN archive : archive'[i] = archive[i]
    BY <2>1, AppendProperties, LenProperties DEF NextEntry
  <2>3. /\ deferred \subseteq deferred' /\ unpacked' = unpacked
        /\ Len(archive') \in deferred' \/ (Working' /\ Len(archive') = current')
    BY DEF NextEntry, History, Working
  <2>4. pc # "error" /\ pc' # "done" /\ ~Working
    BY DEF NextEntry, Working
  <2> SUFFICES ASSUME NEW i \in DOMAIN archive'
               PROVE  \/ i \in unpacked' \cup deferred' \/ Skipped(archive'[i])
                      \/ Working' /\ i = current'
    BY <2>4 DEF NoneLost
  <2> QED BY <1>1, <2>2, <2>3, <2>4 DEF NoneLost
<1>3. UNCHANGED <<disk, expect>> /\ ~Filling'
  BY DEF NextEntry, History, Filling
<1> QED BY <1>1, <1>2, <1>3, Calm

LEMMA NextDirWhole ==
  ASSUME EntryInv, NextDir
  PROVE  EntryInv'
<1>1. PlaceInv /\ PlaceInv' /\ NoneLost
  BY NextDirKeeps DEF EntryInv
<1>2. NoneLost'
  <2>1. PICK i \in deferred : current' = i /\ deferred' = deferred \ {i}
    BY DEF NextDir
  <2>2. /\ pc = "entry" /\ pc' = "path" /\ ~Working /\ Working'
        /\ UNCHANGED <<archive, unpacked>>
    BY DEF NextDir, Working, History
  <2> QED BY <1>1, <2>1, <2>2 DEF NoneLost
<1>3. UNCHANGED <<disk, expect>> /\ ~Filling'
  BY DEF NextDir, History, Filling
<1> QED BY <1>1, <1>2, <1>3, Calm

LEMMA StillWhole ==
  ASSUME EntryInv, NoMoreEntries \/ Finish \/ Io \/ PlaceNothing \/ Error, pc # "error"
  PROVE  EntryInv'
<1>1. PlaceInv /\ PlaceInv' /\ NoneLost
  BY StillKeeps DEF EntryInv
<1>2. UNCHANGED <<disk, expect, unpacked, archive, deferred, current>> /\ ~Filling'
  BY DEF NoMoreEntries, Finish, Io, PlaceNothing, Error, Goto, Same, Fixed, History, Filling
<1>3. pc' = "error" \/ ~Working \/ Skipped(E)
  BY DEF NoMoreEntries, Finish, Io, PlaceNothing, Error, Goto, Working, Skipped
<1>4. pc' = "done" => deferred = {}
  BY DEF NoMoreEntries, Finish, Io, PlaceNothing, Error, Goto
<1>5. NoneLost'
  BY <1>1, <1>2, <1>3, <1>4 DEF NoneLost, E
<1> QED BY <1>1, <1>2, <1>5, Calm

LEMMA CheckPathWhole ==
  ASSUME EntryInv, CheckPath
  PROVE  EntryInv'
<1>1. PlaceInv /\ PlaceInv' /\ NoneLost
  BY CheckPathKeeps DEF EntryInv
<1>2. /\ Same /\ UNCHANGED <<disk, expect, unpacked>> /\ ~Filling'
      /\ pc # "error" /\ pc' # "done"
  BY DEF CheckPath, Goto, History, Filling
<1>3. Working' \/ Skipped(E)
  BY DEF CheckPath, Goto, Working, Skipped
<1> QED BY <1>1, <1>2, <1>3, NoneLostStep, Calm

\* Steps that leave what is there as it is, and do not begin to write an entry.
LEMMA Grows ==
  ASSUME EntryInv, PlaceInv', NoneLost', ~Filling',
         DOMAIN expect' \subseteq DOMAIN expect, \A p \in DOMAIN expect' : expect'[p] = expect[p],
         \A p \in DOMAIN expect' : p \in DOMAIN disk'.names /\ At(disk', p) = At(disk, p)
  PROVE  EntryInv'
BY DEF EntryInv, Exists

LEMMA EnsureDirWhole ==
  ASSUME EntryInv, EnsureDir
  PROVE  EntryInv'
<1> DEFINE up(n)   == SubSeq(Parent, 1, n)
           missing == {n \in 1..Len(Parent) : \A m \in n..Len(Parent) : ~Found(disk, up(m))}
           top     == CHOOSE n \in missing : \A m \in missing : n <= m
           place   == Place(disk, up(top))
           inode   == Inode("dir", {"w", "x"})
<1>1. PlaceInv /\ PlaceInv' /\ NoneLost /\ Disk(disk)
  BY EnsureDirKeeps DEF EntryInv, PlaceInv, TypeOK
<1>2. /\ Same /\ UNCHANGED <<expect, unpacked>> /\ ~Filling' /\ pc # "error"
      /\ (pc' = "error" \/ Working') /\ pc' # "done"
  BY DEF EnsureDir, Goto, History, Filling, Working
<1>3. NoneLost'
  BY <1>1, <1>2, NoneLostStep
<1>4. CASE UNCHANGED disk
  BY <1>1, <1>2, <1>3, <1>4, Calm
<1>5. CASE missing # {} /\ CanCreate(disk, up(top)) /\ disk' = Created(disk, place, inode)
  <2>1. Parent \in Seq(Name)
    <3>1. TypeOK /\ Working /\ Normal(E.path) # <<>>
      BY <1>1 DEF EnsureDir, PlaceInv, GoesInside, Working
    <3> QED BY <3>1, EntryType
  <2>2. up(top) \in Seq(Name) /\ up(top) # <<>>
    <3> HIDE DEF top
    <3>1. top \in missing
      <4>1. missing \subseteq Nat
        BY <2>1, LenProperties
      <4> HIDE DEF missing
      <4>2. \E n \in missing : \A m \in missing : n <= m
        BY <1>5, <4>1, LeastExists
      <4> QED BY <4>2 DEF top
    <3>2. top \in 1..Len(Parent)
      BY <3>1
    <3> QED BY <2>1, <3>2, SubSeqFront
  <2> HIDE DEF up, top, missing
  <2>3. place # None /\ place \notin DOMAIN disk.names
    BY <1>5 DEF CanCreate, Exists
  <2>4. place \in Seq(Name) /\ inode \in InodeType
    BY <1>1, <2>2, <2>3, PlaceIs, InodeIs DEF Bit
  <2> HIDE DEF place, inode
  <2>5. \A p \in DOMAIN disk.names : p \in DOMAIN disk'.names /\ At(disk', p) = At(disk, p)
    BY <1>1, <1>5, <2>3, <2>4, CreatedKeeps
  <2>6. \A p \in DOMAIN expect : p \in DOMAIN disk.names
    BY DEF EntryInv, Exists
  <2> QED BY <1>1, <1>2, <1>3, <2>5, <2>6, Grows
<1> QED BY <1>4, <1>5 DEF EnsureDir

LEMMA PlaceHardLinkWhole ==
  ASSUME EntryInv, PlaceHardLink
  PROVE  EntryInv'
<1> DEFINE source == IF E.target.root THEN E.target.parts ELSE Dst \o E.target.parts
           ino == disk.names[Place(disk, source)]
<1>1. PlaceInv /\ PlaceInv' /\ NoneLost
  BY PlaceHardLinkKeeps DEF EntryInv
<1>2. CASE Error
  BY <1>2, StillWhole DEF PlaceHardLink
<1>3. CASE /\ CanCreate(disk, FileDst) /\ disk' = Named(disk, Spot, ino)
           /\ Placed(Spot, disk.inodes[ino]) /\ Goto("entry")
  <2> HIDE DEF ino
  <2>1. NoneLost'
    <3>1. Same /\ pc # "error" /\ pc' # "done" /\ unpacked' = unpacked \cup {current}
      BY <1>3 DEF PlaceHardLink, Placed, Goto
    <3> QED BY <1>1, <3>1, NoneLostStep
  <2>2. Spot \notin DOMAIN disk.names
    BY <1>3 DEF CanCreate, Spot, Exists
  <2>3. /\ DOMAIN disk'.names = DOMAIN disk.names \cup {Spot} /\ At(disk', Spot) = disk.inodes[ino]
        /\ \A p \in DOMAIN disk.names : At(disk', p) = At(disk, p)
    BY <1>3, <2>2 DEF Named, At
  <2>4. /\ DOMAIN expect' = DOMAIN expect \cup {Spot} /\ expect'[Spot] = disk.inodes[ino]
        /\ \A p \in DOMAIN expect \ {Spot} : expect'[p] = expect[p]
    BY <1>3 DEF Placed
  <2>5. \A p \in DOMAIN expect' : Exists(disk', p) /\ At(disk', p) = expect'[p]
    BY <2>2, <2>3, <2>4 DEF EntryInv, Exists
  <2>6. ~Filling'
    BY <1>3 DEF Goto, Filling
  <2> QED BY <1>1, <2>1, <2>5, <2>6 DEF EntryInv
<1> QED BY <1>2, <1>3 DEF PlaceHardLink

LEMMA ReplaceWhole ==
  ASSUME EntryInv, Replace
  PROVE  EntryInv'
<1>1. PlaceInv /\ PlaceInv' /\ NoneLost
  BY ReplaceKeeps DEF EntryInv
<1>2. CASE Error
  BY <1>2, StillWhole DEF Replace
<1>3. CASE disk' = Removed(disk, Spot) /\ Forget(Spot) /\ Goto(pc)
  <2>1. Same /\ pc' = "place" /\ pc = "place" /\ unpacked' = unpacked
    BY <1>3 DEF Replace, Goto, Forget
  <2>2. NoneLost' /\ ~Filling'
    BY <1>1, <2>1, NoneLostStep DEF Working, Filling
  <2>3. /\ DOMAIN disk'.names = DOMAIN disk.names \ {Spot}
        /\ \A p \in DOMAIN disk'.names : At(disk', p) = At(disk, p)
    BY <1>1, <1>3, RemovedKeeps DEF PlaceInv, TypeOK
  <2>4. /\ DOMAIN expect' = DOMAIN expect \ {Spot}
        /\ \A p \in DOMAIN expect' : expect'[p] = expect[p]
    BY <1>3 DEF Forget
  <2>5. \A p \in DOMAIN expect : p \in DOMAIN disk.names
    BY DEF EntryInv, Exists
  <2> QED BY <1>1, <2>2, <2>3, <2>4, <2>5, Grows
<1> QED BY <1>2, <1>3 DEF Replace

-----------------------------------------------------------------------------
(* The inode of an entry from its first step to its last.                  *)

\* The entry is there for the first time.
LEMMA CreatedWhole ==
  ASSUME EntryInv, pc = "place", CanCreate(disk, FileDst), NEW inode \in InodeType,
         MakesDir(E) <=> inode.kind = "dir", disk' = Created(disk, Spot, inode), Same,
         open' = IF MakesDir(E) THEN open ELSE [ino |-> Len(disk.inodes) + 1, pieces |-> 0],
         pc' = IF E.type = "file" /\ ~OldDir(E) THEN "data" ELSE "owner",
         History, E.type \in {"dir", "file", "link"},
         ~MakesDir(E) =>
           /\ inode.kind = E.type /\ inode.data = <<>> /\ inode.mtime = 0
           /\ inode.target = IF E.type = "link" THEN E.target ELSE None
           /\ E.type = "link" => inode.mode = {}
  PROVE  EntryInv'
<1>1. PlaceInv /\ NoneLost /\ UNCHANGED <<expect, unpacked, options>>
  BY DEF EntryInv, History, Same, Fixed
<1>2. /\ PlaceInv' /\ E' = E /\ Spot' = Spot /\ Spot \notin DOMAIN disk.names
      /\ disk'.inodes[Target'] = inode
      /\ \A p \in DOMAIN disk.names : p \in DOMAIN disk'.names /\ At(disk', p) = At(disk, p)
  BY <1>1, CreatedFills
<1>3. NoneLost'
  <2>1. Working'
    BY DEF Working
  <2> QED BY <1>1, <2>1, NoneLostStep
<1>4. \A p \in DOMAIN expect : p \in DOMAIN disk.names
  BY DEF EntryInv, Exists
<1>5. E.pieces \in Seq(Piece)
  <2>1. TypeOK /\ Working
    BY <1>1 DEF PlaceInv, Working
  <2> QED BY <2>1, EntryType DEF Entry
<1>6. Written(0)' = <<>>
  BY DEF Written, FlattenSeq
<1>7. SoFar'
  <2>1. MakesDir(E') \/ E'.type \in {"file", "link"}
    BY <1>2 DEF MakesDir
  <2>2. CASE MakesDir(E)
    BY <1>2, <2>1, <2>2 DEF SoFar, MakesDir, OldDir
  <2>3. CASE ~MakesDir(E) /\ E.type = "link"
    <3>1. pc' = "owner"
      BY <2>3
    <3> QED BY <1>2, <2>1, <2>3, <3>1 DEF SoFar
  <2>4. CASE ~MakesDir(E) /\ E.type = "file"
    <3>1. pc' = "data" /\ open'.pieces = 0
      BY <2>4 DEF MakesDir
    <3>2. 0 <= Len(E.pieces)
      BY <1>5, LenProperties
    <3>3. Written(open.pieces)' = <<>>
      <4>1. open'.pieces = 0
        BY <3>1
      <4>2. Written(open.pieces)' = Written(0)'
        BY <4>1, Zenon DEF Written
      <4> QED BY <4>2, <1>6
    <3> QED BY <1>2, <2>1, <2>4, <3>1, <3>2, <3>3 DEF SoFar
  <2> QED BY <2>2, <2>3, <2>4 DEF MakesDir
<1> QED BY <1>1, <1>2, <1>3, <1>4, <1>7 DEF EntryInv, Exists

LEMMA PlaceDirWhole ==
  ASSUME EntryInv, PlaceDir
  PROVE  EntryInv'
<1>1. PlaceInv /\ PlaceInv' /\ NoneLost
  BY PlaceDirKeeps DEF EntryInv
<1>2. /\ pc = "place" /\ MakesDir(E) /\ UNCHANGED open /\ Same
      /\ ~(E.type = "file" /\ ~OldDir(E)) /\ E.type \in {"dir", "file"}
  BY DEF PlaceDir, Goto, MakesDir, OldDir
<1>3. CASE CanCreate(disk, FileDst) /\ pc' = "owner" /\ History
             /\ disk' = Created(disk, Spot, Inode("dir", {"w", "x"}))
  <2>1. PICK inode \in InodeType : inode = Inode("dir", {"w", "x"}) /\ inode.kind = "dir"
    <3>1. /\ Inode("dir", {"w", "x"}) \in InodeType
          /\ Inode("dir", {"w", "x"}).kind = "dir"
      BY InodeIs DEF Bit
    <3> QED BY <3>1, Zenon
  <2> QED BY <1>2, <1>3, <2>1, CreatedWhole
<1>4. CASE pc' = "owner" /\ Forget(Spot) /\ UNCHANGED disk
  <2>1. NoneLost'
    <3>1. Working' /\ pc' # "done" /\ unpacked' = unpacked
      BY <1>4 DEF Working, Forget
    <3> QED BY <1>1, <1>2, <3>1, NoneLostStep
  <2>2. E' = E /\ Spot' = Spot
    BY <1>2, <1>4 DEF Same, E, FileDst, Spot
  <2>3. SoFar'
    BY <1>2, <1>4, <2>2 DEF SoFar, MakesDir, OldDir
  <2>4. DOMAIN expect' = DOMAIN expect \ {Spot} /\ \A p \in DOMAIN expect' : expect'[p] = expect[p]
    BY <1>4 DEF Forget
  <2> QED BY <1>1, <1>4, <2>1, <2>2, <2>3, <2>4 DEF EntryInv, Exists, At
<1>5. CASE pc' = "error" /\ UNCHANGED disk /\ History
  <2>1. NoneLost' /\ ~Filling'
    BY <1>5 DEF NoneLost, Filling
  <2> QED BY <1>1, <1>5, <2>1, Calm DEF History
<1> QED BY <1>3, <1>4, <1>5 DEF PlaceDir, Goto

LEMMA PlaceSymlinkWhole ==
  ASSUME EntryInv, PlaceSymlink
  PROVE  EntryInv'
<1>1. /\ TypeOK /\ Working /\ pc = "place" /\ E.type = "link" /\ ~MakesDir(E)
  BY DEF PlaceSymlink, EntryInv, PlaceInv, Working, MakesDir, OldDir
<1>2. CASE Error
  BY <1>1, <1>2, StillWhole
<1>3. CASE /\ CanCreate(disk, FileDst)
           /\ disk' = Created(disk, Spot, [Inode("link", {}) EXCEPT !.target = E.target])
           /\ open' = [ino |-> Len(disk.inodes) + 1, pieces |-> 0] /\ Goto("owner") /\ History
  <2>1. E.target \in Path
    BY <1>1, EntryType DEF Entry
  <2>2. PICK inode \in InodeType :
          /\ inode = [Inode("link", {}) EXCEPT !.target = E.target]
          /\ inode.kind = "link" /\ inode.data = <<>> /\ inode.mtime = 0 /\ inode.mode = {}
          /\ inode.target = E.target
    BY <2>1, LinkIs, Zenon
  <2> QED BY <1>1, <1>3, <2>2, CreatedWhole DEF Goto
<1> QED BY <1>2, <1>3 DEF PlaceSymlink

LEMMA PlaceFileWhole ==
  ASSUME EntryInv, PlaceFile
  PROVE  EntryInv'
<1>1. PICK inode \in InodeType :
        /\ inode = Inode("file", {"w"}) /\ inode.kind = "file" /\ inode.data = <<>>
        /\ inode.mtime = 0 /\ inode.target = None
  <2>1. Inode("file", {"w"}) \in InodeType /\ Inode("file", {"w"}).kind = "file"
    BY InodeIs DEF Bit
  <2>2. /\ Inode("file", {"w"}).data = <<>> /\ Inode("file", {"w"}).mtime = 0
        /\ Inode("file", {"w"}).target = None
    BY DEF Inode
  <2> QED BY <2>1, <2>2, Zenon
<1>2. ~MakesDir(E)
  BY DEF PlaceFile, MakesDir
<1> QED BY <1>1, <1>2, CreatedWhole DEF PlaceFile, Goto

\* The paths that are expected to be something are not written to.
LEMMA ExpectedKept ==
  ASSUME EntryInv, Filling, disk'.names = disk.names,
         \A p \in DOMAIN disk.names \ {Spot} : At(disk', p) = At(disk, p)
  PROVE  \A p \in DOMAIN expect : p # Spot /\ Exists(disk', p) /\ At(disk', p) = expect[p]
BY DEF EntryInv, Exists

\* One piece more.
LEMMA WrittenNext ==
  ASSUME NEW n \in Nat, E.pieces \in Seq(Piece), n + 1 \in 1..Len(E.pieces), current \in Nat
  PROVE  Written(n + 1) = Written(n) \o Bytes(E.pieces[n + 1], E.pieces[n + 1].len)
<1> DEFINE part(i) == Bytes(E.pieces[i], E.pieces[i].len)
           S == Seq(Nat)
           long  == [i \in 1..(n + 1) |-> part(i)]
           short == [i \in 1..n |-> part(i)]
<1>1. \A i \in 1..(n + 1) : part(i) \in S
  <2> TAKE i \in 1..(n + 1)
  <2>1. i \in 1..Len(E.pieces)
    BY LenProperties
  <2>2. E.pieces[i].len \in Nat
    BY <2>1, ElementOfSeq DEF Piece
  <2> QED BY <2>2, BytesType
<1> HIDE DEF part, S
<1>2. long \in Seq(S) /\ short \in Seq(S)
  <2>1. \A i \in 1..n : part(i) \in S
    BY <1>1
  <2> QED BY <1>1, <2>1, IsASeq
<1>3. Len(long) = n + 1 /\ Len(short) = n /\ long # <<>> /\ Last(long) = part(n + 1)
  BY DEF Last
<1>4. \A i \in 1..n : long[i] = short[i]
  OBVIOUS
<1> HIDE DEF long, short
<1>5. Front(long) = short
  <2>1. /\ Front(long) \in Seq(S) /\ Len(Front(long)) = n
        /\ \A i \in 1..n : Front(long)[i] = short[i]
    <3>1. /\ Front(long) \in Seq(S) /\ Len(Front(long)) = (n + 1) - 1
          /\ \A i \in 1..((n + 1) - 1) : Front(long)[i] = long[i]
      BY <1>2, <1>3, FrontProperties
    <3>2. (n + 1) - 1 = n
      OBVIOUS
    <3> QED BY <3>1, <3>2, <1>4, Zenon
  <2> QED BY <1>2, <1>3, <2>1, SeqEqual
<1>6. FlattenSeq(long) = FlattenSeq(Front(long)) \o Last(long)
  BY <1>2, <1>3, FlattenLast DEF S
<1>7. Written(n + 1) = FlattenSeq(long) /\ Written(n) = FlattenSeq(short)
  BY DEF Written, long, short, part
<1> QED BY <1>3, <1>5, <1>6, <1>7 DEF part

LEMMA WritePieceWhole ==
  ASSUME EntryInv, WritePiece
  PROVE  EntryInv'
<1> DEFINE piece == E.pieces[open.pieces + 1]
           old == disk.inodes[Target]
           new == [old EXCEPT !.data = @ \o Bytes(piece, piece.have)]
<1>1. PlaceInv /\ NoneLost /\ pc = "data" /\ SoFar /\ Spot \notin DOMAIN expect
  BY DEF EntryInv, WritePiece, Filling
<1>2. /\ Filling /\ piece \in Piece /\ open.pieces \in Nat
      /\ open.pieces + 1 \in 1..Len(E.pieces) /\ E.pieces \in Seq(Piece)
      /\ old \in InodeType /\ old.data \o Bytes(piece, piece.have) \in Seq(Nat)
      /\ new \in InodeType /\ new.kind = old.kind /\ new.target = old.target
      /\ new.mode = old.mode /\ disk' = Changed(disk, Target, new)
      /\ Same /\ open' = [open EXCEPT !.pieces = @ + 1]
      /\ History /\ pc' = IF piece.have < piece.len THEN "error" ELSE "data"
  BY <1>1, PieceWritten
<1>3. /\ new.mtime = old.mtime /\ new.data = old.data \o Bytes(piece, piece.have)
  BY <1>2 DEF InodeType
<1> HIDE DEF new
<1>4. /\ PlaceInv' /\ E' = E /\ Spot \in DOMAIN disk.names /\ disk'.names = disk.names
      /\ disk'.inodes[Target] = new
      /\ \A p \in DOMAIN disk.names \ {Spot} : At(disk', p) = At(disk, p)
      /\ pc' \in {"data", "owner", "mode"} => Spot' = Spot /\ Target' = Target
  BY <1>1, <1>2, ChangedFills DEF History
<1>5. NoneLost'
  <2>1. pc' = "error" \/ Working'
    BY <1>2 DEF Working
  <2> QED BY <1>1, <1>2, <2>1, NoneLostStep DEF History
<1>6. ASSUME Filling'
      PROVE  SoFar' /\ Spot' \notin DOMAIN expect'
  <2>1. pc' = "data" /\ ~(piece.have < piece.len)
    BY <1>2, <1>6 DEF Filling
  <2>2. piece.have = piece.len
    BY <1>2, <2>1, SMTT(30) DEF Piece
  <2>3. /\ E.type = "file" /\ ~MakesDir(E) /\ open \in [ino : Nat, pieces : Nat] /\ current \in Nat
    BY <1>1, <1>2, TargetType DEF PlaceInv, GoesInside
  <2>4. open'.pieces = open.pieces + 1
    BY <1>2, <2>3
  <2>5. new.data = Written(open.pieces + 1)
    BY <1>1, <1>2, <1>3, <2>2, <2>3, WrittenNext DEF SoFar
  <2>6. Written(open.pieces)' = Written(open.pieces + 1)
    <3>1. current' = current /\ E' = E
      BY <1>2, <1>4 DEF Same
    <3> QED BY <2>4, <3>1 DEF Written, Bytes
  <2>7. open'.pieces <= Len(E.pieces)
    BY <1>2, <2>4, LenProperties
  <2>8. SoFar'
    BY <1>1, <1>2, <1>3, <1>4, <2>1, <2>3, <2>5, <2>6, <2>7
       DEF SoFar, MakesDir, OldDir, Same, Fixed
  <2> QED BY <1>1, <1>2, <1>4, <2>1, <2>8 DEF History
<1>7. \A p \in DOMAIN expect : Exists(disk', p) /\ At(disk', p) = expect[p]
  BY <1>2, <1>4, ExpectedKept
<1> QED BY <1>2, <1>4, <1>5, <1>6, <1>7 DEF EntryInv, History

LEMMA SetTimeWhole ==
  ASSUME EntryInv, SetTime
  PROVE  EntryInv'
<1> DEFINE old == disk.inodes[Target]
<1>1. /\ PlaceInv /\ NoneLost /\ pc = "data" /\ SoFar /\ Spot \notin DOMAIN expect /\ Filling
      /\ Same /\ open' = open /\ History /\ pc' = "owner" /\ open.pieces = Len(E.pieces)
  BY DEF EntryInv, SetTime, Filling, Goto
<1>2. /\ Target = open.ino /\ ~MakesDir(E) /\ E.type = "file"
      /\ old \in InodeType /\ old.kind # "dir"
  BY <1>1, TargetType
<1>3. disk' = Changed(disk, Target, WithMtime(old))
  BY <1>2 DEF SetTime
<1>4. PICK new \in InodeType :
        /\ new = WithMtime(old) /\ new.kind = old.kind
        /\ new.mode = old.mode /\ new.target = old.target
  <2> HIDE DEF old
  <2> QED BY <1>1, <1>2, WithMtimeType
<1>5. /\ new.data = old.data
      /\ new.mtime = IF ~options.mtimes \/ E.mtime = None THEN old.mtime
                     ELSE IF E.mtime = 0 THEN 1 ELSE E.mtime
  <2> HIDE DEF old
  <2> QED BY <1>2, <1>4 DEF WithMtime, InodeType
<1>6. /\ PlaceInv' /\ E' = E /\ Spot \in DOMAIN disk.names /\ disk'.names = disk.names
      /\ disk'.inodes[Target] = new
      /\ \A p \in DOMAIN disk.names \ {Spot} : At(disk', p) = At(disk, p)
      /\ Spot' = Spot /\ Target' = Target
  BY <1>1, <1>3, <1>4, ChangedFills DEF History
<1>7. NoneLost'
  <2>1. Working'
    BY <1>1 DEF Working
  <2> QED BY <1>1, <2>1, NoneLostStep DEF History
<1>8. /\ old.mtime = 0 /\ old.data = Written(Len(E.pieces)) /\ old.kind = "file"
      /\ old.target = None
  BY <1>1, <1>2 DEF SoFar
<1>9. Written(Len(E.pieces))' = Written(Len(E.pieces))
  <2>1. current' = current /\ E' = E
    BY <1>1, <1>6 DEF Same
  <2> QED BY <2>1 DEF Written, Bytes
<1>10. SoFar'
  BY <1>1, <1>2, <1>4, <1>5, <1>6, <1>8, <1>9 DEF SoFar, MakesDir, OldDir, Same, Fixed
<1>11. \A p \in DOMAIN expect : Exists(disk', p) /\ At(disk', p) = expect[p]
  BY <1>1, <1>6, ExpectedKept
<1> QED BY <1>1, <1>6, <1>7, <1>10, <1>11 DEF EntryInv, History

\* The last step of an entry.
LEMMA PlacedWhole ==
  ASSUME EntryInv, Filling, PlaceInv', Same, pc' = "entry", Placed(Spot, Asked),
         Spot \in DOMAIN disk.names, disk'.names = disk.names, At(disk', Spot) = Asked,
         \A p \in DOMAIN disk.names \ {Spot} : At(disk', p) = At(disk, p)
  PROVE  EntryInv'
<1>1. unpacked' = unpacked \cup {current} /\ pc # "error" /\ ~Filling' /\ NoneLost
  BY DEF Placed, Filling, EntryInv
<1>2. NoneLost'
  BY <1>1, NoneLostStep
<1>3. \A p \in DOMAIN expect : p # Spot /\ Exists(disk', p) /\ At(disk', p) = expect[p]
  BY ExpectedKept
<1>4. /\ DOMAIN expect' = DOMAIN expect \cup {Spot}
      /\ \A p \in DOMAIN expect' : expect'[p] = IF p = Spot THEN Asked ELSE expect[p]
  BY DEF Placed
<1>5. \A p \in DOMAIN expect' : Exists(disk', p) /\ At(disk', p) = expect'[p]
  <2> HIDE DEF Asked
  <2> QED BY <1>3, <1>4 DEF Exists
<1> QED BY <1>1, <1>2, <1>5 DEF EntryInv

LEMMA SetOwnerWhole ==
  ASSUME EntryInv, SetOwner
  PROVE  EntryInv'
<1> DEFINE old == disk.inodes[Target]
<1>1. /\ PlaceInv /\ NoneLost /\ pc = "owner" /\ SoFar /\ Spot \notin DOMAIN expect /\ Filling
      /\ E \in Entry
  BY TargetType DEF EntryInv, SetOwner, Filling
<1>2. old \in InodeType /\ (old.kind = "dir" <=> MakesDir(E))
  BY <1>1, TargetType
<1>3. CASE Error
  BY <1>1, <1>3, StillWhole
<1>4. CASE ~(options.owners /\ E.owner = None)
  <2>1. /\ IF E.type = "link"
           THEN /\ disk' = Changed(disk, Target, WithMtime(Chowned(old)))
                /\ Placed(Spot, Asked) /\ pc' = "entry"
           ELSE disk' = Changed(disk, Target, Chowned(old)) /\ History /\ pc' = "mode"
        /\ Same /\ open' = open
    BY <1>4 DEF SetOwner, Goto
  <2>2. PICK new \in InodeType :
          /\ new = Chowned(old) /\ new.kind = old.kind /\ new.target = old.target
          /\ new.mode = old.mode \/ new.kind = "file"
    <3> HIDE DEF old
    <3> QED BY <1>1, <1>2, <1>4, ChownedType
  <2>3. /\ new.owner = IF options.owners THEN E.owner ELSE old.owner
        /\ new.data = old.data /\ new.mtime = old.mtime
    <3> HIDE DEF old
    <3> QED BY <1>2, <2>2 DEF Chowned, InodeType
  <2>4. CASE E.type = "link"
    <3>1. ~MakesDir(E)
      BY <2>4 DEF MakesDir, OldDir
    <3>2. PICK timed \in InodeType :
            /\ timed = WithMtime(new) /\ timed.kind = new.kind
            /\ timed.mode = new.mode /\ timed.target = new.target
      BY <1>1, <1>2, <2>2, <3>1, WithMtimeType
    <3>3. /\ timed.data = new.data /\ timed.owner = new.owner
          /\ timed.mtime = IF ~options.mtimes \/ E.mtime = None THEN new.mtime
                           ELSE IF E.mtime = 0 THEN 1 ELSE E.mtime
      BY <3>2 DEF WithMtime, InodeType
    <3>4. /\ old.kind = "link" /\ old.target = E.target /\ old.data = <<>> /\ old.mode = {}
          /\ old.mtime = 0
      BY <1>1, <2>4, <3>1 DEF SoFar
    <3>5. timed = Asked
      <4>1. /\ Asked.kind = "link" /\ Asked.mode = {} /\ Asked.data = <<>>
            /\ Asked.target = E.target
            /\ Asked.owner = IF options.owners THEN E.owner ELSE old.owner
            /\ Asked.mtime = IF ~options.mtimes \/ E.mtime = None THEN 0
                             ELSE IF E.mtime = 0 THEN 1 ELSE E.mtime
        BY <2>4, <3>1 DEF Asked
      <4>2. /\ timed.kind = Asked.kind /\ timed.mode = Asked.mode /\ timed.data = Asked.data
            /\ timed.target = Asked.target /\ timed.owner = Asked.owner
            /\ timed.mtime = Asked.mtime
        BY <2>2, <2>3, <3>2, <3>3, <3>4, <4>1
      <4>3. Asked = [kind |-> Asked.kind, mode |-> Asked.mode, data |-> Asked.data,
                     target |-> Asked.target, mtime |-> Asked.mtime, owner |-> Asked.owner]
        BY DEF Asked
      <4>4. timed = [kind |-> timed.kind, mode |-> timed.mode, data |-> timed.data,
                     target |-> timed.target, mtime |-> timed.mtime, owner |-> timed.owner]
        BY DEF InodeType
      <4> QED BY <4>2, <4>3, <4>4
    <3>6. unpacked' = unpacked \cup {current} /\ pc' = "entry" /\ Placed(Spot, Asked)
      BY <2>1, <2>4 DEF Placed
    <3>7. /\ PlaceInv' /\ Spot \in DOMAIN disk.names /\ disk'.names = disk.names
          /\ At(disk', Spot) = timed
          /\ \A p \in DOMAIN disk.names \ {Spot} : At(disk', p) = At(disk, p)
      BY <1>1, <2>1, <2>2, <2>4, <3>2, <3>6, ChangedFills
    <3> QED BY <1>1, <2>1, <3>5, <3>6, <3>7, PlacedWhole
  <2>5. CASE E.type # "link"
    <3>1. disk' = Changed(disk, Target, new) /\ History /\ pc' = "mode"
      BY <2>1, <2>2, <2>5
    <3>2. /\ PlaceInv' /\ E' = E /\ Spot \in DOMAIN disk.names /\ disk'.names = disk.names
          /\ disk'.inodes[Target] = new
          /\ \A p \in DOMAIN disk.names \ {Spot} : At(disk', p) = At(disk, p)
          /\ Spot' = Spot /\ Target' = Target
      <4> HIDE DEF old
      <4>1. new.mode = old.mode \/ ~MakesDir(E)
        BY <1>2, <2>2
      <4> QED BY <1>1, <2>1, <2>2, <3>1, <4>1, ChangedFills DEF History, old
    <3>3. NoneLost'
      <4>1. Working'
        BY <3>1 DEF Working
      <4> QED BY <1>1, <2>1, <3>1, <4>1, NoneLostStep DEF History
    <3>4. Written(Len(E.pieces))' = Written(Len(E.pieces))
      <4>1. current' = current /\ E' = E
        BY <2>1, <3>2 DEF Same
      <4> QED BY <4>1 DEF Written, Bytes
    <3>5. SoFar'
      BY <1>1, <2>1, <2>2, <2>3, <2>5, <3>1, <3>2, <3>4 DEF SoFar, MakesDir, OldDir, Same, Fixed
    <3>6. \A p \in DOMAIN expect : Exists(disk', p) /\ At(disk', p) = expect[p]
      BY <1>1, <3>2, ExpectedKept
    <3> QED BY <1>1, <3>1, <3>2, <3>3, <3>5, <3>6 DEF EntryInv, History
  <2> QED BY <2>4, <2>5
<1> QED BY <1>3, <1>4 DEF SetOwner

LEMMA SetModeWhole ==
  ASSUME EntryInv, SetMode
  PROVE  EntryInv'
<1> DEFINE old  == disk.inodes[Target]
           mode == IF E.mode = None THEN old.mode ELSE Masked(E.mode)
           new  == [old EXCEPT !.mode = mode]
<1>1. /\ PlaceInv /\ NoneLost /\ pc = "mode" /\ SoFar /\ Filling
      /\ E \in Entry /\ options \in Option /\ old \in InodeType /\ (old.kind = "dir" <=> MakesDir(E))
  BY TargetType DEF EntryInv, SetMode, Filling
<1>2. /\ disk' = Changed(disk, Target, new) /\ Same /\ open' = open
      /\ Placed(Spot, Asked) /\ pc' = "entry"
  BY DEF SetMode, Goto
<1>3. mode \in SUBSET Bit
  <2> HIDE DEF old
  <2> QED BY <1>1 DEF Masked, Entry, InodeType
<1>4. /\ new \in InodeType /\ new.kind = old.kind /\ new.mode = mode /\ new.data = old.data
      /\ new.target = old.target /\ new.mtime = old.mtime /\ new.owner = old.owner
  <2> HIDE DEF old, mode
  <2> QED BY <1>1, <1>3 DEF InodeType
<1>5. new = Asked
  <2>1. E.type # "link" /\ (MakesDir(E) \/ E.type = "file")
    BY <1>1 DEF SoFar, MakesDir, OldDir
  <2>2. /\ Asked.kind = (IF MakesDir(E) THEN "dir" ELSE "file") /\ Asked.mode = mode
        /\ Asked.target = None
        /\ Asked.owner = IF options.owners THEN E.owner ELSE old.owner
        /\ Asked.mtime = IF MakesDir(E) \/ ~options.mtimes \/ E.mtime = None THEN 0
                         ELSE IF E.mtime = 0 THEN 1 ELSE E.mtime
    BY <2>1 DEF Asked
  <2>3. Asked.data = IF MakesDir(E) THEN <<>> ELSE Written(Len(E.pieces))
    <3>1. DOMAIN E.pieces = 1..Len(E.pieces)
      BY <1>1, LenProperties DEF Entry
    <3> QED BY <2>1, <3>1 DEF Asked, Written
  <2>4. /\ old.kind = (IF MakesDir(E) THEN "dir" ELSE "file") /\ old.target = None
        /\ old.data = IF MakesDir(E) THEN <<>> ELSE Written(Len(E.pieces))
        /\ old.mtime = IF MakesDir(E) \/ ~options.mtimes \/ E.mtime = None THEN 0
                       ELSE IF E.mtime = 0 THEN 1 ELSE E.mtime
        /\ options.owners => old.owner = E.owner
    <3>1. CASE MakesDir(E)
      BY <1>1, <3>1 DEF InodeType, SoFar
    <3>2. CASE ~MakesDir(E)
      BY <1>1, <2>1, <3>2 DEF SoFar
    <3> QED BY <3>1, <3>2
  <2> HIDE DEF new, old, mode
  <2>5. /\ new.kind = Asked.kind /\ new.mode = Asked.mode /\ new.data = Asked.data
        /\ new.target = Asked.target /\ new.owner = Asked.owner /\ new.mtime = Asked.mtime
    BY <1>4, <2>2, <2>3, <2>4
  <2>6. Asked = [kind |-> Asked.kind, mode |-> Asked.mode, data |-> Asked.data,
                 target |-> Asked.target, mtime |-> Asked.mtime, owner |-> Asked.owner]
    BY DEF Asked
  <2>7. new = [kind |-> new.kind, mode |-> new.mode, data |-> new.data,
               target |-> new.target, mtime |-> new.mtime, owner |-> new.owner]
    BY <1>4 DEF InodeType
  <2> QED BY <2>5, <2>6, <2>7
<1> HIDE DEF new
<1>6. /\ PlaceInv' /\ Spot \in DOMAIN disk.names /\ disk'.names = disk.names
      /\ At(disk', Spot) = new
      /\ \A p \in DOMAIN disk.names \ {Spot} : At(disk', p) = At(disk, p)
  <2>1. unpacked' = unpacked \cup {current}
    BY <1>2 DEF Placed
  <2> QED BY <1>1, <1>2, <1>4, <2>1, ChangedFills
<1> QED BY <1>1, <1>2, <1>5, <1>6, PlacedWhole

-----------------------------------------------------------------------------
(* Theorems.                                                               *)

LEMMA NextKeeps ==
  ASSUME PlaceInv, [Next]_vars
  PROVE  PlaceInv'
<1>1. CASE UNCHANGED vars
  <2>1. /\ world' = world /\ options' = options /\ archive' = archive /\ disk' = disk
        /\ deferred' = deferred /\ pc' = pc /\ current' = current /\ open' = open
        /\ unpacked' = unpacked
    BY <1>1 DEF vars
  <2>2. E' = E /\ FileDst' = FileDst /\ Parent' = Parent /\ Spot' = Spot /\ Target' = Target
    BY <2>1 DEF E, FileDst, Parent, Spot, Target, MakesDir, OldDir
  <2>3. TypeOK' /\ SameOutside' /\ DirsOnce(disk')
    BY <2>1 DEF PlaceInv, TypeOK, Working, SameOutside, DirsOnce
  <2>4. GoesInside'
    BY <2>1, <2>2 DEF PlaceInv, GoesInside, Working, Filling, ParentInside
  <2> QED BY <2>3, <2>4 DEF PlaceInv
<1>2. CASE Next
  BY <1>2, StartKeeps, NextEntryKeeps, NextDirKeeps, StillKeeps, CheckPathKeeps, EnsureDirKeeps,
     PlaceDirKeeps, PlaceHardLinkKeeps, PlaceSymlinkKeeps, PlaceFileKeeps, ReplaceKeeps,
     WritePieceKeeps, SetTimeKeeps, SetOwnerKeeps, SetModeKeeps DEF Next
<1> QED BY <1>1, <1>2

\* In every state what is being unpacked goes to a place inside the destination: the directories
\* were looked up as the system does, links and all, no step in between leads the path elsewhere,
\* and the inode that is written to has no name outside (EntryFields::unpack_in and unpack).
THEOREM PlacesAlways == Spec => []PlaceInv
<1>1. PlaceInv /\ [Next]_vars => PlaceInv'
  BY NextKeeps
<1> QED BY InitPlaces, <1>1, PTL DEF Spec

\* Nothing outside the destination comes, goes or changes: for every archive, however its paths
\* and links are made, every file system that was there before and every set of options, and
\* whatever fails (Archive::unpack).
THEOREM ElsewhereAlways == Spec => []ElsewhereKept
<1>1. PlaceInv => ElsewhereKept
  BY DEF PlaceInv, SameOutside, ElsewhereKept
<1> QED BY PlacesAlways, <1>1, PTL

LEMMA NextWhole ==
  ASSUME EntryInv, [Next]_vars
  PROVE  EntryInv'
<1>1. CASE UNCHANGED vars
  <2>1. /\ options' = options /\ archive' = archive /\ disk' = disk
        /\ deferred' = deferred /\ pc' = pc /\ current' = current /\ open' = open
        /\ unpacked' = unpacked /\ expect' = expect
    BY <1>1 DEF vars
  <2>2. PlaceInv'
    BY <1>1, NextKeeps DEF EntryInv
  <2>3. E' = E /\ FileDst' = FileDst /\ Spot' = Spot /\ Target' = Target
    BY <2>1 DEF E, FileDst, Spot, Target, MakesDir, OldDir
  <2>4. /\ Written(open.pieces)' = Written(open.pieces)
        /\ Written(Len(E.pieces))' = Written(Len(E.pieces))
    BY <2>1, <2>3 DEF Written, Bytes
  <2>5. SoFar => SoFar'
    BY <2>1, <2>3, <2>4 DEF SoFar, MakesDir, OldDir
  <2>6. NoneLost'
    BY <2>1 DEF EntryInv, NoneLost, Working
  <2> QED BY <2>1, <2>2, <2>3, <2>5, <2>6 DEF EntryInv, Filling
<1>2. CASE Next
  <2>1. Io \/ NoMoreEntries \/ Finish \/ PlaceNothing => pc # "error"
    BY DEF Io, NoMoreEntries, Finish, PlaceNothing
  <2> QED BY <1>2, <2>1, StartWhole, NextEntryWhole, NextDirWhole, StillWhole, CheckPathWhole,
        EnsureDirWhole, PlaceDirWhole, PlaceHardLinkWhole, PlaceSymlinkWhole, PlaceFileWhole,
        ReplaceWhole, WritePieceWhole, SetTimeWhole, SetOwnerWhole, SetModeWhole DEF Next
<1> QED BY <1>1, <1>2

\* In every state each entry is unpacked, skipped, deferred or at work, the inode it is written to
\* is what its steps so far make of it, and what the earlier ones left is as they left it.
THEOREM EntriesAlways == Spec => []EntryInv
<1>1. EntryInv /\ [Next]_vars => EntryInv'
  BY NextWhole
<1> QED BY InitEntries, <1>1, PTL DEF Spec

\* What was unpacked stays as the archive has it, for every archive, file system and set of
\* options and whatever fails; and when unpack returns Ok no entry is missing (Archive::unpack).
THEOREM WholeAlways == Spec => []UnpackedWhole
<1>1. EntryInv => UnpackedWhole
  <2> SUFFICES ASSUME EntryInv, pc = "done", NEW i \in DOMAIN archive
               PROVE  i \in unpacked \/ Skipped(archive[i])
    BY DEF UnpackedWhole, EntryInv
  <2> QED BY DEF EntryInv, NoneLost, Working
<1> QED BY EntriesAlways, <1>1, PTL
=============================================================================
