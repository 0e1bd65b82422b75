-------------------------------- MODULE Names --------------------------------
(***************************************************************************)
(* Paths as headers store them: which are accepted, what is written into   *)
(* the fixed fields, and what is read back.  A path is the list of its     *)
(* components, each a stretch of a name, so that cutting a path into two   *)
(* fields or at the end of one can be told from losing a byte of it.       *)
(***************************************************************************)
EXTENDS Integers, Sequences, SequencesExt

CONSTANTS
  NameLen,     \* bytes of the fields name and linkname (100 in the code)
  PrefixLen,   \* bytes of the prefix of a ustar header (155 in the code)
  Width,       \* the length of each name
  Dots,        \* a name that begins with two dots
  Nul          \* a name that ends with a byte 0

ASSUME LengthAssumption == NameLen \in Nat \ {0} /\ PrefixLen \in Nat \ {0}

\* The bytes from..to of a name.
Part == [name : DOMAIN Width, from : Nat, to : Nat]
Path == {path \in [root : BOOLEAN, parts : Seq(Part), slash : BOOLEAN] :
           /\ \A i \in DOMAIN path.parts : 1 <= path.parts[i].from /\ path.parts[i].from <= path.parts[i].to
           /\ path.slash => path.parts # <<>>}

NoPath == [root |-> FALSE, parts |-> <<>>, slash |-> FALSE]

IsCur(part)    == part.name = Dots /\ part.from = 1 /\ part.to = 1
IsParent(part) == part.name = Dots /\ part.from = 1 /\ part.to = 2
HasNul(part)   == part.name = Nul /\ part.to >= Width[Nul]

Bit(b) == IF b THEN 1 ELSE 0

Sum(numbers) == FoldLeft(LAMBDA a, b : a + b, 0, numbers)

\* Where a component begins, counted from 0, when components are separated by "/".
Offset(path, i) ==
  Bit(path.root) + Sum([j \in 1..(i - 1) |-> path.parts[j].to - path.parts[j].from + 2])

Length(path) ==
  LET n == Len(path.parts)
  IN  Bit(path.slash) + (IF n = 0 THEN Bit(path.root) ELSE Offset(path, n + 1) - 1)

\* A path that is only a root ends with a slash too.
EndsWithSlash(path) == path.slash \/ (path.root /\ path.parts = <<>>)

\* The components without the "." among them.
Without(parts) ==
  FlattenSeq([i \in DOMAIN parts |-> IF IsCur(parts[i]) THEN <<>> ELSE <<parts[i]>>])

\* Path::components: a "." counts only as the first component.
Components(path) ==
  IF path.parts # <<>> /\ IsCur(Head(path.parts)) /\ ~path.root
  THEN <<Head(path.parts)>> \o Without(Tail(path.parts))
  ELSE Without(path.parts)

\* The same path without its "." components and its final slash.
Clean(path) == [path EXCEPT !.parts = Without(@), !.slash = FALSE]

-----------------------------------------------------------------------------
(* copy_path_into.  how.link is for link names, how.absolute allows a root, *)
(* how.cut is for a path of which only the beginning is given.              *)

Accepts(path, i, how) ==
  LET part == Components(path)[i]
  IN  /\ ~HasNul(part)
      /\ IsParent(part) => how.link \/ (how.cut /\ i = Len(Components(path)))

\* What is copied: "." goes, except from links and when there is nothing else.
Emitted(path, how) ==
  [root  |-> path.root,
   parts |-> IF how.link \/ Len(Components(path)) + Bit(path.root) = 1
             THEN Components(path) ELSE Without(Components(path)),
   slash |-> EndsWithSlash(path)]

Stores(path, len, how) ==
  /\ path.root => how.link \/ how.absolute
  /\ path.root \/ Emitted(path, how).parts # <<>>
  /\ \A i \in DOMAIN Components(path) : Accepts(path, i, how)
  /\ Length(Emitted(path, how)) <= len

\* A field that was being filled when the rest of the path was refused.
Torn == [root |-> FALSE, parts |-> <<[name |-> "torn", from |-> 1, to |-> 1]>>, slash |-> FALSE]

\* The field afterwards; a path refused before its first byte leaves it alone.
Stored(old, path, len, how) ==
  IF Stores(path, len, how) THEN Emitted(path, how)
  ELSE LET whole == Emitted(path, how)
           first == [whole EXCEPT !.parts = SubSeq(@, 1, IF path.root THEN 0 ELSE 1),
                                  !.slash = FALSE]
       IN  IF (path.root \/ whole.parts # <<>>) /\ Stores(first, len, [how EXCEPT !.cut = FALSE])
           THEN Torn ELSE old

-----------------------------------------------------------------------------
(* The path of a header.                                                    *)

\* The last parent of the path that fits the prefix, as a number of components.
SplitAt(path) ==
  LET Parent(k) == [NoPath EXCEPT !.root = path.root, !.parts = SubSeq(path.parts, 1, k)]
  IN  CHOOSE k \in 0..(Len(path.parts) - 1) :
        /\ Length(Parent(k)) <= PrefixLen
        /\ \A j \in (k + 1)..(Len(path.parts) - 1) : Length(Parent(j)) > PrefixLen

\* A path that is too long for a name is divided behind a component.  Behind the root there
\* is no separator to leave out.
Divided(path) == Length(path) > NameLen => ~(path.root /\ SplitAt(path) = 0)

\* Faulty: the rest begins one byte too late.
AfterParentLate(path, k) ==
  [root  |-> FALSE, slash |-> path.slash,
   parts |-> [SubSeq(path.parts, k + 1, Len(path.parts)) EXCEPT ![1].from = @ + 1]]

\* bytes[prefixlen + 1..]: it also takes a byte where no separator follows the parent.
AfterParent(path, k) ==
  [root  |-> FALSE, slash |-> path.slash,
   parts |-> IF k > 0 THEN SubSeq(path.parts, k + 1, Len(path.parts))
             ELSE [path.parts EXCEPT ![1].from = @ + 1]]

\* UstarHeader::_set_path
UstarSetPath(header, path, absolute) ==
  LET how    == [link |-> FALSE, cut |-> FALSE, absolute |-> absolute]
      k      == SplitAt(path)
      parent == [NoPath EXCEPT !.root = path.root, !.parts = SubSeq(path.parts, 1, k)]
      rest   == AfterParent(path, k)
  IN  IF Length(path) <= NameLen
      THEN [ok     |-> Stores(path, NameLen, how),
            header |-> [header EXCEPT !.name = Stored(@, path, NameLen, how)]]
      ELSE IF ~Stores(parent, PrefixLen, how)
      THEN [ok |-> FALSE, header |-> [header EXCEPT !.prefix = Stored(@, parent, PrefixLen, how)]]
      ELSE [ok     |-> Stores(rest, NameLen, how),
            header |-> [header EXCEPT !.prefix = Emitted(parent, how),
                                      !.name = Stored(@, rest, NameLen, how)]]

\* Header::set_path_inner
SetPath(header, path, absolute, cut) ==
  LET how == [link |-> FALSE, cut |-> cut, absolute |-> absolute]
  IN  IF header.format = "ustar" THEN UstarSetPath(header, path, absolute)
      ELSE [ok     |-> Stores(path, NameLen, how),
            header |-> [header EXCEPT !.name = Stored(@, path, NameLen, how)]]

\* Header::set_link_name
SetLink(header, path) ==
  LET how == [link |-> TRUE, cut |-> FALSE, absolute |-> TRUE]
  IN  [ok     |-> Stores(path, NameLen, how),
       header |-> [header EXCEPT !.link = Stored(@, path, NameLen, how)]]

\* Header::path_bytes; the prefix is not empty when its first byte is set.
PathOf(header) ==
  IF header.format = "ustar" /\ header.prefix # NoPath
  THEN [header.name EXCEPT !.root = header.prefix.root, !.parts = header.prefix.parts \o @]
  ELSE header.name

\* The first bytes of a path.
Cut(path, n) ==
  LET kept == Cardinality({i \in DOMAIN path.parts : Offset(path, i) < n})
      last == Offset(path, kept)
  IN  [root  |-> path.root,
       parts |-> [i \in 1..kept |->
                    IF i < kept THEN path.parts[i]
                    ELSE [path.parts[i] EXCEPT !.to = Min({@, path.parts[i].from + n - last - 1})]],
       slash |-> \/ path.slash /\ Length(path) <= n
                 \/ kept < Len(path.parts) /\ Offset(path, kept + 1) = n]

==============================================================================
