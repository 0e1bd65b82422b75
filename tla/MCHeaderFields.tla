--------------------------- MODULE MCHeaderFields ---------------------------
(***************************************************************************)
(* A small header: short fields of 3 bytes with values below 512, of which *)
(* octal text holds 0..3; long fields of 5 bytes, of which octal text      *)
(* holds 0..15; a name of 3 bytes and a prefix of 4.                       *)
(***************************************************************************)
EXTENDS HeaderFields

Widths == [a |-> 1, bb |-> 2, ccc |-> 3, dddd |-> 4, eeeee |-> 5] @@ (Dots :> 3) @@ (Nul :> 2)

Part1(n) == [name |-> n, from |-> 1, to |-> Widths[n]]
Rel(names) == [NoPath EXCEPT !.parts = [i \in DOMAIN names |-> Part1(names[i])]]
Abs(names) == [Rel(names) EXCEPT !.root = TRUE]
Dir(path)  == [path EXCEPT !.slash = TRUE]
Here   == [name |-> Dots, from |-> 1, to |-> 1]
Parent == [name |-> Dots, from |-> 1, to |-> 2]
Under(part, path) == [path EXCEPT !.parts = <<part>> \o @]

\* Paths that fit the name, need the prefix, or fit neither; with and without a final
\* slash; ".", "..", a NUL, nothing; absolute ones, of which some are divided behind the root.
SomePaths ==
  {NoPath, Under(Here, NoPath), Dir(Under(Here, NoPath)), Under(Parent, Rel(<<"a">>)),
   Under(Here, Rel(<<"ccc">>)), Rel(<<"a">>), Rel(<<"ccc">>), Rel(<<"dddd">>), Dir(Rel(<<"ccc">>)),
   Rel(<<"bb", "a">>), Rel(<<"a", "bb", "ccc">>), Dir(Rel(<<"a", "bb">>)), Rel(<<"a", Nul>>),
   Rel(<<Nul>>), Rel(<<"bb", "dddd">>), Rel(<<"eeeee", "a">>), Rel(<<Dots, "bb">>),
   Abs(<<>>), Abs(<<"a">>), Abs(<<"a", "ccc">>), Abs(<<"dddd">>), Abs(<<"eeeee">>)}

Boundaries == {0, 3, 4, 15, 16, 255, 511}
SomeOwners == {Rel(<<n>>) : n \in {"a", "bb", "ccc", Nul}}
SomeMetas ==
  {[type |-> "Regular", mode |-> 1, uid |-> 4, mtime |-> 511, len |-> 16, exec |-> TRUE],
   [type |-> "Directory", mode |-> 3, uid |-> 0, mtime |-> 0, len |-> 9, exec |-> FALSE],
   [type |-> "Symlink", mode |-> 0, uid |-> 3, mtime |-> 15, len |-> 2, exec |-> FALSE]}
=============================================================================
