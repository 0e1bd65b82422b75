---------------------------- MODULE HeaderFields ----------------------------
(***************************************************************************)
(* One header that a client fills in, in any order and more than once, and *)
(* reads back.  Numbers are kept as the bytes of their fields: a byte is 0 *)
(* (NUL), 1 (any character that is no digit), 2 + d (the digit d) or, in a *)
(* binary number, anything; the first byte of a binary number has its top  *)
(* bit set.  A text is kept as a path, and byte for byte as well.          *)
(***************************************************************************)
EXTENDS Names, FiniteSets

CONSTANTS
  Octal,       \* the base of a number in text (8 in the code)
  Byte,        \* how many values a byte has (256)
  Short,       \* bytes of a short field, and of a u64 (8)
  Long,        \* bytes of a long field (12)
  OwnerLen,    \* bytes of the user and group names (32)
  Values,      \* the numbers a client sets
  Paths,       \* the paths and link targets a client sets
  Owners,      \* the user and group names a client sets, as paths
  Metas,       \* metadata of files: [type, mode, uid, mtime, len, exec]
  Formats,     \* the formats of headers
  MaxCalls,    \* bound: calls of the client
  Bad,         \* what a getter returns instead of a number
  None

ASSUME EncodingAssumption ==
  /\ Octal \in Nat /\ Octal >= 2 /\ Byte \in Nat /\ Byte % 2 = 0 /\ 2 + Octal <= Byte \div 2
  /\ Short \in Nat /\ Short >= 2 /\ Long \in Nat /\ Long > Short

VARIABLES
  header,      \* its fields: numbers as bytes, texts as paths
  text,        \* the bytes of the texts
  asked,       \* what the client last set, None when it has not or was refused
  calls

vars == <<header, text, asked, calls>>

\* Fields of u32 are octal whatever they hold; the others may be binary.
ShortFields == {"mode", "uid", "gid", "dev_major", "dev_minor"}
LongFields  == {"size", "mtime", "realsize"}
OctalFields == {"mode", "dev_major", "dev_minor"}
NumFields   == ShortFields \cup LongFields
Size(field) == IF field \in ShortFields THEN Short ELSE Long

-----------------------------------------------------------------------------
(* Numeric fields.                                                          *)

\* base, base * base, ...: what shifting by digits divides by.
Powers(base) ==
  LET power[n \in 0..Long] == IF n = 0 THEN 1 ELSE base * power[n - 1] IN power

\* A digit of a number, counted from the right, and the number that digits make.
DigitAt(base, value, n) == (value \div Powers(base)[n]) % base
Number(base, first, digits) ==
  FoldLeft(LAMBDA value, digit : value * base + digit, first, digits)

Flag == Byte \div 2
U64 == 0..(Powers(Byte)[Short] - 1)
Digit(d) == 2 + d
IsDigit(byte) == byte >= 2 /\ byte - 2 < Octal

\* octal_into: from the right a NUL and the digits; digits that do not fit are lost.
OctalInto(len, value) ==
  [i \in 1..len |-> IF i = len THEN 0 ELSE Digit(DigitAt(Octal, value, len - 1 - i))]

\* truncate: the bytes before the first NUL.
Truncated(bytes, nul) ==
  LET nuls == {i \in DOMAIN bytes : bytes[i] = nul}
  IN  IF nuls = {} THEN bytes ELSE SubSeq(bytes, 1, Min(nuls) - 1)

OctalFrom(bytes) ==
  LET digits == Truncated(bytes, 0)
  IN  IF digits = <<>> \/ \E i \in DOMAIN digits : ~IsDigit(digits[i]) THEN Bad
      ELSE Number(Octal, 0, [i \in DOMAIN digits |-> digits[i] - 2])

\* Faulty: the flag is added to a byte that has it.
ExtendedIntoTwice(len, value) ==
  LET plain == [i \in 1..len |->
                  IF i <= len - Short THEN 0 ELSE DigitAt(Byte, value, len - i)]
  IN  [plain EXCEPT ![1] = @ + Flag]

\* numeric_extended_into: the last bytes are the u64, and the first one has the flag.
ExtendedInto(len, value) ==
  LET plain == [i \in 1..len |->
                  IF i <= len - Short THEN 0 ELSE DigitAt(Byte, value, len - i)]
  IN  [plain EXCEPT ![1] = IF @ < Flag THEN @ + Flag ELSE @]

ExtendedFrom(bytes) ==
  LET len   == Len(bytes)
      first == IF len = Short THEN bytes[1] - Flag ELSE 0
      rest  == SubSeq(bytes, IF len = Short THEN 2 ELSE len - Short + 1, len)
  IN  Number(Byte, first, rest)

\* Faulty: binary starts one number too late.
NumIntoLate(len, value) ==
  IF value > Powers(Octal)[Long - 1] \/ (value > Powers(Octal)[Short - 1] /\ len = Short)
  THEN ExtendedInto(len, value) ELSE OctalInto(len, value)

\* num_field_wrapper_into
NumInto(len, value) ==
  IF value >= Powers(Octal)[Long - 1] \/ (value >= Powers(Octal)[Short - 1] /\ len = Short)
  THEN ExtendedInto(len, value) ELSE OctalInto(len, value)

\* num_field_wrapper_from
NumFrom(bytes) == IF bytes[1] >= Flag THEN ExtendedFrom(bytes) ELSE OctalFrom(bytes)

Into(field, value) ==
  IF field \in OctalFields THEN OctalInto(Short, value) ELSE NumInto(Size(field), value)
From(field, bytes) == IF field \in OctalFields THEN OctalFrom(bytes) ELSE NumFrom(bytes)

-----------------------------------------------------------------------------
(* Texts.  A byte is a separator, or a place in a name; NUL is the last byte *)
(* of the name that ends with one.                                           *)

Texts == {"name", "prefix", "link", "owner"}
FieldLen(field) ==
  CASE field = "prefix" -> PrefixLen [] field = "owner" -> OwnerLen [] OTHER -> NameLen

Slash   == <<"/", 0>>
NulByte == <<Nul, Width[Nul]>>

\* The bytes of a path.
Spelled(path) ==
  LET First(j)   == Offset(path, j) + 1
      Stretch(j) == First(j)..(First(j) + path.parts[j].to - path.parts[j].from)
  IN  [i \in 1..Length(path) |->
         LET parts == {j \in DOMAIN path.parts : i \in Stretch(j)}
             j     == CHOOSE k \in parts : TRUE
         IN  IF parts = {} THEN Slash
             ELSE <<path.parts[j].name, path.parts[j].from + i - First(j)>>]

\* Faulty: the end is not marked.
CopyIntoUnterminated(slot, bytes) ==
  [i \in DOMAIN slot |-> IF i <= Len(bytes) THEN bytes[i] ELSE slot[i]]

\* copy_into: the bytes and, when there is room, a NUL; what is behind it stays.
CopyInto(slot, bytes) ==
  [i \in DOMAIN slot |->
     IF i <= Len(bytes) THEN bytes[i] ELSE IF i = Len(bytes) + 1 THEN NulByte ELSE slot[i]]

-----------------------------------------------------------------------------
(* Entry types.                                                             *)

\* EntryType::as_byte; " " stands for every byte without a type of its own.
ByteOf ==
  [Regular |-> "0", Link |-> "1", Symlink |-> "2", Char |-> "3", Block |-> "4",
   Directory |-> "5", Fifo |-> "6", Continuous |-> "7", XHeader |-> "x",
   XGlobalHeader |-> "g", GNULongName |-> "L", GNULongLink |-> "K", GNUSparse |-> "S",
   Unknown |-> " "]

\* The numbers that a client sets are those of a u64, and metadata is of a file of some type.
ASSUME ClientAssumption ==
  /\ Values \subseteq U64
  /\ Metas \subseteq [type : DOMAIN ByteOf, mode : U64, uid : U64, mtime : U64, len : U64,
                     exec : BOOLEAN]
  /\ Formats \subseteq {"gnu", "ustar", "old"}
  /\ MaxCalls \in Nat
  /\ Paths \subseteq Path /\ Owners \subseteq Path /\ OwnerLen \in Nat

ASSUME SeparatorAssumption == Nul \notin {"/", "torn"}

ASSUME SentinelAssumption == None \notin U64 /\ None \notin DOMAIN ByteOf

\* EntryType::new
TypeOf(byte) ==
  IF byte = "NUL" THEN "Regular" ELSE CHOOSE t \in DOMAIN ByteOf : ByteOf[t] = byte

-----------------------------------------------------------------------------
(* The header.                                                              *)

Extended == header.format \in {"gnu", "ustar"}

\* new_gnu, new_ustar and new_old: zeros, a format and a time.
New(format) ==
  [format |-> format, type |-> "NUL", name |-> NoPath, prefix |-> NoPath, link |-> NoPath,
   owner |-> NoPath,
   num |-> [f \in NumFields |->
              IF f = "mtime" THEN NumInto(Long, 0) ELSE [i \in 1..Size(f) |-> 0]]]

Init ==
  /\ \E format \in Formats : header = New(format)
  /\ text = [f \in Texts |-> [i \in 1..FieldLen(f) |-> NulByte]]
  /\ asked = [num |-> [f \in NumFields |-> IF f = "mtime" THEN 0 ELSE None],
              path |-> None, link |-> None, owner |-> None, type |-> None]
  /\ calls = 0

Call == calls < MaxCalls /\ calls' = calls + 1

\* The fields a format has.
Has(field) ==
  CASE field \in {"dev_major", "dev_minor"} -> Extended
    [] field = "realsize" -> header.format = "gnu"
    [] OTHER -> TRUE

\* set_mode, set_uid, set_gid, set_size, set_mtime, set_real_size,
\* set_device_major and set_device_minor
SetNumber(field, value) ==
  /\ Call /\ Has(field)
  /\ header' = [header EXCEPT !.num[field] = Into(field, value)]
  /\ asked' = [asked EXCEPT !.num[field] = value]
  /\ UNCHANGED text

\* Setting a device number of an old header is refused.
SetNumberRefused(field) ==
  /\ Call /\ field \in {"dev_major", "dev_minor"} /\ ~Extended
  /\ UNCHANGED <<header, text, asked>>

\* The bytes of the texts after a call, which overwrites those of a path that it changes.
Written == [f \in Texts |-> IF header'[f] = header[f] THEN text[f]
                            ELSE CopyInto(text[f], Spelled(header'[f]))]

\* set_path and set_path_absolute.
PathSet(path, absolute) ==
  LET set == SetPath(header, path, absolute, FALSE)
  IN  /\ Call
      /\ header' = set.header /\ text' = Written
      /\ asked' = [asked EXCEPT !.path = IF set.ok THEN path ELSE None]

\* set_link_name
LinkSet(path) ==
  LET set == SetLink(header, path)
  IN  /\ Call
      /\ header' = set.header /\ text' = Written
      /\ asked' = [asked EXCEPT !.link = IF set.ok THEN path ELSE None]

\* set_username and set_groupname: copy_into refuses what does not fit or has a NUL.
SetOwner(owner) ==
  /\ Call
  /\ IF /\ Extended /\ Length(owner) <= OwnerLen
        /\ \A i \in DOMAIN owner.parts : ~HasNul(owner.parts[i])
     THEN /\ header' = [header EXCEPT !.owner = owner] /\ text' = Written
          /\ asked' = [asked EXCEPT !.owner = owner]
     ELSE UNCHANGED <<header, text, asked>>

\* set_entry_type
SetType(type) ==
  /\ Call
  /\ header' = [header EXCEPT !.type = ByteOf[type]]
  /\ asked' = [asked EXCEPT !.type = type]
  /\ UNCHANGED text

Now == 1        \* DETERMINISTIC_TIMESTAMP
\* 0o755 and 0o644, of which only the difference matters.
DefaultMode(meta) == IF meta.type = "Directory" \/ meta.exec THEN 3 ELSE 2

\* fill_platform_from and fill_from: what a file's metadata says of each field.
Filled(meta, mode) ==
  [f \in NumFields |->
     CASE f = "mtime" -> IF mode = "complete" THEN meta.mtime ELSE Now
       [] f \in {"uid", "gid"} -> IF mode = "complete" THEN meta.uid ELSE 0
       [] f = "mode" -> IF mode = "complete" THEN meta.mode ELSE DefaultMode(meta)
       [] f = "size" -> IF meta.type \in {"Directory", "Symlink"} THEN 0 ELSE meta.len
       [] f \in {"dev_major", "dev_minor"} -> IF Extended THEN 0 ELSE None
       [] f = "realsize" -> None]

\* set_metadata_in_mode
SetMetadata(meta, mode) ==
  LET new == Filled(meta, mode)
  IN  /\ Call
      /\ header' = [header EXCEPT
                      !.type = ByteOf[meta.type],
                      !.num = [f \in NumFields |->
                                 IF new[f] = None THEN @[f] ELSE Into(f, new[f])]]
      /\ asked' = [asked EXCEPT
                     !.type = meta.type,
                     !.num = [f \in NumFields |-> IF new[f] = None THEN @[f] ELSE new[f]]]
      /\ UNCHANGED text

Next ==
  \/ \E f \in NumFields, v \in Values : SetNumber(f, v)
  \/ \E f \in NumFields : SetNumberRefused(f)
  \/ \E p \in Paths, absolute \in BOOLEAN : PathSet(p, absolute)
  \/ \E p \in Paths : LinkSet(p)
  \/ \E o \in Owners : SetOwner(o)
  \/ \E t \in {"GNUSparse", "Unknown"} : SetType(t)
  \/ \E m \in Metas, mode \in {"complete", "deterministic"} : SetMetadata(m, mode)

Spec == Init /\ [][Next]_vars

-----------------------------------------------------------------------------
(* Properties.                                                              *)

\* The header is made of fields of the right length.
TypeOK ==
  /\ header.num \in [NumFields -> Seq(0..(Byte - 1))]
  /\ \A f \in NumFields : Len(header.num[f]) = Size(f)
  /\ Length(header.name) <= NameLen /\ Length(header.link) <= NameLen
  /\ Length(header.prefix) <= PrefixLen /\ Length(header.owner) <= OwnerLen
  /\ DOMAIN text = Texts /\ \A f \in Texts : DOMAIN text[f] = 1..FieldLen(f)
  /\ calls \in 0..MaxCalls

\* Header::size: the type says which field is the size of the contents.
SizeRead ==
  IF TypeOf(header.type) = "GNUSparse"
  THEN IF header.format = "gnu" THEN From("realsize", header.num["realsize"]) ELSE Bad
  ELSE From("size", header.num["size"])

\* The numbers a field can hold: the flag takes a bit of a short binary number, and
\* octal digits that do not fit are dropped without an error.
Holds(field, value) ==
  IF field \in OctalFields THEN value < Powers(Octal)[Short - 1]
  ELSE field \in ShortFields => value < Flag * Powers(Byte)[Short - 1]

\* A number that was set is read back, whichever of the two encodings it needed and
\* whatever was set around it (header.rs:1503, 1513, 1541); size() reads the field that
\* the type asks for (header.rs:331).
NumbersKept ==
  /\ \A f \in NumFields :
       (asked.num[f] # None /\ Holds(f, asked.num[f]))
         => From(f, header.num[f]) = asked.num[f]
  /\ asked.type \notin {None, "GNUSparse"} /\ asked.num["size"] # None
       => SizeRead = asked.num["size"]
  /\ asked.type = "GNUSparse" /\ asked.num["realsize"] # None
       => SizeRead = asked.num["realsize"]

\* What a field holds up to its first NUL is the text it was given last, and nothing is left of
\* a longer one before it, in whatever order fields are set, refused and set again
\* (header.rs:1568, 1553).
FieldsSpell == \A f \in Texts : Truncated(text[f], NulByte) = Spelled(header[f])

\* The prefix is of an earlier path, when the last one fits the name alone.
LeftPrefix ==
  header.format = "ustar" /\ Length(asked.path) <= NameLen /\ header.prefix # NoPath

\* The only parent that fits the prefix is the root.
BehindRoot == header.format = "ustar" /\ ~Divided(asked.path)

\* A path that was accepted is read back, also when it is divided in two fields, set after a
\* refused one or set again (header.rs:1022, 992), with two exceptions.  When the path fits the
\* name and an earlier one, accepted or refused, has left a prefix, the name alone is the path
\* (header.rs:1034).  When a path is divided right behind its root a byte is lost
\* (header.rs:1064).  A link target, an owner and a type that were accepted are read back always.
TextKept ==
  /\ asked.path # None =>
       IF LeftPrefix THEN Clean(header.name) = Clean(asked.path)
       ELSE BehindRoot \/ Clean(PathOf(header)) = Clean(asked.path)
  /\ asked.link # None => Clean(header.link) = Clean(asked.link)
  /\ asked.owner # None => header.owner = asked.owner
  /\ asked.type # None => TypeOf(header.type) = asked.type
=============================================================================
