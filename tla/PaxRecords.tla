----------------------------- MODULE PaxRecords -----------------------------
(***************************************************************************)
(* The data of a pax member: records "length key=value" that end with a    *)
(* newline each.  A value is the list of lengths of its lines, so a value  *)
(* without a newline has one element; a record whose key is "path" names   *)
(* the path that its value is.                                             *)
(***************************************************************************)
EXTENDS Names

CONSTANTS
  Base,      \* base of the lengths (10 in the code)
  KeyLen     \* the length of each key

ASSUME LengthsAssumption ==
  Base \in Nat /\ Base >= 2 /\ \A key \in DOMAIN KeyLen : KeyLen[key] \in Nat

Record == [key : DOMAIN KeyLen, value : Seq(Nat), path : Path]

Power[k \in Nat] == IF k = 0 THEN 1 ELSE Base * Power[k - 1]

\* The digits of a length.
Digits(n) == CHOOSE k \in 1..(n + 1) : n < Power[k] /\ \A j \in 1..(k - 1) : n >= Power[j]

\* The loop of append_pax_extensions: a length counts its own digits.
RecordLength(record) ==
  LET rest == 3 + KeyLen[record.key] + Sum(record.value) + Len(record.value) - 1
  IN  rest + CHOOSE k \in 1..(rest + 1) :
               rest + k < Power[k] /\ \A j \in 1..(k - 1) : rest + j >= Power[j]

\* One record as the lines it is made of.
LinesOf(record) ==
  [i \in DOMAIN record.value |->
     IF i = 1
     THEN [len      |-> Digits(RecordLength(record)) + 2 + KeyLen[record.key] + record.value[1],
           reported |-> RecordLength(record), record |-> record]
     ELSE [len |-> record.value[i], reported |-> 0, record |-> record]]

\* append_pax_extensions: what is written, without the empty line after the last newline.
Format(records) == FlattenSeq([i \in DOMAIN records |-> LinesOf(records[i])])
DataLength(lines) == Sum([i \in DOMAIN lines |-> lines[i].len + 1])

\* PaxExtensions::next: it stops at an empty line, and a line is a record when it has the
\* length that it reports.
Parse(lines) ==
  LET empty == {i \in DOMAIN lines : lines[i].len = 0}
      count == IF empty = {} THEN Len(lines) ELSE Min(empty) - 1
  IN  [i \in 1..count |-> IF lines[i].len + 1 = lines[i].reported
                          THEN [lines[i].record EXCEPT !.value = <<Head(@)>>]
                          ELSE [key |-> "malformed", value |-> <<>>]]

\* The records that are read, without the errors.
Readable(lines) == SelectSeq(Parse(lines), LAMBDA record : record.key # "malformed")
==============================================================================
