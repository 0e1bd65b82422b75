-------------------------- MODULE BuilderInvariants --------------------------
(***************************************************************************)
(* Where in the stream the entries are that Builder appended, in a form    *)
(* that every call preserves, whatever fails.                              *)
(***************************************************************************)
EXTENDS Builder

\* The stream has these bytes at an offset.
Has(offset, bytes) ==
  offset + Len(bytes) <= Len(out) /\ \A i \in 1..Len(bytes) : out[offset + i] = bytes[i]

\* An entry with n extension blocks begins at an offset: its header, its extension blocks, its
\* contents, each on a block boundary, and the header says how long the contents are.
LiesAt(entry, start, n) ==
  /\ start % BlockSize = 0
  /\ entry.end = start + BlockSize * (n + 1) + Round(Len(entry.data))
  /\ \A k \in 0..n : Has(start + BlockSize * k, HeaderBytes(entry.h + k))
  /\ Has(start + BlockSize * (n + 1), Contents(entry.h, entry.data))
  /\ headers[entry.h].kind = "header" /\ headers[entry.h].size = Len(entry.data)
  /\ \A k \in 1..n : headers[entry.h + k].kind = "extension"

EndOf(i) == IF i = 0 THEN 0 ELSE entries[i].end
Placed(i, n) == \E start \in EndOf(i - 1)..EndOf(i) : LiesAt(entries[i], start, n)

\* Every entry that was appended before the first failure is and stays where it was put, behind
\* the one before it: no later call, failed write, or seek back to a reserved header changes a
\* byte of it or the header it has (builder.rs:533, 557, 598).
EntriesStay ==
  \A i \in DOMAIN entries : EndOf(i) <= Len(out) /\ \E n \in 0..Len(headers) : Placed(i, n)

\* Without a failure the stream has no loose end: a call starts at the end of it, on a block
\* boundary (builder.rs:605).
OnBoundary == ~failed /\ writer = None => at = Len(out) /\ at % BlockSize = 0

-----------------------------------------------------------------------------
(* The inductive invariant.                                                *)

TypeOK ==
  /\ out \in Seq(Nat \X Nat) /\ at \in 0..Len(out)
  /\ Len(headers) \in Nat /\ headers = [h \in 1..Len(headers) |-> headers[h]]
  /\ Len(entries) \in Nat /\ entries = [i \in 1..Len(entries) |-> entries[i]]
  /\ \A i \in DOMAIN entries : /\ entries[i].end \in Nat /\ entries[i].h \in Nat \ {0}
                               /\ entries[i].data \in Seq(Nat)
  /\ finished \in BOOLEAN /\ failed \in BOOLEAN
  /\ writer = None \/ writer \in [h : Nat, path : Path, written : Nat]
  /\ Len(stack) \in Nat /\ stack = [i \in 1..Len(stack) |-> stack[i]]
  /\ \A i \in DOMAIN stack : stack[i].node \in DOMAIN Tree /\ stack[i].dest \in Path

\* Where the next thing goes: behind the header that is reserved while a writer is open.
Frontier == IF writer = None THEN at ELSE HeaderAt

\* While a writer is open no directory is walked, its header is the last, no entry has it, and
\* what was written of the contents is behind the block that is reserved.
WriterInv ==
  writer # None =>
    /\ stack = <<>> /\ 0 < writer.h /\ writer.h = Len(headers)
    /\ {"kind", "size"} \subseteq DOMAIN headers[writer.h] /\ headers[writer.h].kind # "header"
    /\ BlockSize + writer.written <= at
    /\ Has(HeaderAt + BlockSize, Contents(writer.h, Upto(writer.written)))
    /\ ~failed => at = Len(out) /\ HeaderAt % BlockSize = 0

\* The entries end before anything that is still to be written, and have their own headers.
Apart ==
  \A i \in DOMAIN entries :
    /\ EndOf(i) <= Frontier
    /\ \E n \in 0..Len(headers) :
         /\ Placed(i, n)
         /\ entries[i].h + n <= Len(headers) /\ (writer # None => entries[i].h + n < writer.h)

BuilderInv == TypeOK /\ OnBoundary /\ WriterInv /\ Apart
==============================================================================
