-------------------------- MODULE SparseScanProofs --------------------------
(***************************************************************************)
(* The map of a sparse file is ordered and no piece of it is longer than   *)
(* announced, for every file, whatever another process does to it and      *)
(* however often; and a file that nobody changes is archived whole.        *)
(***************************************************************************)
EXTENDS SparseScan, NaturalFacts, FiniteSetTheorems

\* The least offset that lseek can find.
LEMMA LeastIsLeast ==
  ASSUME NEW S, S \subseteq Nat, S # {}
  PROVE  Least(S) \in S /\ \A m \in S : Least(S) <= m
BY LeastExists DEF Least

\* SEEK_DATA gives an offset of the file that is not before the one it starts from.
LEMMA DataAhead ==
  ASSUME NEW o \in Nat, Size \in Nat, DataFrom(o) # {}
  PROVE  Least(DataFrom(o)) \in Nat /\ o <= Least(DataFrom(o))
<1>1. DataFrom(o) \subseteq Nat /\ \A d \in DataFrom(o) : o <= d
  BY DEF DataFrom
<1> QED BY <1>1, LeastIsLeast

\* SEEK_HOLE gives one too, or the end of the file.
LEMMA HoleAhead ==
  ASSUME NEW o \in Nat, Size \in Nat, o <= Size
  PROVE  Least(HoleFrom(o)) \in Nat /\ o <= Least(HoleFrom(o))
<1>1. HoleFrom(o) \subseteq Nat /\ HoleFrom(o) # {} /\ \A h \in HoleFrom(o) : o <= h
  BY DEF HoleFrom
<1> QED BY <1>1, LeastIsLeast

\* An extent that begins behind the last one keeps them in order.
LEMMA ExtentsGrow ==
  ASSUME NEW found, Extents(found), NEW slot \in Extent, slot.length > 0,
         found # <<>> => EndOf(found[Len(found)]) < slot.offset
  PROVE  Extents(Append(found, slot))
<1> DEFINE more == Append(found, slot)
<1>1. found \in Seq(Extent) /\ Len(found) \in Nat
  BY DEF Extents
<1>2. /\ more \in Seq(Extent) /\ Len(more) = Len(found) + 1
      /\ \A i \in 1..Len(found) : more[i] = found[i]
      /\ more[Len(found) + 1] = slot
  BY <1>1, AppendProperties
<1>3. DOMAIN more = 1..(Len(found) + 1) /\ DOMAIN found = 1..Len(found)
  BY <1>1, <1>2
<1> HIDE DEF more
<1>4. \A i \in DOMAIN more : more[i].length > 0
  BY <1>1, <1>2, <1>3 DEF Extents
<1>5. ASSUME NEW i \in DOMAIN more, i + 1 \in DOMAIN more
      PROVE  EndOf(more[i]) < more[i + 1].offset
  <2>1. CASE i + 1 \in DOMAIN found
    BY <2>1, <1>1, <1>2, <1>3, <1>5 DEF Extents
  <2>2. CASE i = Len(found)
    BY <2>2, <1>1, <1>2, <1>3, <1>5
  <2> QED BY <2>1, <2>2, <1>1, <1>3, <1>5
<1> QED BY <1>2, <1>4, <1>5 DEF Extents, more

\* The map of the extents and the end of the file, before anything is copied.
LEMMA StartComplete ==
  ASSUME NEW found, Extents(found), stat'.size \in Nat,
         found # <<>> => EndOf(found[Len(found)]) <= stat'.size,
         Start(Append(found, Slice(stat'.size, 0))),
         slots' # None
  PROVE  Complete'
<1> DEFINE last == Slice(stat'.size, 0)
           map == Append(found, last)
<1>1. last \in Extent /\ last.offset = stat'.size /\ last.length = 0
  BY DEF Slice, Extent
<1> HIDE DEF last
<1>2. found \in Seq(Extent) /\ Len(found) \in Nat
  BY DEF Extents
<1>3. /\ map \in Seq(Extent) /\ Len(map) = Len(found) + 1 /\ map # <<>>
      /\ \A i \in 1..Len(found) : map[i] = found[i]
      /\ map[Len(found) + 1] = last
  BY <1>1, <1>2, AppendProperties
<1>4. DOMAIN map = 1..(Len(found) + 1) /\ DOMAIN found = 1..Len(found)
  BY <1>2, <1>3
<1>5. slots' = map /\ (map # None => copied' = [i \in DOMAIN map |-> <<>>])
  BY DEF Start, last
<1> HIDE DEF map
<1>6. copied' = [i \in DOMAIN map |-> <<>>]
  BY <1>5
<1>7. copied' \in [DOMAIN slots' -> Seq(Nat)]
  BY <1>5, <1>6
<1>8. Last(slots') = Slice(stat'.size, 0)
  BY <1>3, <1>5 DEF Last, last
<1>9. ASSUME NEW i \in DOMAIN map \ {Len(map)}
      PROVE  /\ map[i].length > 0
             /\ map[i].offset + map[i].length <= map[i + 1].offset
             /\ i + 1 < Len(map) => map[i].offset + map[i].length < map[i + 1].offset
  <2>1. i \in 1..Len(found) /\ map[i] = found[i] /\ found[i].length > 0
    BY <1>2, <1>3, <1>4, <1>9 DEF Extents
  <2>2. CASE i + 1 \in DOMAIN found
    <3>1. map[i + 1] = found[i + 1] /\ EndOf(found[i]) < found[i + 1].offset
      BY <2>1, <2>2, <1>3, <1>4 DEF Extents
    <3>2. found[i] \in Extent /\ found[i + 1] \in Extent
      BY <2>1, <2>2, <1>2
    <3> QED BY <2>1, <3>1, <3>2 DEF EndOf, Extent
  <2>3. CASE i = Len(found)
    <3>1. found # <<>> /\ map[i + 1] = last
      BY <2>1, <2>3, <1>3
    <3> QED BY <2>1, <2>3, <3>1, <1>1, <1>2, <1>3 DEF EndOf
  <2> QED BY <2>1, <2>2, <2>3, <1>2, <1>4
<1>10. ASSUME NEW i \in DOMAIN map
       PROVE  Len(copied'[i]) <= map[i].length
  <2>1. copied'[i] = <<>> /\ map[i] \in Extent
    BY <1>3, <1>6, <1>10
  <2> QED BY <2>1 DEF Extent
<1> QED BY <1>3, <1>5, <1>7, <1>8, <1>9, <1>10 DEF Complete, MapOrdered

-----------------------------------------------------------------------------
(* The invariant holds at first, and no step of append_file or of the other *)
(* process breaks it.                                                       *)

LEMMA ScanInit == Init => ScanInv
<1> SUFFICES ASSUME Init PROVE ScanInv
  OBVIOUS
<1>1. file.bytes \in Seq(Nat)
  BY LengthsAssumption, WidthAssumption DEF Init, U64
<1> QED BY <1>1 DEF Init, ScanInv

\* The other process writes only to the file.
LEMMA ChangedKeeps ==
  ASSUME ScanInv, NEW bytes \in Seq(Nat), NEW grains, ChangedTo(bytes, grains)
  PROVE  ScanInv'
<1>1. file'.bytes \in Seq(Nat) /\ changes' \in Nat
  BY DEF ChangedTo, ScanInv
<1>2. UNCHANGED <<seeks, sparse, pc, stat, pos, off, slots, piece, copied>>
  BY DEF ChangedTo
<1>3. Complete => Complete'
  BY <1>2 DEF Complete, MapOrdered
<1> QED BY <1>1, <1>2, <1>3 DEF ScanInv, Reached

LEMMA ChangesKeep == ASSUME ScanInv, Changes PROVE ScanInv'
<1>1. Size \in Nat /\ file.bytes \in Seq(Nat) /\ changes \in Nat
  BY DEF ScanInv, Size
<1>2. ASSUME NEW o \in 0..Size, Overwrite(o) PROVE ScanInv'
  <2> DEFINE size == IF o < Size THEN Size ELSE o + 1
             byte(i) == IF i = o + 1 THEN changes + 2
                        ELSE IF i <= Size THEN file.bytes[i] ELSE 0
             bytes == [i \in 1..size |-> byte(i)]
  <2>1. size \in Nat /\ \A i \in 1..size : byte(i) \in Nat
    BY <1>1 DEF Size
  <2>2. bytes \in Seq(Nat)
    <3> HIDE DEF size, byte
    <3> QED BY <2>1
  <2>3. ChangedTo(bytes, file.grains \cup {o \div Grain})
    BY <1>2 DEF Overwrite
  <2> QED BY <2>2, <2>3, ChangedKeeps
<1>3. ASSUME NEW n \in Lengths, Resize(n) PROVE ScanInv'
  <2> DEFINE bytes == [i \in 1..n |-> IF i <= Size THEN file.bytes[i] ELSE 0]
  <2>1. bytes \in Seq(Nat)
    BY <1>1, LengthsAssumption, WidthAssumption DEF Size, U64
  <2>2. ChangedTo(bytes, file.grains \cap Grains(n))
    BY <1>3 DEF Resize
  <2> QED BY <2>1, <2>2, ChangedKeeps
<1>4. ASSUME NEW g \in file.grains, Punch(g) PROVE ScanInv'
  <2> DEFINE bytes == [i \in 1..Size |-> IF (i - 1) \div Grain = g THEN 0 ELSE file.bytes[i]]
  <2>1. bytes \in Seq(Nat)
    BY <1>1 DEF Size
  <2>2. ChangedTo(bytes, file.grains \ {g})
    BY <1>4 DEF Punch
  <2> QED BY <2>1, <2>2, ChangedKeeps
<1> QED BY <1>2, <1>3, <1>4 DEF Changes

LEMMA StatKeeps == ASSUME ScanInv, Stat PROVE ScanInv'
<1>1. stat'.size = Size /\ Size \in Nat /\ stat'.size \in Nat
  BY DEF Stat, ScanInv, Size
<1>2. /\ slots = <<>> /\ off = 0 /\ file' = file /\ changes' = changes
      /\ pos' = pos /\ off' = off
  BY DEF Stat, Same, ScanInv
<1>3. CASE Start(None)
  BY <1>1, <1>2, <1>3 DEF Start, ScanInv
<1>4. CASE Start(<<Slice(Size, 0)>>)
  <2>1. Start(Append(<<>>, Slice(stat'.size, 0))) /\ pc' = "copy"
    BY <1>1, <1>4 DEF Start
  <2>2. Extents(<<>>)
    BY DEF Extents
  <2>3. slots' # None => Complete'
    BY <1>1, <2>1, <2>2, StartComplete
  <2> QED BY <1>1, <1>2, <2>1, <2>3 DEF ScanInv
<1>5. CASE pc' = "probe" /\ UNCHANGED <<slots, piece, copied>>
  BY <1>1, <1>2, <1>5 DEF ScanInv
<1> QED BY <1>3, <1>4, <1>5 DEF Stat

LEMMA ProbeKeeps == ASSUME ScanInv, Probe PROVE ScanInv'
<1>1. /\ pc = "probe" /\ slots = <<>> /\ off = 0 /\ stat.size \in Nat /\ Size \in Nat
      /\ stat' = stat /\ off' = off /\ file' = file /\ changes' = changes
  BY DEF Probe, Same, ScanInv, Size
<1>2. CASE Size = 0 \/ ~seeks
  <2>1. Start(None) /\ pos' = pos
    BY <1>2 DEF Probe
  <2> QED BY <1>1, <2>1 DEF Start, ScanInv
<1>3. CASE ~(Size = 0 \/ ~seeks)
  <2>1. pos' = Least(HoleFrom(0)) /\ pc' = "data" /\ slots' = slots
    BY <1>3 DEF Probe
  <2>2. pos' \in Nat
    BY <1>1, <2>1, HoleAhead
  <2>3. Extents(<<>>)
    BY DEF Extents
  <2> QED BY <1>1, <2>1, <2>2, <2>3 DEF ScanInv, Reached
<1> QED BY <1>2, <1>3

LEMMA SeekDataKeeps == ASSUME ScanInv, SeekData PROVE ScanInv'
<1>1. /\ pc = "data" /\ off \in Nat /\ Size \in Nat /\ DataFrom(off) # {}
      /\ off' = Least(DataFrom(off)) /\ pos' = off'
      /\ Extents(slots) /\ Reached = off
      /\ UNCHANGED <<file, changes, stat, slots>>
  BY DEF SeekData, Same, ScanInv, Size
<1>2. off' \in Nat /\ off <= off'
  BY <1>1, DataAhead
<1>3. CASE off' = off /\ off > 0
  <2>1. pc' = "error"
    BY <1>3 DEF SeekData
  <2> QED BY <1>1, <1>2, <2>1 DEF ScanInv
<1>4. CASE ~(off' = off /\ off > 0)
  <2>1. pc' = "hole"
    BY <1>4 DEF SeekData
  <2>2. Reached < off' \/ slots = <<>>
    <3>1. CASE off < off'
      BY <3>1, <1>1
    <3>2. CASE off = 0 /\ slots # <<>>
      <4>1. /\ slots \in Seq(Extent) /\ Len(slots) \in DOMAIN slots
            /\ slots[Len(slots)].length > 0
        BY <3>2, <1>1 DEF Extents
      <4>2. slots[Len(slots)] \in Extent
        BY <4>1
      <4> QED BY <3>2, <4>1, <4>2, <1>1 DEF Reached, EndOf, Extent
    <3> QED BY <3>1, <3>2, <1>1, <1>2, <1>4
  <2>3. Reached' = Reached
    BY <1>1 DEF Reached
  <2> QED BY <1>1, <1>2, <2>1, <2>2, <2>3 DEF ScanInv
<1> QED BY <1>3, <1>4

LEMMA NoMoreDataKeeps == ASSUME ScanInv, NoMoreData PROVE ScanInv'
<1>1. /\ pc = "data" /\ stat.size \in Nat /\ off \in Nat /\ Extents(slots) /\ Reached = off
      /\ UNCHANGED <<file, changes, stat, off>>
  BY DEF NoMoreData, Same, ScanInv
<1>2. CASE off > stat.size
  <2>1. pc' = "error" /\ pos' = pos
    BY <1>2 DEF NoMoreData
  <2> QED BY <1>1, <2>1 DEF ScanInv
<1>3. CASE ~(off > stat.size)
  <2>1. Start(Append(slots, Slice(stat'.size, 0))) /\ pos' = 0 /\ pc' = "copy"
    BY <1>1, <1>3 DEF NoMoreData, Start
  <2>2. slots # <<>> => EndOf(slots[Len(slots)]) <= stat'.size
    BY <1>1, <1>3 DEF Reached
  <2>3. slots' # None => Complete'
    BY <1>1, <2>1, <2>2, StartComplete
  <2> QED BY <1>1, <2>1, <2>3 DEF ScanInv
<1> QED BY <1>2, <1>3

LEMMA SeekHoleKeeps == ASSUME ScanInv, SeekHole PROVE ScanInv'
<1> DEFINE end == Least(HoleFrom(off))
<1>1. /\ pc = "hole" /\ stat.size \in Nat /\ off \in Nat /\ Size \in Nat /\ off < Size
      /\ Extents(slots) /\ (Reached < off \/ slots = <<>>)
      /\ UNCHANGED <<file, changes, stat>>
  BY DEF SeekHole, Same, ScanInv, Size
<1>2. end \in Nat /\ off <= end
  BY <1>1, HoleAhead
<1>3. CASE off = 0 /\ end = stat.size
  <2>1. Start(None) /\ pos' = 0 /\ off' = off
    BY <1>3 DEF SeekHole
  <2> QED BY <1>1, <2>1 DEF Start, ScanInv
<1>4. CASE ~(off = 0 /\ end = stat.size) /\ end = off
  <2>1. pos' = end /\ pc' = "error" /\ off' = off
    BY <1>4 DEF SeekHole
  <2> QED BY <1>1, <1>2, <2>1 DEF ScanInv
<1>5. CASE ~(off = 0 /\ end = stat.size) /\ end # off
  <2> DEFINE slot == Slice(off, end - off)
  <2>1. pos' = end /\ slots' = Append(slots, slot) /\ off' = end /\ pc' = "data"
    BY <1>5 DEF SeekHole
  <2>2. slot \in Extent /\ slot.length > 0 /\ slot.offset = off /\ EndOf(slot) = end
    BY <1>1, <1>2, <1>5 DEF Slice, Extent, EndOf
  <2> HIDE DEF end, slot
  <2>3. slots # <<>> => EndOf(slots[Len(slots)]) < slot.offset
    BY <1>1, <2>2 DEF Reached
  <2>4. Extents(slots')
    BY <1>1, <2>1, <2>2, <2>3, ExtentsGrow
  <2>5. slots' # <<>> /\ slots'[Len(slots')] = slot
    BY <1>1, <2>1, <2>2, AppendProperties DEF Extents
  <2>6. Reached' = off' /\ Extents(slots)'
    BY <2>1, <2>2, <2>4, <2>5 DEF Reached, EndOf, Extents, Extent
  <2> QED BY <1>1, <1>2, <2>1, <2>6 DEF ScanInv
<1> QED BY <1>3, <1>4, <1>5

LEMMA FailKeeps == ASSUME ScanInv, Fail PROVE ScanInv'
BY DEF Fail, Same, ScanInv

\* A read of a piece of a map.
LEMMA CopySomeKeeps == ASSUME ScanInv, CopySome PROVE ScanInv'
<1>1. /\ pc = "copy" /\ stat.size \in Nat /\ pos \in Nat /\ file.bytes \in Seq(Nat) /\ Size \in Nat
      /\ piece \in DOMAIN copied
      /\ UNCHANGED <<file, changes, stat, off, slots, pc>>
  BY DEF CopySome, Same, ScanInv, Size
<1>2. PICK n \in 1..Wanted :
        /\ From + n <= Size
        /\ copied' = [copied EXCEPT ![piece] = @ \o SubSeq(file.bytes, From + 1, From + n)]
        /\ pos' = From + n
  BY DEF CopySome
<1>3. CASE slots = None
  <2>1. From = pos /\ Wanted = Size - pos
    BY <1>3 DEF From, Wanted
  <2>2. pos' \in Nat
    BY <1>1, <1>2, <2>1
  <2> QED BY <1>1, <1>3, <2>2 DEF ScanInv
<1>4. CASE slots # None
  <2>1. Complete
    BY <1>1, <1>4 DEF ScanInv
  <2>2. /\ slots \in Seq(Extent) /\ copied \in [DOMAIN slots -> Seq(Nat)]
        /\ piece \in DOMAIN slots
        /\ \A i \in DOMAIN slots : Len(copied[i]) <= slots[i].length
    BY <1>1, <1>4, <2>1 DEF Complete, MapOrdered
  <2>3. /\ slots[piece] \in Extent /\ copied[piece] \in Seq(Nat)
        /\ Len(copied[piece]) \in Nat
    BY <2>2
  <2>4. From \in Nat /\ Wanted = slots[piece].length - Len(copied[piece]) /\ Wanted \in Int
    BY <1>1, <1>4, <2>3 DEF From, Wanted, Extent
  <2> DEFINE some == SubSeq(file.bytes, From + 1, From + n)
  <2>5. some \in Seq(Nat) /\ Len(some) = n /\ n \in Nat
    <3>1. n \in Nat /\ n >= 1
      BY <2>4
    <3>2. From + n <= Len(file.bytes)
      BY <1>2 DEF Size
    <3>3. (From + 1)..(From + n) \subseteq 1..Len(file.bytes)
      BY <1>1, <2>4, <3>1, <3>2
    <3>4. \A i \in (From + 1)..(From + n) : file.bytes[i] \in Nat
      BY <1>1, <3>3
    <3> QED BY <2>4, <3>1, <3>4, SubSeqProperties
  <2> HIDE DEF some
  <2>6. /\ copied[piece] \o some \in Seq(Nat)
        /\ Len(copied[piece] \o some) = Len(copied[piece]) + n
    BY <2>3, <2>5, ConcatProperties
  <2>7. copied' = [copied EXCEPT ![piece] = copied[piece] \o some]
    BY <1>2 DEF some
  <2>8. copied' \in [DOMAIN slots -> Seq(Nat)]
    BY <2>2, <2>6, <2>7
  <2>9. ASSUME NEW i \in DOMAIN slots PROVE Len(copied'[i]) <= slots[i].length
    <3>1. CASE i = piece
      <4>1. n <= slots[piece].length - Len(copied[piece])
        BY <2>4
      <4>2. copied'[i] = copied[piece] \o some
        BY <3>1, <2>2, <2>7
      <4> QED BY <3>1, <4>1, <4>2, <2>3, <2>5, <2>6 DEF Extent
    <3>2. CASE i # piece
      BY <3>2, <2>2, <2>7
    <3> QED BY <3>1, <3>2
  <2>10. Complete'
    BY <1>1, <2>1, <2>8, <2>9 DEF Complete, MapOrdered
  <2>11. pos' \in Nat
    BY <1>2, <2>4, <2>5
  <2> QED BY <1>1, <2>10, <2>11 DEF ScanInv
<1> QED BY <1>3, <1>4

LEMMA CopyEndsKeeps == ASSUME ScanInv, CopyEnds PROVE ScanInv'
<1>1. /\ pc = "copy" /\ pc' \in {"copy", "done"}
      /\ UNCHANGED <<file, changes, stat, pos, off, slots, copied>>
  BY DEF CopyEnds, Same
<1>2. Complete => Complete'
  BY <1>1 DEF Complete, MapOrdered
<1> QED BY <1>1, <1>2 DEF ScanInv

LEMMA ScanStep == ScanInv /\ [Next]_vars => ScanInv'
<1> SUFFICES ASSUME ScanInv, [Next]_vars PROVE ScanInv'
  OBVIOUS
<1>1. CASE Stat
  BY <1>1, StatKeeps
<1>2. CASE Probe
  BY <1>2, ProbeKeeps
<1>3. CASE SeekData
  BY <1>3, SeekDataKeeps
<1>4. CASE NoMoreData
  BY <1>4, NoMoreDataKeeps
<1>5. CASE SeekHole
  BY <1>5, SeekHoleKeeps
<1>6. CASE DataGone \/ Io
  BY <1>6, FailKeeps DEF DataGone, Io
<1>7. CASE CopySome
  BY <1>7, CopySomeKeeps
<1>8. CASE CopyEnds
  BY <1>8, CopyEndsKeeps
<1>9. CASE Changes
  BY <1>9, ChangesKeep
<1>10. CASE UNCHANGED vars
  <2>1. Complete => Complete'
    BY <1>10 DEF vars, Complete, MapOrdered
  <2> QED BY <1>10, <2>1 DEF vars, ScanInv, Reached
<1> QED BY <1>1, <1>2, <1>3, <1>4, <1>5, <1>6, <1>7, <1>8, <1>9, <1>10 DEF Next, Step

\* The extents found and the position of the search go together, at every moment of a search
\* that another process disturbs (builder.rs:1070).
THEOREM SearchIsOrdered == Spec => []ScanInv
BY ScanInit, ScanStep, PTL DEF Spec

\* However a file changes while it is archived, its map is ordered, ends where the metadata
\* said, and announces all the data that is copied (builder.rs:735, 1079, 1110, 1140).
THEOREM MapIsOrdered == Spec => []MapOrdered
<1>1. ScanInv => MapOrdered
  BY DEF ScanInv, Complete, MapOrdered
<1> QED BY <1>1, SearchIsOrdered, PTL
-----------------------------------------------------------------------------
(* A file that nobody changes.                                              *)

LEMMA LengthsOf ==
  ASSUME NEW s \in Seq(Extent)
  PROVE  /\ Len(s) \in Nat /\ DOMAIN s = 1..Len(s)
         /\ \A i \in 1..Len(s) : s[i] \in Extent /\ s[i].offset \in Nat /\ s[i].length \in Nat
<1>1. Len(s) \in Nat /\ DOMAIN s = 1..Len(s) /\ \A i \in 1..Len(s) : s[i] \in Extent
  BY LenProperties, ElementOfSeq
<1> QED BY <1>1 DEF Extent

\* The lengths of a map are added from its first piece to its last.
LEMMA DataAdded ==
  ASSUME slots \in Seq(Extent)
  PROVE  \E f \in [0..Len(slots) -> Nat] :
           /\ f[0] = 0 /\ OnDisk = f[Len(slots)]
           /\ \A i \in 1..Len(slots) : f[i] = f[i - 1] + slots[i].length
<1> DEFINE N == Len(slots)
           T == SUBSET (1..N)
           body(g) == [S \in T |-> IF S = {} THEN 0 ELSE g[S \ {Max(S)}] + slots[Max(S)].length]
           iter == CHOOSE g : g = body(g)
           step == [i \in 1..N |-> [n \in Nat |-> n + slots[i].length]]
<1>1. N \in Nat /\ DOMAIN slots = 1..N /\ \A i \in 1..N : slots[i].length \in Nat
  BY LengthsOf
<1>2. OnDisk = iter[1..N]
  BY <1>1 DEF OnDisk, FoldLeft, MapThenFoldSet, Max
<1> HIDE DEF N
<1>3. step \in [1..N -> [Nat -> Nat]]
  BY <1>1
<1>4. \A S \in T : S # {} => Max(S) \in 1..N /\ S \ {Max(S)} \in T
  <2> TAKE S \in T
  <2>1. S \subseteq 1..N
    OBVIOUS
  <2> HAVE S # {}
  <2>2. Max(S) \in S
    BY <1>1, <2>1, MaxIs, Zenon
  <2> QED BY <2>1, <2>2
<1>5. \E g : g = body(g)
  <2>1. PICK g : Folds(g, Nat, step, 0, N)
    <3> HIDE DEF step
    <3> QED BY <1>1, <1>3, FoldExists
  <2>2. ASSUME NEW S \in T
        PROVE  g[S] = IF S = {} THEN 0 ELSE g[S \ {Max(S)}] + slots[Max(S)].length
    BY <1>4, <2>1 DEF Folds
  <2>3. g = body(g)
    BY <2>1, <2>2 DEF Folds
  <2> QED BY <2>3
<1>6. iter = body(iter)
  <2> HIDE DEF body
  <2> QED BY <1>5
<1> HIDE DEF iter
<1> DEFINE f == [n \in 0..N |-> iter[1..n]]
<1>7. f[0] = 0
  <2>1. 0 \in 0..N /\ 1..0 = {} /\ {} \in T
    BY <1>1
  <2>2. iter[{}] = 0
    BY <1>6, <2>1
  <2> QED BY <2>1, <2>2
<1>8. ASSUME NEW i \in 1..N
      PROVE  f[i] = f[i - 1] + slots[i].length
  <2>1. /\ i \in 0..N /\ i - 1 \in 0..N /\ 1..i \in T /\ i \in 1..i
        /\ (1..i) \ {i} = 1..(i - 1) /\ i \in Nat
    BY <1>1
  <2>2. Max(1..i) = i
    BY <2>1, MaxIs
  <2>3. 1..i # {}
    BY <2>1
  <2>4. iter[1..i] = iter[(1..i) \ {Max(1..i)}] + slots[Max(1..i)].length
    BY <1>6, <2>1, <2>3
  <2> QED BY <2>1, <2>2, <2>4
<1>9. f \in [0..N -> Nat]
  <2> DEFINE S == {n \in Nat : n <= N => f[n] \in Nat}
  <2>1. 0 \in S
    BY <1>1, <1>7
  <2>2. ASSUME NEW n \in Nat, n \in S
        PROVE  n + 1 \in S
    <3> SUFFICES ASSUME n + 1 <= N PROVE f[n + 1] \in Nat
      OBVIOUS
    <3>1. n + 1 \in 1..N /\ (n + 1) - 1 = n /\ n <= N
      BY <1>1
    <3>2. f[n + 1] = f[n] + slots[n + 1].length
      BY <1>8, <3>1
    <3> QED BY <1>1, <2>2, <3>1, <3>2
  <2>3. Nat \subseteq S
    <3>1. \A n \in Nat : n \in S => n + 1 \in S
      BY <2>2
    <3> HIDE DEF S
    <3> QED BY <2>1, <3>1, Induction
  <2>4. ASSUME NEW n \in 0..N
        PROVE  f[n] \in Nat
    <3> HIDE DEF f
    <3>1. n \in Nat /\ n <= N
      BY <1>1
    <3> QED BY <2>3, <3>1
  <2> QED BY <2>4
<1>10. OnDisk = f[N]
  BY <1>1, <1>2
<1> HIDE DEF f
<1> QED BY <1>7, <1>8, <1>9, <1>10 DEF N

\* A reader that adds the lengths one by one comes to the same.
LEMMA DataCounted ==
  ASSUME slots \in Seq(Extent), \A i \in 1..Len(slots) : slots[i] \in Slot \ {None}
  PROVE  /\ L!Used(slots) \in [0..Len(slots) -> Nat]
         /\ L!Used(slots)[0] = 0 /\ L!Used(slots)[Len(slots)] = OnDisk
         /\ \A i \in 1..Len(slots) : L!Used(slots)[i] = L!Used(slots)[i - 1] + slots[i].length
<1> DEFINE N == Len(slots)
           body(h) == [i \in 0..N |-> IF i = 0 THEN 0 ELSE h[i - 1] + L!Bytes(slots[i])]
           g == L!Used(slots)
<1>1. PICK f \in [0..N -> Nat] :
        /\ f[0] = 0 /\ OnDisk = f[N]
        /\ \A i \in 1..N : f[i] = f[i - 1] + slots[i].length
  BY DataAdded
<1>2. N \in Nat /\ \A i \in 1..N : slots[i].length \in Nat
  BY LengthsOf
<1>3. \A i \in 1..N : L!Bytes(slots[i]) = slots[i].length
  BY <1>2, SentinelAssumption DEF L!Bytes
<1>4. g = CHOOSE h : h = body(h)
  BY DEF L!Used
<1> HIDE DEF N, g
<1>5. f = body(f)
  BY <1>1, <1>2, <1>3
<1>6. g = body(g)
  <2> HIDE DEF body
  <2> QED BY <1>4, <1>5
<1> DEFINE S == {n \in Nat : n <= N => g[n] = f[n]}
<1>7. 0 \in S
  BY <1>1, <1>2, <1>6
<1>8. ASSUME NEW n \in Nat, n \in S
      PROVE  n + 1 \in S
  <2> SUFFICES ASSUME n + 1 <= N PROVE g[n + 1] = f[n + 1]
    OBVIOUS
  <2>1. n + 1 \in 1..N /\ n + 1 \in 0..N /\ (n + 1) - 1 = n /\ n <= N
    BY <1>2
  <2>2. g[n + 1] = g[n] + slots[n + 1].length
    BY <1>3, <1>6, <2>1
  <2> QED BY <1>1, <1>8, <2>1, <2>2
<1>9. \A n \in 0..N : g[n] = f[n]
  <2>1. \A n \in Nat : n \in S => n + 1 \in S
    BY <1>8
  <2>2. Nat \subseteq S
    <3> HIDE DEF S
    <3> QED BY <1>7, <2>1, Induction
  <2> QED BY <1>2, <2>2
<1>10. g = f
  <2>1. g = [n \in 0..N |-> g[n]]
    BY <1>6
  <2> QED BY <1>1, <1>9, <2>1
<1> QED BY <1>1, <1>10 DEF N, g

\* Data that consists of whole blocks ends at the end of a block.
LEMMA DataWhole ==
  ASSUME slots \in Seq(Extent), \A i \in 1..Len(slots) : slots[i] \in Slot \ {None},
         NEW m \in 0..Len(slots), \A i \in 1..m : slots[i].length % BlockSize = 0
  PROVE  L!Used(slots)[m] % BlockSize = 0
<1> DEFINE g == L!Used(slots)
           S == {n \in Nat : n <= m => g[n] % BlockSize = 0}
<1>1. /\ g \in [0..Len(slots) -> Nat] /\ g[0] = 0
      /\ \A i \in 1..Len(slots) : g[i] = g[i - 1] + slots[i].length
  BY DataCounted
<1>2. Len(slots) \in Nat /\ \A i \in 1..Len(slots) : slots[i].length \in Nat
  BY LengthsOf
<1> HIDE DEF g
<1>3. 0 \in S
  BY <1>1, BlockSizeAssumption
<1>4. ASSUME NEW n \in Nat, n \in S
      PROVE  n + 1 \in S
  <2> SUFFICES ASSUME n + 1 <= m PROVE g[n + 1] % BlockSize = 0
    OBVIOUS
  <2>1. n + 1 \in 1..Len(slots) /\ n + 1 \in 1..m /\ (n + 1) - 1 = n /\ n \in 0..Len(slots)
    BY <1>2, SMTT(30)
  <2>2. g[n + 1] = g[n] + slots[n + 1].length
    BY <1>1, <2>1
  <2>3. g[n] \in Nat /\ g[n] % BlockSize = 0 /\ slots[n + 1].length \in Nat
    <3>1. n <= m
      BY <1>2
    <3>2. g[n] % BlockSize = 0
      BY <1>4, <3>1
    <3>3. g[n] \in Nat
      BY <1>1, <2>1
    <3> QED BY <1>2, <2>1, <3>2, <3>3
  <2>4. slots[n + 1].length % BlockSize = 0
    BY <2>1
  <2> QED BY <2>2, <2>3, <2>4, Multiples, BlockSizeAssumption
<1>5. m \in S
  <2>1. \A n \in Nat : n \in S => n + 1 \in S
    BY <1>4
  <2>2. m \in Nat
    BY <1>2
  <2> HIDE DEF S
  <2> QED BY <2>2, <1>3, <2>1, Induction
<1> QED BY <1>2, <1>5 DEF g

\* The grain that an offset is in.
LEMMA GrainOf ==
  ASSUME NEW o \in Nat
  PROVE  o \div Grain \in 0..o /\ (o \div Grain) * Grain <= o
<1> DEFINE q == o \div Grain
<1>1. Grain \in Nat \ {0}
  BY GrainAssumption
<1>2. q \in Nat /\ o % Grain \in Nat /\ o = Grain * q + (o % Grain)
  BY <1>1, Division
<1> HIDE DEF q
<1>3. Grain * q = q * Grain /\ Grain * q \in Nat
  BY <1>1, <1>2
<1>4. q * Grain <= o
  BY <1>2, <1>3
<1>5. q <= Grain * q
  <2>1. CASE q = 0
    BY <2>1, <1>3
  <2>2. CASE q # 0
    <3>1. q * Grain >= q
      BY <2>2, <1>1, <1>2, MultipleAtLeast
    <3> QED BY <3>1, <1>3
  <2> QED BY <2>1, <2>2
<1>6. q <= o
  BY <1>1, <1>2, <1>3, <1>4, <1>5
<1> QED BY <1>2, <1>4, <1>6 DEF q

\* Where the grain changes one begins.
LEMMA GrainBegins ==
  ASSUME NEW o \in Nat, o > 0, o \div Grain # (o - 1) \div Grain
  PROVE  o % Grain = 0
<1> SUFFICES ASSUME o % Grain # 0 PROVE FALSE
  OBVIOUS
<1> DEFINE q == o \div Grain
           r == o % Grain
<1>1. Grain \in Nat \ {0}
  BY GrainAssumption
<1>2. q \in Nat /\ r \in 0..(Grain - 1) /\ o = Grain * q + r
  BY <1>1, Division
<1>3. r # 0 /\ q # (o - 1) \div Grain
  OBVIOUS
<1> HIDE DEF q, r
<1>4. o - 1 = Grain * q + (r - 1) /\ r - 1 \in 0..(Grain - 1)
  BY <1>1, <1>2, <1>3
<1>5. (Grain * q + (r - 1)) \div Grain = q
  BY <1>1, <1>2, <1>4, Quotient
<1> QED BY <1>3, <1>4, <1>5

LEMMA GrainsFinite ==
  ASSUME NEW n \in Nat
  PROVE  IsFiniteSet(Grains(n))
<1>1. Grains(n) \subseteq 0..n
  BY DEF Grains
<1>2. IsFiniteSet(0..n)
  BY FS_Interval
<1> QED BY <1>1, <1>2, FS_Subset

LEMMA FileInit == Init => FileOK
<1> SUFFICES ASSUME Init PROVE FileOK
  OBVIOUS
<1>0. PICK n \in Lengths : \E grains \in SUBSET Grains(n) :
        file = [bytes  |-> [i \in 1..n |-> IF (i - 1) \div Grain \in grains THEN 1 ELSE 0],
                grains |-> grains]
  BY DEF Init
<1>1. PICK grains \in SUBSET Grains(n) :
        file = [bytes  |-> [i \in 1..n |-> IF (i - 1) \div Grain \in grains THEN 1 ELSE 0],
                grains |-> grains]
  BY <1>0
<1>2. n \in Nat /\ n \in U64
  BY LengthsAssumption, WidthAssumption DEF U64
<1>3. file.bytes \in Seq(Nat) /\ Len(file.bytes) = n /\ file.grains = grains
  BY <1>1, <1>2
<1>4. IsFiniteSet(grains)
  BY <1>2, GrainsFinite, FS_Subset
<1>5. ASSUME NEW o \in 0..(n - 1), ~Allocated(o)
      PROVE  file.bytes[o + 1] = 0
  <2>1. o + 1 \in 1..n /\ (o + 1) - 1 = o
    BY <1>2
  <2>2. o \div Grain \notin grains
    BY <1>3, <1>5 DEF Allocated
  <2> QED BY <1>1, <2>1, <2>2
<1> QED BY <1>2, <1>3, <1>4, <1>5 DEF FileOK, Size

\* The other process leaves a file behind.
LEMMA FileChanges ==
  ASSUME FileOK, changes \in Nat, Changes
  PROVE  FileOK'
<1>1. /\ file.bytes \in Seq(Nat) /\ Size = Len(file.bytes) /\ Size \in Nat /\ Size <= MaxU64
      /\ MaxU64 \in Nat /\ IsFiniteSet(file.grains)
      /\ \A o \in 0..(Size - 1) : ~Allocated(o) => file.bytes[o + 1] = 0
      /\ \A i \in 1..Size : file.bytes[i] \in Nat
  BY WidthAssumption, ElementOfSeq DEF FileOK, Size, U64
<1>2. SUFFICES ASSUME NEW n \in Nat, n <= MaxU64, NEW byte, \A i \in 1..n : byte[i] \in Nat,
                      NEW grains, IsFiniteSet(grains),
                      file' = [bytes |-> [i \in 1..n |-> byte[i]], grains |-> grains],
                      \A i \in 1..n : (i - 1) \div Grain \notin grains => byte[i] = 0
               PROVE  FileOK'
  <2>1. ASSUME NEW o \in 0..Size, NEW m \in Lengths, o < m, Overwrite(o)
        PROVE  FileOK'
    <3> DEFINE n == IF o < Size THEN Size ELSE o + 1
               b(i) == IF i = o + 1 THEN changes + 2 ELSE IF i <= Size THEN file.bytes[i] ELSE 0
               byte == [i \in 1..n |-> b(i)]
               grains == file.grains \cup {o \div Grain}
    <3>1. n \in Nat /\ n <= MaxU64
      BY <1>1, <2>1, LengthsAssumption DEF U64
    <3>2. \A i \in 1..n : b(i) \in Nat
      BY <1>1
    <3>3. file' = [bytes |-> [i \in 1..n |-> b(i)], grains |-> grains]
      BY <2>1 DEF Overwrite, ChangedTo
    <3>4. IsFiniteSet(grains)
      BY <1>1, FS_AddElement
    <3>5. ASSUME NEW i \in 1..n, (i - 1) \div Grain \notin grains
          PROVE  b(i) = 0
      <4>1. i - 1 # o /\ (i - 1) \div Grain \notin file.grains
        BY <3>5
      <4>2. CASE i <= Size
        <5>1. i - 1 \in 0..(Size - 1) /\ (i - 1) + 1 = i
          BY <4>2, <1>1
        <5>2. file.bytes[i] = 0
          BY <4>1, <5>1, <1>1 DEF Allocated
        <5> QED BY <4>1, <4>2, <5>2
      <4> QED BY <4>1, <4>2
    <3> HIDE DEF n, b, grains
    <3>6. file' = [bytes |-> [i \in 1..n |-> byte[i]], grains |-> grains]
      BY <3>3
    <3>7. \A i \in 1..n : byte[i] = b(i)
      OBVIOUS
    <3> HIDE DEF byte
    <3> QED BY <1>2, <3>1, <3>2, <3>4, <3>5, <3>6, <3>7, SMTT(30)
  <2>2. ASSUME NEW n \in Lengths, Resize(n)
        PROVE  FileOK'
    <3> DEFINE b(i) == IF i <= Size THEN file.bytes[i] ELSE 0
               byte == [i \in 1..n |-> b(i)]
               grains == file.grains \cap Grains(n)
    <3>1. n \in Nat /\ n <= MaxU64
      BY <1>1, LengthsAssumption DEF U64
    <3>2. \A i \in 1..n : b(i) \in Nat
      BY <1>1, <3>1
    <3>3. file' = [bytes |-> [i \in 1..n |-> b(i)], grains |-> grains]
      BY <2>2 DEF Resize, ChangedTo
    <3>4. IsFiniteSet(grains)
      BY <1>1, FS_Subset
    <3>5. ASSUME NEW i \in 1..n, (i - 1) \div Grain \notin grains
          PROVE  b(i) = 0
      <4>1. i - 1 \in Nat /\ i - 1 < n
        BY <3>1
      <4>2. (i - 1) \div Grain \in 0..(i - 1) /\ ((i - 1) \div Grain) * Grain <= i - 1
        BY <4>1, GrainOf
      <4>3. (i - 1) \div Grain \in 0..n
        BY <3>1, <4>1, <4>2
      <4>4. ((i - 1) \div Grain) * Grain < n
        <5>1. ((i - 1) \div Grain) * Grain \in Int
          BY <4>2, GrainAssumption
        <5> QED BY <3>1, <4>1, <4>2, <5>1
      <4>5. (i - 1) \div Grain \in Grains(n)
        BY <4>3, <4>4 DEF Grains
      <4>6. (i - 1) \div Grain \notin file.grains
        BY <3>5, <4>5
      <4>7. CASE i <= Size
        <5>1. i - 1 \in 0..(Size - 1) /\ (i - 1) + 1 = i
          BY <4>7, <1>1, <3>1
        <5>2. file.bytes[i] = 0
          BY <4>6, <5>1, <1>1 DEF Allocated
        <5> QED BY <4>7, <5>2
      <4> QED BY <4>7
    <3> HIDE DEF b, grains
    <3>6. file' = [bytes |-> [i \in 1..n |-> byte[i]], grains |-> grains]
      BY <3>3
    <3>7. \A i \in 1..n : byte[i] = b(i)
      OBVIOUS
    <3> HIDE DEF byte
    <3> QED BY <1>2, <3>1, <3>2, <3>4, <3>5, <3>6, <3>7, SMTT(30)
  <2>3. ASSUME NEW g \in file.grains, Punch(g)
        PROVE  FileOK'
    <3> DEFINE b(i) == IF (i - 1) \div Grain = g THEN 0 ELSE file.bytes[i]
               byte == [i \in 1..Size |-> b(i)]
               grains == file.grains \ {g}
    <3>1. \A i \in 1..Size : b(i) \in Nat
      BY <1>1
    <3>2. file' = [bytes |-> [i \in 1..Size |-> b(i)], grains |-> grains]
      BY <2>3 DEF Punch, ChangedTo
    <3>3. IsFiniteSet(grains)
      BY <1>1, FS_Subset
    <3>4. ASSUME NEW i \in 1..Size, (i - 1) \div Grain \notin grains
          PROVE  b(i) = 0
      <4>1. i - 1 \in 0..(Size - 1) /\ (i - 1) + 1 = i
        BY <1>1
      <4>2. (i - 1) \div Grain \notin file.grains => file.bytes[i] = 0
        BY <4>1, <1>1 DEF Allocated
      <4> QED BY <3>4, <4>2
    <3> HIDE DEF b, grains
    <3>5. file' = [bytes |-> [i \in 1..Size |-> byte[i]], grains |-> grains]
      BY <3>2
    <3>6. \A i \in 1..Size : byte[i] = b(i)
      OBVIOUS
    <3> HIDE DEF byte
    <3>7. Size \in Nat /\ Size <= MaxU64
      BY <1>1
    <3> DEFINE n == Size
    <3>8. /\ n \in Nat /\ n <= MaxU64 /\ \A i \in 1..n : byte[i] \in Nat
          /\ file' = [bytes |-> [i \in 1..n |-> byte[i]], grains |-> grains]
          /\ \A i \in 1..n : (i - 1) \div Grain \notin grains => byte[i] = 0
      BY <3>1, <3>4, <3>5, <3>6, <3>7
    <3> HIDE DEF n
    <3> QED BY <1>2, <3>3, <3>8
  <2> QED BY <2>1, <2>2, <2>3 DEF Changes
<1>3. file'.bytes \in Seq(Nat) /\ Len(file'.bytes) = n /\ file'.grains = grains
  BY <1>2
<1>4. ASSUME NEW o \in 0..(n - 1), o \div Grain \notin grains
      PROVE  file'.bytes[o + 1] = 0
  <2>1. o + 1 \in 1..n /\ (o + 1) - 1 = o
    OBVIOUS
  <2> QED BY <1>2, <1>4, <2>1
<1> QED BY <1>1, <1>2, <1>3, <1>4 DEF FileOK, Size, Allocated, U64
\* What the invariant says of a step that leaves the file alone.
LEMMA FileSame ==
  ASSUME FileOK, UNCHANGED file
  PROVE  /\ FileOK' /\ Size' = Size /\ Size \in Nat /\ file.bytes \in Seq(Nat)
         /\ \A o \in Nat : Allocated(o)' <=> Allocated(o)
         /\ \A o \in 0..(Size - 1) : ~Allocated(o) => file.bytes[o + 1] = 0
BY WidthAssumption DEF FileOK, Size, Allocated, U64

\* A file that is copied from its beginning.
LEMMA StartPlain ==
  ASSUME Start(None), pos' = 0
  PROVE  slots' = None /\ pc' = "copy" /\ PlainCopied'
<1>1. copied' = <<<<>>>> /\ slots' = None /\ pc' = "copy" /\ piece' = 1
  BY DEF Start
<1>2. <<>> \in Seq(Nat) /\ Len(<<>>) = 0
  OBVIOUS
<1>3. copied' \in Seq(Seq(Nat)) /\ Len(copied') = 1 /\ copied'[1] = <<>>
  BY <1>1, <1>2
<1>4. CopiedFrom(1, 0)'
  BY <1>2, <1>3 DEF CopiedFrom
<1> QED BY <1>1, <1>2, <1>3, <1>4 DEF PlainCopied

\* One that is copied by a map that has all of its data.
LEMMA StartMap ==
  ASSUME NEW map \in Seq(Extent), map # <<>>, Start(map), pos' = 0, file' = file, Size \in Nat,
         \A o \in 0..(Size - 1) :
           Allocated(o) => \E k \in DOMAIN map : map[k].offset <= o /\ o < EndOf(map[k]),
         \A i \in DOMAIN map : EndOf(map[i]) <= Size,
         \A i \in DOMAIN map : map[i].length % BlockSize = 0 \/ i > Len(map) - 2
  PROVE  pc' = "copy" /\ IF slots' = None THEN PlainCopied' ELSE MapCopied'
<1>1. pc' = "copy" /\ slots' = map /\ piece' = 1
  BY DEF Start
<1>2. CASE map = None
  BY <1>1, <1>2, StartPlain
<1>3. CASE map # None
  <2>1. copied' = [i \in DOMAIN map |-> <<>>] /\ 1 \in DOMAIN map
    <3>1. Len(map) \in Nat /\ Len(map) # 0 /\ DOMAIN map = 1..Len(map)
      BY LenProperties, EmptySeq
    <3> QED BY <1>3, <3>1 DEF Start
  <2>2. Size' = Size /\ \A o \in Nat : Allocated(o)' <=> Allocated(o)
    BY DEF Size, Allocated
  <2>3. Found(Size, Len(slots) - 2)'
    BY <1>1, <2>2 DEF Found
  <2>4. \A k \in DOMAIN map : copied'[k] = <<>> /\ Len(copied'[k]) = 0
    BY <2>1
  <2>5. \A k \in DOMAIN map : CopiedFrom(k, slots[k].offset)'
    BY <1>1, <2>4 DEF CopiedFrom
  <2>6. \A k \in DOMAIN map : ~(k < 1)
    BY LenProperties
  <2> QED BY <1>1, <1>3, <2>1, <2>3, <2>4, <2>5, <2>6 DEF MapCopied
<1> QED BY <1>2, <1>3

LEMMA StatSteady == ASSUME ScanInv, SteadyInv, Stat PROVE SteadyInv'
<1>1. /\ pc = "stat" /\ pos = 0 /\ FileOK /\ file' = file /\ pos' = 0
      /\ stat' = [size |-> Size, blocks |-> Cardinality(file.grains)]
  BY DEF Stat, SteadyInv, Same
<1>2. FileOK' /\ Size' = Size /\ Size \in Nat /\ stat'.size = Size'
  BY <1>1, FileSame
<1>3. CASE Start(None)
  BY <1>1, <1>2, <1>3, StartPlain DEF SteadyInv
<1>4. CASE Start(<<Slice(Size, 0)>>) /\ stat'.blocks = 0
  <2>1. file.grains = {}
    BY <1>1, <1>4, FS_EmptySet DEF FileOK
  <2>2. Slice(Size, 0) \in Extent /\ EndOf(Slice(Size, 0)) = Size /\ Slice(Size, 0).length = 0
    BY <1>2 DEF Slice, Extent, EndOf
  <2> DEFINE map == <<Slice(Size, 0)>>
  <2>3. map \in Seq(Extent) /\ map # <<>> /\ Len(map) = 1 /\ \A i \in DOMAIN map : map[i] = Slice(Size, 0)
    BY <2>2
  <2> HIDE DEF map
  <2>4. \A i \in DOMAIN map : EndOf(map[i]) <= Size /\ map[i].length % BlockSize = 0
    BY <1>2, <2>2, <2>3, BlockSizeAssumption
  <2>5. \A o \in 0..(Size - 1) : ~Allocated(o)
    BY <2>1 DEF Allocated
  <2>6. Start(map)
    BY <1>4 DEF map
  <2>7. pc' = "copy" /\ IF slots' = None THEN PlainCopied' ELSE MapCopied'
    BY <1>1, <1>2, <2>3, <2>4, <2>5, <2>6, StartMap
  <2> QED BY <1>2, <2>7 DEF SteadyInv
<1>5. CASE pc' = "probe"
  BY <1>1, <1>2, <1>5 DEF SteadyInv
<1> QED BY <1>3, <1>4, <1>5 DEF Stat

LEMMA ProbeSteady == ASSUME ScanInv, SteadyInv, Probe PROVE SteadyInv'
<1>1. /\ pc = "probe" /\ pos = 0 /\ slots = <<>> /\ off = 0 /\ FileOK
      /\ UNCHANGED <<file, stat, off, steady>> /\ (steady => stat.size = Size)
  BY DEF Probe, Same, ScanInv, SteadyInv
<1>2. FileOK' /\ Size' = Size /\ Size \in Nat
  BY <1>1, FileSame
<1>3. CASE Start(None) /\ UNCHANGED pos
  <2>1. slots' = None /\ pc' = "copy" /\ PlainCopied'
    BY <1>1, <1>3, StartPlain
  <2> QED BY <1>1, <1>2, <2>1 DEF SteadyInv
<1>4. CASE pc' = "data" /\ UNCHANGED slots
  <2>1. Found(0, Len(slots))' /\ Found(0, Len(slots) - 1)'
    BY <1>1, <1>4 DEF Found
  <2>2. 0 % Grain = 0
    BY GrainAssumption
  <2> QED BY <1>1, <1>2, <1>4, <2>1, <2>2 DEF SteadyInv
<1> QED BY <1>3, <1>4 DEF Probe

LEMMA SeekDataSteady == ASSUME ScanInv, SteadyInv, SeekData PROVE SteadyInv'
<1>1. /\ pc = "data" /\ FileOK /\ DataFrom(off) # {} /\ off' = Least(DataFrom(off))
      /\ UNCHANGED <<file, stat, slots, steady>> /\ off \in Nat
      /\ pc' \in {"hole", "error"} /\ Extents(slots)
  BY DEF SeekData, Same, ScanInv, SteadyInv
<1>2. /\ FileOK' /\ Size' = Size /\ Size \in Nat
      /\ \A o \in Nat : Allocated(o)' <=> Allocated(o)
  BY <1>1, FileSame
<1>3. CASE ~steady \/ pc' = "error"
  BY <1>1, <1>2, <1>3 DEF SteadyInv
<1>4. CASE steady /\ pc' = "hole"
  <2>1. /\ stat.size = Size /\ Found(off, Len(slots) - 1) /\ off <= Size
        /\ off = Size \/ (off % Grain = 0 /\ Found(off, Len(slots)))
    BY <1>1, <1>4 DEF SteadyInv
  <2>2. /\ off' \in DataFrom(off) /\ \A d \in DataFrom(off) : off' <= d
        /\ DataFrom(off) \subseteq Nat
    <3>1. DataFrom(off) \subseteq Nat
      BY <1>1, <1>2 DEF DataFrom
    <3> QED BY <1>1, <3>1, LeastIsLeast
  <2>3. off' \in Nat /\ off <= off' /\ off' < Size /\ Allocated(off') /\ off # Size
    BY <1>1, <1>2, <2>2 DEF DataFrom
  <2>4. \A o \in off..(off' - 1) : ~Allocated(o)
    <3> SUFFICES ASSUME NEW o \in off..(off' - 1), Allocated(o) PROVE FALSE
      OBVIOUS
    <3>1. o \in DataFrom(off)
      BY <1>1, <1>2, <2>3 DEF DataFrom
    <3> QED BY <1>1, <2>2, <2>3, <3>1
  <2>5. off' % Grain = 0
    <3>1. CASE off' = off
      BY <2>1, <2>3, <3>1
    <3>2. CASE off' # off
      <4>1. off' > 0 /\ off' - 1 \in off..(off' - 1)
        BY <1>1, <2>3, <3>2
      <4>2. ~Allocated(off' - 1) /\ Allocated(off')
        BY <2>3, <2>4, <4>1
      <4>3. off' \div Grain # (off' - 1) \div Grain
        BY <4>2 DEF Allocated
      <4> QED BY <2>3, <4>1, <4>3, GrainBegins
    <3> QED BY <3>1, <3>2
  <2>6. Found(off, Len(slots))'
    <3>1. \A i \in DOMAIN slots : EndOf(slots[i]) \in Nat
      BY LengthsOf, <1>1 DEF EndOf, Extents
    <3>2. Found(off, Len(slots))
      BY <2>1, <2>3
    <3>3. \A i \in DOMAIN slots : EndOf(slots[i]) <= off'
      BY <1>1, <2>3, <3>1, <3>2 DEF Found
    <3>4. ASSUME NEW o \in 0..(off' - 1), Allocated(o)
          PROVE  \E k \in DOMAIN slots : slots[k].offset <= o /\ o < EndOf(slots[k])
      <4>1. o \in 0..(off - 1)
        BY <1>1, <2>3, <2>4, <3>4
      <4> QED BY <3>2, <3>4, <4>1 DEF Found
    <3> QED BY <1>1, <1>2, <2>3, <3>2, <3>3, <3>4 DEF Found
  <2>7. Allocated(off)'
    BY <1>1, <2>3 DEF Allocated
  <2> QED BY <1>1, <1>2, <1>4, <2>1, <2>3, <2>5, <2>6, <2>7 DEF SteadyInv
<1> QED BY <1>1, <1>3, <1>4
LEMMA NoMoreDataSteady == ASSUME ScanInv, SteadyInv, NoMoreData PROVE SteadyInv'
<1>1. /\ pc = "data" /\ FileOK /\ DataFrom(off) = {} /\ Extents(slots)
      /\ UNCHANGED <<file, stat, steady>> /\ off \in Nat /\ stat.size \in Nat
  BY DEF NoMoreData, Same, ScanInv, SteadyInv
<1>2. FileOK' /\ Size' = Size /\ Size \in Nat
  BY <1>1, FileSame
<1>3. CASE ~steady
  <2>1. pc' \in {"copy", "error"}
    BY DEF NoMoreData, Start
  <2> QED BY <1>1, <1>2, <1>3, <2>1 DEF SteadyInv
<1>4. CASE steady /\ pc' = "error"
  BY <1>1, <1>2, <1>4 DEF SteadyInv
<1>5. CASE steady /\ pc' # "error"
  <2> DEFINE last == Slice(stat.size, 0)
             map == Append(slots, last)
  <2>1. Start(map) /\ pos' = 0
    BY <1>5 DEF NoMoreData
  <2>2. stat.size = Size /\ Found(off, Len(slots) - 1) /\ off <= Size
    BY <1>1, <1>5 DEF SteadyInv
  <2>3. last \in Extent /\ EndOf(last) = Size /\ last.length = 0
    BY <1>2, <2>2 DEF Slice, Extent, EndOf
  <2> HIDE DEF last
  <2>4. slots \in Seq(Extent) /\ Len(slots) \in Nat /\ DOMAIN slots = 1..Len(slots)
    BY <1>1, LengthsOf DEF Extents
  <2>5. /\ map \in Seq(Extent) /\ Len(map) = Len(slots) + 1 /\ map # <<>>
        /\ \A i \in 1..Len(slots) : map[i] = slots[i]
        /\ map[Len(slots) + 1] = last
    BY <2>3, <2>4, AppendProperties
  <2>6. DOMAIN map = 1..(Len(slots) + 1)
    BY <2>5, LengthsOf
  <2> HIDE DEF map
  <2>7. ASSUME NEW o \in 0..(Size - 1), Allocated(o)
        PROVE  \E k \in DOMAIN map : map[k].offset <= o /\ o < EndOf(map[k])
    <3>1. o \in 0..(off - 1)
      <4>1. ~(o >= off)
        BY <1>1, <1>2, <2>7 DEF DataFrom
      <4> QED BY <1>1, <1>2, <4>1
    <3>2. PICK k \in DOMAIN slots : slots[k].offset <= o /\ o < EndOf(slots[k])
      BY <2>2, <2>7, <3>1 DEF Found
    <3>3. k \in DOMAIN map /\ map[k] = slots[k]
      BY <2>4, <2>5, <2>6
    <3> QED BY <3>2, <3>3
  <2>8. ASSUME NEW i \in DOMAIN map
        PROVE  /\ EndOf(map[i]) <= Size
               /\ map[i].length % BlockSize = 0 \/ i > Len(map) - 2
    <3>1. CASE i \in 1..Len(slots)
      <4>1. EndOf(slots[i]) \in Nat /\ EndOf(slots[i]) <= off
        BY <2>2, <2>4, <3>1, LengthsOf DEF Found, EndOf
      <4>2. slots[i].length % BlockSize = 0 \/ i > Len(slots) - 1
        BY <2>2, <2>4, <3>1 DEF Found
      <4> QED BY <1>1, <1>2, <2>2, <2>4, <2>5, <3>1, <4>1, <4>2
    <3>2. CASE i = Len(slots) + 1
      BY <1>2, <2>3, <2>4, <2>5, <3>2
    <3> QED BY <2>4, <2>6, <3>1, <3>2
  <2>9. pc' = "copy" /\ IF slots' = None THEN PlainCopied' ELSE MapCopied'
    BY <1>1, <1>2, <2>1, <2>5, <2>7, <2>8, StartMap
  <2> QED BY <1>1, <1>2, <2>2, <2>9 DEF SteadyInv
<1> QED BY <1>3, <1>4, <1>5

LEMMA SeekHoleSteady == ASSUME ScanInv, SteadyInv, SeekHole PROVE SteadyInv'
<1> DEFINE end == Least(HoleFrom(off))
<1>1. /\ pc = "hole" /\ FileOK /\ off < Size /\ Extents(slots)
      /\ UNCHANGED <<file, stat, steady>> /\ off \in Nat /\ stat.size \in Nat
  BY DEF SeekHole, Same, ScanInv, SteadyInv
<1>2. /\ FileOK' /\ Size' = Size /\ Size \in Nat
      /\ \A o \in Nat : Allocated(o)' <=> Allocated(o)
  BY <1>1, FileSame
<1>3. CASE off = 0 /\ end = stat.size
  <2>1. slots' = None /\ pc' = "copy" /\ PlainCopied'
    <3>1. Start(None) /\ pos' = 0
      BY <1>3 DEF SeekHole
    <3> QED BY <3>1, StartPlain
  <2> QED BY <1>1, <1>2, <2>1 DEF SteadyInv
<1>4. CASE ~(off = 0 /\ end = stat.size) /\ end = off
  <2>1. pc' = "error"
    BY <1>4 DEF SeekHole
  <2> QED BY <1>2, <2>1 DEF SteadyInv
<1>5. CASE ~(off = 0 /\ end = stat.size) /\ end # off
  <2> DEFINE slot == Slice(off, end - off)
  <2>1. slots' = Append(slots, slot) /\ off' = end /\ pc' = "data"
    BY <1>5 DEF SeekHole
  <2>2. CASE ~steady
    BY <1>1, <1>2, <2>1, <2>2 DEF SteadyInv
  <2>3. CASE steady
    <3>1. stat.size = Size /\ Found(off, Len(slots)) /\ off % Grain = 0 /\ Allocated(off)
      BY <1>1, <2>3 DEF SteadyInv
    <3>2. /\ HoleFrom(off) \subseteq Nat /\ Size \in HoleFrom(off)
          /\ \A h \in HoleFrom(off) : off <= h /\ h <= Size /\ (h # Size => ~Allocated(h))
      BY <1>1, <1>2 DEF HoleFrom
    <3>3. end \in HoleFrom(off) /\ \A h \in HoleFrom(off) : end <= h
      BY <3>2, LeastIsLeast
    <3>4. end \in Nat /\ off < end /\ end <= Size /\ (end # Size => ~Allocated(end))
      BY <1>1, <1>5, <3>2, <3>3
    <3>5. ASSUME end # Size
          PROVE  end % Grain = 0
      <4>1. Allocated(end - 1)
        <5> SUFFICES ASSUME ~Allocated(end - 1) PROVE FALSE
          OBVIOUS
        <5>1. end - 1 \in HoleFrom(off)
          BY <1>1, <1>2, <3>4 DEF HoleFrom
        <5> QED BY <3>3, <3>4, <5>1
      <4>2. end \div Grain # (end - 1) \div Grain
        BY <3>4, <3>5, <4>1 DEF Allocated
      <4> QED BY <1>1, <3>4, <4>2, GrainBegins
    <3> HIDE DEF end
    <3>6. /\ slot \in Extent /\ slot.offset = off /\ slot.length = end - off
          /\ EndOf(slot) = end
      BY <1>1, <3>4 DEF Slice, Extent, EndOf
    <3>7. end # Size => slot.length % BlockSize = 0
      <4> HAVE end # Size
      <4>1. (end - off) % Grain = 0 /\ end - off \in Nat
        BY <1>1, <3>1, <3>4, <3>5, GrainAssumption, Multiples
      <4>2. (end - off) % BlockSize = 0
        BY <4>1, GrainAssumption, BlockSizeAssumption, MultipleOfMultiple
      <4> QED BY <3>6, <4>2
    <3> HIDE DEF slot
    <3>8. slots \in Seq(Extent) /\ Len(slots) \in Nat /\ DOMAIN slots = 1..Len(slots)
      BY <1>1, LengthsOf DEF Extents
    <3>9. /\ slots' \in Seq(Extent) /\ Len(slots') = Len(slots) + 1
          /\ \A i \in 1..Len(slots) : slots'[i] = slots[i]
          /\ slots'[Len(slots) + 1] = slot
      BY <2>1, <3>6, <3>8, AppendProperties
    <3>10. DOMAIN slots' = 1..(Len(slots) + 1)
      BY <3>9, LengthsOf
    <3>11. ASSUME NEW o \in 0..(end - 1), Allocated(o)
           PROVE  \E k \in DOMAIN slots' : slots'[k].offset <= o /\ o < EndOf(slots'[k])
      <4>1. CASE o < off
        <5>1. o \in 0..(off - 1)
          BY <1>1, <3>4, <4>1
        <5>2. PICK k \in DOMAIN slots : slots[k].offset <= o /\ o < EndOf(slots[k])
          BY <3>1, <3>11, <5>1 DEF Found
        <5> QED BY <3>8, <3>9, <3>10, <5>2
      <4>2. CASE off <= o
        <5>1. Len(slots) + 1 \in DOMAIN slots'
          BY <3>8, <3>10
        <5>2. slot.offset <= o /\ o < EndOf(slot)
          BY <1>1, <3>4, <3>6, <4>2
        <5> QED BY <3>9, <5>1, <5>2
      <4> QED BY <1>1, <3>4, <4>1, <4>2
    <3>12. ASSUME NEW i \in DOMAIN slots'
           PROVE  /\ EndOf(slots'[i]) <= end
                  /\ slots'[i].length % BlockSize = 0 \/ (i = Len(slots) + 1 /\ end = Size)
      <4>1. CASE i \in 1..Len(slots)
        <5>1. EndOf(slots[i]) \in Nat /\ EndOf(slots[i]) <= off
          BY <3>1, <3>8, <4>1, LengthsOf DEF Found, EndOf
        <5>2. slots[i].length % BlockSize = 0
          BY <3>1, <3>8, <4>1 DEF Found
        <5> QED BY <1>1, <3>4, <3>9, <4>1, <5>1, <5>2
      <4>2. CASE i = Len(slots) + 1
        BY <3>4, <3>6, <3>7, <3>9, <4>2
      <4> QED BY <3>8, <3>10, <4>1, <4>2
    <3>13. Found(off, Len(slots) - 1)' /\ (end = Size \/ Found(off, Len(slots))')
      BY <1>2, <2>1, <3>4, <3>8, <3>9, <3>11, <3>12 DEF Found
    <3> QED BY <1>1, <1>2, <2>1, <3>1, <3>4, <3>5, <3>13 DEF SteadyInv
  <2> QED BY <2>2, <2>3
<1> QED BY <1>3, <1>4, <1>5

\* A piece with more bytes from an offset, and what a file has from an offset on.
Extended(c, bytes, from, n) == c \o SubSeq(bytes, from + 1, from + n)
IsCopy(c, bytes, o) == \A j \in 1..Len(c) : o + j <= Len(bytes) /\ c[j] = bytes[o + j]

\* What is read at the position behind a piece makes the piece longer.
LEMMA PieceGrows ==
  ASSUME NEW bytes \in Seq(Nat), NEW c \in Seq(Nat), NEW o \in Nat, NEW n \in Nat, n >= 1,
         o + Len(c) + n <= Len(bytes),
         IsCopy(c, bytes, o),
         NEW from, from = o + Len(c)
  PROVE  /\ Extended(c, bytes, from, n) \in Seq(Nat)
         /\ Len(Extended(c, bytes, from, n)) = Len(c) + n
         /\ IsCopy(Extended(c, bytes, from, n), bytes, o)
<1> DEFINE some == SubSeq(bytes, from + 1, from + n)
           d == c \o some
<1>1. Len(c) \in Nat /\ from \in Nat /\ Len(bytes) \in Nat
  BY LenProperties
<1>2. \A i \in (from + 1)..(from + n) : bytes[i] \in Nat
  <2> TAKE i \in (from + 1)..(from + n)
  <2>1. i \in 1..Len(bytes)
    BY <1>1
  <2> QED BY <2>1, ElementOfSeq
<1>3. /\ some \in Seq(Nat) /\ Len(some) = n
      /\ \A i \in 1..n : some[i] = bytes[from + i]
  <2>1. /\ some \in Seq(Nat)
        /\ Len(some) = IF from + 1 <= from + n THEN (from + n) - (from + 1) + 1 ELSE 0
        /\ \A i \in 1..((from + n) - (from + 1) + 1) : some[i] = bytes[(from + 1) + i - 1]
    BY <1>1, <1>2, SubSeqProperties
  <2> HIDE DEF some
  <2>2. (from + n) - (from + 1) + 1 = n /\ \A i \in 1..n : (from + 1) + i - 1 = from + i
    BY <1>1
  <2> QED BY <1>1, <2>1, <2>2
<1> HIDE DEF some
<1>4. /\ d \in Seq(Nat) /\ Len(d) = Len(c) + n
      /\ \A i \in 1..(Len(c) + n) : d[i] = IF i <= Len(c) THEN c[i] ELSE some[i - Len(c)]
  <2>1. /\ d \in Seq(Nat) /\ Len(d) = Len(c) + Len(some)
        /\ \A i \in 1..(Len(c) + Len(some)) :
             d[i] = IF i <= Len(c) THEN c[i] ELSE some[i - Len(c)]
    <3>1. some \in Seq(Nat) /\ d = c \o some
      BY <1>3
    <3> HIDE DEF d
    <3> QED BY <3>1, Joined
  <2> HIDE DEF d
  <2> QED BY <1>3, <2>1
<1> HIDE DEF d
<1>5. ASSUME NEW j \in 1..(Len(c) + n)
      PROVE  o + j <= Len(bytes) /\ d[j] = bytes[o + j]
  <2>0. d[j] = IF j <= Len(c) THEN c[j] ELSE some[j - Len(c)]
    BY <1>4
  <2>1. CASE j <= Len(c)
    <3>1. j \in 1..Len(c)
      BY <1>1, <2>1
    <3> QED BY <1>1, <2>0, <2>1, <3>1 DEF IsCopy
  <2>2. CASE j > Len(c)
    <3>1. j - Len(c) \in 1..n /\ from + (j - Len(c)) = o + j
      BY <1>1, <2>2
    <3>2. some[j - Len(c)] = bytes[o + j]
      BY <1>3, <3>1
    <3>3. o + j <= Len(bytes)
      BY <1>1
    <3>4. ~(j <= Len(c))
      BY <1>1, <2>2
    <3> QED BY <2>0, <3>2, <3>3, <3>4
  <2> QED BY <1>1, <2>1, <2>2
<1> QED BY <1>4, <1>5 DEF d, some, IsCopy, Extended

LEMMA CopySomeSteady == ASSUME ScanInv, SteadyInv, CopySome PROVE SteadyInv'
<1>1. /\ pc = "copy" /\ FileOK /\ piece \in DOMAIN copied /\ pos \in Nat
      /\ UNCHANGED <<file, pc, stat, slots, piece, steady>>
  BY DEF CopySome, Same, ScanInv, SteadyInv
<1>2. FileOK' /\ Size' = Size /\ Size \in Nat /\ file.bytes \in Seq(Nat) /\ Size = Len(file.bytes)
  BY <1>1, FileSame DEF Size
<1>3. PICK n \in 1..Wanted :
        /\ From + n <= Size
        /\ copied' = [copied EXCEPT ![piece] = @ \o SubSeq(file.bytes, From + 1, From + n)]
        /\ pos' = From + n
  BY DEF CopySome
<1> DEFINE piece2 == copied[piece] \o SubSeq(file.bytes, From + 1, From + n)
<1>4. CASE ~steady
  BY <1>1, <1>2, <1>4 DEF SteadyInv
<1>5. CASE steady /\ slots = None
  <2> DEFINE o == 0
  <2>1. PlainCopied /\ From = pos /\ Wanted = Size - pos
    BY <1>1, <1>5 DEF SteadyInv, From, Wanted
  <2>2. /\ copied \in Seq(Seq(Nat)) /\ Len(copied) = 1 /\ pos = Len(copied[1]) /\ piece = 1
        /\ o \in Nat /\ IsCopy(copied[1], file.bytes, o)
    BY <1>1, <1>2, <2>1 DEF PlainCopied, CopiedFrom, IsCopy
  <2>3. copied[1] \in Seq(Nat) /\ n \in Nat /\ n >= 1
    <3>1. 1 \in 1..Len(copied)
      BY <2>2
    <3>2. copied[1] \in Seq(Nat)
      BY <2>2, <3>1, ElementOfSeq
    <3> QED BY <1>1, <1>2, <2>1, <3>2
  <2>4. From = o + Len(copied[1]) /\ o + Len(copied[1]) + n <= Len(file.bytes)
    BY <1>1, <1>2, <1>3, <2>1, <2>2, <2>3
  <2>0. piece2 = Extended(copied[1], file.bytes, From, n)
    BY <2>2 DEF Extended
  <2> HIDE DEF piece2, o
  <2>5. /\ piece2 \in Seq(Nat) /\ Len(piece2) = Len(copied[1]) + n /\ IsCopy(piece2, file.bytes, o)
    BY <1>2, <2>0, <2>2, <2>3, <2>4, PieceGrows
  <2>6. copied' = [copied EXCEPT ![1] = piece2]
    BY <1>3, <2>2 DEF piece2
  <2>7. copied' \in Seq(Seq(Nat)) /\ Len(copied') = 1 /\ copied'[1] = piece2
    <3>1. DOMAIN copied = 1..1 /\ copied \in [1..1 -> Seq(Nat)]
      BY <2>2, LenProperties
    <3>2. copied' \in [1..1 -> Seq(Nat)] /\ copied'[1] = piece2
      BY <2>5, <2>6, <3>1
    <3>3. copied' = [i \in 1..1 |-> piece2]
      BY <3>2
    <3> HIDE DEF o
    <3> QED BY <2>5, <3>2, <3>3
  <2>8. pos' = Len(copied'[1])
    BY <1>3, <2>2, <2>3, <2>4, <2>5, <2>7 DEF o
  <2>9. CopiedFrom(1, 0)'
    BY <1>1, <1>2, <2>5, <2>7 DEF CopiedFrom, IsCopy, o
  <2>10. PlainCopied'
    BY <1>1, <2>2, <2>7, <2>8, <2>9 DEF PlainCopied
  <2> QED BY <1>1, <1>2, <1>5, <2>10 DEF SteadyInv
<1>6. CASE steady /\ slots # None
  <2>1. MapCopied /\ stat.size = Size
    BY <1>1, <1>6 DEF SteadyInv
  <2>2. Complete
    BY <1>1, <1>6 DEF ScanInv
  <2>3. /\ slots \in Seq(Extent) /\ copied \in [DOMAIN slots -> Seq(Nat)]
        /\ piece \in DOMAIN slots /\ slots[piece].offset \in Nat /\ slots[piece].length \in Nat
    BY <1>1, <2>2, LengthsOf DEF Complete
  <2> DEFINE o == slots[piece].offset
             c == copied[piece]
  <2>4. /\ c \in Seq(Nat) /\ Len(c) \in Nat
        /\ IsCopy(c, file.bytes, o)
        /\ c # <<>> => pos = o + Len(c)
    <3>1. c \in Seq(Nat) /\ Len(c) \in Nat
      BY <2>3
    <3>2. CopiedFrom(piece, slots[piece].offset) /\ (c # <<>> => pos = o + Len(c))
      BY <1>1, <2>1, <2>3 DEF MapCopied
    <3> QED BY <1>2, <3>1, <3>2 DEF CopiedFrom, IsCopy
  <2>5. From = o + Len(c) /\ Wanted = slots[piece].length - Len(c)
    <3>1. c = <<>> => Len(c) = 0
      OBVIOUS
    <3> QED BY <1>6, <2>3, <2>4, <3>1 DEF From, Wanted
  <2>6. n \in Nat /\ n >= 1 /\ o + Len(c) + n <= Len(file.bytes) /\ o \in Nat
    BY <1>2, <1>3, <2>3, <2>4, <2>5
  <2>7. copied' = [copied EXCEPT ![piece] = piece2]
    BY <1>3
  <2>0. piece2 = Extended(c, file.bytes, From, n)
    BY DEF Extended
  <2> HIDE DEF o, piece2, c
  <2>8. /\ piece2 \in Seq(Nat) /\ Len(piece2) = Len(c) + n /\ IsCopy(piece2, file.bytes, o)
    <3>1. file.bytes \in Seq(Nat) /\ c \in Seq(Nat) /\ IsCopy(c, file.bytes, o)
      BY <1>2, <2>4
    <3>2. n \in Nat /\ n >= 1 /\ o \in Nat /\ o + Len(c) + n <= Len(file.bytes)
      BY <2>6
    <3>3. From = o + Len(c)
      BY <2>5
    <3>4. /\ Extended(c, file.bytes, From, n) \in Seq(Nat)
          /\ Len(Extended(c, file.bytes, From, n)) = Len(c) + n
          /\ IsCopy(Extended(c, file.bytes, From, n), file.bytes, o)
      BY ONLY <3>1, <3>2, <3>3, PieceGrows, SMTT(60)
    <3> QED BY <2>0, <3>4, Zenon
  <2>9. /\ copied'[piece] = piece2 /\ \A k \in DOMAIN slots : k # piece => copied'[k] = copied[k]
    BY <2>3, <2>7
  <2>10. ASSUME NEW k \in DOMAIN slots
         PROVE  CopiedFrom(k, slots[k].offset)'
    <3>1. CASE k = piece
      BY <1>1, <1>2, <2>8, <2>9, <3>1 DEF CopiedFrom, IsCopy, o
    <3>2. CASE k # piece
      <4>1. CopiedFrom(k, slots[k].offset)
        BY <2>1 DEF MapCopied
      <4> QED BY <1>1, <1>2, <2>9, <3>2, <4>1 DEF CopiedFrom
    <3> QED BY <3>1, <3>2
  <2>11. Found(Size, Len(slots) - 2)'
    <3>1. Found(Size, Len(slots) - 2)
      BY <2>1 DEF MapCopied
    <3> QED BY <1>1, <3>1 DEF Found, Size, Allocated
  <2>12. \A k \in DOMAIN slots : k < piece => Len(copied'[k]) = slots[k].length
    <3> TAKE k \in DOMAIN slots
    <3> HAVE k < piece
    <3>1. k # piece
      BY <2>3, LengthsOf
    <3>2. Len(copied[k]) = slots[k].length
      BY <2>1 DEF MapCopied
    <3> QED BY <2>9, <3>1, <3>2
  <2>13. \A k \in DOMAIN slots : k > piece => copied'[k] = <<>>
    <3> TAKE k \in DOMAIN slots
    <3> HAVE k > piece
    <3>1. k # piece
      BY <2>3, LengthsOf
    <3>2. copied[k] = <<>>
      BY <1>1, <2>1 DEF MapCopied
    <3> QED BY <2>9, <3>1, <3>2
  <2>14. pos' = slots[piece].offset + Len(copied'[piece])
    <3>1. pos' = From + n
      BY <1>3
    <3>2. pos' = o + Len(piece2)
      BY <2>4, <2>5, <2>6, <2>8, <3>1
    <3> QED BY <2>9, <3>2 DEF o
  <2>15. MapCopied'
    BY <1>1, <2>3, <2>10, <2>11, <2>12, <2>13, <2>14 DEF MapCopied
  <2> QED BY <1>1, <1>2, <1>6, <2>1, <2>15 DEF SteadyInv
<1> QED BY <1>4, <1>5, <1>6

LEMMA CopyEndsSteady == ASSUME ScanInv, SteadyInv, CopyEnds PROVE SteadyInv'
<1>1. /\ pc = "copy" /\ FileOK /\ piece \in DOMAIN copied /\ pos \in Nat
      /\ UNCHANGED <<file, stat, pos, slots, copied, steady>>
      /\ piece' = piece + 1 /\ pc' = IF piece = Len(copied) THEN "done" ELSE "copy"
      /\ Wanted <= 0 \/ From >= Size
  BY DEF CopyEnds, Same, ScanInv, SteadyInv
<1>2. FileOK' /\ Size' = Size /\ Size \in Nat
  BY <1>1, FileSame
<1>3. CASE ~steady
  BY <1>1, <1>2, <1>3 DEF SteadyInv
<1>4. CASE steady /\ slots = None
  <2>1. PlainCopied /\ From = pos /\ Wanted = Size - pos
    BY <1>1, <1>4 DEF SteadyInv, From, Wanted
  <2>2. /\ copied \in Seq(Seq(Nat)) /\ Len(copied) = 1 /\ pos = Len(copied[1]) /\ piece = 1
        /\ CopiedFrom(1, 0)
    BY <1>1, <2>1 DEF PlainCopied
  <2>3. pc' = "done" /\ pos >= Size
    BY <1>1, <1>2, <2>1, <2>2
  <2>4. CopiedFrom(1, 0)'
    BY <1>1, <1>2, <2>2 DEF CopiedFrom
  <2>5. PlainCopied'
    BY <1>1, <1>2, <2>2, <2>3, <2>4 DEF PlainCopied
  <2> QED BY <1>1, <1>2, <1>4, <2>3, <2>5 DEF SteadyInv
<1>5. CASE steady /\ slots # None
  <2>1. MapCopied /\ stat.size = Size
    BY <1>1, <1>5 DEF SteadyInv
  <2>2. Complete
    BY <1>1, <1>5 DEF ScanInv
  <2>3. /\ slots \in Seq(Extent) /\ copied \in [DOMAIN slots -> Seq(Nat)]
        /\ piece \in DOMAIN slots /\ slots[piece].offset \in Nat /\ slots[piece].length \in Nat
        /\ DOMAIN slots = 1..Len(slots) /\ Len(slots) \in Nat /\ copied[piece] \in Seq(Nat)
    BY <1>1, <2>2, LengthsOf DEF Complete
  <2>4. /\ copied[piece] # <<>> => pos = slots[piece].offset + Len(copied[piece])
        /\ EndOf(slots[piece]) <= Size
        /\ Len(copied[piece]) <= slots[piece].length /\ Len(copied[piece]) \in Nat
    BY <1>1, <1>5, <2>1, <2>2, <2>3 DEF MapCopied, Found, Complete, MapOrdered
  <2>5. Len(copied[piece]) = slots[piece].length
    <3>1. /\ From = slots[piece].offset + Len(copied[piece])
          /\ Wanted = slots[piece].length - Len(copied[piece])
      <4>1. copied[piece] = <<>> => Len(copied[piece]) = 0
        OBVIOUS
      <4> QED BY <1>5, <2>3, <2>4, <4>1 DEF From, Wanted
    <3>2. EndOf(slots[piece]) = slots[piece].offset + slots[piece].length
      BY DEF EndOf
    <3> QED BY <1>1, <1>2, <2>3, <2>4, <3>1, <3>2
  <2>6. Len(copied) = Len(slots)
    BY <2>3
  <2>7. \A k \in DOMAIN slots : k < piece' => Len(copied[k]) = slots[k].length
    <3> TAKE k \in DOMAIN slots
    <3> HAVE k < piece'
    <3>1. k = piece \/ k < piece
      BY <1>1, <2>3
    <3> QED BY <2>1, <2>5, <3>1 DEF MapCopied
  <2>8. \A k \in DOMAIN slots : k >= piece' => copied[k] = <<>>
    <3> TAKE k \in DOMAIN slots
    <3> HAVE k >= piece'
    <3>1. k > piece
      BY <1>1, <2>3
    <3> QED BY <1>1, <2>1, <3>1 DEF MapCopied
  <2>9. IF pc' = "copy" THEN piece' \in DOMAIN slots ELSE piece' = Len(slots) + 1
    BY <1>1, <2>3, <2>6
  <2>10. pc' = "copy" => /\ copied[piece'] = <<>>
                         /\ \A k \in DOMAIN slots : k > piece' => copied[k] = <<>>
    <3> HAVE pc' = "copy"
    <3>1. piece' \in DOMAIN slots /\ piece' \in Nat
      BY <2>3, <2>9
    <3>2. \A k \in DOMAIN slots : k > piece' => k >= piece'
      BY <2>3, <3>1
    <3> QED BY <2>8, <3>1, <3>2
  <2>11. Found(Size, Len(slots) - 2)' /\ \A k \in DOMAIN slots : CopiedFrom(k, slots[k].offset)'
    <3>1. Found(Size, Len(slots) - 2) /\ \A k \in DOMAIN slots : CopiedFrom(k, slots[k].offset)
      BY <2>1 DEF MapCopied
    <3>2. Found(Size, Len(slots) - 2)'
      BY <1>1, <3>1 DEF Found, Size, Allocated
    <3>3. \A k \in DOMAIN slots : CopiedFrom(k, slots[k].offset)'
      BY <1>1, <3>1 DEF CopiedFrom, Size
    <3> QED BY <3>2, <3>3
  <2>12. MapCopied'
    BY <1>1, <2>3, <2>7, <2>9, <2>10, <2>11 DEF MapCopied
  <2> QED BY <1>1, <1>2, <1>5, <2>1, <2>12 DEF SteadyInv
<1> QED BY <1>3, <1>4, <1>5

LEMMA SteadyStep == ScanInv /\ SteadyInv /\ [Next]_vars => SteadyInv'
<1> SUFFICES ASSUME ScanInv, SteadyInv, [Next]_vars PROVE SteadyInv'
  OBVIOUS
<1>1. CASE Stat
  BY <1>1, StatSteady
<1>2. CASE Probe
  BY <1>2, ProbeSteady
<1>3. CASE SeekData
  BY <1>3, SeekDataSteady
<1>4. CASE NoMoreData
  BY <1>4, NoMoreDataSteady
<1>5. CASE SeekHole
  BY <1>5, SeekHoleSteady
<1>6. CASE DataGone \/ Io
  <2>1. pc' = "error" /\ file' = file /\ FileOK
    BY <1>6 DEF DataGone, Io, Fail, Same, SteadyInv
  <2>2. FileOK'
    BY <2>1, FileSame
  <2> QED BY <2>1, <2>2 DEF SteadyInv
<1>7. CASE CopySome
  BY <1>7, CopySomeSteady
<1>8. CASE CopyEnds
  BY <1>8, CopyEndsSteady
<1>9. CASE Changes
  <2>1. FileOK'
    BY <1>9, FileChanges DEF ScanInv, SteadyInv
  <2>2. steady' = FALSE /\ pc' = pc /\ pos' = pos
    BY <1>9 DEF Changes, Overwrite, Resize, Punch, ChangedTo
  <2> QED BY <2>1, <2>2 DEF SteadyInv
<1>10. CASE UNCHANGED vars
  BY <1>10 DEF vars, SteadyInv, FileOK, Size, Allocated, Found, CopiedFrom, PlainCopied, MapCopied
<1> QED BY <1>1, <1>2, <1>3, <1>4, <1>5, <1>6, <1>7, <1>8, <1>9, <1>10 DEF Next, Step
\* A map that the search has made of an unchanged file is one that the reader accepts.
LEMMA MapAccepted ==
  ASSUME ScanInv, SteadyInv, pc = "done", steady, slots # None
  PROVE  L!ValidMap(slots, OnDisk, Real) /\ Real = stat.size
<1>1. Complete /\ MapCopied /\ stat.size = Size /\ Size \in Nat /\ Size <= MaxU64
  BY WidthAssumption DEF ScanInv, SteadyInv, FileOK, U64
<1> DEFINE N == Len(slots)
<1>2. /\ slots \in Seq(Extent) /\ N \in Nat /\ N # 0 /\ DOMAIN slots = 1..N
      /\ \A i \in 1..N : slots[i] \in Extent /\ slots[i].offset \in Nat /\ slots[i].length \in Nat
  BY <1>1, LengthsOf, EmptySeq DEF Complete
<1>3. slots[N] = Slice(stat.size, 0) /\ Last(slots) = slots[N]
  BY <1>1 DEF Complete, MapOrdered, Last
<1>4. slots[N].offset = Size /\ slots[N].length = 0 /\ Real = stat.size /\ Real = EndOf(slots[N])
  BY <1>1, <1>3 DEF Slice, Real, EndOf
<1> HIDE DEF N
<1>5. \A i \in 1..N : Bad \notin {slots[i].offset, slots[i].length}
  BY <1>2, SentinelAssumption
<1>6. \A i \in 1..N : EndOf(slots[i]) <= MaxU64
  <2> TAKE i \in 1..N
  <2>1. EndOf(slots[i]) <= Size /\ EndOf(slots[i]) \in Nat
    BY <1>1, <1>2 DEF MapCopied, Found, EndOf
  <2> QED BY <1>1, <2>1, WidthAssumption
<1>7. \A i \in 1..N : slots[i] \in Slot \ {None} /\ EndOf(slots[i]) <= Size
  <2> TAKE i \in 1..N
  <2>1. EndOf(slots[i]) <= MaxU64 /\ EndOf(slots[i]) <= Size
    BY <1>1, <1>2, <1>6 DEF MapCopied, Found
  <2>2. slots[i].offset \in Field /\ slots[i].length \in Field
    BY <1>2, <2>1, WidthAssumption DEF EndOf, Field, U64
  <2>3. slots[i] \in [offset : Field, length : Field]
    BY <1>2, <2>2 DEF Extent
  <2> QED BY <2>1, <2>3, SentinelAssumption DEF Slot
<1>8. \A i, j \in 1..N : i < j => EndOf(slots[i]) <= slots[j].offset
  <2> SUFFICES ASSUME NEW i \in 1..N PROVE \A j \in 1..N : i < j => EndOf(slots[i]) <= slots[j].offset
    OBVIOUS
  <2> DEFINE S == {n \in Nat : i + n + 1 <= N => EndOf(slots[i]) <= slots[i + n + 1].offset}
  <2>1. ASSUME NEW k \in 1..(N - 1)
        PROVE  EndOf(slots[k]) <= slots[k + 1].offset
    <3>1. k \in DOMAIN slots \ {N}
      BY <1>2
    <3> QED BY <1>1, <3>1 DEF Complete, MapOrdered, N, EndOf
  <2>2. 0 \in S
    BY <1>2, <2>1
  <2>3. ASSUME NEW n \in Nat, n \in S
        PROVE  n + 1 \in S
    <3> SUFFICES ASSUME i + (n + 1) + 1 <= N
                 PROVE  EndOf(slots[i]) <= slots[i + (n + 1) + 1].offset
      OBVIOUS
    <3> DEFINE k == i + n + 1
    <3>1. k \in 1..(N - 1) /\ k \in 1..N /\ k + 1 \in 1..N /\ i + (n + 1) + 1 = k + 1
      BY <1>2
    <3>2. EndOf(slots[i]) <= slots[k].offset
      BY <1>2, <2>3, <3>1
    <3> HIDE DEF k
    <3>3. EndOf(slots[k]) <= slots[k + 1].offset
      BY <2>1, <3>1
    <3>4. slots[k].offset <= EndOf(slots[k])
      BY <1>2, <3>1 DEF EndOf
    <3>5. /\ EndOf(slots[i]) \in Int /\ EndOf(slots[k]) \in Int
          /\ slots[k].offset \in Int /\ slots[k + 1].offset \in Int
      BY <1>2, <3>1 DEF EndOf
    <3>6. EndOf(slots[i]) <= slots[k + 1].offset
      BY <3>2, <3>3, <3>4, <3>5
    <3> QED BY <3>1, <3>6
  <2>4. Nat \subseteq S
    <3>1. \A n \in Nat : n \in S => n + 1 \in S
      BY <2>3
    <3> HIDE DEF S
    <3> QED BY <2>2, <3>1, Induction
  <2> SUFFICES ASSUME NEW j \in 1..N, i < j PROVE EndOf(slots[i]) <= slots[j].offset
    OBVIOUS
  <2>5. j - i - 1 \in Nat /\ i + (j - i - 1) + 1 = j /\ j <= N
    BY <1>2
  <2>6. j - i - 1 \in S
    BY <2>4, <2>5
  <2> QED BY <2>5, <2>6
<1>9. ASSUME NEW i \in 1..N, slots[i].length # 0
      PROVE  L!Used(slots)[i - 1] % BlockSize = 0
  <2>1. i \in Nat /\ i <= N - 1 /\ i - 1 \in 0..N
    BY <1>2, <1>4, <1>9
  <2>2. ASSUME NEW j \in 1..(i - 1)
        PROVE  slots[j].length % BlockSize = 0
    <3>1. j \in DOMAIN slots /\ ~(j > N - 2)
      BY <1>2, <2>1
    <3> QED BY <1>1, <3>1 DEF MapCopied, Found, N
  <2> QED BY <1>1, <1>7, <2>1, <2>2, DataWhole DEF Complete, N
<1>10. L!Used(slots)[N] = OnDisk
  BY <1>2, <1>7, DataCounted DEF N
<1>11. \A e : L!EndOf(e) = EndOf(e)
  BY DEF L!EndOf, EndOf
<1>12. {i \in 1..N : slots[i] # None} = 1..N
  BY <1>7
<1>13. \A size, real :
         L!ValidMap(slots, size, real) <=>
           LET ends == {EndOf(slots[i]) : i \in 1..N}
           IN  /\ \A i \in 1..N : Bad \notin {slots[i].offset, slots[i].length}
               /\ \A end \in ends : end <= MaxU64
               /\ \A i, j \in 1..N : i < j => EndOf(slots[i]) <= slots[j].offset
               /\ \A i \in 1..N : slots[i].length # 0 => L!Used(slots)[i - 1] % BlockSize = 0
               /\ L!Used(slots)[N] = size
               /\ real \in ends \cup {0} /\ \A end \in ends : end <= real
  BY <1>11, <1>12 DEF L!ValidMap, L!Laid, N
<1>14. N \in 1..N /\ \A i \in 1..N : EndOf(slots[i]) <= Real
  BY <1>1, <1>2, <1>4, <1>7
<1>15. L!ValidMap(slots, OnDisk, Real)
  BY <1>4, <1>5, <1>6, <1>8, <1>9, <1>10, <1>13, <1>14
<1> QED BY <1>4, <1>15

\* The data of its pieces and the holes between them are the file.
LEMMA MapRebuilds ==
  ASSUME ScanInv, SteadyInv, pc = "done", steady, slots # None
  PROVE  Rebuilt = file.bytes
<1>1. Complete /\ MapCopied /\ stat.size = Size /\ Size \in Nat /\ file.bytes \in Seq(Nat)
      /\ \A o \in 0..(Size - 1) : ~Allocated(o) => file.bytes[o + 1] = 0
  BY WidthAssumption DEF ScanInv, SteadyInv, FileOK, U64
<1>2. /\ slots \in Seq(Extent) /\ Len(slots) \in Nat /\ DOMAIN slots = 1..Len(slots)
      /\ \A k \in DOMAIN slots : slots[k].offset \in Nat /\ slots[k].length \in Nat
      /\ piece = Len(slots) + 1
  BY <1>1, LengthsOf DEF Complete, MapCopied
<1>3. Real = Size
  BY <1>1, MapAccepted
<1> DEFINE in(i) == {k \in DOMAIN slots :
                      slots[k].offset < i /\ i <= slots[k].offset + slots[k].length}
           byte(i) == IF in(i) = {} THEN 0
                      ELSE LET k == Least(in(i)) IN copied[k][i - slots[k].offset]
<1>4. Rebuilt = [i \in 1..Size |-> byte(i)]
  BY <1>3 DEF Rebuilt
<1>5. ASSUME NEW i \in 1..Size
      PROVE  byte(i) = file.bytes[i]
  <2>1. i - 1 \in 0..(Size - 1) /\ (i - 1) + 1 = i
    BY <1>1
  <2>2. CASE in(i) = {}
    <3>1. ~\E k \in DOMAIN slots : slots[k].offset <= i - 1 /\ i - 1 < EndOf(slots[k])
      BY <1>2, <2>2 DEF EndOf
    <3>2. ~Allocated(i - 1)
      BY <1>1, <2>1, <3>1 DEF MapCopied, Found
    <3> QED BY <1>1, <2>1, <2>2, <3>2
  <2>3. CASE in(i) # {}
    <3> DEFINE k == Least(in(i))
    <3>1. in(i) \subseteq Nat
      BY <1>2
    <3>2. k \in in(i)
      <4> HIDE DEF in
      <4> QED BY <2>3, <3>1, LeastIsLeast
    <3> HIDE DEF k
    <3>3. k \in DOMAIN slots /\ slots[k].offset < i /\ i <= slots[k].offset + slots[k].length
      BY <3>2
    <3>4. Len(copied[k]) = slots[k].length /\ CopiedFrom(k, slots[k].offset)
      BY <1>1, <1>2, <3>3 DEF MapCopied
    <3>5. /\ i - slots[k].offset \in 1..Len(copied[k])
          /\ slots[k].offset + (i - slots[k].offset) = i
      BY <1>2, <3>3, <3>4
    <3>6. copied[k][i - slots[k].offset] = file.bytes[i]
      BY <3>4, <3>5 DEF CopiedFrom
    <3>7. byte(i) = copied[k][i - slots[k].offset]
      BY <2>3 DEF k
    <3> QED BY <3>6, <3>7
  <2> QED BY <2>2, <2>3
<1> HIDE DEF byte
<1>6. file.bytes = [i \in 1..Size |-> file.bytes[i]]
  BY <1>1, LenProperties DEF Size
<1> QED BY <1>4, <1>5, <1>6

\* The search and the copy together: what they know of an unchanged file (builder.rs:1046).
THEOREM SteadyAlways == Spec => []SteadyInv
<1>1. Init => SteadyInv
  BY FileInit DEF Init, SteadyInv
<1> QED BY <1>1, SteadyStep, SearchIsOrdered, PTL DEF Spec

\* For every file, block size and placement of holes: one that nobody changes while it is
\* archived is archived whole, with a map the reader accepts (builder.rs:1025, 1100, 1151).
THEOREM FileIsGiven == Spec => []GivesTheFile
<1>1. ScanInv /\ SteadyInv => GivesTheFile
  <2> SUFFICES ASSUME ScanInv, SteadyInv, pc = "done", steady
               PROVE  /\ Rebuilt = file.bytes
                      /\ slots # None => L!ValidMap(slots, OnDisk, Real) /\ Real = stat.size
    BY DEF GivesTheFile
  <2>1. CASE slots # None
    BY <2>1, MapAccepted, MapRebuilds
  <2>2. CASE slots = None
    <3>1. PlainCopied /\ file.bytes \in Seq(Nat)
      BY <2>2 DEF SteadyInv, FileOK
    <3>2. /\ copied[1] \in Seq(Nat) /\ Len(copied[1]) >= Len(file.bytes)
          /\ \A j \in 1..Len(copied[1]) : j <= Len(file.bytes) /\ copied[1][j] = file.bytes[j]
      <4>1. 1 \in 1..Len(copied) /\ copied \in Seq(Seq(Nat)) /\ pos >= Size /\ pos = Len(copied[1])
            /\ CopiedFrom(1, 0)
        BY <3>1 DEF PlainCopied
      <4>2. copied[1] \in Seq(Nat)
        BY <4>1, ElementOfSeq
      <4>3. Len(copied[1]) \in Nat /\ Len(file.bytes) \in Nat
        BY <3>1, <4>2, LenProperties
      <4> QED BY <4>1, <4>2, <4>3 DEF CopiedFrom, Size
    <3>3. Len(copied[1]) \in Nat /\ Len(file.bytes) \in Nat
      BY <3>1, <3>2, LenProperties
    <3>4. Len(copied[1]) = Len(file.bytes)
      <4>1. Len(copied[1]) # 0 => Len(copied[1]) \in 1..Len(copied[1])
        BY <3>3
      <4> QED BY <3>2, <3>3, <4>1
    <3>5. copied[1] = file.bytes
      BY <3>1, <3>2, <3>4, SeqEqual
    <3> QED BY <2>2, <3>5 DEF Rebuilt
  <2> QED BY <2>1, <2>2
<1> QED BY <1>1, SearchIsOrdered, SteadyAlways, PTL
=============================================================================
