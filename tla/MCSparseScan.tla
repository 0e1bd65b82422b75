---------------------------- MODULE MCSparseScan ----------------------------
(***************************************************************************)
(* Small instances of SparseScan: blocks of 2 bytes, files of up to 7, so  *)
(* up to two extents and a last grain that the end of the file cuts off.   *)
(***************************************************************************)
EXTENDS SparseScan

SomeLengths == {0, 3, 7}
=============================================================================
