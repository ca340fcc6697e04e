------------------------------- MODULE MCHeap -------------------------------
(***************************************************************************)
(* A small heap for TLC.  The sizes take up 32 and 224 bytes: a block of   *)
(* the second kind splits, splits again with a rest of exactly 4 headers,  *)
(* and is then used as a whole with some bytes to spare.                   *)
(***************************************************************************)
EXTENDS Heap

MCSizes == {1, 200}
=============================================================================
