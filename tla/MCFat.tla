-------------------------------- MODULE MCFat --------------------------------
(***************************************************************************)
(* For TLC: the names are alike; of the result of a call only FR_INT_ERR   *)
(* is looked at, and it and the clusters given to a file only while        *)
(* nothing has failed.                                                     *)
(***************************************************************************)
EXTENDS FatFile, TLC

FileSymmetry == Permutations(Files)

\* The volume without the links of the clusters that are free on exFAT
Volume ==
  [vol EXCEPT !.fat = [c \in Clst |-> IF vol.type = "exfat" /\ IsFree(vol, c) THEN FREE
                                      ELSE vol.fat[c]]]

\* The open file, without a position that no call looks at any more
Fil == IF fp.err THEN [fp EXCEPT !.fptr = 0] ELSE fp

FatView == <<pc, Volume, entry, cur, Fil, left, faults = 0 /\ res = "int",
             IF faults = 0 THEN chain ELSE {}, faults, opens, loose>>

\* Nothing is promised once a file has been left loose.
NotLoose == ~loose
=============================================================================
