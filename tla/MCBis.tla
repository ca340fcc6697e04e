-------------------------------- MODULE MCBis --------------------------------
(***************************************************************************)
(* For TLC: once a transfer has failed or a block has gone astray, what    *)
(* the properties still say does not depend on the contents, nor does any  *)
(* guard, so that states that differ in nothing else count as one.         *)
(***************************************************************************)
EXTENDS BisCache

Trusted == ~faulted /\ ~astray

Control == [i \in Slots |-> <<slots[i].cluster, slots[i].dirty>>]

BisView ==
  IF Trusted THEN vars
  ELSE <<pc, request, lookup, Control, end_index, filled, dirty_count, locked, faulted>>
=============================================================================
