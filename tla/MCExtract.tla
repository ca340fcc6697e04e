------------------------------ MODULE MCExtract ------------------------------
(***************************************************************************)
(* Small Package1 images for TLC: every order of the three payloads, every *)
(* place of the magic, sizes at and next to the least and the largest.     *)
(***************************************************************************)
EXTENDS Extract, Sequences, SequencesExt

Sizes == {2044, 2048, 4092, 4096, 4100}

\* The words at the starts of payloads laid out one after the other.
Layout(order, nx, sm, size, monitor) ==
  LET words(k) == CASE k = "nx" -> nx \div 4 [] k = "sm" -> sm \div 4 [] OTHER -> 1
      sign(k)  == CASE k = "nx" -> NX_BOOTLOADER [] k = "sm" -> monitor [] OTHER -> size
      start(n) == FoldLeft(LAMBDA s, k : s + words(k), 0, SubSeq(order, 1, n - 1))
  IN [p \in {start(n) : n \in 1 .. Len(order)} |->
        sign(order[CHOOSE n \in 1 .. Len(order) : start(n) = p])]

Image(hint, magicAt, order, size, monitor) ==
  [hint |-> hint, magicAt |-> magicAt, nx |-> 8, sm |-> 12,
   word |-> Layout(order, 8, 12, size, monitor)]

MCPackages ==
  {Image(hint, magicAt, order, size, monitor) :
     hint \in BOOLEAN,
     magicAt \in SUBSET {16384, 28672},
     order \in SetToSeqs({"nx", "sm", "wb"}),
     size \in Sizes,
     monitor \in {SECURE_MONITOR_1, SECURE_MONITOR_2}}
=============================================================================
