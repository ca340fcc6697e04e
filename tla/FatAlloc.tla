------------------------------- MODULE FatAlloc -------------------------------
(***************************************************************************)
(* Cluster allocation of FatFs on FAT32 and exFAT volumes (FAT access,     *)
(* allocation bitmap and chain handling of bdk/libs/fatfs/ff.c).           *)
(*                                                                         *)
(* A volume v is [type, fat, used, last, free]: the FAT entries, the       *)
(* allocation bitmap of an exFAT volume, fs->last_clst and fs->free_clst.  *)
(* An object o is the FFOBJID of a file: [sclust, size, stat, n_cont,      *)
(* n_frag], sizes in sectors.  A function that writes gives the set of its *)
(* outcomes [v, o, ret]: it may be stopped by a disk error at each of its  *)
(* accesses.                                                               *)
(***************************************************************************)
EXTENDS Integers, FiniteSets, SequencesExt

CONSTANTS Clusters,    \* number of clusters of the volume: fs->n_fatent - 2
          CSize        \* sectors in a cluster: fs->csize

ASSUME FatAssumption == {Clusters, CSize} \subseteq Nat \ {0}

Clst    == 2 .. Clusters + 1      \* the valid cluster numbers

\* What get_fat and create_chain return besides a cluster number: 0, 1 and ...
FREE    == 0
INT_ERR == 1
EOC     == Clusters + 2           \* any value from fs->n_fatent on
DISK    == Clusters + 3           \* 0xFFFFFFFF
FULL    == 0                      \* create_chain: no free cluster
UNKNOWN == Clusters + 4           \* last_clst, free_clst not known: 0xFFFFFFFF
OK      == Clusters + 5           \* FR_OK

Outcome(v, o, ret) == [v |-> v, o |-> o, ret |-> ret]

\* What every access may do instead of succeeding.
Stopped(v, o) == Outcome(v, o, DISK)

Object(sclust, size, stat) ==
  [sclust |-> sclust, size |-> size, stat |-> stat, n_cont |-> 0, n_frag |-> 0]

-----------------------------------------------------------------------------
\* get_fat, when the FAT can be read
GetFat(v, o, c) ==
  LET after == c - o.sclust
      last  == (o.size - 1) \div CSize
  IN  IF c \notin Clst THEN INT_ERR
      ELSE IF v.type = "fat32" THEN v.fat[c]
      ELSE IF ~((o.size # 0 /\ o.sclust # 0) \/ o.stat = 0) THEN INT_ERR
      ELSE IF o.stat = 2 /\ c >= o.sclust /\ after <= last
           THEN IF after = last THEN EOC ELSE c + 1
      ELSE IF o.stat = 3 /\ c >= o.sclust /\ after < o.n_cont THEN c + 1
      ELSE IF o.stat = 2 THEN INT_ERR
      ELSE IF o.n_frag # 0 THEN EOC
      ELSE v.fat[c]

\* The clusters met from c on, up to one that is not followed by another.
Walk(v, o, c) ==
  LET to[n \in 0 .. Clusters] ==
        IF n = 0 THEN <<c>>
        ELSE LET next == GetFat(v, o, Last(to[n - 1]))
             IN  IF next \in Clst THEN Append(to[n - 1], next) ELSE to[n - 1]
  IN  to[Clusters]

\* The chain of an object as it is read.
ChainOf(v, o) == IF o.sclust \notin Clst THEN <<>> ELSE Walk(v, o, o.sclust)

\* put_fat
Put(v, c, val) == [v EXCEPT !.fat[c] = val]

\* put_fat for n clusters from a on, each linked to the next, the last to term.
PutRun(v, a, n, m, term) ==
  [v EXCEPT !.fat = [c \in Clst |-> IF c < a \/ c >= a + n THEN v.fat[c]
                                    ELSE IF c = a + m - 1 THEN term ELSE c + 1]]

-----------------------------------------------------------------------------
\* fill_first_frag
FillFirst(v, o) ==
  IF o.stat # 3 THEN {Outcome(v, o, OK)}
  ELSE {Outcome(PutRun(v, o.sclust, n, o.n_cont + 1, EOC), o, DISK) :
          n \in 0 .. o.n_cont - 1}
       \cup {Outcome(PutRun(v, o.sclust, o.n_cont, o.n_cont + 1, EOC),
                     [o EXCEPT !.stat = 0], OK)}

\* Mutant: the link to the next fragment is put on the cluster before the last.
FillLastShort(v, o, lcl, term) ==
  {Outcome(PutRun(v, lcl - o.n_frag + 1, n, IF n > 1 THEN n - 1 ELSE n, term),
           [o EXCEPT !.n_frag = o.n_frag - n],
           IF n = o.n_frag THEN OK ELSE DISK) : n \in 0 .. o.n_frag}

\* fill_last_frag: lcl is the last cluster of the fragment.
FillLast(v, o, lcl, term) ==
  {Outcome(PutRun(v, lcl - o.n_frag + 1, n, o.n_frag, term),
           [o EXCEPT !.n_frag = o.n_frag - n],
           IF n = o.n_frag THEN OK ELSE DISK) : n \in 0 .. o.n_frag}

-----------------------------------------------------------------------------
\* The clusters after scl, in the order in which a free one is looked for.
Cyclic(scl) == [i \in 1 .. Clusters |-> 2 + ((scl - 2 + i) % Clusters)]

IsFree(v, c) == IF v.type = "exfat" THEN c \notin v.used ELSE v.fat[c] = FREE

FirstFree(v, order) ==
  IF \A i \in DOMAIN order : ~IsFree(v, order[i]) THEN 0
  ELSE order[CHOOSE i \in DOMAIN order :
               IsFree(v, order[i]) /\ \A j \in 1 .. i - 1 : ~IsFree(v, order[j])]

\* find_bitmap for one cluster looks at clst itself first.
FindBitmap(v, clst) ==
  FirstFree(v, Cyclic(IF clst \in Clst THEN clst - 1 ELSE Clusters + 1))

\* Mutant: the cluster after clst is taken as it is.
FindFatTrustsNext(v, clst, scl) ==
  IF clst + 1 \in Clst /\ clst # 0 THEN clst + 1
  ELSE FirstFree(v, Cyclic(IF v.last \in Clst THEN v.last ELSE Clusters + 1))

\* The free cluster that a FAT32 chain grows by: the one after clst if it is
\* free, or the first from the suggested one on.
FindFat(v, clst, scl) ==
  LET next == IF clst + 1 \in Clst THEN clst + 1 ELSE 2
      from == IF clst # 0 /\ v.last \in Clst THEN v.last ELSE scl
  IN  IF clst # 0 /\ IsFree(v, next) THEN next
      ELSE FirstFree(v, Cyclic(IF from = 1 THEN Clusters + 1 ELSE from))

\* Mutant: the number of free clusters is counted down before it is known.
AllocatedCountsUnknown(v, ncl) == [v EXCEPT !.last = ncl, !.free = @ - 1]

\* The end of create_chain: the suggestion and the count of free clusters.
Allocated(v, ncl) ==
  [v EXCEPT !.last = ncl, !.free = IF @ <= Clusters THEN @ - 1 ELSE @]

\* The chain status once ncl is marked in the bitmap of an exFAT volume.
Stretched(o, clst, ncl) ==
  IF clst = 0 THEN [o EXCEPT !.stat = 2]
  ELSE IF o.stat = 2 /\ ncl # clst + 1
       THEN [o EXCEPT !.n_cont = clst - o.sclust, !.stat = 3]
  ELSE o

\* create_chain on exFAT, from find_bitmap on
CreateBitmap(v, o, clst, scl) ==
  LET ncl == FindBitmap(v, scl)
      v1  == [v EXCEPT !.used = @ \cup {ncl}]
      o1  == Stretched(o, clst, ncl)
      outcomes ==
        IF o1.stat = 2 THEN {Outcome(v1, o1, OK)}
        ELSE IF ncl = clst + 1
        THEN {Outcome(v1, [o1 EXCEPT !.n_frag = IF @ = 0 THEN 2 ELSE @ + 1], OK)}
        ELSE {IF r.ret = OK THEN [r EXCEPT !.o.n_frag = 1] ELSE r :
                r \in FillLast(v1, [o1 EXCEPT !.n_frag = IF @ = 0 THEN 1 ELSE @],
                               clst, ncl)}
  IN  IF ncl = 0 THEN {Outcome(v, o, FULL)}
      ELSE {IF r.ret = OK THEN Outcome(Allocated(r.v, ncl), r.o, ncl) ELSE r :
              r \in outcomes}

\* create_chain on FAT32, after the checks
CreateFat(v, o, clst, scl) ==
  LET ncl == FindFat(v, clst, scl)
      v1  == Put(v, ncl, EOC)
      v2  == IF clst = 0 THEN v1 ELSE Put(v1, clst, ncl)
  IN  IF ncl = 0 THEN {Outcome(v, o, FULL)}
      ELSE {Stopped(v1, o), Outcome(Allocated(v2, ncl), o, ncl)}

\* create_chain: clst 0 for a new chain, else the cluster to go on from.
CreateChain(v, o, clst) ==
  LET next == GetFat(v, o, clst)
      scl  == IF clst # 0 THEN clst ELSE IF v.last \in 1 .. Clusters + 1 THEN v.last ELSE 1
  IN  {Stopped(v, o)} \cup
      (IF clst # 0 /\ next < 2 THEN {Outcome(v, o, INT_ERR)}
       ELSE IF clst # 0 /\ next \in Clst THEN {Outcome(v, o, next)}
       ELSE IF v.free = 0 THEN {Outcome(v, o, FULL)}
       ELSE IF v.type = "exfat" THEN CreateBitmap(v, o, clst, scl)
       ELSE CreateFat(v, o, clst, scl))

-----------------------------------------------------------------------------
\* The clusters of s given back, and counted if the number is known.
Released(v, s) ==
  LET n == v.free + Len(s)
  IN  [v EXCEPT !.free = IF @ >= Clusters THEN @ ELSE IF n > Clusters THEN Clusters ELSE n,
                !.used = IF v.type = "exfat" THEN @ \ Range(s) ELSE @,
                !.fat = IF v.type = "exfat" THEN @
                        ELSE [c \in Clst |-> IF c \in Range(s) THEN FREE ELSE @[c]]]

\* n clusters more are counted as free than are marked so.
Ahead(v, n) ==
  [v EXCEPT !.free = IF @ >= Clusters THEN @ ELSE IF @ + n > Clusters THEN Clusters ELSE @ + n]

\* remove_chain comes to its end within s.  exFAT counts a cluster when it comes
\* to it, and clears the bits of a contiguous block together at its end.
Halfway(v, s, o) ==
  UNION {{Stopped(Ahead(Released(v, SubSeq(s, 1, n)), m), o) :
            m \in 0 .. IF v.type = "exfat" THEN Len(s) - n ELSE 0} : n \in 0 .. Len(s)}

\* Mutant: what is left of a fragmented chain keeps its status.
ShortenedKeepsStatus(v, o, pclst) ==
  IF v.type = "exfat" /\ pclst = 0 THEN [o EXCEPT !.stat = 0] ELSE o

\* The end of remove_chain: the status of what is left, up to pclst.
Shortened(v, o, pclst) ==
  LET kept == Walk(v, o, o.sclust)
  IN  IF v.type # "exfat" THEN o
      ELSE IF pclst = 0 THEN [o EXCEPT !.stat = 0]
      ELSE IF o.stat = 0
      THEN [o EXCEPT !.stat = IF \A i \in 1 .. Len(kept) : kept[i] = o.sclust + i - 1
                              THEN 2 ELSE @]
      ELSE IF o.stat = 3 /\ pclst >= o.sclust /\ pclst <= o.sclust + o.n_cont
      THEN [o EXCEPT !.stat = 2]
      ELSE o

\* remove_chain: the chain from clst on; pclst is the cluster before it, or 0.
RemoveChain(v, o, clst, pclst) ==
  LET v1 == IF pclst # 0 /\ (v.type = "fat32" \/ o.stat # 2) THEN Put(v, pclst, EOC) ELSE v
      s  == Walk(v1, o, clst)
      end == GetFat(v1, o, Last(s))
  IN  IF clst \notin Clst THEN {Outcome(v, o, INT_ERR)}
      ELSE {Stopped(v, o)}
           \cup Halfway(v1, s, o)
           \cup (IF end = INT_ERR \/ (v.type = "exfat" /\ ~Range(s) \subseteq v.used)
                THEN {Outcome(v1, o, INT_ERR)}
                ELSE {Outcome(Released(v1, s), Shortened(v1, o, pclst), OK)})

\* f_getfree
CountFree(v) == Cardinality({c \in Clst : IsFree(v, c)})
===============================================================================
