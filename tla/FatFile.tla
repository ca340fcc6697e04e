------------------------------- MODULE FatFile -------------------------------
(***************************************************************************)
(* Files of a FatFs volume: f_open, f_read, f_write, f_lseek, f_truncate,  *)
(* f_sync, f_close, f_unlink and f_getfree of bdk/libs/fatfs/ff.c over the *)
(* cluster allocation of FatAlloc.  The program has one file open at a     *)
(* time; transfers are of whole sectors, so that the sector buffer of the  *)
(* FIL object is not used.  A disk error may end every call.               *)
(***************************************************************************)
EXTENDS FatAlloc

CONSTANTS Files,      \* names in a directory
          NoFile,     \* no name: no file is open
          MaxSize,    \* bound on the size of a file, in sectors
          Lengths,    \* sectors that a call of f_read or f_write asks for
          Offsets,    \* offsets that f_lseek is given
          MaxFaults,  \* bound on the disk errors
          MaxOpens    \* bound on the calls of f_open; a disk error counts as one

ASSUME FileAssumption == /\ NoFile \notin Files
                         /\ Lengths \subseteq 1 .. MaxSize /\ Offsets \subseteq 0 .. MaxSize
                         /\ {MaxSize, MaxFaults, MaxOpens} \subseteq Nat

VARIABLES pc,
          vol,        \* the volume, see FatAlloc
          entry,      \* directory entries: allocation info, or sclust UNKNOWN for none
          cur,        \* the file that is open
          fp,         \* its FIL object
          left,       \* sectors still to be transferred; in a seek: ofs
          res,        \* result of the last call
          chain,      \* history: the clusters given to each file, in order
          faults,     \* history: the number of disk errors
          opens,      \* the number of calls of f_open
          loose       \* history: a truncation was stopped, a file LeftLoose, or
                      \* the links of its first fragment were written FirstHalfway

vars == <<pc, vol, entry, cur, fp, left, res, chain, faults, opens, loose>>

NoEntry == Object(UNKNOWN, 0, 0)
Exists(f) == entry[f] # NoEntry

\* ABORT sets fp->err, and every later call on the file but f_sync refuses.
NewFil(o, write, modified) ==
  [o |-> o, clust |-> 0, fptr |-> 0, modified |-> modified, err |-> FALSE, write |-> write]

Closed == NewFil(Object(0, 0, 0), FALSE, FALSE)

TypeOK ==
  /\ pc \in {"idle", "read", "write", "seek"}
  /\ vol.type \in {"fat32", "exfat"}
  /\ vol.fat \in [Clst -> 0 .. EOC] /\ vol.used \subseteq Clst
  /\ vol.free \in 0 .. Clusters \cup {UNKNOWN}
  /\ vol.last \in 1 .. Clusters + 1 \cup {UNKNOWN}
  /\ \A f \in Files : /\ entry[f].sclust \in {0, UNKNOWN} \cup Clst
                      /\ entry[f].size \in 0 .. MaxSize
                      /\ entry[f].stat \in {0, 2}
  /\ cur \in Files \cup {NoFile}
  /\ fp.o.sclust \in {0} \cup Clst /\ fp.o.stat \in {0, 2, 3}
  /\ fp.o.size \in 0 .. MaxSize /\ fp.fptr \in 0 .. MaxSize
  /\ fp.o.n_cont \in 0 .. Clusters /\ fp.o.n_frag \in 0 .. Clusters
  /\ fp.clust \in {0, EOC} \cup Clst
  /\ {fp.modified, fp.err, fp.write, loose} \subseteq BOOLEAN
  /\ left \in 0 .. MaxSize
  /\ faults \in 0 .. MaxFaults /\ opens \in 0 .. MaxOpens
  /\ res \in {"ok", "full", "disk", "int"}
  /\ chain \in [Files -> Seq(Clst)]

\* A mounted volume: the free clusters are not counted yet, and the FAT of an
\* exFAT volume holds old links.
Init ==
  /\ pc = "idle"
  /\ \E type \in {"fat32", "exfat"} :
       vol = [type |-> type, used |-> {}, last |-> UNKNOWN, free |-> UNKNOWN,
              fat |-> [c \in Clst |-> IF type = "exfat" THEN 2 ELSE FREE]]
  /\ entry = [f \in Files |-> NoEntry]
  /\ cur = NoFile /\ fp = Closed /\ left = 0 /\ res = "ok"
  /\ chain = [f \in Files |-> <<>>]
  /\ faults = 0 /\ opens = 0 /\ loose = FALSE

-----------------------------------------------------------------------------
Result(ret) == CASE ret = DISK -> "disk" [] ret \in {INT_ERR, EOC} -> "int" [] OTHER -> "ok"

Faults(n) == faults' = faults + n /\ faults + n <= MaxFaults

Error(r) == IF r.ret = DISK THEN 1 ELSE 0

\* An outcome of FatAlloc for the open file
Takes(r) ==
  /\ vol' = r.v
  /\ Faults(Error(r))

\* The cluster c belongs to the open file from now on.
Given(c) == chain' = [chain EXCEPT ![cur] = IF c \in Range(@) THEN @ ELSE Append(@, c)]

\* ABORT
Abort(o, why) ==
  /\ pc' = "idle" /\ left' = 0
  /\ fp' = [fp EXCEPT !.o = o, !.err = TRUE]
  /\ res' = why

OnBoundary == fp.fptr % CSize = 0
Valid      == pc = "idle" /\ cur # NoFile /\ ~fp.err

\* The allocation info of an entry, as init_alloc_info or ld_clust loads it.
Loaded(e) == Object(e.sclust, e.size, IF vol.type = "exfat" THEN e.stat ELSE 0)

-----------------------------------------------------------------------------
\* f_open

\* FA_CREATE_ALWAYS: a new entry, or the old one emptied and then its chain
\* removed; the next chain is to reuse the hole.
OpenCreate(f) ==
  /\ pc = "idle" /\ cur = NoFile
  /\ opens + faults < MaxOpens /\ opens' = opens + 1
  /\ LET old == IF Exists(f) THEN Loaded(entry[f]) ELSE Object(0, 0, 0)
         opened == [entry EXCEPT ![f] = Object(0, 0, 0)]
     IN  \/ \* the directory cannot be read or written
            /\ entry' \in {entry, opened}
            /\ res' = "disk" /\ Faults(1)
            /\ UNCHANGED <<vol, cur, fp, chain>>
         \/ /\ old.sclust = 0
            /\ entry' = opened
            /\ cur' = f /\ fp' = NewFil(Object(0, 0, 0), TRUE, TRUE) /\ res' = "ok"
            /\ UNCHANGED <<vol, chain, faults>>
         \/ /\ old.sclust # 0
            /\ entry' = opened
            /\ \E r \in RemoveChain(vol, old, old.sclust, 0) :
                 /\ vol' = IF vol.type = "exfat" \/ r.ret = OK
                           THEN [r.v EXCEPT !.last = old.sclust - 1] ELSE r.v
                 /\ Faults(Error(r))
                 /\ IF r.ret = OK
                    THEN cur' = f /\ fp' = NewFil(Object(0, 0, 0), TRUE, TRUE) /\ res' = "ok"
                    ELSE UNCHANGED <<cur, fp>> /\ res' = Result(r.ret)
            /\ chain' = [chain EXCEPT ![f] = <<>>]
  /\ UNCHANGED <<pc, left, loose>>

\* An existing file, at its start or, with FA_OPEN_APPEND, at its end.
OpenExisting(f, append) ==
  /\ pc = "idle" /\ cur = NoFile
  /\ opens + faults < MaxOpens /\ opens' = opens + 1
  /\ Exists(f)
  /\ LET o == Loaded(entry[f])
         n == (o.size - 1) \div CSize
         s == ChainOf(vol, o)
         at == IF n < Len(s) THEN s[n + 1]
               ELSE IF n = Len(s) /\ n > 0 THEN GetFat(vol, o, Last(s)) ELSE INT_ERR
     IN  \/ /\ res' = "disk" /\ Faults(1)
            /\ UNCHANGED <<cur, fp>>
         \/ /\ append /\ o.size > 0
            /\ IF at >= 2
               THEN /\ cur' = f /\ res' = "ok"
                    /\ fp' = [NewFil(o, TRUE, FALSE) EXCEPT !.clust = at,
                                                            !.fptr = o.size]
               ELSE res' = "int" /\ UNCHANGED <<cur, fp>>
            /\ UNCHANGED faults
         \/ /\ ~append \/ o.size = 0
            /\ cur' = f /\ res' = "ok"
            /\ \E write \in BOOLEAN : /\ append => write
                                      /\ fp' = NewFil(o, write, FALSE)
            /\ UNCHANGED faults
  /\ UNCHANGED <<pc, vol, entry, left, chain, loose>>

-----------------------------------------------------------------------------
\* f_read and f_write: one step per cluster.

Transfer(kind) ==
  /\ Valid
  /\ \E n \in Lengths :
       /\ pc' = kind
       /\ IF kind = "read" THEN fp.fptr < fp.o.size
                           ELSE fp.write /\ fp.fptr + n <= MaxSize
       /\ left' = IF kind = "read" /\ n > fp.o.size - fp.fptr THEN fp.o.size - fp.fptr ELSE n
  /\ UNCHANGED <<vol, entry, cur, fp, res, chain, faults, loose, opens>>

Share == LET room == CSize - (fp.fptr % CSize) IN IF left < room THEN left ELSE room

\* The pointer moves on; when nothing is left the call returns.
Moved(f, done) ==
  /\ fp' = [f EXCEPT !.fptr = @ + done,
                     !.o.size = IF f.fptr + done > @ THEN f.fptr + done ELSE @,
                     !.modified = @ \/ (pc = "write" /\ left = done)]
  /\ left' = left - done
  /\ pc' = IF left = done THEN "idle" ELSE pc
  /\ res' = "ok"

ReadStep ==
  /\ pc = "read"
  /\ LET c == IF ~OnBoundary THEN fp.clust
              ELSE IF fp.fptr = 0 THEN fp.o.sclust ELSE GetFat(vol, fp.o, fp.clust)
     IN  \/ /\ c \in Clst
            /\ Moved([fp EXCEPT !.clust = c], Share)
            /\ UNCHANGED faults
         \/ /\ c \notin Clst
            /\ Abort(fp.o, "int")
            /\ UNCHANGED faults
         \/ /\ Abort(fp.o, "disk")
            /\ Faults(1)
  /\ UNCHANGED <<vol, entry, cur, chain, loose, opens>>

\* The cluster is found or allocated, and then the sectors are written to it;
\* either may fail.
WriteStep ==
  /\ pc = "write"
  /\ \E r \in IF ~OnBoundary THEN {Outcome(vol, fp.o, fp.clust)}
              ELSE IF fp.fptr = 0 /\ fp.o.sclust # 0 THEN {Outcome(vol, fp.o, fp.o.sclust)}
              ELSE CreateChain(vol, fp.o, IF fp.fptr = 0 THEN 0 ELSE fp.clust) :
       LET o == IF r.o.sclust = 0 THEN [r.o EXCEPT !.sclust = r.ret] ELSE r.o
       IN  \/ /\ r.ret = FULL
              /\ Takes(r)
              /\ fp' = [fp EXCEPT !.o = r.o, !.modified = TRUE]
              /\ pc' = "idle" /\ left' = 0 /\ res' = "full"
              /\ UNCHANGED chain
           \/ /\ r.ret \notin Clst \cup {FULL}
              /\ Takes(r)
              /\ Abort(r.o, Result(r.ret))
              /\ UNCHANGED chain
           \/ /\ r.ret \in Clst
              /\ Takes(r)
              /\ Given(r.ret)
              /\ Moved([fp EXCEPT !.o = o, !.clust = r.ret], Share)
           \/ \* disk_write fails
              /\ r.ret \in Clst
              /\ vol' = r.v /\ Faults(1)
              /\ Given(r.ret)
              /\ pc' = "idle" /\ left' = 0 /\ res' = "disk"
              /\ fp' = [fp EXCEPT !.o = o, !.clust = r.ret, !.err = TRUE]
  /\ UNCHANGED <<entry, cur, loose, opens>>

-----------------------------------------------------------------------------
\* f_lseek

\* Where the cluster of a pointer, the one of the sector before it, begins.
ClusterBase(ptr) == CSize * ((ptr - 1) \div CSize)

\* The last fragment is put on the FAT; then the seek starts from the current
\* cluster, or from the first, which a file without one is given.  A seek to 0
\* ends here.
Seek ==
  /\ Valid
  /\ \E asked \in Offsets :
     \E r \in IF vol.type = "exfat" THEN FillLast(vol, fp.o, fp.clust, EOC)
                                    ELSE {Outcome(vol, fp.o, OK)} :
       LET ofs  == IF asked > fp.o.size /\ ~fp.write THEN fp.o.size ELSE asked
           base == ClusterBase(fp.fptr)
           here == fp.fptr > 0 /\ (ofs - 1) \div CSize >= (fp.fptr - 1) \div CSize
           Start(f, rest) == fp' = f /\ left' = rest /\ pc' = "seek" /\ res' = "ok"
       IN  \/ /\ r.ret = DISK
              /\ Takes(r)
              /\ fp' = [fp EXCEPT !.o = r.o] /\ res' = "disk"
              /\ UNCHANGED <<pc, left, chain>>
           \/ /\ r.ret = OK /\ ofs = 0
              /\ Takes(r)
              /\ fp' = [fp EXCEPT !.o = r.o, !.fptr = 0] /\ res' = "ok"
              /\ UNCHANGED <<pc, left, chain>>
           \/ /\ r.ret = OK /\ ofs > 0 /\ here
              /\ Takes(r)
              /\ Start([fp EXCEPT !.o = r.o, !.fptr = base], ofs - base)
              /\ UNCHANGED chain
           \/ /\ r.ret = OK /\ ofs > 0 /\ ~here /\ r.o.sclust # 0
              /\ Takes(r)
              /\ Start([fp EXCEPT !.o = r.o, !.fptr = 0, !.clust = r.o.sclust], ofs)
              /\ UNCHANGED chain
           \/ /\ r.ret = OK /\ ofs > 0 /\ ~here /\ r.o.sclust = 0
              /\ \E n \in CreateChain(r.v, r.o, 0) :
                   /\ Takes(n)
                   /\ IF n.ret \in Clst
                      THEN /\ Start([fp EXCEPT !.o = [n.o EXCEPT !.sclust = n.ret],
                                               !.fptr = 0, !.clust = n.ret], ofs)
                           /\ Given(n.ret)
                      ELSE /\ fp' = [fp EXCEPT !.o = n.o, !.fptr = 0,
                                               !.clust = IF n.ret = FULL THEN 0 ELSE @,
                                               !.err = n.ret # FULL]
                           /\ res' = Result(n.ret)
                           /\ UNCHANGED <<pc, left, chain>>
  /\ UNCHANGED <<entry, cur, loose, opens>>

\* One cluster further; a file that is written is stretched, its size first.
SeekStep ==
  /\ pc = "seek" /\ left > CSize
  /\ LET at == fp.fptr + CSize
         o  == IF fp.write /\ at > fp.o.size THEN [fp.o EXCEPT !.size = at] ELSE fp.o
         f  == [fp EXCEPT !.fptr = at, !.modified = @ \/ (o # fp.o)]
     IN  \E r \in IF fp.write THEN CreateChain(vol, o, fp.clust)
                  ELSE {Outcome(vol, o, GetFat(vol, o, fp.clust)), Stopped(vol, o)} :
           /\ Takes(r)
           /\ IF r.ret \in Clst
              THEN /\ fp' = [f EXCEPT !.o = r.o, !.clust = r.ret]
                   /\ left' = left - CSize
                   /\ Given(r.ret)
                   /\ UNCHANGED <<pc, res>>
              ELSE IF fp.write /\ r.ret = FULL
              THEN /\ fp' = [f EXCEPT !.o = r.o]
                   /\ left' = 0 /\ pc' = "idle"
                   /\ UNCHANGED <<res, chain>>
              ELSE /\ pc' = "idle" /\ left' = 0
                   /\ fp' = [f EXCEPT !.o = r.o, !.err = TRUE]
                   /\ res' = IF r.ret = DISK THEN "disk" ELSE "int"
                   /\ UNCHANGED chain
  /\ UNCHANGED <<entry, cur, loose, opens>>

SeekEnd ==
  /\ pc = "seek" /\ left <= CSize
  /\ LET at == fp.fptr + left
     IN  fp' = [fp EXCEPT !.fptr = at, !.o.size = IF at > @ THEN at ELSE @,
                          !.modified = @ \/ (at > fp.o.size)]
  /\ pc' = "idle" /\ left' = 0
  /\ UNCHANGED <<vol, entry, cur, res, chain, faults, loose, opens>>

-----------------------------------------------------------------------------
\* f_truncate: to nothing, or behind the current cluster.
Truncate ==
  /\ Valid /\ fp.write /\ fp.fptr < fp.o.size
  /\ LET next == GetFat(vol, fp.o, fp.clust)
         cut  == CASE fp.fptr = 0 -> RemoveChain(vol, fp.o, fp.o.sclust, 0)
                   [] fp.fptr # 0 /\ next < 2 -> {Outcome(vol, fp.o, INT_ERR)}
                   [] fp.fptr # 0 /\ next \in Clst ->
                        RemoveChain(vol, fp.o, next, fp.clust) \cup {Stopped(vol, fp.o)}
                   [] OTHER -> {Outcome(vol, fp.o, OK), Stopped(vol, fp.o)}
     IN  \E r \in cut :
           /\ Takes(r)
           /\ fp' = [fp EXCEPT !.o = [r.o EXCEPT !.size = fp.fptr,
                                                 !.sclust = IF fp.fptr = 0 THEN 0 ELSE @],
                               !.modified = TRUE, !.err = r.ret # OK]
           /\ res' = Result(r.ret)
           /\ loose' = (loose \/ r.ret = DISK)
  /\ chain' = [chain EXCEPT ![cur] =
                 IF Len(@) * CSize < fp.fptr + CSize THEN @
                 ELSE SubSeq(@, 1, (fp.fptr + CSize - 1) \div CSize)]
  /\ UNCHANGED <<pc, entry, cur, left, opens>>

-----------------------------------------------------------------------------
\* Mutant: a chain that was fragmented in this session is not put on the FAT.
SettledFirstLeftOut(v, o, clust) ==
  IF v.type = "exfat" THEN FillLast(v, [o EXCEPT !.stat = IF @ = 3 THEN 0 ELSE @], clust, EOC)
  ELSE {Outcome(v, o, OK)}

\* The FAT chain of the open file completed, as f_sync does first on exFAT.
Settled(v, o, clust) ==
  IF v.type # "exfat" THEN {Outcome(v, o, OK)}
  ELSE LET first == FillFirst(v, o)
       IN  {r \in first : r.ret = DISK}
           \cup UNION {FillLast(r.v, r.o, clust, EOC) : r \in {r \in first : r.ret = OK}}

\* A file given up while its growing edge is not on the FAT, or while its entry
\* leads to clusters that were given back.
LeftLoose(v, o, e) ==
  o.n_frag > 0 \/ \E c \in Range(ChainOf(v, Loaded(e))) : IsFree(v, c)

\* fill_first_frag was stopped after some of its links, and the entry on the card,
\* of before the file was cut to a contiguous one, still says that the FAT is right.
FirstHalfway(r) ==
  /\ r.ret = DISK /\ r.v # vol /\ r.o.stat = 3
  /\ entry[cur].stat = 0 /\ entry[cur].sclust # 0

\* f_sync of a changed file; with close, f_close.  A file whose f_close fails
\* is not used again.
Sync(close) ==
  /\ pc = "idle" /\ cur # NoFile
  /\ \/ /\ ~fp.modified
        /\ close
        /\ res' = "ok"
        /\ loose' = (loose \/ LeftLoose(vol, fp.o, entry[cur]))
        /\ UNCHANGED <<vol, entry, faults>>
        /\ cur' = NoFile /\ fp' = Closed
     \/ /\ fp.modified
        /\ \E r \in Settled(vol, fp.o, fp.clust) :
             LET stored == [entry EXCEPT ![cur] = Object(r.o.sclust, r.o.size, r.o.stat)]
             IN  /\ vol' = r.v
                 /\ \/ /\ r.ret = OK
                       /\ entry' = stored
                       /\ res' = "ok"
                       /\ UNCHANGED faults
                    \/ \* stopped before the entry, in it, or in sync_fs
                       /\ entry' \in IF r.ret = OK THEN {entry, stored} ELSE {entry}
                       /\ res' = "disk" /\ Faults(1)
                 /\ loose' = (loose \/ FirstHalfway(r)
                                    \/ (close /\ LeftLoose(r.v, r.o, entry'[cur])))
                 /\ IF close THEN cur' = NoFile /\ fp' = Closed
                    ELSE /\ cur' = cur
                         /\ \E kept \in BOOLEAN :
                              /\ kept => res' = "disk"
                              /\ (entry' = entry /\ stored # entry) => kept
                              /\ fp' = [fp EXCEPT !.o = r.o, !.modified = kept]
  /\ UNCHANGED <<pc, left, chain, opens>>

\* f_unlink of a file that is not open: the entry goes first.
Unlink(f) ==
  /\ pc = "idle" /\ cur # f
  /\ Exists(f)
  /\ LET o == Loaded(entry[f])
     IN  \/ /\ entry' \in {entry, [entry EXCEPT ![f] = NoEntry]}
            /\ res' = "disk" /\ Faults(1)
            /\ UNCHANGED <<vol, chain>>
         \/ /\ o.sclust = 0
            /\ entry' = [entry EXCEPT ![f] = NoEntry]
            /\ res' = "ok"
            /\ UNCHANGED <<vol, chain, faults>>
         \/ /\ o.sclust # 0
            /\ entry' = [entry EXCEPT ![f] = NoEntry]
            /\ chain' = [chain EXCEPT ![f] = <<>>]
            /\ \E r \in RemoveChain(vol, o, o.sclust, 0) :
                 /\ Takes(r)
                 /\ res' = Result(r.ret)
  /\ UNCHANGED <<pc, cur, fp, left, loose, opens>>

\* f_getfree counts only when the number is not known.  A disk error leaves the
\* count of the sectors before it.
GetFree ==
  /\ pc = "idle" /\ cur = NoFile /\ vol.free = UNKNOWN
  /\ \/ /\ vol' = [vol EXCEPT !.free = CountFree(vol)]
        /\ res' = "ok" /\ UNCHANGED faults
     \/ /\ \E n \in 0 .. CountFree(vol) : vol' = [vol EXCEPT !.free = n]
        /\ res' = "disk" /\ Faults(1)
  /\ UNCHANGED <<pc, entry, cur, fp, left, chain, loose, opens>>

Next ==
  \/ \E f \in Files : OpenCreate(f) \/ Unlink(f)
  \/ \E f \in Files, append \in BOOLEAN : OpenExisting(f, append)
  \/ \E kind \in {"read", "write"} : Transfer(kind)
  \/ ReadStep \/ WriteStep
  \/ Seek \/ SeekStep \/ SeekEnd
  \/ Truncate
  \/ \E close \in BOOLEAN : Sync(close)
  \/ GetFree

Spec == Init /\ [][Next]_vars

-----------------------------------------------------------------------------
\* Properties

\* The open file as f_sync would leave it, if nothing failed.
SettledNow == CHOOSE r \in Settled(vol, fp.o, fp.clust) : r.ret = OK

\* The clusters that FatFs finds for f: by the FIL object, or by its entry.
FoundChain(f) ==
  IF f = cur THEN ChainOf(SettledNow.v, SettledNow.o)
  ELSE IF Exists(f) THEN ChainOf(vol, Loaded(entry[f])) ELSE <<>>

InUse == {c \in Clst : ~IsFree(vol, c)}

\* Following a file leads through the clusters it was given, in their order,
\* however it was grown, cut and reopened: while exFAT generates the links of a
\* contiguous file, of its first fragment or of the growing edge, and after
\* f_sync has put them on the FAT.  fp->clust is the cluster of the byte before
\* the file pointer, after reads, writes and seeks in any order: the next access
\* goes on from it, and fill_last_frag counts the last fragment back from it.
ChainIsFound ==
  pc = "idle" /\ faults = 0 =>
    /\ \A f \in Files : FoundChain(f) = chain[f]
    /\ cur # NoFile /\ fp.fptr > 0 =>
         LET i == (fp.fptr - 1) \div CSize + 1
         IN  i \in DOMAIN chain[cur] /\ fp.clust = chain[cur][i]

\* Each cluster in use belongs to one file: create_chain gives out free ones,
\* remove_chain gives back all of a chain, and what the bitmap or the FAT shows
\* as taken is taken by a file.  fs->free_clst, once f_getfree has counted, stays
\* the number of free clusters: at 0 create_chain gives up without looking.
NothingLostOrShared ==
  faults = 0 =>
    /\ UNION {Range(chain[f]) : f \in Files} = InUse
    /\ \A f, g \in Files : f # g => Range(chain[f]) \cap Range(chain[g]) = {}
    /\ vol.free # UNKNOWN => vol.free = CountFree(vol)

\* Without a disk error no call runs into one of the internal checks of chain
\* handling (FR_INT_ERR): a link to 0 or 1, a bitmap bit that is not as expected,
\* a chain shorter than the size.
ChecksHold == faults = 0 => res # "int"

\* Even after disk errors two files whose entries are on the card never lead
\* to one cluster: errors lose clusters, they do not hand one out twice, except by
\* what loose stands for: a truncation that is stopped, a growing edge that is
\* never put on the FAT, an entry that was not updated after a truncation, a first
\* fragment whose links are written by halves.
NeverShared ==
  pc = "idle" /\ ~loose =>
    \A f, g \in Files \ {cur} :
      f # g => Range(FoundChain(f)) \cap Range(FoundChain(g)) = {}
===============================================================================
