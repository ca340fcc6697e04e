------------------------------- MODULE BisCache -------------------------------
(***************************************************************************)
(* The cluster cache over an encrypted eMMC partition, and the finalize    *)
(* pass that writes it back (source/storage/nx_emmc_bis.c, over the        *)
(* partition reads and writes of source/storage/nx_emmc.c).                *)
(*                                                                         *)
(* Contents are not stored.  A sector of the eMMC, or of the cluster that  *)
(* a cache slot is for, is fresh when it has the bytes that were last      *)
(* written to it, and a write makes every other copy stale.  Bytes of one  *)
(* cluster in the slot of another count as stale.                          *)
(***************************************************************************)
EXTENDS Integers, FiniteSets

CONSTANTS
  Clusters,       \* number of clusters of a partition
  PerCluster,     \* SECTORS_PER_CLUSTER, 32
  Entries,        \* MAX_CLUSTER_CACHE_ENTRIES, 32768
  Parts,          \* partitions, each with key slots of its own
  NoPart          \* not a partition: the tweak is not of any position

ASSUME BisAssumption ==
  /\ {Clusters, PerCluster, Entries} \subseteq Nat \ {0}
  /\ Parts # {}

VARIABLES
  pc,
  cur, count,             \* the request: next sector, sectors left; in finalize
                          \* the slot it is at and clusters_to_flush
  emmc,                   \* emmc[s]: the partition has sector s fresh
  part,                   \* system_part
  lookup,                 \* cluster_lookup
  slots,                  \* bis_cache->cluster_cache
  end_index, filled, dirty_count, locked,   \* the static variables of the cache
  prev_cluster, prev_sector, tweak,         \* statics of nx_emmc_bis_read_block
  got,                    \* the last block read had the right bytes
  faulted,                \* history: some transfer or AES operation failed
  astray,                 \* history: a block went to the slot of an evicted
                          \* cluster, or used the tweak of a closed session
  carried                 \* history: prev_* are still those of a closed session

request == <<cur, count>>
cache   == <<lookup, slots, end_index, filled, dirty_count>>
last    == <<prev_cluster, prev_sector, tweak>>
history == <<faulted, astray, carried>>
vars    == <<pc, request, emmc, part, cache, locked, last, got, history>>

EMPTY   == -1             \* CLUSTER_LOOKUP_EMPTY_ENTRY
Sectors == 0 .. Clusters * PerCluster - 1
Slots   == 0 .. Entries - 1
Offsets == 0 .. PerCluster - 1

ClusterOf(s) == s \div PerCluster
IndexIn(s)   == s % PerCluster
First(c)     == c * PerCluster

\* The point of the XTS key stream that a saved tweak stands at.
Position(p, c, k) == [part |-> p, cluster |-> c, at |-> k]
Unknown           == [part |-> NoPart, cluster |-> EMPTY, at |-> 0]

Tweak == [part : Parts \cup {NoPart}, cluster : {EMPTY} \cup 0 .. Clusters - 1,
          at : 0 .. PerCluster]

Slot == [cluster : 0 .. Clusters - 1, dirty : BOOLEAN, fresh : [Offsets -> BOOLEAN]]

TypeOK ==
  /\ pc \in {"idle", "read", "evict", "fill", "write", "flush", "finalized"}
  /\ cur \in Nat /\ count \in Nat
  /\ emmc \in [Sectors -> BOOLEAN]
  /\ part \in Parts
  /\ lookup \in [0 .. Clusters - 1 -> {EMPTY} \cup Slots]
  /\ slots \in [Slots -> Slot]
  /\ end_index \in 0 .. Entries
  /\ {filled, locked, got, faulted, astray, carried} \subseteq BOOLEAN
  /\ dirty_count \in Nat
  /\ prev_cluster \in {-1} \cup 0 .. Clusters - 1
  /\ prev_sector \in Sectors
  /\ tweak \in Tweak

-----------------------------------------------------------------------------
\* nx_emmc_bis_cluster_cache_init: the slots are not cleared, and a reader
\* of the lookup table does not reach them any more.
ClearedLookup == [c \in 0 .. Clusters - 1 |-> EMPTY]

\* The memory of the slots is not initialised.
Init ==
  /\ pc = "idle" /\ cur = 0 /\ count = 0
  /\ emmc = [s \in Sectors |-> TRUE]
  /\ part \in Parts
  /\ lookup = ClearedLookup
  /\ \E junk \in BOOLEAN :
       slots = [i \in Slots |-> [cluster |-> 0, dirty |-> junk,
                                 fresh |-> [k \in Offsets |-> FALSE]]]
  /\ end_index = 0 /\ filled = FALSE /\ dirty_count = 0 /\ locked = FALSE
  /\ prev_cluster = -1 /\ prev_sector = 0 /\ tweak = Unknown
  /\ got = TRUE
  /\ faulted = FALSE /\ astray = FALSE /\ carried = FALSE

-----------------------------------------------------------------------------
\* A request is split in blocks of a cluster at most.  FatFs aligns its
\* transfers, so that a block never goes over the end of a cluster.
Fits(s, n) ==
  /\ n > 0 /\ s + n <= Clusters * PerCluster
  /\ IndexIn(s) = 0 \/ IndexIn(s) + n <= PerCluster

Block      == IF count < PerCluster THEN count ELSE PerCluster
cluster    == ClusterOf(cur)
InBlock    == cur .. cur + Block - 1
entry      == lookup[cluster]
Dangling   == entry # EMPTY /\ slots[entry].cluster # cluster

\* nx_emmc_bis_read, nx_emmc_bis_write
Request(kind) ==
  /\ pc = "idle"
  /\ \E s \in Sectors, n \in 1 .. Clusters * PerCluster :
       /\ Fits(s, n)
       /\ cur' = s /\ count' = n
  /\ pc' = kind
  /\ UNCHANGED <<emmc, part, cache, locked, last, got, history>>

NextBlock ==
  /\ count' = count - Block
  /\ cur' = IF count = Block THEN 0 ELSE cur + Block
  /\ pc' = IF count = Block THEN "idle" ELSE pc

\* res != 0: the request is given up.
Fail ==
  /\ pc' = "idle" /\ count' = 0 /\ cur' = 0
  /\ faulted' = TRUE

\* The slots once the sectors of W have new bytes.
Outdated(W) ==
  [i \in Slots |-> [slots[i] EXCEPT !.fresh =
     [k \in Offsets |-> slots[i].fresh[k] /\ First(slots[i].cluster) + k \notin W]]]

-----------------------------------------------------------------------------
\* nx_emmc_bis_write_block

\* The slot of the cluster with the block in it.  A block for the slot of another
\* cluster is not fresh there.
WrittenSlot ==
  [cluster |-> slots[entry].cluster, dirty |-> TRUE,
   fresh   |-> [k \in Offsets |-> IF First(cluster) + k \in InBlock THEN ~Dangling
                                  ELSE slots[entry].fresh[k]]]

\* Mutant: every write to a slot counts it once more.
WriteHitCountsAgain ==
  /\ pc = "write" /\ entry # EMPTY
  /\ slots' = [Outdated(InBlock) EXCEPT ![entry] = WrittenSlot]
  /\ dirty_count' = dirty_count + 1
  /\ emmc' = [s \in Sectors |-> emmc[s] /\ s \notin InBlock]
  /\ astray' = (astray \/ Dangling)
  /\ NextBlock
  /\ UNCHANGED <<part, lookup, end_index, filled, locked, last, got, faulted, carried>>

\* The request of a caller, which does not force a flush.
WriteHit ==
  /\ pc = "write" /\ entry # EMPTY
  /\ slots' = [Outdated(InBlock) EXCEPT ![entry] = WrittenSlot]
  /\ dirty_count' = IF slots[entry].dirty THEN dirty_count ELSE dirty_count + 1
  /\ emmc' = [s \in Sectors |-> emmc[s] /\ s \notin InBlock]
  /\ astray' = (astray \/ Dangling)
  /\ NextBlock
  /\ UNCHANGED <<part, lookup, end_index, filled, locked, last, got, faulted, carried>>

WriteMiss ==
  /\ pc = "write" /\ entry = EMPTY
  /\ slots' = Outdated(InBlock)
  /\ \/ /\ emmc' = [s \in Sectors |-> emmc[s] \/ s \in InBlock]
        /\ NextBlock
        /\ UNCHANGED faulted
     \/ /\ emmc' = [s \in Sectors |-> emmc[s] /\ s \notin InBlock]
        /\ Fail
  /\ UNCHANGED <<part, lookup, end_index, filled, dirty_count, locked, last, got,
                 astray, carried>>

\* _nx_emmc_bis_flush_cluster of slot i.  The slot written is the one that the
\* table has for its cluster; with none, whatever is at address 0 is written.
WrittenBack(i) ==
  LET c == slots[i].cluster
      j == lookup[c]
  IN  [s \in Sectors |-> IF ClusterOf(s) # c THEN emmc[s]
                         ELSE j # EMPTY /\ slots[j].fresh[IndexIn(s)]]

\* The block is marked dirty first, and clean when the write has succeeded.
FlushedSlots(i, ok) ==
  LET j == lookup[slots[i].cluster]
  IN  IF j = EMPTY THEN slots ELSE [slots EXCEPT ![j] = [@ EXCEPT !.dirty = ~ok]]

FlushCluster(i, ok) ==
  LET j == lookup[slots[i].cluster]
      counted == IF j = EMPTY \/ slots[j].dirty THEN dirty_count ELSE dirty_count + 1
  IN  /\ faulted' = (faulted \/ ~ok)
      /\ dirty_count' = IF ok /\ j # EMPTY THEN counted - 1 ELSE counted
      /\ emmc' = IF ok THEN WrittenBack(i)
                 ELSE [s \in Sectors |-> emmc[s] /\ ClusterOf(s) # slots[i].cluster]

-----------------------------------------------------------------------------
\* nx_emmc_bis_read_block

ReadHit ==
  /\ pc = "read" /\ entry # EMPTY
  /\ got' = (~Dangling /\ \A s \in InBlock : slots[entry].fresh[IndexIn(s)])
  /\ prev_sector' = cur + Block - 1
  /\ prev_cluster' = cluster
  /\ astray' = (astray \/ Dangling)
  /\ carried' = FALSE
  /\ NextBlock
  /\ UNCHANGED <<emmc, part, cache, locked, tweak, faulted>>

\* Mutant: the cache holds one entry too many before the index rolls over.
ReadMissRollsLate ==
  /\ pc = "read" /\ entry = EMPTY /\ ~locked
  /\ pc' = "evict"
  /\ end_index' = IF end_index > Entries THEN 0 ELSE end_index
  /\ filled' = (filled \/ end_index > Entries)
  /\ UNCHANGED <<request, emmc, part, lookup, slots, dirty_count, locked, last, got,
                 history>>

\* Mutant: it is not noted that the cache has been filled.
ReadMissForgetsFull ==
  /\ pc = "read" /\ entry = EMPTY /\ ~locked
  /\ pc' = "evict"
  /\ end_index' = IF end_index >= Entries THEN 0 ELSE end_index
  /\ UNCHANGED <<request, emmc, part, lookup, slots, dirty_count, filled, locked, last,
                 got, history>>

\* The index rolls over when the cache is full.
ReadMiss ==
  /\ pc = "read" /\ entry = EMPTY /\ ~locked
  /\ pc' = "evict"
  /\ end_index' = IF end_index >= Entries THEN 0 ELSE end_index
  /\ filled' = (filled \/ end_index >= Entries)
  /\ UNCHANGED <<request, emmc, part, lookup, slots, dirty_count, locked, last, got,
                 history>>

\* Mutant: the number of the new cluster is not put in the slot.
EvictKeepsNumber ==
  /\ pc = "evict"
  /\ pc' = "fill"
  /\ LET Taken(sl) ==
           [sl EXCEPT ![end_index].dirty = FALSE,
                      ![end_index].fresh = [k \in Offsets |-> FALSE]]
     IN  IF filled /\ slots[end_index].dirty
         THEN \E ok \in BOOLEAN : /\ FlushCluster(end_index, ok)
                                 /\ slots' = Taken(FlushedSlots(end_index, ok))
         ELSE /\ slots' = Taken(slots)
              /\ UNCHANGED <<emmc, dirty_count, faulted>>
  /\ lookup' = [lookup EXCEPT ![cluster] = end_index]
  /\ UNCHANGED <<request, part, end_index, filled, locked, last, got, astray, carried>>

\* The cluster in the slot is written back, whether that succeeds or not, and
\* the slot becomes that of the new cluster before its bytes have been read.
Evict ==
  /\ pc = "evict"
  /\ pc' = "fill"
  /\ LET Taken(sl) ==
           [sl EXCEPT ![end_index] = [cluster |-> cluster, dirty |-> FALSE,
                                      fresh |-> [k \in Offsets |-> FALSE]]]
     IN  IF filled /\ slots[end_index].dirty
         THEN \E ok \in BOOLEAN : /\ FlushCluster(end_index, ok)
                                 /\ slots' = Taken(FlushedSlots(end_index, ok))
         ELSE /\ slots' = Taken(slots)
              /\ UNCHANGED <<emmc, dirty_count, faulted>>
  /\ lookup' = [lookup EXCEPT ![cluster] = end_index]
  /\ UNCHANGED <<request, part, end_index, filled, locked, last, got, astray, carried>>

Fill ==
  /\ pc = "fill"
  /\ \/ /\ slots' = [slots EXCEPT ![end_index] =
                        [@ EXCEPT !.fresh = [k \in Offsets |-> emmc[First(cluster) + k]]]]
        /\ got' = \A s \in InBlock : emmc[s]
        /\ end_index' = end_index + 1
        /\ count' = count - Block
        /\ cur' = IF count = Block THEN 0 ELSE cur + Block
        /\ pc' = IF count = Block THEN "idle" ELSE "read"
        /\ UNCHANGED faulted
     \/ /\ Fail
        /\ UNCHANGED <<slots, got, end_index>>
  /\ UNCHANGED <<emmc, part, lookup, filled, dirty_count, locked, last, astray, carried>>

\* Whether the tweak is made anew: otherwise the saved one is moved on.
Regenerates == prev_cluster # cluster \/ cur <= prev_sector

\* Mutant: the saved tweak is moved on by a sector too many.
StartOneTooFar ==
  IF Regenerates THEN Position(part, cluster, IndexIn(cur))
  ELSE [tweak EXCEPT !.at = @ + (cur - prev_sector)]

\* Where the key stream stands for the first sector of the block.
StartOfBlock ==
  IF Regenerates THEN Position(part, cluster, IndexIn(cur))
  ELSE [tweak EXCEPT !.at = @ + (cur - prev_sector - 1)]

\* With the cache locked, a cluster that is not in it is read as it is needed.
DirectRead ==
  /\ pc = "read" /\ entry = EMPTY /\ locked
  /\ got' = /\ StartOfBlock = Position(part, cluster, IndexIn(cur))
            /\ \A s \in InBlock : emmc[s]
  /\ tweak' = IF StartOfBlock.cluster = EMPTY
                 \/ StartOfBlock.at + Block > PerCluster THEN Unknown
              ELSE [StartOfBlock EXCEPT !.at = @ + Block]
  /\ prev_cluster' = cluster
  /\ prev_sector' = cur + Block - 1
  /\ astray' = (astray \/ (carried /\ ~Regenerates))
  /\ carried' = FALSE
  /\ NextBlock
  /\ UNCHANGED <<emmc, part, cache, locked, faulted>>

\* The eMMC does not answer, or the AES engine fails: then the cluster is
\* noted already and the tweak is spoilt.
DirectReadFails ==
  /\ pc = "read" /\ entry = EMPTY /\ locked
  /\ \/ UNCHANGED <<prev_cluster, tweak>>
     \/ prev_cluster' = cluster /\ tweak' = Unknown
  /\ Fail
  /\ UNCHANGED <<emmc, part, cache, locked, prev_sector, got, astray, carried>>

-----------------------------------------------------------------------------
\* nx_emmc_bis_finalize

Limit == IF filled THEN Entries ELSE end_index

Finalize ==
  /\ pc = "idle"
  /\ IF dirty_count = 0
     THEN pc' = "finalized" /\ UNCHANGED request
     ELSE pc' = "flush" /\ cur' = 0 /\ count' = dirty_count
  /\ UNCHANGED <<emmc, part, cache, locked, last, got, history>>

FlushNext ==
  /\ pc = "flush"
  /\ IF cur < Limit /\ count > 0
     THEN /\ cur' = cur + 1
          /\ pc' = pc
          /\ IF slots[cur].dirty
             THEN /\ \E ok \in BOOLEAN : /\ FlushCluster(cur, ok)
                                        /\ slots' = FlushedSlots(cur, ok)
                  /\ count' = count - 1
             ELSE UNCHANGED <<count, slots, dirty_count, emmc, faulted>>
     ELSE /\ pc' = "finalized"
          /\ UNCHANGED <<request, slots, dirty_count, emmc, faulted>>
  /\ UNCHANGED <<part, lookup, end_index, filled, locked, last, got, astray, carried>>

\* The partition is used on, ...
Resume ==
  /\ pc = "finalized"
  /\ pc' = "idle" /\ cur' = 0 /\ count' = 0
  /\ UNCHANGED <<emmc, part, cache, locked, last, got, history>>

\* ... or nx_emmc_bis_init is called for a partition, the same or another, all
\* of which is on the eMMC.  The statics of the read keep their values.
Open ==
  /\ pc = "finalized"
  /\ pc' = "idle" /\ cur' = 0 /\ count' = 0
  /\ part' \in Parts
  /\ emmc' = IF part' = part THEN emmc ELSE [s \in Sectors |-> TRUE]
  /\ lookup' = ClearedLookup
  /\ slots' = [i \in Slots |-> [slots[i] EXCEPT !.fresh = [k \in Offsets |-> FALSE]]]
  /\ end_index' = 0 /\ locked' = FALSE /\ dirty_count' = 0 /\ filled' = FALSE
  /\ carried' = TRUE
  /\ UNCHANGED <<last, got, faulted, astray>>

\* nx_emmc_bis_cache_lock
CacheLock ==
  /\ pc = "idle"
  /\ locked' = ~locked
  /\ UNCHANGED <<pc, request, emmc, part, cache, last, got, history>>

Next ==
  \/ Request("read") \/ Request("write")
  \/ WriteHit \/ WriteMiss
  \/ ReadHit \/ ReadMiss \/ Evict \/ Fill
  \/ DirectRead \/ DirectReadFails
  \/ Finalize \/ FlushNext \/ Resume \/ Open
  \/ CacheLock

Spec == Init /\ [][Next]_vars

-----------------------------------------------------------------------------
\* Properties

\* A slot that the lookup table reaches
Reached(i) == \E c \in 0 .. Clusters - 1 : lookup[c] = i

\* The cache behaves as the partition would without it, as long as no transfer
\* fails and no block goes to the slot of an evicted cluster.  Every sector has
\* its bytes where a read or finalize will find them, on the eMMC or in the dirty
\* slot of its cluster; nx_emmc_bis_read returns what was last written whichever
\* way each block takes, cached, cached now, or read past the locked cache with a
\* tweak moved on from the read before; and after nx_emmc_bis_finalize the
\* partition has every write, also those past the index of a cache that has
\* rolled over.
Transparent ==
  ~faulted /\ ~astray =>
    /\ \A s \in Sectors :
         emmc[s] \/ LET i == lookup[ClusterOf(s)]
                   IN  /\ i # EMPTY /\ slots[i].cluster = ClusterOf(s)
                       /\ slots[i].dirty /\ slots[i].fresh[IndexIn(s)]
    /\ got
    /\ pc = "finalized" => \A s \in Sectors : emmc[s]

\* The cluster noted in a slot that can be reached is looked up in that slot:
\* _nx_emmc_bis_flush_cluster finds the cluster by it and would otherwise write
\* another slot, or address 0, to the eMMC.  Failures do not change this.
LookupIsMutual ==
  \A i \in Slots : Reached(i) => lookup[slots[i].cluster] = i

\* dirty_cluster_count covers the dirty slots, through evictions and failures:
\* finalize does nothing at 0 and stops after that many, and the unsigned count
\* never goes below 0.  Without a failure it is exact.
DirtyIsCounted ==
  LET dirty == Cardinality({i \in Slots : Reached(i) /\ slots[i].dirty})
  IN  dirty <= dirty_count /\ (~faulted => dirty = dirty_count)
===============================================================================
