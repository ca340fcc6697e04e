------------------------------ MODULE Bis_proofs ------------------------------
(***************************************************************************)
(* Theorems about BisCache, for every number of clusters, sectors of a     *)
(* cluster and cache entries.  First: the lookup table and the slots       *)
(* agree, and the count of dirty clusters covers them, whatever transfers  *)
(* fail.  Then: the cache of nx_emmc_bis.c behaves as the partition would  *)
(* without it, for any order of reads, writes, evictions and finalize      *)
(* passes.                                                                 *)
(***************************************************************************)
EXTENDS BisCache, FiniteSetTheorems, TLAPS

ClusterNumber == 0 .. Clusters - 1

\* The dirty slots that a table l reaches.
DirtySlots(l, sl) ==
  {i \in Slots : (\E c \in ClusterNumber : l[c] = i) /\ sl[i].dirty}

\* A request stays inside the partition.
Inside ==
  pc \in {"read", "write", "evict", "fill"} =>
    count > 0 /\ cur \in Sectors /\ cur + count - 1 \in Sectors

\* The slot that a miss takes.
Miss ==
  /\ pc \in {"evict", "fill"} => end_index < Entries
  /\ pc = "evict" => entry = EMPTY

Counted ==
  LET n == Cardinality(DirtySlots(lookup, slots))
  IN  n <= dirty_count /\ (~faulted => n = dirty_count)

\* Until the cache has been full once the slots from the index on are unused.
Unused ==
  ~faulted /\ ~filled =>
    \A c \in ClusterNumber : \/ lookup[c] = EMPTY \/ lookup[c] < end_index
                             \/ pc = "fill" /\ lookup[c] = end_index

\* Each slot that the table reaches has the number of the cluster.
Mutual(l, sl) == \A i \in Slots : (\E c \in ClusterNumber : l[c] = i) => l[sl[i].cluster] = i

\* The inductive invariant.
IInv == TypeOK /\ Inside /\ Miss /\ Mutual(lookup, slots) /\ Counted /\ Unused

-----------------------------------------------------------------------------
\* Sectors and clusters

LEMMA Sizes == Clusters \in Nat /\ Clusters > 0 /\ PerCluster \in Nat /\ PerCluster > 0
               /\ Entries \in Nat /\ Entries > 0
BY BisAssumption

LEMMA SectorRange == \E m \in Nat : Sectors = 0 .. m
<1>1. Clusters * PerCluster \in Nat /\ Clusters * PerCluster > 0
  BY Sizes
<1>2. Clusters * PerCluster - 1 \in Nat
  BY <1>1
<1> QED
  BY <1>2 DEF Sectors

\* The cluster of a sector, and its place there.
LEMMA Geometry ==
  ASSUME NEW s \in Sectors
  PROVE  ClusterOf(s) \in ClusterNumber /\ IndexIn(s) \in Offsets
<1> DEFINE q == s \div PerCluster
           r == s % PerCluster
<1>1. s \in Nat /\ s < Clusters * PerCluster
  BY Sizes DEF Sectors
<1>2. q \in Int /\ r \in 0 .. (PerCluster - 1) /\ s = PerCluster * q + r
  BY <1>1, Sizes
<1> HIDE DEF q, r
<1>3. PerCluster * q < Clusters * PerCluster
  BY <1>1, <1>2, Sizes
<1>4. q < Clusters
  BY <1>2, <1>3, Sizes
<1>5. q >= 0
  BY <1>1, <1>2, Sizes
<1> QED
  BY <1>2, <1>4, <1>5, Sizes DEF ClusterOf, IndexIn, Offsets, ClusterNumber, q, r

LEMMA FirstSector ==
  ASSUME NEW c \in ClusterNumber, NEW k \in Offsets
  PROVE  First(c) + k \in Sectors
<1>1. c * PerCluster <= (Clusters - 1) * PerCluster
  BY Sizes DEF ClusterNumber
<1>2. (Clusters - 1) * PerCluster = Clusters * PerCluster - PerCluster
  BY Sizes
<1>3. c * PerCluster \in Nat /\ Clusters * PerCluster \in Nat
  BY Sizes DEF ClusterNumber
<1> QED
  BY <1>1, <1>2, <1>3, Sizes DEF First, Sectors, Offsets

-----------------------------------------------------------------------------
\* Counting

LEMMA DirtyFinite == \A l, sl : /\ IsFiniteSet(DirtySlots(l, sl))
                                /\ Cardinality(DirtySlots(l, sl)) \in Nat
<1>1. IsFiniteSet(Slots)
  BY Sizes, FS_Interval DEF Slots
<1> SUFFICES ASSUME NEW l, NEW sl
             PROVE  IsFiniteSet(DirtySlots(l, sl)) /\ Cardinality(DirtySlots(l, sl)) \in Nat
  OBVIOUS
<1>2. DirtySlots(l, sl) \in SUBSET Slots
  BY DEF DirtySlots
<1> QED
  BY <1>1, <1>2, FS_Subset, FS_CardinalityType

\* _nx_emmc_bis_flush_cluster writes the slot that the table has for the cluster.
LEMMA Flushed ==
  ASSUME IInv, NEW i \in Slots, NEW ok \in BOOLEAN, FlushCluster(i, ok)
  PROVE  LET F == FlushedSlots(i, ok)
             j == lookup[slots[i].cluster]
             n == Cardinality(DirtySlots(lookup, F))
         IN  /\ F \in [Slots -> Slot]
             /\ \A k \in Slots : F[k].cluster = slots[k].cluster
             /\ dirty_count' \in Nat /\ n <= dirty_count' /\ (~faulted' => n = dirty_count')
             /\ emmc' \in [Sectors -> BOOLEAN]
             /\ faulted' \in BOOLEAN /\ (~faulted' => ~faulted /\ ok)
             /\ ok /\ j \in Slots => ~F[j].dirty
<1> DEFINE F == FlushedSlots(i, ok)
           j == lookup[slots[i].cluster]
           D == DirtySlots(lookup, slots)
<1>1. /\ slots[i].cluster \in ClusterNumber /\ j \in Slots \cup {EMPTY} /\ EMPTY \notin Slots
      /\ slots \in [Slots -> Slot] /\ emmc \in [Sectors -> BOOLEAN]
      /\ dirty_count \in Nat /\ faulted \in BOOLEAN
      /\ Cardinality(D) <= dirty_count /\ (~faulted => Cardinality(D) = dirty_count)
  BY DEF IInv, TypeOK, Slot, ClusterNumber, EMPTY, Slots, Counted
<1>2. /\ faulted' = (faulted \/ ~ok)
      /\ dirty_count' = LET counted == IF j = EMPTY \/ slots[j].dirty THEN dirty_count
                                       ELSE dirty_count + 1
                        IN  IF ok /\ j # EMPTY THEN counted - 1 ELSE counted
      /\ emmc' = IF ok THEN WrittenBack(i)
                 ELSE [s \in Sectors |-> emmc[s] /\ ClusterOf(s) # slots[i].cluster]
  BY DEF FlushCluster
<1>3. emmc' \in [Sectors -> BOOLEAN]
  <2>1. CASE ok
    <3>1. \A s \in Sectors : j # EMPTY => slots[j].fresh[IndexIn(s)] \in BOOLEAN
      BY <1>1, Geometry DEF Slot
    <3>2. \A s \in Sectors : (IF ClusterOf(s) # slots[i].cluster THEN emmc[s]
                              ELSE j # EMPTY /\ slots[j].fresh[IndexIn(s)]) \in BOOLEAN
      BY <1>1, <3>1
    <3> QED
      BY <1>2, <2>1, <3>2 DEF WrittenBack
  <2>2. CASE ~ok
    BY <1>1, <1>2, <2>2
  <2> QED
    BY <2>1, <2>2
<1>4. F = IF j = EMPTY THEN slots ELSE [slots EXCEPT ![j] = [slots[j] EXCEPT !.dirty = ~ok]]
  BY DEF FlushedSlots
<1> HIDE DEF F, j, D
<1>5. CASE j = EMPTY
  BY <1>1, <1>2, <1>3, <1>4, <1>5 DEF F, j, D
<1>6. CASE j \in Slots
  <2>1. /\ F \in [Slots -> Slot]
        /\ \A k \in Slots : F[k].cluster = slots[k].cluster
        /\ \A k \in Slots : F[k].dirty = IF k = j THEN ~ok ELSE slots[k].dirty
    BY <1>1, <1>4, <1>6 DEF Slot
  <2>2. \E c \in ClusterNumber : lookup[c] = j
    BY <1>1 DEF j
  <2>3. j \in D <=> slots[j].dirty
    BY <1>6, <2>2 DEF D, DirtySlots
  <2>4. DirtySlots(lookup, F) = IF ok THEN D \ {j} ELSE D \cup {j}
    BY <1>6, <2>1, <2>2 DEF D, DirtySlots
  <2>5. IsFiniteSet(D) /\ Cardinality(D) \in Nat /\ Cardinality(DirtySlots(lookup, F)) \in Nat
    BY DirtyFinite DEF D
  <2>6. Cardinality(DirtySlots(lookup, F)) =
          IF ok THEN IF slots[j].dirty THEN Cardinality(D) - 1 ELSE Cardinality(D)
          ELSE IF slots[j].dirty THEN Cardinality(D) ELSE Cardinality(D) + 1
    BY <2>3, <2>4, <2>5, FS_AddElement, FS_RemoveElement, ZenonT(60)
  <2>7. j # EMPTY
    BY <1>1, <1>6
  <2>8. dirty_count' = IF ok THEN IF slots[j].dirty THEN dirty_count - 1 ELSE dirty_count
                       ELSE IF slots[j].dirty THEN dirty_count ELSE dirty_count + 1
    BY <1>1, <1>2, <2>7
  <2>9. /\ dirty_count' \in Nat /\ Cardinality(DirtySlots(lookup, F)) <= dirty_count'
        /\ ~faulted' => Cardinality(DirtySlots(lookup, F)) = dirty_count'
    BY <1>1, <1>2, <2>5, <2>6, <2>8
  <2> QED
    BY <1>1, <1>2, <1>3, <1>6, <2>1, <2>9 DEF F, j
<1> QED
  BY <1>1, <1>5, <1>6

\* An action that leaves the table, the numbers and the dirty marks alone.
LEMMA SameMarks ==
  ASSUME NEW l, NEW s1, NEW s2,
         \A k \in Slots : s2[k].cluster = s1[k].cluster /\ s2[k].dirty = s1[k].dirty
  PROVE  DirtySlots(l, s2) = DirtySlots(l, s1) /\ (Mutual(l, s1) => Mutual(l, s2))
BY DEF DirtySlots, Mutual

\* The rest of a request.
LEMMA NextBlockOK ==
  ASSUME IInv, pc \in {"read", "write", "fill"}, NextBlock
  PROVE  /\ cur' \in Nat /\ count' \in Nat
         /\ pc' = "idle" \/ (pc' = pc /\ count' > 0 /\ cur' \in Sectors
                             /\ cur' + count' - 1 \in Sectors)
<1>1. PICK m \in Nat : Sectors = 0 .. m
  BY SectorRange
<1>2. count > 0 /\ cur \in Sectors /\ cur + count - 1 \in Sectors /\ count \in Nat
  BY DEF IInv, Inside, TypeOK
<1>3. Block \in Nat /\ Block > 0 /\ Block <= count
  BY <1>2, Sizes DEF Block
<1> QED
  BY <1>1, <1>2, <1>3 DEF NextBlock

\* The place of a block in its cluster.
LEMMA BlockPlace ==
  ASSUME IInv, pc \in {"read", "write", "evict", "fill"}
  PROVE  /\ cluster \in ClusterNumber /\ entry \in {EMPTY} \cup Slots
         /\ IndexIn(cur) \in Offsets /\ Block \in 1 .. PerCluster
         /\ cur \in Sectors /\ cur + Block - 1 \in Sectors
         /\ InBlock \subseteq Sectors
<1>1. PICK m \in Nat : Sectors = 0 .. m
  BY SectorRange
<1>2. count > 0 /\ cur \in Sectors /\ cur + count - 1 \in Sectors /\ count \in Nat
  BY DEF IInv, Inside, TypeOK
<1>3. Block \in 1 .. PerCluster /\ Block <= count
  BY <1>2, Sizes DEF Block
<1>4. cluster \in ClusterNumber /\ IndexIn(cur) \in Offsets
  BY <1>2, Geometry DEF cluster
<1>5. entry \in {EMPTY} \cup Slots
  BY <1>4 DEF entry, IInv, TypeOK, ClusterNumber
<1>6. cur + Block - 1 \in Sectors
  BY <1>1, <1>2, <1>3, Sizes
<1>7. InBlock \subseteq Sectors
  BY <1>1, <1>2, <1>6, Sizes DEF InBlock
<1> QED
  BY <1>2, <1>3, <1>4, <1>5, <1>6, <1>7

-----------------------------------------------------------------------------
\* One lemma per action

LEMMA InitOK == Init => IInv
<1> SUFFICES ASSUME Init PROVE IInv
  OBVIOUS
<1>1. 0 \in Sectors /\ 0 \in ClusterNumber /\ 0 \in Nat /\ 0 \in 0 .. Entries /\ 0 \in 0 .. PerCluster
  BY SectorRange, Sizes DEF ClusterNumber
<1>2. PICK junk \in BOOLEAN :
        slots = [i \in Slots |-> [cluster |-> 0, dirty |-> junk,
                                  fresh |-> [k \in Offsets |-> FALSE]]]
  BY DEF Init
<1>3. slots \in [Slots -> Slot]
  BY <1>1, <1>2 DEF Slot, ClusterNumber
<1>4. lookup \in [0 .. Clusters - 1 -> {EMPTY} \cup Slots] /\ emmc \in [Sectors -> BOOLEAN]
  BY DEF Init, ClearedLookup
<1>5. tweak \in Tweak
  BY <1>1 DEF Init, Unknown, Tweak
<1>6. TypeOK
  BY <1>1, <1>3, <1>4, <1>5 DEF Init, TypeOK
<1>7. \A c \in ClusterNumber : lookup[c] = EMPTY
  BY DEF Init, ClearedLookup, ClusterNumber
<1>8. DirtySlots(lookup, slots) = {} /\ Mutual(lookup, slots)
  BY <1>7 DEF DirtySlots, Mutual, Slots, EMPTY
<1>9. Cardinality(DirtySlots(lookup, slots)) = 0 /\ dirty_count = 0
  BY <1>8, FS_EmptySet DEF Init
<1>10. Counted /\ Unused
  BY <1>7, <1>9 DEF Counted, Unused
<1> QED
  BY <1>6, <1>8, <1>10 DEF Init, IInv, Inside, Miss

\* nx_emmc_bis_read, nx_emmc_bis_write
LEMMA RequestOK ==
  ASSUME IInv, NEW kind \in {"read", "write"}, Request(kind)
  PROVE  IInv'
<1>1. PICK s \in Sectors, n \in 1 .. Clusters * PerCluster :
        Fits(s, n) /\ cur' = s /\ count' = n
  BY DEF Request
<1>2. n \in Nat /\ n > 0 /\ s \in Nat /\ s + n <= Clusters * PerCluster
  BY <1>1, SectorRange DEF Fits
<1>3. s + n - 1 \in Sectors
  <2>1. PICK m \in Int : m = Clusters * PerCluster
    BY Sizes
  <2>2. s + n <= m /\ Sectors = 0 .. m - 1
    BY <1>2, <2>1 DEF Sectors
  <2> QED
    BY <1>2, <2>2
<1>4. TypeOK'
  BY <1>1, <1>2 DEF IInv, TypeOK, Request, cache, last, history
<1>5. Inside'
  BY <1>1, <1>2, <1>3 DEF Inside
<1> QED
  BY <1>4, <1>5
  DEF IInv, Request, Miss, Mutual, DirtySlots, Counted, Unused, cache, last, history

\* A write to the slot of the cluster: it is dirty and counted.
LEMMA WriteHitOK == IInv /\ WriteHit => IInv'
<1> SUFFICES ASSUME IInv, WriteHit PROVE IInv'
  OBVIOUS
<1> DEFINE D == DirtySlots(lookup, slots)
<1>1. /\ cluster \in ClusterNumber /\ entry \in Slots /\ lookup[cluster] = entry
  BY BlockPlace DEF WriteHit, entry
<1>2. slots \in [Slots -> Slot]
  BY DEF IInv, TypeOK
<1>3. WrittenSlot \in Slot /\ WrittenSlot.cluster = slots[entry].cluster /\ WrittenSlot.dirty = TRUE
  <2>1. \A k \in Offsets : (IF First(cluster) + k \in InBlock THEN ~Dangling
                            ELSE slots[entry].fresh[k]) \in BOOLEAN
    BY <1>1, <1>2 DEF Slot, Dangling
  <2> QED
    BY <1>1, <1>2, <2>1 DEF WrittenSlot, Slot
<1>4. /\ Outdated(InBlock) \in [Slots -> Slot]
      /\ \A k \in Slots : /\ Outdated(InBlock)[k].cluster = slots[k].cluster
                          /\ Outdated(InBlock)[k].dirty = slots[k].dirty
  <2>1. \A i \in Slots : [k \in Offsets |-> slots[i].fresh[k] /\ First(slots[i].cluster) + k \notin InBlock] \in [Offsets -> BOOLEAN]
    BY <1>2 DEF Slot
  <2> QED
    BY <1>2, <2>1 DEF Outdated, Slot
<1>5. /\ slots' \in [Slots -> Slot]
      /\ \A k \in Slots : slots'[k].cluster = slots[k].cluster
      /\ \A k \in Slots : slots'[k].dirty = IF k = entry THEN TRUE ELSE slots[k].dirty
  <2>1. slots' = [Outdated(InBlock) EXCEPT ![entry] = WrittenSlot]
    BY DEF WriteHit
  <2> HIDE DEF D
  <2> QED
    BY <1>1, <1>3, <1>4, <2>1
<1>6. /\ lookup' = lookup /\ DirtySlots(lookup', slots') = D \cup {entry}
      /\ entry \in D <=> slots[entry].dirty
  <2>1. lookup' = lookup
    BY DEF WriteHit
  <2>2. \E c \in ClusterNumber : lookup[c] = entry
    BY <1>1
  <2>3. DirtySlots(lookup, slots') = D \cup {entry}
    BY <1>1, <1>5, <2>2 DEF DirtySlots
  <2>4. entry \in D <=> slots[entry].dirty
    BY <1>1, <2>2 DEF DirtySlots
  <2> QED
    BY <2>1, <2>3, <2>4
<1> HIDE DEF D
<1>7. /\ dirty_count' = IF slots[entry].dirty THEN dirty_count ELSE dirty_count + 1
      /\ faulted' = faulted /\ dirty_count \in Nat
      /\ Cardinality(D) <= dirty_count /\ (~faulted => Cardinality(D) = dirty_count)
  BY DEF WriteHit, IInv, TypeOK, Counted, D
<1>8. Counted' /\ dirty_count' \in Nat
  <2>1. IsFiniteSet(D) /\ Cardinality(D) \in Nat
    BY DirtyFinite DEF D
  <2>2. Cardinality(DirtySlots(lookup', slots')) =
          IF slots[entry].dirty THEN Cardinality(D) ELSE Cardinality(D) + 1
    BY <1>6, <2>1, FS_AddElement
  <2> QED
    BY <1>7, <2>1, <2>2 DEF Counted
<1>9. Mutual(lookup', slots')
  BY <1>5, <1>6 DEF Mutual, IInv
<1>10. /\ cur' \in Nat /\ count' \in Nat
       /\ pc' = "idle" \/ (pc' = pc /\ count' > 0 /\ cur' \in Sectors
                           /\ cur' + count' - 1 \in Sectors)
  BY NextBlockOK DEF WriteHit
<1>11. pc' \in {"idle", "write"}
  BY <1>10 DEF WriteHit
<1>12. emmc' \in [Sectors -> BOOLEAN] /\ astray' \in BOOLEAN
  BY DEF WriteHit, IInv, TypeOK, Dangling
<1>13. TypeOK'
  BY <1>5, <1>8, <1>10, <1>11, <1>12 DEF WriteHit, IInv, TypeOK, last
<1>14. Inside' /\ Miss' /\ Unused'
  BY <1>6, <1>10, <1>11 DEF WriteHit, IInv, Inside, Miss, Unused
<1> QED
  BY <1>8, <1>9, <1>13, <1>14 DEF IInv

\* A write past the cache.
LEMMA WriteMissOK == IInv /\ WriteMiss => IInv'
<1> SUFFICES ASSUME IInv, WriteMiss PROVE IInv'
  OBVIOUS
<1>1. slots \in [Slots -> Slot] /\ emmc \in [Sectors -> BOOLEAN]
  BY DEF IInv, TypeOK
<1>2. /\ slots' \in [Slots -> Slot]
      /\ \A k \in Slots : slots'[k].cluster = slots[k].cluster /\ slots'[k].dirty = slots[k].dirty
  <2>1. \A i \in Slots : [k \in Offsets |-> slots[i].fresh[k] /\ First(slots[i].cluster) + k \notin InBlock] \in [Offsets -> BOOLEAN]
    BY <1>1 DEF Slot
  <2> QED
    BY <1>1, <2>1 DEF WriteMiss, Outdated, Slot
<1>3. /\ lookup' = lookup /\ dirty_count' = dirty_count
      /\ faulted' \in BOOLEAN /\ (~faulted' => ~faulted)
  <2>1. lookup' = lookup /\ dirty_count' = dirty_count
    BY DEF WriteMiss
  <2>2. faulted' = faulted \/ faulted' = TRUE
    BY DEF WriteMiss, Fail
  <2>3. faulted \in BOOLEAN
    BY DEF IInv, TypeOK
  <2>4. CASE faulted' = faulted
    BY <2>1, <2>3, <2>4
  <2>5. CASE faulted' = TRUE
    BY <2>1, <2>5
  <2> QED
    BY <2>2, <2>4, <2>5
<1>4. Counted' /\ Mutual(lookup', slots')
  BY <1>2, <1>3, SameMarks DEF IInv, Counted
<1>5. /\ cur' \in Nat /\ count' \in Nat
      /\ pc' = "idle" \/ (pc' = "write" /\ count' > 0 /\ cur' \in Sectors
                           /\ cur' + count' - 1 \in Sectors)
  BY NextBlockOK DEF WriteMiss, Fail
<1>6. emmc' \in [Sectors -> BOOLEAN]
  <2>1. emmc' = [s \in Sectors |-> emmc[s] \/ s \in InBlock] \/ emmc' = [s \in Sectors |-> emmc[s] /\ s \notin InBlock]
    BY DEF WriteMiss
  <2> QED
    BY <1>1, <2>1
<1>7. TypeOK'
  BY <1>2, <1>3, <1>5, <1>6 DEF WriteMiss, IInv, TypeOK, last
<1>8. Inside' /\ Miss' /\ Unused'
  BY <1>3, <1>5 DEF WriteMiss, IInv, Inside, Miss, Unused
<1> QED
  BY <1>4, <1>7, <1>8 DEF IInv

\* A read from the slot.
LEMMA ReadHitOK == IInv /\ ReadHit => IInv'
<1> SUFFICES ASSUME IInv, ReadHit PROVE IInv'
  OBVIOUS
<1>1. cluster \in ClusterNumber /\ cur + Block - 1 \in Sectors
  BY BlockPlace DEF ReadHit
<1>2. /\ cur' \in Nat /\ count' \in Nat
      /\ pc' = "idle" \/ (pc' = "read" /\ count' > 0 /\ cur' \in Sectors
                           /\ cur' + count' - 1 \in Sectors)
  BY NextBlockOK DEF ReadHit
<1>3. /\ UNCHANGED <<emmc, part, lookup, slots, end_index, filled, dirty_count, locked, tweak, faulted>>
      /\ got' \in BOOLEAN /\ astray' \in BOOLEAN /\ carried' \in BOOLEAN
      /\ prev_sector' \in Sectors /\ prev_cluster' \in ClusterNumber
  BY <1>1 DEF ReadHit, cache, IInv, TypeOK, Dangling
<1>4. TypeOK'
  BY <1>2, <1>3 DEF IInv, TypeOK, ClusterNumber
<1>5. Inside' /\ Miss' /\ Unused'
  BY <1>2, <1>3 DEF ReadHit, IInv, Inside, Miss, Unused
<1>6. Counted' /\ Mutual(lookup', slots')
  BY <1>3 DEF IInv, Counted
<1> QED
  BY <1>4, <1>5, <1>6 DEF IInv

\* The index rolls over.
LEMMA ReadMissOK == IInv /\ ReadMiss => IInv'
<1> SUFFICES ASSUME IInv, ReadMiss PROVE IInv'
  OBVIOUS
<1>1. end_index' \in 0 .. Entries /\ end_index' < Entries
  BY Sizes DEF ReadMiss, IInv, TypeOK
<1>2. filled' \in BOOLEAN /\ (~filled' => ~filled /\ end_index' = end_index)
  BY DEF ReadMiss, IInv, TypeOK
<1>3. TypeOK'
  BY <1>1, <1>2 DEF ReadMiss, IInv, TypeOK, request, last, history
<1>4. Inside' /\ Miss' /\ Unused'
  BY <1>1, <1>2 DEF ReadMiss, IInv, Inside, Miss, Unused, entry, cluster, request, history
<1>5. Counted' /\ Mutual(lookup', slots')
  BY DEF ReadMiss, IInv, Counted, history
<1> QED
  BY <1>3, <1>4, <1>5 DEF IInv

\* The slot at the index is written back and given to the new cluster.
LEMMA EvictOK == IInv /\ Evict => IInv'
<1> SUFFICES ASSUME IInv, Evict PROVE IInv'
  OBVIOUS
<1> DEFINE new == [cluster |-> cluster, dirty |-> FALSE, fresh |-> [k \in Offsets |-> FALSE]]
<1>1. /\ cluster \in ClusterNumber /\ lookup[cluster] = EMPTY /\ end_index \in Slots
      /\ slots \in [Slots -> Slot] /\ lookup \in [ClusterNumber -> {EMPTY} \cup Slots]
      /\ emmc \in [Sectors -> BOOLEAN] /\ dirty_count \in Nat /\ faulted \in BOOLEAN
      /\ EMPTY \notin Slots
  <2>1. cluster \in ClusterNumber /\ lookup[cluster] = EMPTY /\ end_index < Entries
    BY BlockPlace DEF Evict, IInv, Miss, entry
  <2>2. end_index \in 0 .. Entries
    BY DEF IInv, TypeOK
  <2>3. end_index \in Slots /\ EMPTY \notin Slots
    BY <2>1, <2>2, Sizes DEF Slots, EMPTY
  <2>4. /\ slots \in [Slots -> Slot] /\ lookup \in [ClusterNumber -> {EMPTY} \cup Slots]
        /\ emmc \in [Sectors -> BOOLEAN] /\ dirty_count \in Nat
    BY DEF IInv, TypeOK, ClusterNumber
  <2>5. faulted \in BOOLEAN
    BY DEF IInv, TypeOK
  <2> QED
    BY <2>1, <2>3, <2>4, <2>5
<1>2. new \in Slot /\ new.cluster = cluster /\ new.dirty = FALSE
  BY <1>1 DEF Slot, ClusterNumber
<1> HIDE DEF new
\* F, the slots after the write back
<1>3. \E F \in [Slots -> Slot] :
        /\ slots' = [F EXCEPT ![end_index] = new]
        /\ \A k \in Slots : F[k].cluster = slots[k].cluster
        /\ dirty_count' \in Nat /\ Cardinality(DirtySlots(lookup, F)) <= dirty_count'
        /\ ~faulted' => Cardinality(DirtySlots(lookup, F)) = dirty_count'
        /\ emmc' \in [Sectors -> BOOLEAN] /\ faulted' \in BOOLEAN /\ (~faulted' => ~faulted)
        /\ ~faulted' => end_index \notin DirtySlots(lookup, F)
  <2>1. CASE filled /\ slots[end_index].dirty
    <3>1. PICK ok \in BOOLEAN : FlushCluster(end_index, ok)
                               /\ slots' = [FlushedSlots(end_index, ok) EXCEPT ![end_index] = new]
      BY <2>1 DEF Evict, new
    <3> DEFINE F == FlushedSlots(end_index, ok)
               j == lookup[slots[end_index].cluster]
    <3>2. /\ F \in [Slots -> Slot]
          /\ \A k \in Slots : F[k].cluster = slots[k].cluster
          /\ dirty_count' \in Nat /\ Cardinality(DirtySlots(lookup, F)) <= dirty_count'
          /\ ~faulted' => Cardinality(DirtySlots(lookup, F)) = dirty_count'
          /\ emmc' \in [Sectors -> BOOLEAN] /\ faulted' \in BOOLEAN
          /\ ~faulted' => ~faulted /\ ok
          /\ ok /\ j \in Slots => ~F[j].dirty
      BY <1>1, <3>1, Flushed
    <3> HIDE DEF F, j
    <3>3. ASSUME ~faulted', end_index \in DirtySlots(lookup, F) PROVE FALSE
      <4>1. \E c \in ClusterNumber : lookup[c] = end_index
        BY <3>3 DEF DirtySlots
      <4>2. j = end_index
        BY <1>1, <4>1 DEF IInv, Mutual, j
      <4> QED
        BY <1>1, <3>2, <3>3, <4>2 DEF DirtySlots
    <3> QED
      BY <3>1, <3>2, <3>3 DEF F
  <2>2. CASE ~(filled /\ slots[end_index].dirty)
    <3>1. slots' = [slots EXCEPT ![end_index] = new] /\ UNCHANGED <<emmc, dirty_count, faulted>>
      BY <2>2 DEF Evict, new
    <3>2. ASSUME ~faulted, end_index \in DirtySlots(lookup, slots) PROVE FALSE
      <4>1. slots[end_index].dirty /\ \E c \in ClusterNumber : lookup[c] = end_index
        BY <3>2 DEF DirtySlots
      <4>2. ~filled
        BY <2>2, <4>1
      <4>3. \A c \in ClusterNumber : lookup[c] = EMPTY \/ lookup[c] < end_index
        BY <3>2, <4>2 DEF IInv, Unused, Evict
      <4>4. end_index \in Nat /\ end_index # EMPTY
        BY <1>1 DEF Slots
      <4> QED
        BY <4>1, <4>3, <4>4
    <3>3. /\ Cardinality(DirtySlots(lookup, slots)) <= dirty_count
          /\ ~faulted => Cardinality(DirtySlots(lookup, slots)) = dirty_count
      BY DEF IInv, Counted
    <3>4. /\ slots' = [slots EXCEPT ![end_index] = new]
          /\ dirty_count' \in Nat
          /\ Cardinality(DirtySlots(lookup, slots)) <= dirty_count'
          /\ ~faulted' => Cardinality(DirtySlots(lookup, slots)) = dirty_count'
          /\ emmc' \in [Sectors -> BOOLEAN] /\ faulted' \in BOOLEAN
          /\ ~faulted' => ~faulted
          /\ ~faulted' => end_index \notin DirtySlots(lookup, slots)
      BY <1>1, <3>1, <3>2, <3>3
    <3> QED
      BY <1>1, <3>4
  <2> QED
    BY <2>1, <2>2
<1>4. PICK F \in [Slots -> Slot] :
        /\ slots' = [F EXCEPT ![end_index] = new]
        /\ \A k \in Slots : F[k].cluster = slots[k].cluster
        /\ dirty_count' \in Nat /\ Cardinality(DirtySlots(lookup, F)) <= dirty_count'
        /\ ~faulted' => Cardinality(DirtySlots(lookup, F)) = dirty_count'
        /\ emmc' \in [Sectors -> BOOLEAN] /\ faulted' \in BOOLEAN /\ (~faulted' => ~faulted)
        /\ ~faulted' => end_index \notin DirtySlots(lookup, F)
  BY <1>3
<1>5. /\ slots' \in [Slots -> Slot]
      /\ \A k \in Slots : slots'[k].cluster = IF k = end_index THEN cluster ELSE slots[k].cluster
      /\ \A k \in Slots : slots'[k].dirty = IF k = end_index THEN FALSE ELSE F[k].dirty
  BY <1>1, <1>2, <1>4
<1>6. /\ lookup' \in [ClusterNumber -> {EMPTY} \cup Slots]
      /\ \A c \in ClusterNumber : lookup'[c] = IF c = cluster THEN end_index ELSE lookup[c]
  BY <1>1 DEF Evict
<1>7. Mutual(lookup', slots')
  <2> SUFFICES ASSUME NEW i \in Slots, NEW c \in ClusterNumber, lookup'[c] = i
               PROVE  lookup'[slots'[i].cluster] = i
    BY DEF Mutual
  <2>1. CASE i = end_index
    BY <1>1, <1>5, <1>6, <2>1
  <2>2. CASE i # end_index
    <3>1. lookup[c] = i
      BY <1>6, <2>2
    <3>2. lookup[slots[i].cluster] = i /\ slots[i].cluster \in ClusterNumber
      BY <1>1, <3>1 DEF IInv, Mutual, Slot, ClusterNumber
    <3>3. slots[i].cluster # cluster
      BY <1>1, <3>2
    <3> QED
      BY <1>5, <1>6, <2>2, <3>2, <3>3
  <2> QED
    BY <2>1, <2>2
<1>8. DirtySlots(lookup', slots') = DirtySlots(lookup, F) \ {end_index}
  <2>1. ASSUME NEW i \in Slots, i # end_index
        PROVE  (\E c \in ClusterNumber : lookup'[c] = i) <=> (\E c \in ClusterNumber : lookup[c] = i)
    BY <1>1, <1>6, <2>1
  <2> QED
    BY <1>5, <2>1 DEF DirtySlots
<1>9. Counted'
  <2>1. /\ IsFiniteSet(DirtySlots(lookup, F)) /\ Cardinality(DirtySlots(lookup, F)) \in Nat
        /\ Cardinality(DirtySlots(lookup', slots')) \in Nat
    BY DirtyFinite
  <2>2. Cardinality(DirtySlots(lookup', slots')) =
          IF end_index \in DirtySlots(lookup, F) THEN Cardinality(DirtySlots(lookup, F)) - 1
          ELSE Cardinality(DirtySlots(lookup, F))
    BY <1>8, <2>1, FS_RemoveElement
  <2> QED
    BY <1>4, <2>1, <2>2 DEF Counted
<1>10. Unused'
  <2>1. pc' = "fill" /\ end_index' = end_index /\ filled' = filled /\ pc = "evict"
    BY DEF Evict
  <2>2. ASSUME ~faulted', ~filled', NEW c \in ClusterNumber
        PROVE  lookup'[c] = EMPTY \/ lookup'[c] < end_index \/ lookup'[c] = end_index
    BY <1>4, <1>6, <2>1, <2>2 DEF IInv, Unused
  <2> QED
    BY <2>1, <2>2 DEF Unused
<1>11. TypeOK'
  BY <1>4, <1>5, <1>6 DEF Evict, IInv, TypeOK, request, last, ClusterNumber
<1>12. Inside' /\ Miss'
  BY DEF Evict, IInv, Inside, Miss, request
<1> QED
  BY <1>7, <1>9, <1>10, <1>11, <1>12 DEF IInv

\* The bytes of the cluster arrive, or do not.
LEMMA FillOK == IInv /\ Fill => IInv'
<1> SUFFICES ASSUME IInv, Fill PROVE IInv'
  OBVIOUS
<1>1. /\ cluster \in ClusterNumber /\ end_index \in Slots /\ slots \in [Slots -> Slot]
      /\ emmc \in [Sectors -> BOOLEAN] /\ end_index \in Nat /\ end_index < Entries
  <2>1. cluster \in ClusterNumber /\ end_index < Entries
    BY BlockPlace DEF Fill, IInv, Miss
  <2>2. end_index \in 0 .. Entries /\ slots \in [Slots -> Slot] /\ emmc \in [Sectors -> BOOLEAN]
    BY DEF IInv, TypeOK
  <2> QED
    BY <2>1, <2>2, Sizes DEF Slots
<1>2. /\ slots' \in [Slots -> Slot]
      /\ \A k \in Slots : slots'[k].cluster = slots[k].cluster /\ slots'[k].dirty = slots[k].dirty
  <2>1. [k \in Offsets |-> emmc[First(cluster) + k]] \in [Offsets -> BOOLEAN]
    BY <1>1, FirstSector
  <2>2. \/ slots' = slots
        \/ slots' = [slots EXCEPT ![end_index] =
                       [slots[end_index] EXCEPT !.fresh = [k \in Offsets |-> emmc[First(cluster) + k]]]]
    BY DEF Fill
  <2> QED
    BY <1>1, <2>1, <2>2, ZenonT(60) DEF Slot
<1>3. /\ lookup' = lookup /\ dirty_count' = dirty_count /\ filled' = filled /\ pc = "fill"
      /\ \/ /\ faulted' = faulted /\ end_index' = end_index + 1 /\ got' \in BOOLEAN
         \/ /\ faulted' = TRUE /\ end_index' = end_index /\ got' = got
  BY DEF Fill, Fail
<1>4. got \in BOOLEAN /\ faulted \in BOOLEAN
  BY DEF IInv, TypeOK
<1>5. got' \in BOOLEAN /\ faulted' \in BOOLEAN /\ (~faulted' => ~faulted) /\ end_index' \in 0 .. Entries
  <2>1. CASE faulted' = faulted /\ end_index' = end_index + 1 /\ got' \in BOOLEAN
    <3>1. end_index' \in 0 .. Entries
      BY <1>1, <2>1, Sizes
    <3> QED
      BY <1>4, <2>1, <3>1
  <2>2. CASE faulted' = TRUE /\ end_index' = end_index /\ got' = got
    <3>1. end_index' \in 0 .. Entries
      BY <1>1, <2>2, Sizes
    <3> QED
      BY <1>4, <2>2, <3>1
  <2> QED
    BY <1>3, <2>1, <2>2
<1>6. Counted' /\ Mutual(lookup', slots')
  BY <1>2, <1>3, <1>5, SameMarks DEF IInv, Counted
<1>7. /\ cur' \in Nat /\ count' \in Nat
      /\ pc' = "idle" \/ (pc' = "read" /\ count' > 0 /\ cur' \in Sectors
                           /\ cur' + count' - 1 \in Sectors)
  <2>1. PICK m \in Nat : Sectors = 0 .. m
    BY SectorRange
  <2>2. count > 0 /\ cur \in Sectors /\ cur + count - 1 \in Sectors /\ count \in Nat
    BY DEF Fill, IInv, Inside, TypeOK
  <2>3. Block \in Nat /\ Block > 0 /\ Block <= count
    BY <2>2, Sizes DEF Block
  <2>4. CASE /\ count' = count - Block
             /\ cur' = IF count = Block THEN 0 ELSE cur + Block
             /\ pc' = IF count = Block THEN "idle" ELSE "read"
    BY <2>1, <2>2, <2>3, <2>4
  <2>5. CASE pc' = "idle" /\ count' = 0 /\ cur' = 0
    BY <2>5
  <2> QED
    BY <2>4, <2>5 DEF Fill, Fail
<1>8. Unused'
  <2> SUFFICES ASSUME ~faulted', ~filled', NEW c \in ClusterNumber
               PROVE  lookup'[c] = EMPTY \/ lookup'[c] < end_index'
    BY DEF Unused
  <2>1. end_index' = end_index + 1 /\ ~faulted /\ ~filled
    BY <1>3, <1>5
  <2>2. lookup[c] = EMPTY \/ lookup[c] < end_index \/ lookup[c] = end_index
    BY <2>1 DEF IInv, Unused
  <2>3. lookup[c] \in {EMPTY} \cup Nat
    BY DEF IInv, TypeOK, ClusterNumber, Slots
  <2> QED
    BY <1>1, <1>3, <2>1, <2>2, <2>3 DEF EMPTY
<1>9. TypeOK'
  BY <1>2, <1>3, <1>5, <1>7 DEF Fill, IInv, TypeOK, last
<1>10. Inside' /\ Miss'
  BY <1>7 DEF Inside, Miss
<1> QED
  BY <1>6, <1>8, <1>9, <1>10 DEF IInv

\* An action that leaves cache and request as they are.
LEMMA SameCache ==
  ASSUME IInv, UNCHANGED <<lookup, slots, end_index, filled, dirty_count, faulted>>,
         pc' \in {"idle", "flush", "finalized"}, pc # "fill"
  PROVE  Inside' /\ Miss' /\ Mutual(lookup', slots') /\ Counted' /\ Unused'
<1>1. Inside' /\ Miss' /\ Unused'
  BY DEF IInv, Inside, Miss, Unused
<1> QED
  BY <1>1 DEF IInv, Counted

\* A read past the locked cache, with a tweak that is new or moved on.
LEMMA DirectReadOK == IInv /\ DirectRead => IInv'
<1> SUFFICES ASSUME IInv, DirectRead PROVE IInv'
  OBVIOUS
<1>1. /\ cluster \in ClusterNumber /\ cur + Block - 1 \in Sectors /\ Block \in 1 .. PerCluster
      /\ IndexIn(cur) \in Offsets /\ cur \in Nat
  BY BlockPlace DEF DirectRead, IInv, TypeOK
<1>2. /\ cur' \in Nat /\ count' \in Nat
      /\ pc' = "idle" \/ (pc' = "read" /\ count' > 0 /\ cur' \in Sectors
                           /\ cur' + count' - 1 \in Sectors)
  BY NextBlockOK DEF DirectRead
<1>3. part \in Parts /\ tweak \in Tweak /\ prev_sector \in Nat
  BY SectorRange DEF IInv, TypeOK
<1>4. /\ StartOfBlock.part \in Parts \cup {NoPart}
      /\ StartOfBlock.cluster \in {EMPTY} \cup ClusterNumber
      /\ StartOfBlock.at \in Nat
      /\ StartOfBlock = [part |-> StartOfBlock.part, cluster |-> StartOfBlock.cluster,
                         at |-> StartOfBlock.at]
  <2>1. CASE Regenerates
    BY <1>1, <1>3, <2>1, Sizes DEF StartOfBlock, Position, Offsets
  <2>2. CASE ~Regenerates
    <3>1. cur > prev_sector
      BY <1>1, <1>3, <2>2 DEF Regenerates
    <3>2. tweak.at \in Nat
      BY <1>3, Sizes DEF Tweak
    <3>3. tweak.at + (cur - prev_sector - 1) \in Nat
      BY <1>1, <1>3, <3>1, <3>2
    <3> QED
      BY <1>3, <2>2, <3>3 DEF StartOfBlock, Tweak, ClusterNumber
  <2> QED
    BY <2>1, <2>2
<1>5. tweak' \in Tweak
  <2>1. Unknown \in Tweak
    BY Sizes DEF Unknown, Tweak
  <2>2. ASSUME ~(StartOfBlock.at + Block > PerCluster)
        PROVE  [StartOfBlock EXCEPT !.at = StartOfBlock.at + Block] \in Tweak
    <3>1. StartOfBlock.at + Block \in 0 .. PerCluster
      BY <1>1, <1>4, <2>2, Sizes
    <3> QED
      BY <1>4, <3>1 DEF Tweak, ClusterNumber
  <2> QED
    BY <2>1, <2>2 DEF DirectRead
<1>6. got' \in BOOLEAN /\ astray' \in BOOLEAN /\ carried' \in BOOLEAN
  <2>1. astray \in BOOLEAN
    BY DEF IInv, TypeOK
  <2> QED
    BY <2>1 DEF DirectRead
<1>7. TypeOK'
  BY <1>1, <1>2, <1>5, <1>6 DEF DirectRead, IInv, TypeOK, cache, ClusterNumber
<1>8. Inside' /\ Miss' /\ Unused'
  BY <1>2 DEF DirectRead, IInv, Inside, Miss, Unused, cache
<1>9. Counted' /\ Mutual(lookup', slots')
  BY DEF DirectRead, cache, IInv, Counted
<1> QED
  BY <1>7, <1>8, <1>9 DEF IInv

LEMMA DirectReadFailsOK == IInv /\ DirectReadFails => IInv'
<1> SUFFICES ASSUME IInv, DirectReadFails PROVE IInv'
  OBVIOUS
<1>1. cluster \in ClusterNumber
  BY BlockPlace DEF DirectReadFails
<1>2. tweak' \in Tweak /\ prev_cluster' \in {-1} \cup ClusterNumber
  BY <1>1, Sizes DEF DirectReadFails, IInv, TypeOK, Unknown, Tweak, ClusterNumber
<1>3. pc' = "idle" /\ count' = 0 /\ cur' = 0 /\ faulted' = TRUE /\ pc = "read"
      /\ UNCHANGED <<emmc, part, lookup, slots, end_index, filled, dirty_count, locked,
                     prev_sector, got, astray, carried>>
  BY DEF DirectReadFails, Fail, cache
<1>4. TypeOK'
  BY <1>2, <1>3 DEF IInv, TypeOK, ClusterNumber
<1>5. Inside' /\ Miss' /\ Unused'
  BY <1>3 DEF Inside, Miss, Unused
<1>6. Counted' /\ Mutual(lookup', slots')
  BY <1>3 DEF IInv, Counted
<1> QED
  BY <1>4, <1>5, <1>6 DEF IInv

\* nx_emmc_bis_finalize, what comes after it, and nx_emmc_bis_cache_lock.
LEMMA OutsideOK == IInv /\ (Finalize \/ Resume \/ CacheLock) => IInv'
<1> SUFFICES ASSUME IInv, Finalize \/ Resume \/ CacheLock PROVE IInv'
  OBVIOUS
<1>1. /\ UNCHANGED <<emmc, part, lookup, slots, end_index, filled, dirty_count, last, got,
                     faulted, astray, carried>>
      /\ pc \in {"idle", "finalized"} /\ pc' \in {"idle", "flush", "finalized"}
  BY DEF Finalize, Resume, CacheLock, cache, last, history
<1>2. cur' \in Nat /\ count' \in Nat
  BY DEF Finalize, Resume, CacheLock, request, IInv, TypeOK
<1>3. locked' \in BOOLEAN
  <2>1. locked \in BOOLEAN
    BY DEF IInv, TypeOK
  <2>2. locked' = locked \/ locked' = ~locked
    BY DEF Finalize, Resume, CacheLock
  <2> QED
    BY <2>1, <2>2
<1>4. TypeOK'
  BY <1>1, <1>2, <1>3 DEF IInv, TypeOK, last
<1> QED
  BY <1>1, <1>4, SameCache DEF IInv

\* One slot of the finalize pass.
LEMMA FlushNextOK == IInv /\ FlushNext => IInv'
<1> SUFFICES ASSUME IInv, FlushNext PROVE IInv'
  OBVIOUS
<1>1. /\ UNCHANGED <<part, lookup, end_index, filled, locked, last, got, astray, carried>>
      /\ pc = "flush" /\ pc' \in {"flush", "finalized"}
  BY DEF FlushNext
<1>2. cur \in Nat /\ count \in Nat /\ end_index \in 0 .. Entries
  BY DEF IInv, TypeOK
<1>3. CASE cur < Limit /\ count > 0 /\ slots[cur].dirty
  <2>1. cur \in Slots
    BY <1>2, <1>3, Sizes DEF Limit, Slots
  <2>2. PICK ok \in BOOLEAN : FlushCluster(cur, ok) /\ slots' = FlushedSlots(cur, ok)
    BY <1>3 DEF FlushNext
  <2>3. /\ slots' \in [Slots -> Slot]
        /\ \A k \in Slots : slots'[k].cluster = slots[k].cluster
        /\ dirty_count' \in Nat
        /\ Cardinality(DirtySlots(lookup, slots')) <= dirty_count'
        /\ ~faulted' => Cardinality(DirtySlots(lookup, slots')) = dirty_count'
        /\ emmc' \in [Sectors -> BOOLEAN] /\ faulted' \in BOOLEAN
        /\ ~faulted' => ~faulted
    BY <2>1, <2>2, Flushed
  <2>4. cur' = cur + 1 /\ count' = count - 1
    BY <1>3 DEF FlushNext
  <2>5. cur' \in Nat /\ count' \in Nat
    BY <1>2, <1>3, <2>4
  <2>6. Counted'
    BY <1>1, <2>3 DEF Counted
  <2>7. Mutual(lookup', slots')
    BY <1>1, <2>3 DEF IInv, Mutual
  <2>8. Inside' /\ Miss' /\ Unused'
    BY <1>1, <2>3 DEF IInv, Inside, Miss, Unused
  <2>9. TypeOK'
    BY <1>1, <2>3, <2>5 DEF IInv, TypeOK, last
  <2> QED
    BY <2>6, <2>7, <2>8, <2>9 DEF IInv
<1>4. CASE ~(cur < Limit /\ count > 0 /\ slots[cur].dirty)
  <2>1. UNCHANGED <<slots, dirty_count, emmc, faulted>> /\ count' = count /\ cur' \in {cur, cur + 1}
    BY <1>4 DEF FlushNext, request
  <2>2. TypeOK'
    BY <1>1, <1>2, <2>1 DEF IInv, TypeOK, last
  <2> QED
    BY <1>1, <2>1, <2>2, SameCache DEF IInv
<1> QED
  BY <1>3, <1>4

\* nx_emmc_bis_init
LEMMA OpenOK == IInv /\ Open => IInv'
<1> SUFFICES ASSUME IInv, Open PROVE IInv'
  OBVIOUS
<1>1. /\ pc' = "idle" /\ cur' = 0 /\ count' = 0 /\ part' \in Parts
      /\ lookup' = ClearedLookup /\ end_index' = 0 /\ locked' = FALSE
      /\ dirty_count' = 0 /\ filled' = FALSE /\ carried' = TRUE
      /\ UNCHANGED <<prev_cluster, prev_sector, tweak, got, faulted, astray>>
  BY DEF Open, last
<1>2. slots' \in [Slots -> Slot]
  <2>1. slots \in [Slots -> Slot]
    BY DEF IInv, TypeOK
  <2>2. slots' = [i \in Slots |-> [slots[i] EXCEPT !.fresh = [k \in Offsets |-> FALSE]]]
    BY DEF Open
  <2> QED
    BY <2>1, <2>2 DEF Slot
<1>3. lookup' \in [0 .. Clusters - 1 -> {EMPTY} \cup Slots] /\ \A c \in ClusterNumber : lookup'[c] = EMPTY
  BY <1>1 DEF ClearedLookup, ClusterNumber
<1>4. emmc' \in [Sectors -> BOOLEAN]
  BY DEF Open, IInv, TypeOK
<1>5. DirtySlots(lookup', slots') = {} /\ Mutual(lookup', slots')
  BY <1>3 DEF DirtySlots, Mutual, Slots, EMPTY
<1>6. Cardinality(DirtySlots(lookup', slots')) = 0
  BY <1>5, FS_EmptySet
<1>7. Counted' /\ Unused' /\ Inside' /\ Miss'
  BY <1>1, <1>3, <1>6 DEF Counted, Unused, Inside, Miss
<1>8. 0 \in 0 .. Entries /\ 0 \in Nat
  BY Sizes
<1>9. TypeOK'
  BY <1>1, <1>2, <1>3, <1>4, <1>8 DEF IInv, TypeOK
<1> QED
  BY <1>5, <1>7, <1>9 DEF IInv

-----------------------------------------------------------------------------
\* The theorems

LEMMA NextOK == IInv /\ [Next]_vars => IInv'
<1> SUFFICES ASSUME IInv, [Next]_vars PROVE IInv'
  OBVIOUS
<1>1. CASE UNCHANGED vars
  <2>1. UNCHANGED <<pc, cur, count, emmc, part, lookup, slots, end_index, filled, dirty_count,
                    locked, prev_cluster, prev_sector, tweak, got, faulted, astray, carried>>
    BY <1>1 DEF vars, request, cache, last, history
  <2>2. TypeOK' /\ Inside' /\ Unused'
    BY <2>1 DEF IInv, TypeOK, Inside, Unused
  <2>3. Miss'
    BY <2>1 DEF IInv, Miss, entry, cluster
  <2>4. Counted' /\ Mutual(lookup', slots')
    BY <2>1 DEF IInv, Counted
  <2> QED
    BY <2>2, <2>3, <2>4 DEF IInv
<1>2. CASE Request("read") \/ Request("write")
  BY <1>2, RequestOK
<1> QED
  BY <1>1, <1>2, WriteHitOK, WriteMissOK, ReadHitOK, ReadMissOK, EvictOK, FillOK,
     DirectReadOK, DirectReadFailsOK, OutsideOK, FlushNextOK, OpenOK DEF Next

THEOREM Invariance == Spec => []IInv
  BY InitOK, NextOK, PTL DEF Spec

\* nx_emmc_bis.c stays well typed for every size of partition and cache: the index
\* never leaves the cache, and dirty_cluster_count never goes below 0.
THEOREM BisTypeCorrect == Spec => []TypeOK
<1>1. IInv => TypeOK
  BY DEF IInv
<1> QED
  BY <1>1, Invariance, PTL

\* _nx_emmc_bis_flush_cluster: the slot that the table has for the cluster of a slot is
\* that slot, through evictions and failed transfers.
THEOREM AlwaysMutual == Spec => []LookupIsMutual
<1>1. IInv => LookupIsMutual
  BY DEF IInv, Mutual, LookupIsMutual, Reached, ClusterNumber
<1> QED
  BY <1>1, Invariance, PTL

\* nx_emmc_bis_finalize: the count that ends its loop covers every dirty slot, and is
\* exact until a transfer fails.
THEOREM AlwaysCounted == Spec => []DirtyIsCounted
<1>1. IInv => DirtyIsCounted
  <2>1. DirtySlots(lookup, slots) = {i \in Slots : Reached(i) /\ slots[i].dirty}
    BY DEF DirtySlots, Reached, ClusterNumber
  <2> QED
    BY <2>1 DEF IInv, Counted, DirtyIsCounted
<1> QED
  BY <1>1, Invariance, PTL

-----------------------------------------------------------------------------
Trusted == ~faulted /\ ~astray

\* A request does not go over the end of a cluster it starts inside of.
Aligned ==
  pc \in {"read", "write", "evict", "fill"} =>
    IndexIn(cur) = 0 \/ IndexIn(cur) + count <= PerCluster

\* The slots below the index, and after a roll over all, are reached.
Used ==
  ~faulted => \A i \in Slots : (filled \/ i < end_index) => \E c \in ClusterNumber : lookup[c] = i

\* Sector s has its bytes on the eMMC or in the dirty slot of its cluster.
Kept(s) ==
  \/ emmc[s]
  \/ LET i == lookup[ClusterOf(s)]
     IN  /\ i # EMPTY /\ slots[i].cluster = ClusterOf(s)
         /\ slots[i].dirty /\ slots[i].fresh[IndexIn(s)]

\* The slot of a cluster has its bytes, from the fill to the eviction.
Copied ==
  \A c \in ClusterNumber :
    (lookup[c] # EMPTY /\ slots[lookup[c]].cluster = c /\ ~(pc = "fill" /\ lookup[c] = end_index))
      => \A k \in Offsets : slots[lookup[c]].fresh[k]

\* The slot that is filled is that of the cluster, and clean.
Filling ==
  pc = "fill" => /\ lookup[cluster] = end_index /\ slots[end_index].cluster = cluster
                 /\ ~slots[end_index].dirty

\* The saved tweak is the one for the sector behind the last block read, unless that
\* cluster is in the cache.
TweakKnown ==
  ~carried /\ prev_cluster # -1 =>
    /\ ClusterOf(prev_sector) = prev_cluster
    /\ \/ lookup[prev_cluster] # EMPTY
       \/ tweak = Position(part, prev_cluster, IndexIn(prev_sector) + 1)

\* The finalize pass has left no dirty slot behind, and its count is that of the cache.
Passed ==
  pc = "flush" =>
    /\ count = dirty_count
    /\ \A i \in Slots : i < cur /\ (\E c \in ClusterNumber : lookup[c] = i) => ~slots[i].dirty

Clean == pc = "finalized" => \A s \in Sectors : emmc[s]

AllKept == \A s \in Sectors : Kept(s)

\* The inductive invariant.
TInv ==
  /\ IInv /\ Aligned /\ Used /\ Filling
  /\ Trusted => AllKept /\ Copied /\ TweakKnown /\ Passed /\ Clean /\ got

-----------------------------------------------------------------------------
\* Sectors and blocks

LEMMA Split ==
  ASSUME NEW c \in ClusterNumber, NEW k \in Offsets
  PROVE  ClusterOf(First(c) + k) = c /\ IndexIn(First(c) + k) = k
<1> DEFINE x == c * PerCluster + k
           q == x \div PerCluster
           r == x % PerCluster
<1>1. c \in Nat /\ k \in 0 .. (PerCluster - 1) /\ PerCluster \in Nat /\ PerCluster > 0
  BY Sizes DEF ClusterNumber, Offsets
<1>2. x \in Nat
  BY <1>1
<1>3. q \in Int /\ r \in 0 .. (PerCluster - 1) /\ x = PerCluster * q + r
  BY <1>1, <1>2
<1>4. PerCluster * q + r = c * PerCluster + k
  BY <1>3
<1> HIDE DEF x, q, r
<1>5. ASSUME q >= c + 1 PROVE FALSE
  <2>1. PerCluster * q >= PerCluster * (c + 1)
    BY <1>1, <1>3, <1>5
  <2>2. PerCluster * (c + 1) = c * PerCluster + PerCluster
    BY <1>1
  <2>3. PerCluster * q \in Int /\ c * PerCluster \in Int
    BY <1>1, <1>3
  <2> QED
    BY <1>1, <1>3, <1>4, <2>1, <2>2, <2>3
<1>6. ASSUME q + 1 <= c PROVE FALSE
  <2>1. PerCluster * (q + 1) <= PerCluster * c
    BY <1>1, <1>3, <1>6
  <2>2. PerCluster * (q + 1) = PerCluster * q + PerCluster /\ PerCluster * c = c * PerCluster
    BY <1>1, <1>3
  <2>3. PerCluster * q \in Int /\ c * PerCluster \in Int
    BY <1>1, <1>3
  <2> QED
    BY <1>1, <1>3, <1>4, <2>1, <2>2, <2>3
<1>7. q = c
  BY <1>1, <1>3, <1>5, <1>6
<1>8. r = k
  <2>1. PerCluster * c = c * PerCluster /\ PerCluster * c \in Int
    BY <1>1
  <2> QED
    BY <1>1, <1>3, <1>4, <1>7, <2>1
<1> QED
  BY <1>7, <1>8 DEF ClusterOf, IndexIn, First, x, q, r

LEMMA Join ==
  ASSUME NEW s \in Sectors
  PROVE  s = First(ClusterOf(s)) + IndexIn(s)
<1>1. s \in Nat /\ PerCluster \in Nat /\ PerCluster > 0
  BY SectorRange, Sizes
<1>2. s = PerCluster * (s \div PerCluster) + (s % PerCluster) /\ s \div PerCluster \in Int
  BY <1>1
<1>3. PerCluster * (s \div PerCluster) = (s \div PerCluster) * PerCluster
  BY <1>1, <1>2
<1> QED
  BY <1>2, <1>3 DEF First, ClusterOf, IndexIn

\* n sectors behind s, in the same cluster.
LEMMA Along ==
  ASSUME NEW s \in Sectors, NEW n \in Nat, IndexIn(s) + n < PerCluster
  PROVE  ClusterOf(s + n) = ClusterOf(s) /\ IndexIn(s + n) = IndexIn(s) + n
<1>1. ClusterOf(s) \in ClusterNumber /\ IndexIn(s) \in Offsets
  BY Geometry
<1>2. IndexIn(s) + n \in Offsets
  BY <1>1, Sizes DEF Offsets
<1>3. s + n = First(ClusterOf(s)) + (IndexIn(s) + n)
  <2>1. First(ClusterOf(s)) \in Int
    BY <1>1, Sizes DEF First, ClusterNumber
  <2> QED
    BY <1>1, <2>1, Join DEF Offsets
<1> QED
  BY <1>1, <1>2, <1>3, Split

\* The next cluster.
LEMMA NextCluster ==
  ASSUME NEW s \in Sectors, s + PerCluster \in Sectors, IndexIn(s) = 0
  PROVE  IndexIn(s + PerCluster) = 0
<1>1. /\ ClusterOf(s) \in ClusterNumber /\ ClusterOf(s + PerCluster) \in ClusterNumber
      /\ IndexIn(s + PerCluster) \in Offsets
  BY Geometry
<1>2. PICK c \in Nat : c = ClusterOf(s)
  BY <1>1 DEF ClusterNumber
<1>3. s = c * PerCluster
  BY <1>1, <1>2, Join, Sizes DEF First
<1>4. (c + 1) * PerCluster = s + PerCluster
  BY <1>2, <1>3, Sizes
<1>5. (s + PerCluster) % PerCluster = 0
  <2> DEFINE x == (c + 1) * PerCluster
             q == x \div PerCluster
             r == x % PerCluster
  <2>1. PerCluster \in Nat /\ PerCluster > 0 /\ x \in Nat
    BY <1>2, Sizes
  <2>2. q \in Int /\ r \in 0 .. (PerCluster - 1) /\ x = PerCluster * q + r
    BY <2>1
  <2>3. PerCluster * q + r = (c + 1) * PerCluster
    BY <2>2
  <2> HIDE DEF x, q, r
  <2>4. PerCluster * q \in Int /\ PerCluster * c \in Int /\ (c + 1) * PerCluster = PerCluster * c + PerCluster
    BY <1>2, <2>1, <2>2
  <2>5. ASSUME q >= c + 2 PROVE FALSE
    <3>1. PICK m \in Nat : m = c + 2
      BY <1>2
    <3>2. PerCluster * q >= PerCluster * m
      BY <2>1, <2>2, <2>5, <3>1
    <3>3. PerCluster * m = PerCluster * c + 2 * PerCluster
      BY <1>2, <2>1, <3>1
    <3> QED
      BY <2>1, <2>2, <2>3, <2>4, <3>2, <3>3
  <2>6. ASSUME q <= c PROVE FALSE
    <3>1. PerCluster * q <= PerCluster * c
      BY <1>2, <2>1, <2>2, <2>6
    <3> QED
      BY <2>1, <2>2, <2>3, <2>4, <3>1
  <2>7. q = c + 1
    BY <1>2, <2>2, <2>5, <2>6
  <2>8. PerCluster * (c + 1) = (c + 1) * PerCluster
    BY <1>2, <2>1
  <2>9. r = 0
    BY <2>1, <2>2, <2>3, <2>4, <2>7, <2>8
  <2> QED
    BY <1>4, <2>9 DEF x, r
<1> QED
  BY <1>5 DEF IndexIn

\* A block stays in the cluster that it begins in.
LEMMA BlockSectors ==
  ASSUME IInv, Aligned, pc \in {"read", "write", "evict", "fill"}
  PROVE  /\ IndexIn(cur) + Block <= PerCluster
         /\ \A s \in InBlock : ClusterOf(s) = cluster /\ IndexIn(s) = IndexIn(cur) + (s - cur)
<1>1. /\ IndexIn(cur) \in Offsets /\ Block \in 1 .. PerCluster /\ cur \in Sectors /\ cur \in Nat
      /\ count \in Nat
  BY BlockPlace DEF IInv, TypeOK
<1>2. IndexIn(cur) = 0 \/ IndexIn(cur) + count <= PerCluster
  BY DEF Aligned
<1>3. Block <= count /\ Block <= PerCluster
  BY <1>1, Sizes DEF Block
<1>4. IndexIn(cur) \in Nat
  BY <1>1 DEF Offsets
<1>5. IndexIn(cur) + Block <= PerCluster
  BY <1>1, <1>2, <1>3, <1>4, Sizes
<1>6. ASSUME NEW s \in InBlock
      PROVE  ClusterOf(s) = cluster /\ IndexIn(s) = IndexIn(cur) + (s - cur)
  <2>1. s \in Nat /\ s >= cur /\ s < cur + Block
    BY <1>1, <1>6, Sizes DEF InBlock
  <2>2. PICK n \in Nat : n = s - cur
    BY <1>1, <2>1
  <2>3. IndexIn(cur) + n < PerCluster /\ s = cur + n
    BY <1>1, <1>4, <1>5, <2>1, <2>2, Sizes
  <2> QED
    BY <1>1, <2>2, <2>3, Along DEF cluster
<1> QED
  BY <1>5, <1>6

\* The next block begins with a cluster.
LEMMA AlignedNext ==
  ASSUME IInv, Aligned, pc \in {"read", "write", "evict", "fill"},
         count' = count - Block, cur' = IF count = Block THEN 0 ELSE cur + Block
  PROVE  count = Block \/ IndexIn(cur') = 0
<1> SUFFICES ASSUME count # Block PROVE IndexIn(cur') = 0
  OBVIOUS
<1>1. count \in Nat /\ cur \in Nat /\ count > 0 /\ cur \in Sectors /\ cur + count - 1 \in Sectors
  BY DEF IInv, TypeOK, Inside
<1>2. Block = PerCluster /\ count > PerCluster
  BY <1>1, Sizes DEF Block
<1>3. IndexIn(cur) = 0
  <2>1. IndexIn(cur) \in Nat
    BY <1>1, Geometry DEF Offsets
  <2> QED
    BY <1>1, <1>2, <2>1, Sizes DEF Aligned
<1>4. cur + PerCluster \in Sectors
  BY <1>1, <1>2, SectorRange, Sizes
<1> QED
  BY <1>1, <1>2, <1>3, <1>4, NextCluster

-----------------------------------------------------------------------------
\* One lemma per action

LEMMA InitT == Init => TInv
<1> SUFFICES ASSUME Init PROVE TInv
  OBVIOUS
<1>1. IInv
  BY InitOK
<1>2. Aligned /\ Filling
  BY DEF Init, Aligned, Filling
<1>3. \A c \in ClusterNumber : lookup[c] = EMPTY
  BY DEF Init, ClearedLookup, ClusterNumber
<1>4. Used
  BY Sizes DEF Init, Used, Slots
<1>5. AllKept
  BY DEF Init, AllKept, Kept
<1>6. Copied
  BY <1>3 DEF Copied
<1>7. TweakKnown /\ Passed /\ Clean /\ got
  BY DEF Init, TweakKnown, Passed, Clean
<1> QED
  BY <1>1, <1>2, <1>4, <1>5, <1>6, <1>7 DEF TInv

\* An action that leaves partition, cache and tweak as they are.
LEMMA SameBytes ==
  ASSUME TInv,
         UNCHANGED <<emmc, part, lookup, slots, end_index, filled, dirty_count, got,
                     prev_cluster, prev_sector, tweak, faulted, astray, carried>>,
         pc # "fill", pc' # "fill"
  PROVE  Used' /\ Filling' /\ (Trusted' => Trusted /\ AllKept' /\ Copied' /\ TweakKnown' /\ got')
<1>1. Used' /\ Filling'
  BY DEF TInv, Used, Filling
<1> SUFFICES ASSUME Trusted' PROVE Trusted /\ AllKept' /\ Copied' /\ TweakKnown' /\ got'
  BY <1>1
<1>2. Trusted /\ AllKept /\ Copied /\ TweakKnown /\ got
  BY DEF TInv, Trusted
<1>3. AllKept'
  BY <1>2 DEF AllKept, Kept
<1>4. Copied'
  BY <1>2 DEF Copied
<1>5. TweakKnown'
  BY <1>2 DEF TweakKnown
<1> QED
  BY <1>2, <1>3, <1>4, <1>5

\* nx_emmc_bis_read, nx_emmc_bis_write
LEMMA RequestT ==
  ASSUME TInv, NEW kind \in {"read", "write"}, Request(kind)
  PROVE  TInv'
<1>1. IInv'
  BY RequestOK DEF TInv
<1>2. /\ UNCHANGED <<emmc, part, lookup, slots, end_index, filled, dirty_count, got,
                     prev_cluster, prev_sector, tweak, faulted, astray, carried>>
      /\ pc = "idle" /\ pc' = kind
  BY DEF Request, cache, last, history
<1>3. Aligned'
  BY DEF Request, Fits, Aligned
<1>4. Passed' /\ Clean'
  BY <1>2 DEF Passed, Clean
<1> QED
  BY <1>1, <1>2, <1>3, <1>4, SameBytes DEF TInv

\* nx_emmc_bis_cache_lock
LEMMA CacheLockT == TInv /\ CacheLock => TInv'
<1> SUFFICES ASSUME TInv, CacheLock PROVE TInv'
  OBVIOUS
<1>1. IInv'
  BY OutsideOK DEF TInv
<1>2. /\ UNCHANGED <<emmc, part, lookup, slots, end_index, filled, dirty_count, got,
                     prev_cluster, prev_sector, tweak, faulted, astray, carried>>
      /\ pc = "idle" /\ pc' = "idle"
  BY DEF CacheLock, cache, last, history
<1>3. Aligned' /\ Passed' /\ Clean'
  BY <1>2 DEF Aligned, Passed, Clean
<1> QED
  BY <1>1, <1>2, <1>3, SameBytes DEF TInv

\* The partition is used on.
LEMMA ResumeT == TInv /\ Resume => TInv'
<1> SUFFICES ASSUME TInv, Resume PROVE TInv'
  OBVIOUS
<1>1. IInv'
  BY OutsideOK DEF TInv
<1>2. /\ UNCHANGED <<emmc, part, lookup, slots, end_index, filled, dirty_count, got,
                     prev_cluster, prev_sector, tweak, faulted, astray, carried>>
      /\ pc = "finalized" /\ pc' = "idle"
  BY DEF Resume, cache, last, history
<1>3. Aligned' /\ Passed' /\ Clean'
  BY <1>2 DEF Aligned, Passed, Clean
<1> QED
  BY <1>1, <1>2, <1>3, SameBytes DEF TInv

\* The sectors of another cluster are not in the block.
LEMMA OutsideBlock ==
  ASSUME IInv, Aligned, pc \in {"read", "write", "evict", "fill"},
         NEW c \in ClusterNumber, c # cluster, NEW k \in Offsets
  PROVE  First(c) + k \notin InBlock
BY BlockSectors, Split

\* A write to the slot of the cluster.
LEMMA WriteHitT == TInv /\ WriteHit => TInv'
<1> SUFFICES ASSUME TInv, WriteHit PROVE TInv'
  OBVIOUS
<1>1. /\ cluster \in ClusterNumber /\ entry \in Slots /\ lookup[cluster] = entry /\ EMPTY \notin Slots
      /\ slots \in [Slots -> Slot] /\ IInv /\ Aligned /\ pc = "write"
      /\ lookup \in [ClusterNumber -> {EMPTY} \cup Slots]
  BY BlockPlace DEF TInv, WriteHit, entry, IInv, TypeOK, ClusterNumber, EMPTY, Slots
<1>2. IInv'
  BY <1>1, WriteHitOK
<1>3. /\ UNCHANGED <<lookup, end_index, filled, prev_cluster, prev_sector, tweak, got, faulted,
                     carried, part>>
      /\ pc' = "idle" \/ (pc' = "write" /\ count # Block)
      /\ count' = count - Block /\ cur' = IF count = Block THEN 0 ELSE cur + Block
  <2>1. UNCHANGED <<lookup, end_index, filled, last, got, faulted, carried, part>> /\ NextBlock
    BY DEF WriteHit
  <2> QED
    BY <1>1, <2>1 DEF NextBlock, last
<1>4. Aligned'
  BY <1>1, <1>3, AlignedNext DEF Aligned
<1>5. Used' /\ Filling'
  BY <1>3 DEF TInv, Used, Filling
<1> SUFFICES ASSUME Trusted'
             PROVE  AllKept' /\ Copied' /\ TweakKnown' /\ Passed' /\ Clean' /\ got'
  BY <1>2, <1>4, <1>5 DEF TInv
<1>6. ~Dangling /\ Trusted
  <2>1. astray' = (astray \/ Dangling)
    BY DEF WriteHit
  <2>2. ~astray' /\ ~faulted
    BY <1>3 DEF Trusted
  <2> QED
    BY <2>1, <2>2 DEF Trusted
<1>7. AllKept /\ Copied /\ TweakKnown /\ got /\ slots[entry].cluster = cluster
  BY <1>1, <1>6 DEF TInv, Dangling
<1>8. \A i \in Slots :
        /\ slots'[i].cluster = slots[i].cluster
        /\ slots'[i].dirty = IF i = entry THEN TRUE ELSE slots[i].dirty
        /\ \A k \in Offsets :
             slots'[i].fresh[k] = IF i = entry THEN IF First(cluster) + k \in InBlock THEN TRUE
                                                  ELSE slots[i].fresh[k]
                                  ELSE slots[i].fresh[k] /\ First(slots[i].cluster) + k \notin InBlock
  <2>1. slots' = [Outdated(InBlock) EXCEPT ![entry] = WrittenSlot]
    BY DEF WriteHit
  <2>2. /\ WrittenSlot.cluster = slots[entry].cluster /\ WrittenSlot.dirty = TRUE
        /\ \A k \in Offsets : WrittenSlot.fresh[k] = IF First(cluster) + k \in InBlock THEN TRUE
                                                      ELSE slots[entry].fresh[k]
    BY <1>6 DEF WrittenSlot
  <2>3. /\ DOMAIN Outdated(InBlock) = Slots
        /\ \A i \in Slots :
             /\ Outdated(InBlock)[i].cluster = slots[i].cluster
             /\ Outdated(InBlock)[i].dirty = slots[i].dirty
             /\ \A k \in Offsets : Outdated(InBlock)[i].fresh[k] =
                  (slots[i].fresh[k] /\ First(slots[i].cluster) + k \notin InBlock)
    BY <1>1 DEF Outdated, Slot
  <2>4. slots'[entry] = WrittenSlot /\ \A i \in Slots : i # entry => slots'[i] = Outdated(InBlock)[i]
    BY <1>1, <2>1, <2>3
  <2> SUFFICES ASSUME NEW i \in Slots
               PROVE  /\ slots'[i].cluster = slots[i].cluster
                      /\ slots'[i].dirty = IF i = entry THEN TRUE ELSE slots[i].dirty
                      /\ \A k \in Offsets :
                           slots'[i].fresh[k] = IF i = entry THEN IF First(cluster) + k \in InBlock THEN TRUE
                                                                ELSE slots[i].fresh[k]
                                                ELSE slots[i].fresh[k] /\ First(slots[i].cluster) + k \notin InBlock
    OBVIOUS
  <2>5. CASE i = entry
    BY <2>2, <2>4, <2>5
  <2>6. CASE i # entry
    BY <2>3, <2>4, <2>6
  <2> QED
    BY <2>5, <2>6
<1>9. Copied'
  <2> SUFFICES ASSUME NEW c \in ClusterNumber, lookup[c] # EMPTY, slots'[lookup[c]].cluster = c,
                      NEW k \in Offsets
               PROVE  slots'[lookup[c]].fresh[k]
    BY <1>3 DEF Copied
  <2>1. lookup[c] \in Slots
    BY <1>1
  <2>2. slots[lookup[c]].cluster = c /\ slots[lookup[c]].fresh[k]
    BY <1>1, <1>7, <1>8, <2>1 DEF Copied
  <2>3. CASE lookup[c] = entry
    BY <1>8, <2>1, <2>2, <2>3
  <2>4. CASE lookup[c] # entry
    <3>1. First(c) + k \notin InBlock
      BY <1>1, <2>4, OutsideBlock
    <3> QED
      BY <1>8, <2>1, <2>2, <2>4, <3>1
  <2> QED
    BY <2>3, <2>4
<1>10. AllKept'
  <2> SUFFICES ASSUME NEW s \in Sectors PROVE Kept(s)'
    BY DEF AllKept
  <2> DEFINE c == ClusterOf(s)
             i == lookup[c]
  <2>1. c \in ClusterNumber /\ IndexIn(s) \in Offsets
    BY Geometry
  <2>2. emmc'[s] = (emmc[s] /\ s \notin InBlock)
    BY DEF WriteHit
  <2>3. CASE c = cluster
    <3>1. i = entry /\ slots'[i].cluster = c /\ slots'[i].dirty
      BY <1>1, <1>7, <1>8, <2>3
    <3>2. slots'[i].fresh[IndexIn(s)]
      BY <1>1, <1>3, <1>9, <2>1, <3>1 DEF Copied
    <3> QED
      BY <1>1, <1>3, <3>1, <3>2 DEF Kept
  <2>4. CASE c # cluster
    <3>1. s \notin InBlock
      BY <1>1, <2>4, BlockSectors
    <3>2. CASE emmc[s]
      BY <2>2, <3>1, <3>2 DEF Kept
    <3>3. CASE ~emmc[s]
      <4>1. i # EMPTY /\ slots[i].cluster = c /\ slots[i].dirty
        BY <1>7, <3>3 DEF AllKept, Kept
      <4>2. i \in Slots
        BY <1>1, <2>1, <4>1
      <4>3. slots'[i].cluster = c /\ slots'[i].dirty
        BY <1>8, <4>1, <4>2
      <4>4. slots'[i].fresh[IndexIn(s)]
        BY <1>3, <1>9, <2>1, <4>1, <4>3 DEF Copied
      <4> QED
        BY <1>3, <4>1, <4>3, <4>4 DEF Kept
    <3> QED
      BY <3>2, <3>3
  <2> QED
    BY <2>3, <2>4
<1>11. TweakKnown' /\ Passed' /\ Clean' /\ got'
  BY <1>3, <1>7 DEF TweakKnown, Passed, Clean
<1> QED
  BY <1>9, <1>10, <1>11

\* A write past the cache.
LEMMA WriteMissT == TInv /\ WriteMiss => TInv'
<1> SUFFICES ASSUME TInv, WriteMiss PROVE TInv'
  OBVIOUS
<1>1. /\ cluster \in ClusterNumber /\ lookup[cluster] = EMPTY /\ EMPTY \notin Slots
      /\ slots \in [Slots -> Slot] /\ IInv /\ Aligned /\ pc = "write" /\ faulted \in BOOLEAN
      /\ lookup \in [ClusterNumber -> {EMPTY} \cup Slots]
  BY BlockPlace DEF TInv, WriteMiss, entry, IInv, TypeOK, ClusterNumber, EMPTY, Slots
<1>2. IInv'
  BY <1>1, WriteMissOK
<1>3. /\ UNCHANGED <<lookup, end_index, filled, prev_cluster, prev_sector, tweak, got, carried, part,
                     astray>>
      /\ \/ pc' = "idle"
         \/ /\ pc' = "write" /\ count # Block
            /\ count' = count - Block /\ cur' = IF count = Block THEN 0 ELSE cur + Block
      /\ ~faulted' => ~faulted /\ emmc' = [s \in Sectors |-> emmc[s] \/ s \in InBlock]
  BY <1>1 DEF WriteMiss, NextBlock, Fail, last
<1>4. Aligned'
  BY <1>1, <1>3, AlignedNext DEF Aligned
<1>5. Used' /\ Filling'
  BY <1>3 DEF TInv, Used, Filling
<1> SUFFICES ASSUME Trusted'
             PROVE  AllKept' /\ Copied' /\ TweakKnown' /\ Passed' /\ Clean' /\ got'
  BY <1>2, <1>4, <1>5 DEF TInv
<1>6. AllKept /\ Copied /\ TweakKnown /\ got
  BY <1>3 DEF TInv, Trusted
<1>7. \A i \in Slots :
        /\ slots'[i].cluster = slots[i].cluster /\ slots'[i].dirty = slots[i].dirty
        /\ \A k \in Offsets : slots'[i].fresh[k] =
             (slots[i].fresh[k] /\ First(slots[i].cluster) + k \notin InBlock)
  BY <1>1 DEF WriteMiss, Outdated, Slot
<1>8. Copied'
  <2> SUFFICES ASSUME NEW c \in ClusterNumber, lookup[c] # EMPTY, slots'[lookup[c]].cluster = c,
                      NEW k \in Offsets
               PROVE  slots'[lookup[c]].fresh[k]
    BY <1>3 DEF Copied
  <2>1. lookup[c] \in Slots
    BY <1>1
  <2>2. slots[lookup[c]].cluster = c /\ slots[lookup[c]].fresh[k]
    BY <1>1, <1>6, <1>7, <2>1 DEF Copied
  <2>3. First(c) + k \notin InBlock
    BY <1>1, OutsideBlock
  <2> QED
    BY <1>7, <2>1, <2>2, <2>3
<1>9. AllKept'
  <2> SUFFICES ASSUME NEW s \in Sectors, ~emmc[s], s \notin InBlock PROVE Kept(s)'
    BY <1>3 DEF AllKept, Kept, Trusted
  <2> DEFINE c == ClusterOf(s)
             i == lookup[c]
  <2>1. c \in ClusterNumber /\ IndexIn(s) \in Offsets
    BY Geometry
  <2>2. i # EMPTY /\ slots[i].cluster = c /\ slots[i].dirty
    BY <1>6 DEF AllKept, Kept
  <2>3. i \in Slots
    BY <1>1, <2>1, <2>2
  <2>4. slots'[i].cluster = c /\ slots'[i].dirty
    BY <1>7, <2>2, <2>3
  <2>5. slots'[i].fresh[IndexIn(s)]
    BY <1>3, <1>8, <2>1, <2>2, <2>4 DEF Copied
  <2> QED
    BY <1>3, <2>2, <2>4, <2>5 DEF Kept
<1>10. TweakKnown' /\ Passed' /\ Clean' /\ got'
  BY <1>3, <1>6 DEF TweakKnown, Passed, Clean
<1> QED
  BY <1>8, <1>9, <1>10

\* A read from the slot of the cluster.
LEMMA ReadHitT == TInv /\ ReadHit => TInv'
<1> SUFFICES ASSUME TInv, ReadHit PROVE TInv'
  OBVIOUS
<1>1. /\ cluster \in ClusterNumber /\ entry \in Slots /\ lookup[cluster] = entry /\ EMPTY \notin Slots
      /\ IInv /\ Aligned /\ pc = "read" /\ cur \in Nat /\ Block \in 1 .. PerCluster
  BY BlockPlace DEF TInv, ReadHit, entry, IInv, TypeOK, EMPTY, Slots
<1>2. IInv'
  BY <1>1, ReadHitOK
<1>3. /\ UNCHANGED <<emmc, part, lookup, slots, end_index, filled, dirty_count, tweak, faulted>>
      /\ pc' = "idle" \/ (pc' = "read" /\ count # Block)
      /\ count' = count - Block /\ cur' = IF count = Block THEN 0 ELSE cur + Block
      /\ astray' = (astray \/ Dangling)
      /\ prev_sector' = cur + Block - 1 /\ prev_cluster' = cluster
      /\ got' = (~Dangling /\ \A s \in InBlock : slots[entry].fresh[IndexIn(s)])
  BY <1>1 DEF ReadHit, NextBlock, cache
<1>4. Aligned'
  BY <1>1, <1>3, AlignedNext DEF Aligned
<1>5. Used' /\ Filling'
  BY <1>3 DEF TInv, Used, Filling
<1> SUFFICES ASSUME Trusted'
             PROVE  AllKept' /\ Copied' /\ TweakKnown' /\ Passed' /\ Clean' /\ got'
  BY <1>2, <1>4, <1>5 DEF TInv
<1>6. ~Dangling /\ Trusted
  BY <1>3 DEF Trusted
<1>7. AllKept /\ Copied /\ slots[entry].cluster = cluster
  BY <1>1, <1>6 DEF TInv, Dangling
<1>8. got'
  <2>1. \A s \in InBlock : IndexIn(s) \in Offsets
    BY <1>1, BlockPlace, Geometry
  <2>2. \A k \in Offsets : slots[entry].fresh[k]
    BY <1>1, <1>7 DEF Copied
  <2> QED
    BY <1>3, <1>6, <2>1, <2>2
<1>9. AllKept' /\ Copied'
  <2>1. AllKept'
    BY <1>3, <1>7 DEF AllKept, Kept
  <2>2. Copied'
    BY <1>1, <1>3, <1>7 DEF Copied
  <2> QED
    BY <2>1, <2>2
<1>10. TweakKnown'
  <2>1. cur + Block - 1 \in InBlock
    BY <1>1, Sizes DEF InBlock
  <2>2. ClusterOf(cur + Block - 1) = cluster
    BY <1>1, <2>1, BlockSectors
  <2>3. lookup'[prev_cluster'] # EMPTY
    BY <1>1, <1>3
  <2> QED
    BY <1>3, <2>2, <2>3 DEF TweakKnown
<1>11. Passed' /\ Clean'
  BY <1>3 DEF Passed, Clean
<1> QED
  BY <1>8, <1>9, <1>10, <1>11

\* The index rolls over.
LEMMA ReadMissT == TInv /\ ReadMiss => TInv'
<1> SUFFICES ASSUME TInv, ReadMiss PROVE TInv'
  OBVIOUS
<1>1. IInv'
  BY ReadMissOK DEF TInv
<1>2. /\ UNCHANGED <<cur, count, emmc, part, lookup, slots, dirty_count, got,
                     prev_cluster, prev_sector, tweak, faulted, astray, carried>>
      /\ pc = "read" /\ pc' = "evict"
  BY DEF ReadMiss, request, last, history
<1>3. Aligned' /\ Filling' /\ Passed' /\ Clean'
  BY <1>2 DEF TInv, Aligned, Filling, Passed, Clean
<1>4. Used'
  <2>1. end_index \in Int /\ Entries \in Int /\ \A i \in Slots : i \in Int /\ i < Entries
    BY Sizes DEF TInv, IInv, TypeOK, Slots
  <2>2. /\ end_index' = IF end_index >= Entries THEN 0 ELSE end_index
        /\ filled' = (filled \/ end_index >= Entries)
    BY DEF ReadMiss
  <2>3. \A i \in Slots : (filled' \/ i < end_index') => (filled \/ i < end_index)
    <3>1. CASE end_index >= Entries
      BY <2>1, <3>1
    <3>2. CASE ~(end_index >= Entries)
      BY <2>2, <3>2
    <3> QED
      BY <3>1, <3>2
  <2> QED
    BY <1>2, <2>3 DEF TInv, Used
<1> SUFFICES ASSUME Trusted' PROVE AllKept' /\ Copied' /\ TweakKnown' /\ got'
  BY <1>1, <1>3, <1>4 DEF TInv
<1>5. AllKept /\ Copied /\ TweakKnown /\ got
  BY <1>2 DEF TInv, Trusted
<1>6. AllKept'
  BY <1>2, <1>5 DEF AllKept, Kept
<1>7. Copied'
  BY <1>2, <1>5 DEF Copied
<1>8. TweakKnown'
  BY <1>2, <1>5 DEF TweakKnown
<1> QED
  BY <1>2, <1>5, <1>6, <1>7, <1>8

\* The bytes of the cluster arrive.
LEMMA FillT == TInv /\ Fill => TInv'
<1> SUFFICES ASSUME TInv, Fill PROVE TInv'
  OBVIOUS
<1>1. /\ cluster \in ClusterNumber /\ end_index \in Slots /\ slots \in [Slots -> Slot]
      /\ IInv /\ Aligned /\ pc = "fill" /\ end_index \in Nat /\ EMPTY \notin Slots
      /\ lookup[cluster] = end_index /\ slots[end_index].cluster = cluster
      /\ ~slots[end_index].dirty /\ lookup \in [ClusterNumber -> {EMPTY} \cup Slots]
  <2>1. IInv /\ Aligned /\ pc = "fill"
    BY DEF TInv, Fill
  <2>2. cluster \in ClusterNumber /\ end_index < Entries
    BY <2>1, BlockPlace DEF IInv, Miss
  <2>3. end_index \in 0 .. Entries /\ slots \in [Slots -> Slot]
        /\ lookup \in [ClusterNumber -> {EMPTY} \cup Slots]
    BY <2>1 DEF IInv, TypeOK, ClusterNumber
  <2>4. end_index \in Slots /\ end_index \in Nat /\ EMPTY \notin Slots
    BY <2>2, <2>3, Sizes DEF Slots, EMPTY
  <2> QED
    BY <2>1, <2>2, <2>3, <2>4 DEF TInv, Filling
<1>2. IInv'
  BY <1>1, FillOK
<1>3. /\ UNCHANGED <<emmc, part, lookup, filled, dirty_count, prev_cluster, prev_sector, tweak,
                     astray, carried>>
      /\ pc' \in {"idle", "read"}
  BY DEF Fill, Fail, last
<1>4. CASE faulted'
  <2>1. \/ pc' = "idle"
        \/ /\ pc' = "read" /\ count # Block
           /\ count' = count - Block /\ cur' = IF count = Block THEN 0 ELSE cur + Block
    BY DEF Fill, Fail
  <2>2. Aligned'
    BY <1>1, <2>1, AlignedNext DEF Aligned
  <2>3. Filling' /\ Used' /\ ~Trusted'
    BY <1>3, <1>4 DEF Filling, Used, Trusted
  <2> QED
    BY <1>2, <2>2, <2>3 DEF TInv
<1>5. CASE ~faulted'
  <2>1. /\ slots' = [slots EXCEPT ![end_index] =
                       [slots[end_index] EXCEPT !.fresh = [k \in Offsets |-> emmc[First(cluster) + k]]]]
        /\ got' = \A s \in InBlock : emmc[s]
        /\ end_index' = end_index + 1
        /\ count' = count - Block /\ cur' = IF count = Block THEN 0 ELSE cur + Block
        /\ pc' = "idle" \/ (pc' = "read" /\ count # Block)
        /\ faulted' = faulted
    BY <1>5 DEF Fill, Fail
  <2>2. Aligned'
    BY <1>1, <2>1, AlignedNext DEF Aligned
  <2>3. Filling'
    BY <1>3 DEF Filling
  <2>4. Used'
    <3> SUFFICES ASSUME NEW i \in Slots, filled \/ i < end_index + 1
                 PROVE  \E c \in ClusterNumber : lookup[c] = i
      BY <1>3, <2>1 DEF Used
    <3>1. CASE i = end_index
      BY <1>1, <3>1
    <3>2. CASE i # end_index
      <4>1. i \in Int
        BY DEF Slots
      <4>2. filled \/ i < end_index
        BY <1>1, <3>2, <4>1
      <4> QED
        BY <1>5, <2>1, <4>2 DEF TInv, Used
    <3> QED
      BY <3>1, <3>2
  <2> SUFFICES ASSUME Trusted'
               PROVE  AllKept' /\ Copied' /\ TweakKnown' /\ Passed' /\ Clean' /\ got'
    BY <1>2, <2>2, <2>3, <2>4 DEF TInv
  <2>5. AllKept /\ Copied /\ TweakKnown
    BY <1>3, <2>1 DEF TInv, Trusted
  <2>6. \A s \in Sectors : ClusterOf(s) = cluster => emmc[s]
    BY <1>1, <2>5 DEF AllKept, Kept
  <2>7. \A k \in Offsets : emmc[First(cluster) + k]
    BY <1>1, <2>6, FirstSector, Split
  <2>8. /\ slots'[end_index].cluster = cluster /\ \A k \in Offsets : slots'[end_index].fresh[k]
        /\ \A i \in Slots : i # end_index => slots'[i] = slots[i]
    BY <1>1, <2>1, <2>7 DEF Slot
  <2>9. Copied'
    <3> SUFFICES ASSUME NEW c \in ClusterNumber, lookup[c] # EMPTY, slots'[lookup[c]].cluster = c
                 PROVE  \A k \in Offsets : slots'[lookup[c]].fresh[k]
      BY <1>3 DEF Copied
    <3>1. lookup[c] \in Slots
      BY <1>1
    <3>2. CASE lookup[c] # end_index
      BY <2>5, <2>8, <3>1, <3>2 DEF Copied
    <3> QED
      BY <2>8, <3>2
  <2>10. AllKept'
    <3> SUFFICES ASSUME NEW s \in Sectors, ~emmc[s] PROVE Kept(s)'
      BY <1>3 DEF AllKept, Kept
    <3> DEFINE i == lookup[ClusterOf(s)]
    <3>1. /\ i # EMPTY /\ slots[i].cluster = ClusterOf(s) /\ slots[i].dirty
          /\ slots[i].fresh[IndexIn(s)]
      BY <2>5 DEF AllKept, Kept
    <3>2. i \in Slots /\ i # end_index
      BY <1>1, <3>1, Geometry
    <3>3. slots'[i] = slots[i]
      BY <2>8, <3>2
    <3> QED
      BY <1>3, <3>1, <3>3 DEF Kept
  <2>11. got'
    BY <1>1, <2>1, <2>6, BlockSectors, BlockPlace
  <2>12. TweakKnown' /\ Passed' /\ Clean'
    BY <1>3, <2>5 DEF TweakKnown, Passed, Clean
  <2> QED
    BY <2>9, <2>10, <2>11, <2>12
<1> QED
  BY <1>4, <1>5

\* _nx_emmc_bis_flush_cluster of a slot that the table reaches.
LEMMA FlushedWhole ==
  ASSUME IInv, Copied, pc # "fill", NEW i \in Slots, FlushCluster(i, TRUE),
         \E c \in ClusterNumber : lookup[c] = i
  PROVE  /\ lookup[slots[i].cluster] = i /\ slots[i].cluster \in ClusterNumber
         /\ FlushedSlots(i, TRUE) = [slots EXCEPT ![i] = [slots[i] EXCEPT !.dirty = FALSE]]
         /\ \A s \in Sectors : emmc[s] \/ ClusterOf(s) = slots[i].cluster => emmc'[s]
         /\ dirty_count' = IF slots[i].dirty THEN dirty_count - 1 ELSE dirty_count
         /\ faulted' = faulted
<1>1. /\ slots \in [Slots -> Slot] /\ slots[i].cluster \in ClusterNumber /\ EMPTY \notin Slots
      /\ dirty_count \in Nat /\ faulted \in BOOLEAN
  BY DEF IInv, TypeOK, Slot, ClusterNumber, Slots, EMPTY
<1>2. lookup[slots[i].cluster] = i /\ i # EMPTY
  BY <1>1 DEF IInv, Mutual
<1>3. FlushedSlots(i, TRUE) = [slots EXCEPT ![i] = [slots[i] EXCEPT !.dirty = FALSE]]
  BY <1>2 DEF FlushedSlots
<1>4. /\ emmc' = WrittenBack(i) /\ faulted' = faulted
      /\ dirty_count' = IF slots[i].dirty THEN dirty_count - 1 ELSE dirty_count + 1 - 1
  BY <1>1, <1>2 DEF FlushCluster
<1>5. \A k \in Offsets : slots[i].fresh[k]
  BY <1>1, <1>2 DEF Copied
<1>6. ASSUME NEW s \in Sectors, emmc[s] \/ ClusterOf(s) = slots[i].cluster
      PROVE  emmc'[s]
  <2>1. CASE ClusterOf(s) # slots[i].cluster
    BY <1>4, <1>6, <2>1 DEF WrittenBack
  <2>2. CASE ClusterOf(s) = slots[i].cluster
    <3>1. emmc'[s] = (i # EMPTY /\ slots[i].fresh[IndexIn(s)])
      BY <1>2, <1>4, <2>2 DEF WrittenBack
    <3> QED
      BY <1>2, <1>5, <3>1, Geometry
  <2> QED
    BY <2>1, <2>2
<1>7. dirty_count' = IF slots[i].dirty THEN dirty_count - 1 ELSE dirty_count
  BY <1>1, <1>4
<1>8. \A s \in Sectors : emmc[s] \/ ClusterOf(s) = slots[i].cluster => emmc'[s]
  BY <1>6
<1> QED
  BY <1>1, <1>2, <1>3, <1>4, <1>7, <1>8

\* The slot at the index is written back and given to the new cluster.
LEMMA EvictT == TInv /\ Evict => TInv'
<1> SUFFICES ASSUME TInv, Evict PROVE TInv'
  OBVIOUS
<1> DEFINE new == [cluster |-> cluster, dirty |-> FALSE, fresh |-> [k \in Offsets |-> FALSE]]
<1>1. /\ cluster \in ClusterNumber /\ lookup[cluster] = EMPTY /\ end_index \in Slots
      /\ slots \in [Slots -> Slot] /\ lookup \in [ClusterNumber -> {EMPTY} \cup Slots]
      /\ IInv /\ pc = "evict" /\ EMPTY \notin Slots /\ end_index \in Nat /\ faulted \in BOOLEAN
  <2>1. IInv /\ pc = "evict"
    BY DEF TInv, Evict
  <2>2. cluster \in ClusterNumber /\ lookup[cluster] = EMPTY /\ end_index < Entries
    BY <2>1, BlockPlace DEF IInv, Miss, entry
  <2>3. end_index \in 0 .. Entries /\ slots \in [Slots -> Slot] /\ faulted \in BOOLEAN
        /\ lookup \in [ClusterNumber -> {EMPTY} \cup Slots]
    BY <2>1 DEF IInv, TypeOK, ClusterNumber
  <2>4. end_index \in Slots /\ end_index \in Nat /\ EMPTY \notin Slots
    BY <2>2, <2>3, Sizes DEF Slots, EMPTY
  <2> QED
    BY <2>1, <2>2, <2>3, <2>4
<1>2. IInv'
  BY <1>1, EvictOK
<1>3. /\ UNCHANGED <<cur, count, part, end_index, filled, prev_cluster, prev_sector, tweak,
                     got, astray, carried>>
      /\ pc' = "fill" /\ lookup' = [lookup EXCEPT ![cluster] = end_index]
  BY DEF Evict, request, last
<1>4. \A c \in ClusterNumber : lookup'[c] = IF c = cluster THEN end_index ELSE lookup[c]
  BY <1>1, <1>3
<1> HIDE DEF new
<1>5. /\ slots'[end_index] = new /\ (~faulted' => ~faulted)
      /\ Trusted' =>
           /\ \A i \in Slots : i # end_index => slots'[i] = slots[i]
           /\ \A s \in Sectors : emmc[s] => emmc'[s]
           /\ \A s \in Sectors :
                (lookup[ClusterOf(s)] = end_index /\ slots[end_index].cluster = ClusterOf(s)
                   /\ slots[end_index].dirty) => emmc'[s]
  <2>1. CASE filled /\ slots[end_index].dirty
    <3>1. PICK ok \in BOOLEAN :
            /\ FlushCluster(end_index, ok)
            /\ slots' = [FlushedSlots(end_index, ok) EXCEPT ![end_index] = new]
      BY <2>1 DEF Evict, new
    <3>2. FlushedSlots(end_index, ok) \in [Slots -> Slot] /\ (~faulted' => ~faulted /\ ok)
      BY <1>1, <3>1, Flushed
    <3>3. slots'[end_index] = new
      BY <1>1, <3>1, <3>2
    <3>4. ASSUME Trusted'
          PROVE  /\ \A i \in Slots : i # end_index => slots'[i] = slots[i]
                 /\ \A s \in Sectors : emmc[s] => emmc'[s]
                 /\ \A s \in Sectors : slots[end_index].cluster = ClusterOf(s) => emmc'[s]
      <4>1. ok = TRUE /\ ~faulted /\ Trusted
        BY <1>3, <3>2, <3>4 DEF Trusted
      <4>2. \E c \in ClusterNumber : lookup[c] = end_index
        BY <1>1, <2>1, <4>1 DEF TInv, Used
      <4>3. Copied
        BY <4>1 DEF TInv
      <4>4. FlushCluster(end_index, TRUE) /\ pc # "fill"
        BY <1>1, <3>1, <4>1
      <4>5. /\ FlushedSlots(end_index, TRUE) = [slots EXCEPT ![end_index] = [slots[end_index] EXCEPT !.dirty = FALSE]]
            /\ \A s \in Sectors : emmc[s] \/ ClusterOf(s) = slots[end_index].cluster => emmc'[s]
        BY <1>1, <4>2, <4>3, <4>4, FlushedWhole
      <4>6. \A i \in Slots : i # end_index => FlushedSlots(end_index, TRUE)[i] = slots[i]
        BY <1>1, <4>5
      <4>7. \A i \in Slots : i # end_index => slots'[i] = slots[i]
        BY <1>1, <3>1, <3>2, <4>1, <4>6
      <4> QED
        BY <4>5, <4>7
    <3> QED
      BY <3>2, <3>3, <3>4
  <2>2. CASE ~(filled /\ slots[end_index].dirty)
    <3>1. slots' = [slots EXCEPT ![end_index] = new] /\ emmc' = emmc /\ faulted' = faulted
      BY <2>2 DEF Evict, new
    <3>2. slots'[end_index] = new /\ \A i \in Slots : i # end_index => slots'[i] = slots[i]
      BY <1>1, <3>1
    <3>3. ASSUME Trusted', NEW s \in Sectors, lookup[ClusterOf(s)] = end_index
          PROVE  ~slots[end_index].dirty
      <4>1. CASE ~filled
        <5>1. ClusterOf(s) \in ClusterNumber /\ ~faulted
          BY <3>1, <3>3, Geometry DEF Trusted
        <5>2. lookup[ClusterOf(s)] = EMPTY \/ lookup[ClusterOf(s)] < end_index
          BY <1>1, <4>1, <5>1 DEF IInv, Unused
        <5> QED
          BY <1>1, <3>3, <5>2 DEF EMPTY
      <4> QED
        BY <2>2, <4>1
    <3> QED
      BY <3>1, <3>2, <3>3
  <2> QED
    BY <2>1, <2>2
<1>6. Aligned'
  BY <1>1, <1>3 DEF TInv, Aligned
<1>7. Filling'
  <2>1. cluster' = cluster
    BY <1>3 DEF cluster
  <2> QED
    BY <1>1, <1>3, <1>4, <1>5, <2>1 DEF Filling, new
<1>8. Used'
  <2> SUFFICES ASSUME ~faulted', NEW i \in Slots, filled \/ i < end_index
               PROVE  \E c \in ClusterNumber : lookup'[c] = i
    BY <1>3 DEF Used
  <2>1. PICK c \in ClusterNumber : lookup[c] = i
    BY <1>5 DEF TInv, Used
  <2> QED
    BY <1>1, <1>4, <2>1
<1> SUFFICES ASSUME Trusted'
             PROVE  AllKept' /\ Copied' /\ TweakKnown' /\ Passed' /\ Clean' /\ got'
  BY <1>2, <1>6, <1>7, <1>8 DEF TInv
<1>9. AllKept /\ Copied /\ TweakKnown /\ got
  BY <1>3, <1>5 DEF TInv, Trusted
<1>10. AllKept'
  <2> SUFFICES ASSUME NEW s \in Sectors, ~emmc'[s] PROVE Kept(s)'
    BY DEF AllKept, Kept
  <2> DEFINE i == lookup[ClusterOf(s)]
  <2>1. /\ i # EMPTY /\ slots[i].cluster = ClusterOf(s) /\ slots[i].dirty
        /\ slots[i].fresh[IndexIn(s)]
    BY <1>5, <1>9 DEF AllKept, Kept
  <2>2. ClusterOf(s) \in ClusterNumber /\ ClusterOf(s) # cluster /\ i \in Slots
    BY <1>1, <2>1, Geometry
  <2>3. i # end_index
    BY <1>5, <2>1
  <2>4. slots'[i] = slots[i] /\ lookup'[ClusterOf(s)] = i
    BY <1>4, <1>5, <2>2, <2>3
  <2> QED
    BY <2>1, <2>4 DEF Kept
<1>11. Copied'
  <2> SUFFICES ASSUME NEW c \in ClusterNumber, lookup'[c] # EMPTY, slots'[lookup'[c]].cluster = c,
                      lookup'[c] # end_index
               PROVE  \A k \in Offsets : slots'[lookup'[c]].fresh[k]
    BY <1>3 DEF Copied
  <2>1. lookup'[c] = lookup[c] /\ lookup[c] \in Slots
    BY <1>1, <1>4
  <2>2. slots'[lookup[c]] = slots[lookup[c]]
    BY <1>5, <2>1
  <2> QED
    BY <1>9, <2>1, <2>2 DEF Copied
<1>12. TweakKnown'
  <2>1. \A c \in ClusterNumber : lookup[c] # EMPTY => lookup'[c] # EMPTY
    BY <1>1, <1>4
  <2>2. prev_cluster # -1 => prev_cluster \in ClusterNumber
    BY <1>1 DEF IInv, TypeOK, ClusterNumber
  <2> QED
    BY <1>3, <1>9, <2>1, <2>2 DEF TweakKnown
<1>13. Passed' /\ Clean' /\ got'
  BY <1>3, <1>9 DEF Passed, Clean
<1> QED
  BY <1>10, <1>11, <1>12, <1>13

\* A read past the locked cache.
LEMMA DirectReadT == TInv /\ DirectRead => TInv'
<1> SUFFICES ASSUME TInv, DirectRead PROVE TInv'
  OBVIOUS
<1>1. /\ cluster \in ClusterNumber /\ lookup[cluster] = EMPTY /\ Block \in 1 .. PerCluster
      /\ IInv /\ Aligned /\ pc = "read" /\ cur \in Nat /\ cur \in Sectors
      /\ IndexIn(cur) \in Nat /\ InBlock \subseteq Sectors
  BY BlockPlace DEF TInv, DirectRead, entry, IInv, TypeOK, Offsets
<1>2. IInv'
  BY <1>1, DirectReadOK
<1>3. /\ UNCHANGED <<emmc, part, lookup, slots, end_index, filled, dirty_count, faulted>>
      /\ pc' = "idle" \/ (pc' = "read" /\ count # Block)
      /\ count' = count - Block /\ cur' = IF count = Block THEN 0 ELSE cur + Block
      /\ prev_sector' = cur + Block - 1 /\ prev_cluster' = cluster
      /\ astray' = (astray \/ (carried /\ ~Regenerates))
  BY <1>1 DEF DirectRead, NextBlock, cache
<1>4. Aligned'
  BY <1>1, <1>3, AlignedNext DEF Aligned
<1>5. Used' /\ Filling'
  BY <1>3 DEF TInv, Used, Filling
<1> SUFFICES ASSUME Trusted'
             PROVE  AllKept' /\ Copied' /\ TweakKnown' /\ Passed' /\ Clean' /\ got'
  BY <1>2, <1>4, <1>5 DEF TInv
<1>6. Trusted /\ (Regenerates \/ ~carried)
  BY <1>3 DEF Trusted
<1>7. AllKept /\ Copied /\ TweakKnown
  BY <1>6 DEF TInv
<1>8. StartOfBlock = Position(part, cluster, IndexIn(cur))
  <2>1. CASE Regenerates
    BY <2>1 DEF StartOfBlock
  <2>2. CASE ~Regenerates
    <3>1. ~carried /\ prev_cluster = cluster /\ cur > prev_sector /\ prev_cluster # -1
          /\ prev_sector \in Sectors /\ prev_sector \in Nat
      <4>1. prev_sector \in Sectors /\ prev_sector \in Nat
        BY <1>1, SectorRange DEF IInv, TypeOK
      <4>2. cluster # -1
        BY <1>1 DEF ClusterNumber
      <4> QED
        BY <1>1, <1>6, <2>2, <4>1, <4>2 DEF Regenerates
    <3>2. /\ ClusterOf(prev_sector) = cluster
          /\ tweak = Position(part, cluster, IndexIn(prev_sector) + 1)
      BY <1>1, <1>7, <3>1 DEF TweakKnown
    <3>3. /\ cur = First(cluster) + IndexIn(cur)
          /\ prev_sector = First(cluster) + IndexIn(prev_sector)
      BY <1>1, <3>1, <3>2, Join DEF cluster
    <3>4. IndexIn(prev_sector) \in Int /\ First(cluster) \in Int
      BY <1>1, <3>1, Geometry, Sizes DEF Offsets, First, ClusterNumber
    <3>5. IndexIn(prev_sector) + 1 + (cur - prev_sector - 1) = IndexIn(cur)
      BY <1>1, <3>1, <3>3, <3>4
    <3>6. StartOfBlock = [tweak EXCEPT !.at = tweak.at + (cur - prev_sector - 1)]
      BY <2>2 DEF StartOfBlock
    <3> QED
      BY <3>2, <3>5, <3>6 DEF Position
  <2> QED
    BY <2>1, <2>2
<1>9. got'
  <2>1. \A s \in InBlock : emmc[s]
    BY <1>1, <1>7, BlockSectors DEF AllKept, Kept
  <2> QED
    BY <1>8, <2>1 DEF DirectRead
<1>10. AllKept' /\ Copied'
  <2>1. AllKept'
    BY <1>3, <1>7 DEF AllKept, Kept
  <2>2. Copied'
    BY <1>1, <1>3, <1>7 DEF Copied
  <2> QED
    BY <2>1, <2>2
<1>11. TweakKnown'
  <2>1. cur + Block - 1 \in InBlock
    BY <1>1, Sizes DEF InBlock
  <2>2. /\ ClusterOf(cur + Block - 1) = cluster
        /\ IndexIn(cur + Block - 1) = IndexIn(cur) + (cur + Block - 1 - cur)
        /\ IndexIn(cur) + Block <= PerCluster
    BY <1>1, <2>1, BlockSectors
  <2>3. IndexIn(cur + Block - 1) + 1 = IndexIn(cur) + Block
    BY <1>1, <2>2, Sizes
  <2>4. StartOfBlock.cluster = cluster /\ StartOfBlock.at = IndexIn(cur) /\ cluster # EMPTY
    BY <1>1, <1>8 DEF Position, ClusterNumber, EMPTY
  <2>5. ~(StartOfBlock.at + Block > PerCluster)
    BY <1>1, <2>2, <2>4, Sizes
  <2>6. tweak' = [StartOfBlock EXCEPT !.at = StartOfBlock.at + Block]
    BY <2>4, <2>5 DEF DirectRead
  <2>7. tweak' = Position(part, cluster, IndexIn(cur) + Block)
    BY <1>8, <2>4, <2>6 DEF Position
  <2> QED
    BY <1>3, <2>2, <2>3, <2>7 DEF TweakKnown
<1>12. Passed' /\ Clean'
  BY <1>3 DEF Passed, Clean
<1> QED
  BY <1>9, <1>10, <1>11, <1>12

LEMMA DirectReadFailsT == TInv /\ DirectReadFails => TInv'
<1> SUFFICES ASSUME TInv, DirectReadFails PROVE TInv'
  OBVIOUS
<1>1. IInv'
  BY DirectReadFailsOK DEF TInv
<1>2. pc' = "idle" /\ faulted' = TRUE
  BY DEF DirectReadFails, Fail
<1> QED
  BY <1>1, <1>2 DEF TInv, Trusted, Aligned, Used, Filling

\* With no dirty slot left the partition has every sector.
LEMMA NothingLeft ==
  ASSUME IInv, AllKept,
         \A i \in Slots : (\E c \in ClusterNumber : lookup[c] = i) => ~slots[i].dirty
  PROVE  \A s \in Sectors : emmc[s]
<1> SUFFICES ASSUME NEW s \in Sectors, ~emmc[s] PROVE FALSE
  OBVIOUS
<1> DEFINE i == lookup[ClusterOf(s)]
<1>1. i # EMPTY /\ slots[i].dirty
  BY DEF AllKept, Kept
<1>2. ClusterOf(s) \in ClusterNumber
  BY Geometry
<1>3. i \in Slots
  BY <1>1, <1>2 DEF IInv, TypeOK, ClusterNumber
<1> QED
  BY <1>1, <1>2, <1>3

\* The count is exact without a failure.
LEMMA CountIsZero ==
  ASSUME IInv, ~faulted, dirty_count = 0
  PROVE  \A i \in Slots : (\E c \in ClusterNumber : lookup[c] = i) => ~slots[i].dirty
<1>1. Cardinality(DirtySlots(lookup, slots)) = 0 /\ IsFiniteSet(DirtySlots(lookup, slots))
  BY DirtyFinite DEF IInv, Counted
<1>2. DirtySlots(lookup, slots) = {}
  BY <1>1, FS_EmptySet
<1> QED
  BY <1>2 DEF DirtySlots

\* nx_emmc_bis_finalize begins.
LEMMA FinalizeT == TInv /\ Finalize => TInv'
<1> SUFFICES ASSUME TInv, Finalize PROVE TInv'
  OBVIOUS
<1>1. IInv /\ IInv'
  BY OutsideOK DEF TInv
<1>2. /\ UNCHANGED <<emmc, part, lookup, slots, end_index, filled, dirty_count, got,
                     prev_cluster, prev_sector, tweak, faulted, astray, carried>>
      /\ pc = "idle"
      /\ \/ pc' = "finalized" /\ dirty_count = 0
         \/ pc' = "flush" /\ cur' = 0 /\ count' = dirty_count
  BY DEF Finalize, cache, last, history
<1>3. Aligned'
  BY <1>2 DEF Aligned
<1>4. Used' /\ Filling' /\ (Trusted' => Trusted /\ AllKept' /\ Copied' /\ TweakKnown' /\ got')
  BY <1>2, SameBytes
<1>5. ASSUME Trusted' PROVE Passed' /\ Clean'
  <2>1. Trusted /\ AllKept
    BY <1>4, <1>5 DEF TInv
  <2>2. CASE pc' = "finalized" /\ dirty_count = 0
    BY <1>1, <1>2, <2>1, <2>2, CountIsZero, NothingLeft DEF Passed, Clean, Trusted
  <2>3. CASE pc' = "flush" /\ cur' = 0 /\ count' = dirty_count
    BY <1>2, <2>3 DEF Passed, Clean, Slots
  <2> QED
    BY <1>2, <2>2, <2>3
<1> QED
  BY <1>1, <1>3, <1>4, <1>5 DEF TInv

\* A dirty slot of the finalize pass is written back.
LEMMA FlushDirtyT ==
  ASSUME TInv, FlushNext, cur < Limit, count > 0, slots[cur].dirty
  PROVE  TInv'
<1>1. /\ IInv /\ IInv' /\ pc = "flush" /\ cur \in Nat /\ count \in Nat /\ end_index \in 0 .. Entries
      /\ slots \in [Slots -> Slot] /\ lookup \in [ClusterNumber -> {EMPTY} \cup Slots]
      /\ EMPTY \notin Slots /\ dirty_count \in Nat
  BY FlushNextOK DEF TInv, FlushNext, IInv, TypeOK, ClusterNumber, EMPTY, Slots
<1>2. cur \in Slots /\ (filled \/ cur < end_index)
  BY <1>1, Sizes DEF Limit, Slots
<1>3. PICK ok \in BOOLEAN : FlushCluster(cur, ok) /\ slots' = FlushedSlots(cur, ok)
  BY DEF FlushNext
<1>4. ~faulted' => ~faulted /\ ok
  BY <1>1, <1>2, <1>3, Flushed
<1>5. /\ UNCHANGED <<part, lookup, end_index, filled, prev_cluster, prev_sector, tweak, got,
                     astray, carried>>
      /\ cur' = cur + 1 /\ count' = count - 1 /\ pc' = "flush"
  BY <1>1 DEF FlushNext, last
<1>6. Aligned' /\ Used' /\ Filling'
  BY <1>4, <1>5 DEF TInv, Aligned, Used, Filling
<1> SUFFICES ASSUME Trusted'
             PROVE  AllKept' /\ Copied' /\ TweakKnown' /\ Passed' /\ Clean' /\ got'
  BY <1>1, <1>6 DEF TInv
<1>7. Trusted /\ ok = TRUE
  BY <1>4, <1>5 DEF Trusted
<1>8. AllKept /\ Copied /\ TweakKnown /\ Passed /\ got
  BY <1>7 DEF TInv
<1>9. \E c \in ClusterNumber : lookup[c] = cur
  BY <1>2, <1>7 DEF TInv, Used, Trusted
<1>10. FlushCluster(cur, TRUE) /\ pc # "fill"
  BY <1>1, <1>3, <1>7
<1>11. /\ slots' = [slots EXCEPT ![cur] = [slots[cur] EXCEPT !.dirty = FALSE]]
       /\ \A s \in Sectors : emmc[s] \/ ClusterOf(s) = slots[cur].cluster => emmc'[s]
       /\ dirty_count' = dirty_count - 1
  BY <1>1, <1>2, <1>3, <1>7, <1>8, <1>9, <1>10, FlushedWhole
<1>12. /\ \A i \in Slots : i # cur => slots'[i] = slots[i]
       /\ \A i \in Slots : slots'[i].cluster = slots[i].cluster /\ slots'[i].fresh = slots[i].fresh
       /\ slots'[cur].dirty = FALSE
  BY <1>1, <1>2, <1>11 DEF Slot
<1>13. AllKept'
  <2> SUFFICES ASSUME NEW s \in Sectors, ~emmc'[s] PROVE Kept(s)'
    BY DEF AllKept, Kept
  <2> DEFINE i == lookup[ClusterOf(s)]
  <2>1. /\ i # EMPTY /\ slots[i].cluster = ClusterOf(s) /\ slots[i].dirty
        /\ slots[i].fresh[IndexIn(s)]
    BY <1>8, <1>11 DEF AllKept, Kept
  <2>2. i \in Slots /\ i # cur
    BY <1>1, <1>11, <2>1, Geometry
  <2>3. slots'[i] = slots[i]
    BY <1>12, <2>2
  <2> QED
    BY <1>5, <2>1, <2>3 DEF Kept
<1>14. Copied'
  <2> SUFFICES ASSUME NEW c \in ClusterNumber, lookup[c] # EMPTY, slots'[lookup[c]].cluster = c
               PROVE  \A k \in Offsets : slots'[lookup[c]].fresh[k]
    BY <1>5 DEF Copied
  <2>1. lookup[c] \in Slots
    BY <1>1
  <2>2. slots[lookup[c]].cluster = c /\ slots'[lookup[c]].fresh = slots[lookup[c]].fresh
    BY <1>12, <2>1
  <2> QED
    BY <1>1, <1>8, <2>2 DEF Copied
<1>15. Passed'
  <2> SUFFICES ASSUME NEW i \in Slots, i < cur + 1, NEW c \in ClusterNumber, lookup[c] = i
               PROVE  count' = dirty_count' /\ ~slots'[i].dirty
    <3>1. count' = dirty_count'
      BY <1>1, <1>5, <1>8, <1>11 DEF Passed
    <3> QED
      BY <1>5, <3>1 DEF Passed
  <2>1. count' = dirty_count'
    BY <1>1, <1>5, <1>8, <1>11 DEF Passed
  <2>2. CASE i = cur
    BY <1>12, <2>1, <2>2
  <2>3. CASE i # cur
    <3>1. i < cur
      BY <1>1, <2>3 DEF Slots
    <3> QED
      BY <1>1, <1>8, <1>12, <2>1, <2>3, <3>1 DEF Passed
  <2> QED
    BY <2>2, <2>3
<1>16. TweakKnown' /\ Clean' /\ got'
  BY <1>5, <1>8 DEF TweakKnown, Clean
<1> QED
  BY <1>13, <1>14, <1>15, <1>16

\* A step of the finalize pass.
LEMMA FlushNextT == TInv /\ FlushNext => TInv'
<1> SUFFICES ASSUME TInv, FlushNext PROVE TInv'
  OBVIOUS
<1>1. CASE cur < Limit /\ count > 0 /\ slots[cur].dirty
  BY <1>1, FlushDirtyT
<1>2. CASE ~(cur < Limit /\ count > 0 /\ slots[cur].dirty)
  <2>1. /\ IInv /\ IInv' /\ pc = "flush" /\ cur \in Nat /\ count \in Nat
        /\ end_index \in 0 .. Entries
    BY FlushNextOK DEF TInv, FlushNext, IInv, TypeOK
  <2>2. /\ UNCHANGED <<emmc, part, lookup, slots, end_index, filled, dirty_count, got,
                       prev_cluster, prev_sector, tweak, faulted, astray, carried>>
        /\ \/ /\ pc' = "flush" /\ cur' = cur + 1 /\ count' = count /\ ~slots[cur].dirty
           \/ pc' = "finalized" /\ ~(cur < Limit /\ count > 0)
    BY <1>2, <2>1 DEF FlushNext, last
  <2>3. Aligned'
    BY <2>2 DEF Aligned
  <2>4. Used' /\ Filling' /\ (Trusted' => Trusted /\ AllKept' /\ Copied' /\ TweakKnown' /\ got')
    BY <2>1, <2>2, SameBytes
  <2>5. ASSUME Trusted' PROVE Passed' /\ Clean'
    <3>1. Trusted /\ AllKept /\ Passed /\ ~faulted
      BY <2>4, <2>5 DEF TInv, Trusted
    <3>2. CASE pc' = "flush" /\ cur' = cur + 1 /\ count' = count /\ ~slots[cur].dirty
      <4>1. \A i \in Slots : i < cur + 1 => i < cur \/ i = cur
        BY <2>1 DEF Slots
      <4> QED
        BY <2>1, <2>2, <3>1, <3>2, <4>1 DEF Passed, Clean
    <3>3. CASE pc' = "finalized" /\ ~(cur < Limit /\ count > 0)
      <4>1. \A i \in Slots : (\E c \in ClusterNumber : lookup[c] = i) => ~slots[i].dirty
        <5>1. CASE count = 0
          BY <2>1, <3>1, <5>1, CountIsZero DEF Passed
        <5>2. CASE count # 0
          <6>1. cur >= Limit
            BY <2>1, <3>3, <5>2, Sizes DEF Limit
          <6> SUFFICES ASSUME NEW i \in Slots, NEW c \in ClusterNumber, lookup[c] = i
                       PROVE  ~slots[i].dirty
            OBVIOUS
          <6>2. filled \/ i < end_index
            BY <2>1, <3>1 DEF IInv, Unused, Slots, EMPTY
          <6>3. i < Limit
            BY <6>2, Sizes DEF Limit, Slots
          <6>4. i < cur
            BY <2>1, <6>1, <6>3, Sizes DEF Limit, Slots
          <6> QED
            BY <2>1, <3>1, <6>4 DEF Passed
        <5> QED
          BY <5>1, <5>2
      <4>2. \A s \in Sectors : emmc[s]
        BY <2>1, <3>1, <4>1, NothingLeft
      <4> QED
        BY <2>2, <3>3, <4>2 DEF Passed, Clean
    <3> QED
      BY <2>2, <3>2, <3>3
  <2> QED
    BY <2>1, <2>3, <2>4, <2>5 DEF TInv
<1> QED
  BY <1>1, <1>2

\* nx_emmc_bis_init: the finalize pass has left nothing in the slots that it clears.
LEMMA OpenT == TInv /\ Open => TInv'
<1> SUFFICES ASSUME TInv, Open PROVE TInv'
  OBVIOUS
<1>1. IInv'
  BY OpenOK DEF TInv
<1>2. /\ pc = "finalized" /\ pc' = "idle" /\ lookup' = ClearedLookup /\ end_index' = 0
      /\ filled' = FALSE /\ carried' = TRUE /\ UNCHANGED <<got, faulted, astray>>
      /\ emmc' = IF part' = part THEN emmc ELSE [s \in Sectors |-> TRUE]
  BY DEF Open
<1>3. \A c \in ClusterNumber : lookup'[c] = EMPTY
  BY <1>2 DEF ClearedLookup, ClusterNumber
<1>4. Aligned' /\ Filling' /\ Used'
  BY <1>2 DEF Aligned, Filling, Used, Slots
<1> SUFFICES ASSUME Trusted'
             PROVE  AllKept' /\ Copied' /\ TweakKnown' /\ Passed' /\ Clean' /\ got'
  BY <1>1, <1>4 DEF TInv
<1>5. Clean /\ got
  BY <1>2 DEF TInv, Trusted
<1>6. AllKept'
  BY <1>2, <1>5 DEF AllKept, Kept, Clean
<1>7. Copied'
  BY <1>3 DEF Copied
<1>8. TweakKnown' /\ Passed' /\ Clean' /\ got'
  BY <1>2, <1>5 DEF TweakKnown, Passed, Clean
<1> QED
  BY <1>6, <1>7, <1>8

-----------------------------------------------------------------------------
\* The theorem

LEMMA StutterT == TInv /\ UNCHANGED vars => TInv'
<1> SUFFICES ASSUME TInv, UNCHANGED vars PROVE TInv'
  OBVIOUS
<1>1. UNCHANGED <<pc, cur, count, emmc, part, lookup, slots, end_index, filled, dirty_count,
                  locked, prev_cluster, prev_sector, tweak, got, faulted, astray, carried>>
  BY DEF vars, request, cache, last, history
<1>2. IInv'
  BY NextOK DEF TInv
<1>3. Aligned' /\ Used'
  BY <1>1 DEF TInv, Aligned, Used
<1>4. Filling'
  BY <1>1 DEF TInv, Filling, cluster
<1>5. Trusted' => AllKept' /\ Copied'
  BY <1>1 DEF TInv, Trusted, AllKept, Kept, Copied
<1>6. Trusted' => TweakKnown' /\ Passed' /\ Clean' /\ got'
  BY <1>1 DEF TInv, Trusted, TweakKnown, Passed, Clean
<1> QED
  BY <1>2, <1>3, <1>4, <1>5, <1>6 DEF TInv

LEMMA NextT == TInv /\ [Next]_vars => TInv'
<1> SUFFICES ASSUME TInv, [Next]_vars PROVE TInv'
  OBVIOUS
<1>1. CASE Request("read") \/ Request("write")
  BY <1>1, RequestT
<1> QED
  BY <1>1, StutterT, WriteHitT, WriteMissT, ReadHitT, ReadMissT, EvictT, FillT, DirectReadT,
     DirectReadFailsT, FinalizeT, FlushNextT, ResumeT, OpenT, CacheLockT DEF Next

\* nx_emmc_bis_read, nx_emmc_bis_write and nx_emmc_bis_finalize behave as the partition
\* would without the cache, for every size of partition and cache and any sequence of
\* requests, as long as no transfer fails and no block goes to an evicted slot.
THEOREM AlwaysTransparent == Spec => []Transparent
<1>1. TInv => Transparent
  <2>1. AllKept => \A s \in Sectors : emmc[s] \/ LET i == lookup[ClusterOf(s)]
                                               IN  /\ i # EMPTY /\ slots[i].cluster = ClusterOf(s)
                                                   /\ slots[i].dirty /\ slots[i].fresh[IndexIn(s)]
    BY DEF AllKept, Kept
  <2> QED
    BY <2>1 DEF TInv, Trusted, Clean, Transparent
<1> QED
  BY <1>1, InitT, NextT, PTL DEF Spec
=============================================================================
