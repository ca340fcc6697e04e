---------------------------- MODULE Extract_proofs ----------------------------
(***************************************************************************)
(* Theorems about Extract, for every set of well-formed Package1 images    *)
(* and any number of calls: what is handed out is the warmboot, a refusal  *)
(* has its reason, and every exit cleans up.                               *)
(***************************************************************************)
EXTENDS Extract, TLAPS

Fields == [sdmmc : BOOLEAN, initialized : BOOLEAN, clock : BOOLEAN,
           stuck : BOOLEAN, partition : {"user", "boot0"}]

\* The walk has skipped i payloads that have a signature, and ends at one that
\* has none.
Walking ==
  LET first == Skip(pkg.word[0])
  IN  /\ ptr \in DOMAIN pkg.word
      /\ pc = "walk" => i \in 0 .. 2
      /\ pc = "walk" /\ i = 0 => ptr = 0
      /\ pc = "walk" /\ i = 1 => pkg.word[0] \in Signatures /\ ptr = first
      /\ pc = "walk" /\ i = 2 => /\ pkg.word[0] \in Signatures
                                 /\ pkg.word[first] \in Signatures
                                 /\ ptr = first + Skip(pkg.word[first])
      /\ pc \in {"size", "malloc_wb"} => pkg.word[ptr] \notin Signatures

\* What a call holds: the Package1 buffer from its allocation to each exit.
Holding ==
  /\ pc = "malloc_pkg1" => heap = {} /\ err = "none"
  /\ pc = "call" => heap \subseteq {"wb"}
  /\ pc \notin {"call", "malloc_pkg1", "done"} => heap = {"pkg1"} /\ err = "none"
  /\ pc = "done" => heap = IF err = "SUCCESS" THEN {"wb"} ELSE {}

\* From the end of the read on the session is over.
Closed ==
  /\ pc \in {"decrypt", "pk11", "walk", "size", "malloc_wb"} => emmc.stuck \/ ~emmc.clock
  /\ pc = "done" /\ err \notin {"MMC_INIT", "MALLOC_PKG1"} => emmc.stuck \/ ~emmc.clock

\* What has been read, and what has been found.
Found ==
  /\ pc \in {"pk11", "walk", "size", "malloc_wb"} => buf = "boot0"
  /\ pc = "malloc_wb" => /\ info.size = pkg.word[ptr]
                         /\ info.size \in WARMBOOT_MIN_SIZE .. (WARMBOOT_MAX_SIZE - 1)

\* The inductive invariant.
IInv ==
  /\ TypeOK /\ pkg \in Packages
  /\ Walking /\ Holding /\ Closed /\ Found
  /\ ExtractedIsWarmboot /\ RefusedForAReason

\* What is asked of each container.
LEMMA ContainerOf ==
  ASSUME pkg \in Packages
  PROVE  Container(pkg)
BY ExtractAssumption

\* sdmmc_storage_end ends the session or finds the card stuck.
LEMMA EndResult ==
  ASSUME emmc \in Fields, sdmmc_storage_end
  PROVE  emmc' \in Fields /\ (emmc'.stuck \/ ~emmc'.clock)
<1>1. CASE emmc' = [emmc EXCEPT !.stuck = TRUE]
  BY <1>1 DEF Fields
<1>2. CASE emmc' = [sdmmc |-> emmc.sdmmc, initialized |-> FALSE, clock |-> FALSE,
                    stuck |-> FALSE, partition |-> emmc.partition]
  BY <1>2 DEF Fields
<1> QED
  BY <1>1, <1>2 DEF sdmmc_storage_end

\* A skip is a number of words.
LEMMA SkipIsNat ==
  ASSUME pkg \in Packages, NEW signature
  PROVE  Skip(signature) \in Nat
<1>1. pkg.nx \in Nat /\ pkg.sm \in Nat
  BY ContainerOf DEF Container
<1>2. \A n \in Nat : n \div 4 \in Nat
  OBVIOUS
<1> QED
  BY <1>1, <1>2 DEF Skip, SkipIn

LEMMA InitOK == Init => IInv
<1> SUFFICES ASSUME Init PROVE IInv
  OBVIOUS
<1> USE DEF Init
<1>1. Container(pkg)
  BY ContainerOf
<1>2. TypeOK
  BY ExtractAssumption DEF TypeOK, Pc, Errors, NoInfo
<1>3. Walking
  BY <1>1 DEF Walking, Container
<1> QED
  BY <1>2, <1>3 DEF IInv, Holding, Closed, Found, ExtractedIsWarmboot, RefusedForAReason
-----------------------------------------------------------------------------
\* Each action
\* The start of a call.
LEMMA CallOK == IInv /\ Call => IInv'
<1> SUFFICES ASSUME IInv, Call PROVE IInv'
  OBVIOUS
<1>1. TypeOK'
  <2>1. pc' \in Pc /\ err' \in Errors
    BY DEF IInv, TypeOK, Call, Return, Pc, Errors
  <2>2. emmc' \in Fields
    BY DEF IInv, TypeOK, Fields, Call
  <2>3. heap' \in SUBSET {"pkg1", "wb"}
    BY DEF IInv, TypeOK, Call, Return
  <2>4. info' \in [data : Nat \cup {-1}, size : Nat]
    BY DEF IInv, TypeOK, Call, NoInfo, Return
  <2>5. /\ buf' \in {"none", "user", "boot0"} /\ ptr' \in Nat /\ i' \in 0 .. 3
        /\ pk11_offset' \in {0, 16384, 28672} /\ calls' \in 0 .. MaxCalls
    BY ExtractAssumption DEF IInv, TypeOK, Fields, Call
  <2> QED
    BY <2>1, <2>2, <2>3, <2>4, <2>5 DEF TypeOK, Fields
<1>2. Walking'
  BY DEF IInv, Walking, Call, Return, Skip
<1>3. Holding'
  BY DEF IInv, Holding, Call, Return
<1>4. Closed'
  BY DEF IInv, Closed, TypeOK, Call, Return
<1>5. Found'
  BY DEF IInv, Found, Call, Return
<1>6. (ExtractedIsWarmboot /\ RefusedForAReason)'
  BY DEF IInv, ExtractedIsWarmboot, RefusedForAReason, WarmbootStarts, Call, Return
<1> QED
  BY <1>1, <1>2, <1>3, <1>4, <1>5, <1>6 DEF IInv, Call, Return

\* The Package1 buffer.
LEMMA MallocPkg1OK == IInv /\ MallocPkg1 => IInv'
<1> SUFFICES ASSUME IInv, MallocPkg1 PROVE IInv'
  OBVIOUS
<1>1. TypeOK'
  <2>1. pc' \in Pc /\ err' \in Errors
    BY DEF IInv, TypeOK, MallocPkg1, Return, Pc, Errors
  <2>2. emmc' \in Fields
    BY DEF IInv, TypeOK, Fields, MallocPkg1
  <2>3. heap' \in SUBSET {"pkg1", "wb"}
    <3>1. \/ heap' = heap
          \/ heap' = heap \cup {"pkg1"}
          \/ heap' = heap \ {"pkg1"}
      BY DEF MallocPkg1
    <3>2. heap \in SUBSET {"pkg1", "wb"}
      BY DEF IInv, TypeOK
    <3> QED
      BY <3>1, <3>2
  <2>4. info' \in [data : Nat \cup {-1}, size : Nat]
    BY DEF IInv, TypeOK, MallocPkg1, NoInfo, Return
  <2>5. /\ buf' \in {"none", "user", "boot0"} /\ ptr' \in Nat /\ i' \in 0 .. 3
        /\ pk11_offset' \in {0, 16384, 28672} /\ calls' \in 0 .. MaxCalls
    BY ExtractAssumption DEF IInv, TypeOK, Fields, MallocPkg1
  <2> QED
    BY <2>1, <2>2, <2>3, <2>4, <2>5 DEF TypeOK, Fields
<1>2. Walking'
  BY DEF IInv, Walking, MallocPkg1, Return, Skip
<1>3. Holding'
  <2>1. heap = {} /\ err = "none"
    BY DEF IInv, Holding, MallocPkg1
  <2>2. \/ heap' = {"pkg1"} /\ pc' = "end_old" /\ err' = "none"
        \/ heap' = {} /\ pc' = "done" /\ err' = "MALLOC_PKG1"
    BY <2>1 DEF MallocPkg1, Return
  <2> QED
    BY <2>2 DEF Holding
<1>4. Closed'
  BY DEF IInv, Closed, TypeOK, MallocPkg1, Return
<1>5. Found'
  BY DEF IInv, Found, MallocPkg1, Return
<1>6. (ExtractedIsWarmboot /\ RefusedForAReason)'
  BY DEF IInv, ExtractedIsWarmboot, RefusedForAReason, WarmbootStarts, MallocPkg1, Return
<1> QED
  BY <1>1, <1>2, <1>3, <1>4, <1>5, <1>6 DEF IInv, MallocPkg1, Return

\* The session an earlier call has left.
LEMMA EndOldSessionOK == IInv /\ EndOldSession => IInv'
<1> SUFFICES ASSUME IInv, EndOldSession PROVE IInv'
  OBVIOUS
<1>1. TypeOK'
  <2>1. pc' \in Pc /\ err' \in Errors
    BY DEF IInv, TypeOK, EndOldSession, Return, Pc, Errors
  <2>2. emmc' \in Fields
    BY EndResult DEF IInv, TypeOK, Fields, EndOldSession
  <2>3. heap' \in SUBSET {"pkg1", "wb"}
    BY DEF IInv, TypeOK, EndOldSession, Return
  <2>4. info' \in [data : Nat \cup {-1}, size : Nat]
    BY DEF IInv, TypeOK, EndOldSession, NoInfo, Return
  <2>5. /\ buf' \in {"none", "user", "boot0"} /\ ptr' \in Nat /\ i' \in 0 .. 3
        /\ pk11_offset' \in {0, 16384, 28672} /\ calls' \in 0 .. MaxCalls
    BY ExtractAssumption DEF IInv, TypeOK, Fields, EndOldSession
  <2> QED
    BY <2>1, <2>2, <2>3, <2>4, <2>5 DEF TypeOK, Fields
<1>2. Walking'
  BY DEF IInv, Walking, EndOldSession, sdmmc_storage_end, Return, Skip
<1>3. Holding'
  BY DEF IInv, Holding, EndOldSession, sdmmc_storage_end, Return
<1>4. Closed'
  BY DEF IInv, Closed, TypeOK, EndOldSession, sdmmc_storage_end, Return
<1>5. Found'
  BY DEF IInv, Found, EndOldSession, sdmmc_storage_end, Return
<1>6. (ExtractedIsWarmboot /\ RefusedForAReason)'
  BY DEF IInv, ExtractedIsWarmboot, RefusedForAReason, WarmbootStarts, EndOldSession, sdmmc_storage_end, Return
<1> QED
  BY <1>1, <1>2, <1>3, <1>4, <1>5, <1>6 DEF IInv, EndOldSession, sdmmc_storage_end, Return

\* The eMMC.
LEMMA InitMmcOK == IInv /\ InitMmc => IInv'
<1> SUFFICES ASSUME IInv, InitMmc PROVE IInv'
  OBVIOUS
<1>1. TypeOK'
  <2>1. pc' \in Pc /\ err' \in Errors
    BY DEF IInv, TypeOK, InitMmc, Return, Pc, Errors
  <2>2. emmc' \in Fields
    BY DEF InitMmc, sdmmc_storage_init_mmc, Fields
  <2>3. heap' \in SUBSET {"pkg1", "wb"}
    <3>1. \/ heap' = heap
          \/ heap' = heap \cup {"pkg1"}
          \/ heap' = heap \ {"pkg1"}
      BY DEF InitMmc
    <3>2. heap \in SUBSET {"pkg1", "wb"}
      BY DEF IInv, TypeOK
    <3> QED
      BY <3>1, <3>2
  <2>4. info' \in [data : Nat \cup {-1}, size : Nat]
    BY DEF IInv, TypeOK, InitMmc, NoInfo, Return
  <2>5. /\ buf' \in {"none", "user", "boot0"} /\ ptr' \in Nat /\ i' \in 0 .. 3
        /\ pk11_offset' \in {0, 16384, 28672} /\ calls' \in 0 .. MaxCalls
    BY ExtractAssumption DEF IInv, TypeOK, Fields, InitMmc
  <2> QED
    BY <2>1, <2>2, <2>3, <2>4, <2>5 DEF TypeOK, Fields
<1>2. Walking'
  BY DEF IInv, Walking, InitMmc, sdmmc_storage_init_mmc, Return, Skip
<1>3. Holding'
  BY DEF IInv, Holding, InitMmc, sdmmc_storage_init_mmc, Return
<1>4. Closed'
  BY DEF IInv, Closed, TypeOK, InitMmc, sdmmc_storage_init_mmc, Return
<1>5. Found'
  BY DEF IInv, Found, InitMmc, sdmmc_storage_init_mmc, Return
<1>6. (ExtractedIsWarmboot /\ RefusedForAReason)'
  BY DEF IInv, ExtractedIsWarmboot, RefusedForAReason, WarmbootStarts, InitMmc, sdmmc_storage_init_mmc, Return
<1> QED
  BY <1>1, <1>2, <1>3, <1>4, <1>5, <1>6 DEF IInv, InitMmc, sdmmc_storage_init_mmc, Return

\* The partition.
LEMMA SetPartitionOK == IInv /\ SetPartition => IInv'
<1> SUFFICES ASSUME IInv, SetPartition PROVE IInv'
  OBVIOUS
<1>1. TypeOK'
  BY DEF IInv, TypeOK, SetPartition, emummc_storage_set_mmc_partition, Return, Pc, Errors, NoInfo
<1>2. Walking'
  BY DEF IInv, Walking, SetPartition, emummc_storage_set_mmc_partition, Return, Skip
<1>3. Holding'
  BY DEF IInv, Holding, SetPartition, emummc_storage_set_mmc_partition, Return
<1>4. Closed'
  BY DEF IInv, Closed, TypeOK, SetPartition, emummc_storage_set_mmc_partition, Return
<1>5. Found'
  BY DEF IInv, Found, SetPartition, emummc_storage_set_mmc_partition, Return
<1>6. (ExtractedIsWarmboot /\ RefusedForAReason)'
  BY DEF IInv, ExtractedIsWarmboot, RefusedForAReason, WarmbootStarts, SetPartition, emummc_storage_set_mmc_partition, Return
<1> QED
  BY <1>1, <1>2, <1>3, <1>4, <1>5, <1>6 DEF IInv, SetPartition, emummc_storage_set_mmc_partition, Return

\* The read, or its failure.
LEMMA ReadOK == IInv /\ Read => IInv'
<1> SUFFICES ASSUME IInv, Read PROVE IInv'
  OBVIOUS
<1>1. TypeOK'
  <2>1. pc' \in Pc /\ err' \in Errors
    BY DEF IInv, TypeOK, Read, Return, Pc, Errors
  <2>2. emmc' \in Fields
    BY EndResult DEF IInv, TypeOK, Fields, Read
  <2>3. heap' \in SUBSET {"pkg1", "wb"}
    <3>1. \/ heap' = heap
          \/ heap' = heap \cup {"pkg1"}
          \/ heap' = heap \ {"pkg1"}
      BY DEF Read
    <3>2. heap \in SUBSET {"pkg1", "wb"}
      BY DEF IInv, TypeOK
    <3> QED
      BY <3>1, <3>2
  <2>4. info' \in [data : Nat \cup {-1}, size : Nat]
    BY DEF IInv, TypeOK, Read, NoInfo, Return
  <2>5. /\ buf' \in {"none", "user", "boot0"} /\ ptr' \in Nat /\ i' \in 0 .. 3
        /\ pk11_offset' \in {0, 16384, 28672} /\ calls' \in 0 .. MaxCalls
    BY ExtractAssumption DEF IInv, TypeOK, Fields, Read
  <2> QED
    BY <2>1, <2>2, <2>3, <2>4, <2>5 DEF TypeOK, Fields
<1>2. Walking'
  BY DEF IInv, Walking, Read, sdmmc_storage_end, Return, Skip
<1>3. Holding'
  BY DEF IInv, Holding, Read, sdmmc_storage_end, Return
<1>4. Closed'
  BY EndResult DEF IInv, Closed, TypeOK, Fields, Read, Return
<1>5. Found'
  BY DEF IInv, Found, Read, sdmmc_storage_end, Return
<1>6. (ExtractedIsWarmboot /\ RefusedForAReason)'
  BY DEF IInv, ExtractedIsWarmboot, RefusedForAReason, WarmbootStarts, Read, sdmmc_storage_end, Return
<1> QED
  BY <1>1, <1>2, <1>3, <1>4, <1>5, <1>6 DEF IInv, Read, sdmmc_storage_end, Return

\* The end of the session.
LEMMA EndSessionOK == IInv /\ EndSession => IInv'
<1> SUFFICES ASSUME IInv, EndSession PROVE IInv'
  OBVIOUS
<1>1. TypeOK'
  <2>1. pc' \in Pc /\ err' \in Errors
    BY DEF IInv, TypeOK, EndSession, Return, Pc, Errors
  <2>2. emmc' \in Fields
    BY EndResult DEF IInv, TypeOK, Fields, EndSession
  <2>3. heap' \in SUBSET {"pkg1", "wb"}
    BY DEF IInv, TypeOK, EndSession, Return
  <2>4. info' \in [data : Nat \cup {-1}, size : Nat]
    BY DEF IInv, TypeOK, EndSession, NoInfo, Return
  <2>5. /\ buf' \in {"none", "user", "boot0"} /\ ptr' \in Nat /\ i' \in 0 .. 3
        /\ pk11_offset' \in {0, 16384, 28672} /\ calls' \in 0 .. MaxCalls
    BY ExtractAssumption DEF IInv, TypeOK, Fields, EndSession
  <2> QED
    BY <2>1, <2>2, <2>3, <2>4, <2>5 DEF TypeOK, Fields
<1>2. Walking'
  BY DEF IInv, Walking, EndSession, sdmmc_storage_end, Return, Skip
<1>3. Holding'
  BY DEF IInv, Holding, EndSession, sdmmc_storage_end, Return
<1>4. Closed'
  BY EndResult DEF IInv, Closed, TypeOK, Fields, EndSession, Return
<1>5. Found'
  BY DEF IInv, Found, EndSession, sdmmc_storage_end, Return
<1>6. (ExtractedIsWarmboot /\ RefusedForAReason)'
  BY DEF IInv, ExtractedIsWarmboot, RefusedForAReason, WarmbootStarts, EndSession, sdmmc_storage_end, Return
<1> QED
  BY <1>1, <1>2, <1>3, <1>4, <1>5, <1>6 DEF IInv, EndSession, sdmmc_storage_end, Return

\* The decryption.
LEMMA DecryptOK == IInv /\ Decrypt => IInv'
<1> SUFFICES ASSUME IInv, Decrypt PROVE IInv'
  OBVIOUS
<1>1. TypeOK'
  <2>1. pc' \in Pc /\ err' \in Errors
    BY DEF IInv, TypeOK, Decrypt, Return, Pc, Errors
  <2>2. emmc' \in Fields
    BY DEF IInv, TypeOK, Fields, Decrypt
  <2>3. heap' \in SUBSET {"pkg1", "wb"}
    <3>1. \/ heap' = heap
          \/ heap' = heap \cup {"pkg1"}
          \/ heap' = heap \ {"pkg1"}
      BY DEF Decrypt
    <3>2. heap \in SUBSET {"pkg1", "wb"}
      BY DEF IInv, TypeOK
    <3> QED
      BY <3>1, <3>2
  <2>4. info' \in [data : Nat \cup {-1}, size : Nat]
    BY DEF IInv, TypeOK, Decrypt, NoInfo, Return
  <2>5. /\ buf' \in {"none", "user", "boot0"} /\ ptr' \in Nat /\ i' \in 0 .. 3
        /\ pk11_offset' \in {0, 16384, 28672} /\ calls' \in 0 .. MaxCalls
    BY ExtractAssumption DEF IInv, TypeOK, Fields, Decrypt
  <2> QED
    BY <2>1, <2>2, <2>3, <2>4, <2>5 DEF TypeOK, Fields
<1>2. Walking'
  BY DEF IInv, Walking, Decrypt, Return, Skip
<1>3. Holding'
  BY DEF IInv, Holding, Decrypt, Return
<1>4. Closed'
  BY DEF IInv, Closed, TypeOK, Decrypt, Return
<1>5. Found'
  BY DEF IInv, Found, Decrypt, Return
<1>6. (ExtractedIsWarmboot /\ RefusedForAReason)'
  BY DEF IInv, ExtractedIsWarmboot, RefusedForAReason, WarmbootStarts, Decrypt, Return
<1> QED
  BY <1>1, <1>2, <1>3, <1>4, <1>5, <1>6 DEF IInv, Decrypt, Return

\* The magic.
LEMMA FindPk11OK == IInv /\ FindPk11 => IInv'
<1> SUFFICES ASSUME IInv, FindPk11 PROVE IInv'
  OBVIOUS
<1>1. TypeOK'
  <2>1. pc' \in Pc /\ err' \in Errors
    BY DEF IInv, TypeOK, FindPk11, Return, Pc, Errors
  <2>2. emmc' \in Fields
    BY DEF IInv, TypeOK, Fields, FindPk11
  <2>3. heap' \in SUBSET {"pkg1", "wb"}
    <3>1. \/ heap' = heap
          \/ heap' = heap \cup {"pkg1"}
          \/ heap' = heap \ {"pkg1"}
      BY DEF FindPk11
    <3>2. heap \in SUBSET {"pkg1", "wb"}
      BY DEF IInv, TypeOK
    <3> QED
      BY <3>1, <3>2
  <2>4. info' \in [data : Nat \cup {-1}, size : Nat]
    BY DEF IInv, TypeOK, FindPk11, NoInfo, Return
  <2>5. /\ buf' \in {"none", "user", "boot0"} /\ ptr' \in Nat /\ i' \in 0 .. 3
        /\ pk11_offset' \in {0, 16384, 28672} /\ calls' \in 0 .. MaxCalls
    BY ExtractAssumption DEF IInv, TypeOK, Fields, FindPk11
  <2> QED
    BY <2>1, <2>2, <2>3, <2>4, <2>5 DEF TypeOK, Fields
<1>2. Walking'
  <2>1. 0 \in DOMAIN pkg.word
    BY ContainerOf DEF IInv, Container
  <2>2. ptr' = 0 /\ i' = 0 /\ pkg' = pkg /\ pc' \in {"walk", "done"}
    BY DEF FindPk11, Return
  <2> QED
    BY <2>1, <2>2 DEF Walking
<1>3. Holding'
  BY DEF IInv, Holding, FindPk11, Return
<1>4. Closed'
  BY DEF IInv, Closed, TypeOK, FindPk11, Return
<1>5. Found'
  BY DEF IInv, Found, FindPk11, Return
<1>6. (ExtractedIsWarmboot /\ RefusedForAReason)'
  <2>1. pkg.magicAt \subseteq {16384, 28672}
    BY ContainerOf DEF IInv, Container
  <2>2. /\ pc' = "walk" \/ (pc' = "done" /\ err' = "PK11_MAGIC")
        /\ pc' = "done" => 16384 \notin pkg.magicAt /\ 28672 \notin pkg.magicAt
        /\ pkg' = pkg
    BY DEF FindPk11, Return
  <2>3. pc' = "done" => pkg.magicAt = {}
    BY <2>1, <2>2
  <2> QED
    BY <2>2, <2>3 DEF ExtractedIsWarmboot, RefusedForAReason
<1> QED
  BY <1>1, <1>2, <1>3, <1>4, <1>5, <1>6 DEF IInv, FindPk11, Return

\* A round of the walk.
LEMMA WalkOK == IInv /\ Walk => IInv'
<1> SUFFICES ASSUME IInv, Walk PROVE IInv'
  OBVIOUS
<1> DEFINE first == Skip(pkg.word[0])
           second == first + Skip(pkg.word[first])
<1>1. /\ pkg \in Packages /\ pkg' = pkg /\ pc = "walk" /\ i \in 0 .. 2
      /\ ptr \in DOMAIN pkg.word /\ Word(ptr) = pkg.word[ptr]
      /\ UNCHANGED <<emmc, buf, heap, pk11_offset, info, err, calls>>
  BY DEF IInv, Walking, Walk, Word
<1>2. /\ \A q \in DOMAIN pkg.word : q \in Nat
      /\ pkg.word[0] \in Signatures => first \in DOMAIN pkg.word
      /\ pkg.word[0] \in Signatures /\ pkg.word[first] \in Signatures =>
           second \in DOMAIN pkg.word /\ pkg.word[second] \notin Signatures
  <2>1. first \in Nat /\ 0 + first = first
    BY <1>1, SkipIsNat
  <2>2. Container(pkg)
    BY <1>1, ContainerOf
  <2> QED
    BY <2>1, <2>2 DEF Container, Skip
<1>3. /\ ptr' \in DOMAIN pkg.word /\ i' \in 0 .. 3
      /\ pc' = IF i' < 3 THEN "walk" ELSE "size"
      /\ pc' = "walk" /\ i' = 1 => pkg.word[0] \in Signatures /\ ptr' = first
      /\ pc' = "walk" /\ i' = 2 => /\ pkg.word[0] \in Signatures
                                   /\ pkg.word[first] \in Signatures
                                   /\ ptr' = second
      /\ i' # 0
      /\ pc' = "size" => pkg.word[ptr'] \notin Signatures
  <2>1. CASE pkg.word[ptr] \notin Signatures
    BY <2>1, <1>1 DEF Walk
  <2>2. CASE pkg.word[ptr] \in Signatures
    <3>1. ptr' = ptr + Skip(pkg.word[ptr]) /\ i' = i + 1
      BY <2>2, <1>1 DEF Walk
    <3>2. pc' = IF i' < 3 THEN "walk" ELSE "size"
      BY DEF Walk
    <3>3. CASE i = 0
      <4>1. ptr = 0
        BY <3>3, <1>1 DEF IInv, Walking
      <4>2. first \in Nat
        BY <1>1, SkipIsNat
      <4>3. ptr' = first /\ i' = 1
        BY <3>1, <3>3, <4>1, <4>2
      <4> QED
        BY <4>1, <4>3, <3>2, <2>2, <1>2
    <3>4. CASE i = 1
      <4>1. pkg.word[0] \in Signatures /\ ptr = first
        BY <3>4, <1>1 DEF IInv, Walking
      <4>2. ptr' = second /\ i' = 2
        BY <3>1, <3>4, <4>1
      <4> QED
        BY <4>1, <4>2, <3>2, <2>2, <1>2
    <3>5. CASE i = 2
      <4>1. /\ pkg.word[0] \in Signatures /\ pkg.word[first] \in Signatures
            /\ ptr = second
        BY <3>5, <1>1 DEF IInv, Walking
      <4> QED
        BY <4>1, <2>2, <1>2
    <3> QED
      BY <3>3, <3>4, <3>5, <1>1
  <2> QED
    BY <2>1, <2>2
<1>4. TypeOK'
  BY <1>1, <1>2, <1>3 DEF IInv, TypeOK, Pc
<1>5. Walking'
  <2>1. pc' = "walk" => i' \in 0 .. 2
    BY <1>3
  <2> QED
    BY <1>1, <1>3, <2>1 DEF Walking, Skip
<1>6. Holding' /\ Closed' /\ Found'
  BY <1>1, <1>3 DEF IInv, Holding, Closed, Found
<1>7. (ExtractedIsWarmboot /\ RefusedForAReason)'
  BY <1>1, <1>3 DEF ExtractedIsWarmboot, RefusedForAReason
<1> QED
  BY <1>1, <1>4, <1>5, <1>6, <1>7 DEF IInv

\* The size.
LEMMA CheckSizeOK == IInv /\ CheckSize => IInv'
<1> SUFFICES ASSUME IInv, CheckSize PROVE IInv'
  OBVIOUS
<1>1. /\ pkg \in Packages /\ pkg' = pkg /\ pc = "size" /\ buf = "boot0"
      /\ ptr \in DOMAIN pkg.word /\ pkg.word[ptr] \notin Signatures
      /\ Word(ptr) = pkg.word[ptr]
      /\ heap = {"pkg1"} /\ err = "none" /\ info \in [data : Nat \cup {-1}, size : Nat]
      /\ UNCHANGED <<emmc, buf, ptr, i, pk11_offset, calls>>
  BY DEF IInv, TypeOK, Walking, Holding, Found, CheckSize, Word
<1>2. /\ pkg.word[ptr] \in Nat
      /\ \A q \in WarmbootStarts : q = ptr
  BY <1>1, ContainerOf DEF Container, WarmbootStarts
<1>3. info' \in [data : Nat \cup {-1}, size : Nat] /\ info'.size = pkg.word[ptr]
  BY <1>1, <1>2 DEF CheckSize
<1>4. CASE pkg.word[ptr] < WARMBOOT_MIN_SIZE \/ pkg.word[ptr] >= WARMBOOT_MAX_SIZE
  <2>1. heap' = {} /\ pc' = "done" /\ err' = "WB_SIZE_INVALID"
    BY <1>1, <1>4 DEF CheckSize, Return
  <2>2. RefusedForAReason'
    <3>1. info'.size \notin WARMBOOT_MIN_SIZE .. (WARMBOOT_MAX_SIZE - 1)
      <4>1. PICK n \in Nat : n = pkg.word[ptr]
        BY <1>2
      <4>2. n < WARMBOOT_MIN_SIZE \/ n >= WARMBOOT_MAX_SIZE
        BY <4>1, <1>4
      <4>3. n \notin WARMBOOT_MIN_SIZE .. (WARMBOOT_MAX_SIZE - 1)
        BY <4>2 DEF WARMBOOT_MIN_SIZE, WARMBOOT_MAX_SIZE
      <4> QED
        BY <4>1, <4>3, <1>3
    <3>2. ptr' \in WarmbootStarts' /\ info'.size = pkg'.word[ptr']
      BY <1>1, <1>3 DEF WarmbootStarts
    <3> QED
      BY <2>1, <3>1, <3>2 DEF RefusedForAReason
  <2>3. TypeOK'
    BY <2>1, <1>1, <1>3 DEF IInv, TypeOK, Pc, Errors
  <2> QED
    BY <2>1, <2>2, <2>3, <1>1
    DEF IInv, Walking, Holding, Closed, Found, ExtractedIsWarmboot
<1>5. CASE ~(pkg.word[ptr] < WARMBOOT_MIN_SIZE \/ pkg.word[ptr] >= WARMBOOT_MAX_SIZE)
  <2>1. heap' = {"pkg1"} /\ pc' = "malloc_wb" /\ err' = "none"
    BY <1>1, <1>5 DEF CheckSize
  <2>2. pkg.word[ptr] \in WARMBOOT_MIN_SIZE .. (WARMBOOT_MAX_SIZE - 1)
    <3>1. PICK n \in Nat : n = pkg.word[ptr]
      BY <1>2
    <3>2. ~(n < WARMBOOT_MIN_SIZE \/ n >= WARMBOOT_MAX_SIZE)
      BY <3>1, <1>5
    <3>3. n \in WARMBOOT_MIN_SIZE .. (WARMBOOT_MAX_SIZE - 1)
      BY <3>2 DEF WARMBOOT_MIN_SIZE, WARMBOOT_MAX_SIZE
    <3> QED
      BY <3>1, <3>3
  <2>3. TypeOK'
    BY <2>1, <1>1, <1>3 DEF IInv, TypeOK, Pc, Errors
  <2>4. Found'
    <3>1. info'.size = pkg'.word[ptr'] /\ pkg'.word[ptr'] = pkg.word[ptr]
      BY <1>1, <1>3
    <3>2. buf' = "boot0"
      BY <1>1 DEF IInv, Found
    <3> QED
      BY <2>2, <3>1, <3>2 DEF Found
  <2> QED
    BY <2>1, <2>3, <2>4, <1>1
    DEF IInv, Walking, Holding, Closed, ExtractedIsWarmboot, RefusedForAReason
<1> QED
  BY <1>4, <1>5

\* The copy.
LEMMA CopyWarmbootOK == IInv /\ CopyWarmboot => IInv'
<1> SUFFICES ASSUME IInv, CopyWarmboot PROVE IInv'
  OBVIOUS
<1>1. TypeOK'
  BY DEF IInv, TypeOK, CopyWarmboot, Return, Pc, Errors, NoInfo
<1>2. Walking'
  BY DEF IInv, Walking, CopyWarmboot, Return, Skip
<1>3. Holding'
  BY DEF IInv, Holding, CopyWarmboot, Return
<1>4. Closed'
  BY DEF IInv, Closed, TypeOK, CopyWarmboot, Return
<1>5. Found'
  BY DEF IInv, Found, CopyWarmboot, Return
<1>6. (ExtractedIsWarmboot /\ RefusedForAReason)'
  <2>1. /\ buf = "boot0" /\ ptr \in DOMAIN pkg.word /\ pkg.word[ptr] \notin Signatures
        /\ info \in [data : Nat \cup {-1}, size : Nat] /\ info.size = pkg.word[ptr]
        /\ info.size \in WARMBOOT_MIN_SIZE .. (WARMBOOT_MAX_SIZE - 1)
    BY DEF IInv, TypeOK, Walking, Found, CopyWarmboot
  <2>2. /\ pkg' = pkg /\ buf' = buf /\ pc' = "done" /\ err' \in {"SUCCESS", "MALLOC_WB"}
        /\ err' = "SUCCESS" => info' = [info EXCEPT !.data = ptr]
    BY DEF CopyWarmboot, Return
  <2>3. err' = "SUCCESS" => info'.data = ptr /\ info'.size = info.size
    BY <2>1, <2>2
  <2>4. RefusedForAReason'
    BY <2>2 DEF RefusedForAReason
  <2>5. ExtractedIsWarmboot'
    BY <2>1, <2>2, <2>3
    DEF ExtractedIsWarmboot, WarmbootStarts, WARMBOOT_MIN_SIZE, WARMBOOT_MAX_SIZE
  <2> QED
    BY <2>4, <2>5
<1> QED
  BY <1>1, <1>2, <1>3, <1>4, <1>5, <1>6 DEF IInv, CopyWarmboot, Return

\* The next call.
LEMMA AgainOK == IInv /\ Again => IInv'
<1> SUFFICES ASSUME IInv, Again PROVE IInv'
  OBVIOUS
<1>1. TypeOK'
  BY DEF IInv, TypeOK, Again, Return, Pc, Errors, NoInfo
<1>2. Walking'
  BY DEF IInv, Walking, Again, Return, Skip
<1>3. Holding'
  BY DEF IInv, Holding, Again, Return
<1>4. Closed'
  BY DEF IInv, Closed, TypeOK, Again, Return
<1>5. Found'
  BY DEF IInv, Found, Again, Return
<1>6. (ExtractedIsWarmboot /\ RefusedForAReason)'
  BY DEF IInv, ExtractedIsWarmboot, RefusedForAReason, WarmbootStarts, Again, Return
<1> QED
  BY <1>1, <1>2, <1>3, <1>4, <1>5, <1>6 DEF IInv, Again, Return


-----------------------------------------------------------------------------
\* The theorems

LEMMA NextOK == IInv /\ [Next]_vars => IInv'
<1> SUFFICES ASSUME IInv, [Next]_vars PROVE IInv'
  OBVIOUS
<1>1. CASE UNCHANGED vars
  BY <1>1 DEF vars, IInv, TypeOK, Walking, Skip, Holding, Closed, Found,
     ExtractedIsWarmboot, RefusedForAReason, WarmbootStarts
<1>2. CASE Finished
  BY <1>1, <1>2 DEF Finished
<1> QED
  BY <1>1, <1>2, CallOK, MallocPkg1OK, EndOldSessionOK, InitMmcOK, SetPartitionOK, ReadOK, EndSessionOK,
     DecryptOK, FindPk11OK, WalkOK, CheckSizeOK, CopyWarmbootOK, AgainOK DEF Next

THEOREM Invariance == Spec => []IInv
<1>1. Init => IInv
  BY InitOK
<1>2. IInv /\ [Next]_vars => IInv'
  BY NextOK
<1> QED
  BY <1>1, <1>2, PTL DEF Spec

\* extract_warmboot_from_pkg1_ex stays well typed for every container and any
\* number of calls: the loop counter ends, the pointer stays on payloads.
THEOREM ExtractTypeCorrect == Spec => []TypeOK
<1>1. IInv => TypeOK
  BY DEF IInv
<1> QED
  BY <1>1, Invariance, PTL

\* warmboot_extractor.c:297-318: whatever the sizes and the order of the payloads,
\* the data that is handed out is the warmboot, read from BOOT0.
THEOREM HandsOutTheWarmboot == Spec => []ExtractedIsWarmboot
<1>1. IInv => ExtractedIsWarmboot
  BY DEF IInv
<1> QED
  BY <1>1, Invariance, PTL

\* A Package1 is refused for its magic only without one, and for its size only for
\* that of its warmboot, outside 0x800 .. 0xFFF (warmboot_extractor.c:278-281, 347-353).
THEOREM RefusesForAReason == Spec => []RefusedForAReason
<1>1. IInv => RefusedForAReason
  BY DEF IInv
<1> QED
  BY <1>1, Invariance, PTL

\* Each of the nine exits frees what it holds and has ended the session.
THEOREM AlwaysCleanedUp == Spec => []CleanedUp
<1>1. IInv => CleanedUp
  BY DEF IInv, Holding, Closed, CleanedUp
<1> QED
  BY <1>1, Invariance, PTL
===============================================================================
