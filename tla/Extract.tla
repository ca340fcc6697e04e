------------------------------- MODULE Extract -------------------------------
(***************************************************************************)
(* extract_warmboot_from_pkg1_ex (source/warmboot/warmboot_extractor.c):   *)
(* read Package1 from the BOOT0 partition of the eMMC, decrypt it, walk    *)
(* the PK11 container and copy the warmboot out.  One action per call that *)
(* can fail; the eMMC layer (source/storage/emummc.c, bdk/storage/sdmmc.c) *)
(* is modelled with it, for sysMMC: no code of this program sets           *)
(* emu_cfg.enabled.                                                        *)
(*                                                                         *)
(* A Package1 is a record: hint, whether its header names a firmware of    *)
(* 6.2.0 or later; magicAt, the offsets where "PK11" is found; nx and sm,  *)
(* the sizes in bytes of pk11[6] and pk11[4]; word, what is found at the   *)
(* start of each payload, by its word offset from the first one.           *)
(***************************************************************************)
EXTENDS Integers

CONSTANTS Packages,   \* the Package1 images that BOOT0 may hold
          Code,       \* a word inside a payload: no signature
          NX_BOOTLOADER, SECURE_MONITOR_1, SECURE_MONITOR_2,  \* signatures
          MaxCalls    \* how often the function is called

VARIABLES pc,         \* the call that is made next
          pkg,        \* the image in BOOT0
          emmc,       \* emmc_storage and the eMMC controller
          buf,        \* partition that the Package1 buffer was read from
          heap,       \* buffers that are allocated
          ptr,        \* pk11_data, in words from the first payload
          i,          \* loop counter of the walk
          pk11_offset,
          info,       \* the fields data and size of wb_info
          err,        \* the result of the call
          calls

vars == <<pc, pkg, emmc, buf, heap, ptr, i, pk11_offset, info, err, calls>>

Signatures == {NX_BOOTLOADER, SECURE_MONITOR_1, SECURE_MONITOR_2}

\* How far a signature moves pk11_data.
SkipIn(p, signature) == (IF signature = NX_BOOTLOADER THEN p.nx ELSE p.sm) \div 4

\* A PK11 container: the payloads follow each other, and the first, second or
\* third is the warmboot, the only one without a signature; it starts with its size.
Container(p) ==
  LET signed(q) == p.word[q] \in Signatures
      next(q)   == q + SkipIn(p, p.word[q])
      starts    == DOMAIN p.word
  IN  /\ p.nx \in Nat /\ p.sm \in Nat /\ p.magicAt \subseteq {16384, 28672}
      /\ 0 \in starts
      /\ signed(0) => /\ next(0) \in starts
                      /\ signed(next(0)) => /\ next(next(0)) \in starts
                                            /\ ~signed(next(next(0)))
      /\ \A q \in starts : q \in Nat
      /\ \A q \in starts : ~signed(q) => p.word[q] \in Nat
      /\ \A q, r \in starts : ~signed(q) /\ ~signed(r) => q = r

ASSUME ExtractAssumption == MaxCalls \in Nat /\ \A p \in Packages : Container(p)

WARMBOOT_MIN_SIZE == 2048    \* 0x800
WARMBOOT_MAX_SIZE == 4096    \* 0x1000

Pc == {"call", "malloc_pkg1", "end_old", "init", "partition", "read", "end",
       "decrypt", "pk11", "walk", "size", "malloc_wb", "done"}
Errors == {"none", "SUCCESS", "MALLOC_PKG1", "MMC_INIT", "MMC_READ",
           "DECRYPT_VERIFY", "PK11_MAGIC", "WB_SIZE_INVALID", "MALLOC_WB"}

NoInfo == [data |-> -1, size |-> 0]

\* (pkg is one of Packages and never changes.)
TypeOK ==
  /\ pc \in Pc
  /\ emmc \in [sdmmc : BOOLEAN, initialized : BOOLEAN, clock : BOOLEAN,
               stuck : BOOLEAN, partition : {"user", "boot0"}]
  /\ buf \in {"none", "user", "boot0"}
  /\ heap \in SUBSET {"pkg1", "wb"}
  /\ ptr \in Nat
  /\ i \in 0 .. 3
  /\ pk11_offset \in {0, 16384, 28672}
  /\ info \in [data : Nat \cup {-1}, size : Nat]
  /\ err \in Errors
  /\ calls \in 0 .. MaxCalls

\* start.S clears emmc_storage: no session at first.
Init ==
  /\ pc = "call"
  /\ pkg \in Packages
  /\ emmc = [sdmmc |-> FALSE, initialized |-> FALSE, clock |-> FALSE,
             stuck |-> FALSE, partition |-> "user"]
  /\ buf = "none"
  /\ heap = {}
  /\ ptr = 0
  /\ i = 0
  /\ pk11_offset = 0
  /\ info = NoInfo
  /\ err = "none"
  /\ calls = 0

-----------------------------------------------------------------------------
\* The eMMC layer

\* sdmmc_storage_end: CMD0, then sdmmc_end.  When the card does not go idle
\* (or the clock is off already) nothing is switched off.
sdmmc_storage_end ==
  \/ emmc' = [emmc EXCEPT !.stuck = TRUE]
  \/ /\ emmc.clock
     /\ emmc' = [sdmmc |-> emmc.sdmmc, initialized |-> FALSE, clock |-> FALSE,
                 stuck |-> FALSE, partition |-> emmc.partition]

\* sdmmc_storage_init_mmc: a failure leaves the controller as far as it came;
\* an eMMC older than version 4.0 returns success before `initialized' is set.
sdmmc_storage_init_mmc(ok) ==
  \E initialized, clock \in BOOLEAN :
     /\ initialized => ok
     /\ ok => clock
     /\ emmc' = [sdmmc |-> TRUE, initialized |-> initialized, clock |-> clock,
                 stuck |-> FALSE, partition |-> "user"]

\* emummc_storage_set_mmc_partition: the result of the switch command is not
\* looked at, the function returns 1 in any case.
emummc_storage_set_mmc_partition ==
  emmc' = emmc \/ emmc' = [emmc EXCEPT !.partition = "boot0"]

-----------------------------------------------------------------------------
Return(e) == pc' = "done" /\ err' = e

\* wb_info is cleared; this is a Mariko console (main.c does not call it on an
\* Erista).  The caller has freed the data of an earlier call (cleanup_exit).
Call ==
  /\ pc = "call"
  /\ calls < MaxCalls
  /\ calls' = calls + 1
  /\ info' = NoInfo
  /\ err' = "none"
  /\ buf' = "none"
  /\ heap' = heap \ {"wb"}
  /\ pc' = "malloc_pkg1"
  /\ UNCHANGED <<pkg, emmc, ptr, i, pk11_offset>>

MallocPkg1 ==
  /\ pc = "malloc_pkg1"
  /\ \/ heap' = heap \cup {"pkg1"} /\ pc' = "end_old" /\ err' = err
     \/ heap' = heap /\ Return("MALLOC_PKG1")
  /\ UNCHANGED <<pkg, emmc, buf, ptr, i, pk11_offset, info, calls>>

\* if (emmc_storage.sdmmc != NULL) sdmmc_storage_end
EndOldSession ==
  /\ pc = "end_old"
  /\ IF emmc.sdmmc THEN sdmmc_storage_end ELSE emmc' = emmc
  /\ pc' = "init"
  /\ UNCHANGED <<pkg, buf, heap, ptr, i, pk11_offset, info, err, calls>>

InitMmc ==
  /\ pc = "init"
  /\ \E ok \in BOOLEAN :
        /\ sdmmc_storage_init_mmc(ok)
        /\ IF ok THEN pc' = "partition" /\ UNCHANGED <<heap, err>>
                 ELSE heap' = heap \ {"pkg1"} /\ Return("MMC_INIT")
  /\ UNCHANGED <<pkg, buf, ptr, i, pk11_offset, info, calls>>

SetPartition ==
  /\ pc = "partition"
  /\ emummc_storage_set_mmc_partition
  /\ pc' = "read"
  /\ UNCHANGED <<pkg, buf, heap, ptr, i, pk11_offset, info, err, calls>>

\* Mutant: the failure path returns with the session open.
ReadLeavesSession ==
  /\ pc = "read"
  /\ \/ /\ emmc.initialized
        /\ buf' = emmc.partition
        /\ pc' = "end"
        /\ UNCHANGED <<emmc, heap, err>>
     \/ heap' = heap \ {"pkg1"} /\ Return("MMC_READ") /\ UNCHANGED <<buf, emmc>>
  /\ UNCHANGED <<pkg, ptr, i, pk11_offset, info, calls>>

\* The read fails without a session, or after five tries; a failure ends the
\* session before it returns.
Read ==
  /\ pc = "read"
  /\ \/ /\ emmc.initialized
        /\ buf' = emmc.partition
        /\ pc' = "end"
        /\ UNCHANGED <<emmc, heap, err>>
     \/ /\ sdmmc_storage_end
        /\ heap' = heap \ {"pkg1"}
        /\ Return("MMC_READ")
        /\ UNCHANGED buf
  /\ UNCHANGED <<pkg, ptr, i, pk11_offset, info, calls>>

EndSession ==
  /\ pc = "end"
  /\ sdmmc_storage_end
  /\ pc' = "decrypt"
  /\ UNCHANGED <<pkg, buf, heap, ptr, i, pk11_offset, info, err, calls>>

\* The copy of the header only decrypts to the header when the BEK is the right
\* one and the bytes are a Package1.
Decrypt ==
  /\ pc = "decrypt"
  /\ \/ buf = "boot0" /\ pc' = "pk11" /\ UNCHANGED <<heap, err>>
     \/ heap' = heap \ {"pkg1"} /\ Return("DECRYPT_VERIFY")
  /\ UNCHANGED <<pkg, emmc, buf, ptr, i, pk11_offset, info, calls>>

\* The offset that fits the firmware first, then the other one.
FindPk11 ==
  LET first == IF pkg.hint THEN 28672 ELSE 16384
      other == IF first = 16384 THEN 28672 ELSE 16384
      found == IF first \in pkg.magicAt THEN first ELSE other
  IN /\ pc = "pk11"
     /\ IF found \in pkg.magicAt
        THEN /\ pk11_offset' = found
             /\ pc' = "walk"
             /\ UNCHANGED <<heap, err>>
        ELSE /\ heap' = heap \ {"pkg1"}
             /\ Return("PK11_MAGIC")
             /\ UNCHANGED pk11_offset
     /\ ptr' = 0
     /\ i' = 0
     /\ UNCHANGED <<pkg, emmc, buf, info, calls>>

\* *pk11_data
Word(p) == IF p \in DOMAIN pkg.word THEN pkg.word[p] ELSE Code

\* Mutant: the sizes pk11[4] and pk11[6] exchanged.
SkipExchanged(signature) ==
  (IF signature = NX_BOOTLOADER THEN pkg.sm ELSE pkg.nx) \div 4

\* The switch; a word that is no signature skips nothing.
Skip(signature) == SkipIn(pkg, signature)

\* Mutant: one round too many, i <= 3.
WalkOnceMore ==
  /\ pc = "walk"
  /\ ptr' = IF Word(ptr) \in Signatures THEN ptr + Skip(Word(ptr)) ELSE ptr
  /\ i' = i + 1
  /\ pc' = IF i' <= 3 THEN "walk" ELSE "size"
  /\ UNCHANGED <<pkg, emmc, buf, heap, pk11_offset, info, err, calls>>

\* One round of for (i = 0; i < 3; i++).
Walk ==
  /\ pc = "walk"
  /\ IF Word(ptr) \in Signatures
     THEN ptr' = ptr + Skip(Word(ptr)) /\ i' = i + 1
     ELSE ptr' = ptr /\ i' = 3
  /\ pc' = IF i' < 3 THEN "walk" ELSE "size"
  /\ UNCHANGED <<pkg, emmc, buf, heap, pk11_offset, info, err, calls>>

\* Mutant: the two bounds are combined with "and", so that every size passes.
CheckSizeBoth ==
  /\ pc = "size"
  /\ info' = [info EXCEPT !.size = Word(ptr)]
  /\ IF Word(ptr) < WARMBOOT_MIN_SIZE /\ Word(ptr) >= WARMBOOT_MAX_SIZE
     THEN heap' = heap \ {"pkg1"} /\ Return("WB_SIZE_INVALID")
     ELSE pc' = "malloc_wb" /\ UNCHANGED <<heap, err>>
  /\ UNCHANGED <<pkg, emmc, buf, ptr, i, pk11_offset, calls>>

\* wb_size is the word that pk11_data has come to.
CheckSize ==
  /\ pc = "size"
  /\ info' = [info EXCEPT !.size = Word(ptr)]
  /\ IF Word(ptr) < WARMBOOT_MIN_SIZE \/ Word(ptr) >= WARMBOOT_MAX_SIZE
     THEN heap' = heap \ {"pkg1"} /\ Return("WB_SIZE_INVALID")
     ELSE pc' = "malloc_wb" /\ UNCHANGED <<heap, err>>
  /\ UNCHANGED <<pkg, emmc, buf, ptr, i, pk11_offset, calls>>

\* Allocate, copy from pk11_data, free the Package1 buffer.
CopyWarmboot ==
  /\ pc = "malloc_wb"
  /\ \/ /\ heap' = (heap \cup {"wb"}) \ {"pkg1"}
        /\ info' = [info EXCEPT !.data = ptr]
        /\ Return("SUCCESS")
     \/ /\ heap' = heap \ {"pkg1"}
        /\ info' = info
        /\ Return("MALLOC_WB")
  /\ UNCHANGED <<pkg, emmc, buf, ptr, i, pk11_offset, calls>>

\* The caller is done with the result and may call again.
Again ==
  /\ pc = "done"
  /\ calls < MaxCalls
  /\ pc' = "call"
  /\ UNCHANGED <<pkg, emmc, buf, heap, ptr, i, pk11_offset, info, err, calls>>

Finished == pc = "done" /\ calls = MaxCalls /\ UNCHANGED vars

Next ==
  \/ Call \/ MallocPkg1 \/ EndOldSession \/ InitMmc \/ SetPartition \/ Read
  \/ EndSession \/ Decrypt \/ FindPk11 \/ Walk \/ CheckSize \/ CopyWarmboot
  \/ Again \/ Finished

Spec == Init /\ [][Next]_vars

-----------------------------------------------------------------------------
\* Properties

\* Where the warmboot really is: the payload that starts with no signature.
WarmbootStarts == {p \in DOMAIN pkg.word : pkg.word[p] \notin Signatures}

\* The data that is handed out is the warmboot payload, whatever the order of
\* the payloads, read from BOOT0, and its size is in the range that README.md:67
\* gives, 0x800 to 0x1000.
ExtractedIsWarmboot ==
  (pc = "done" /\ err = "SUCCESS") =>
     /\ buf = "boot0"
     /\ info.data \in WarmbootStarts
     /\ info.size = pkg.word[info.data]
     /\ info.size \in WARMBOOT_MIN_SIZE .. WARMBOOT_MAX_SIZE

\* A well-formed Package1 is not refused: the container is reported missing only
\* when neither offset has it; a refusal for the size is about the size word of the
\* warmboot itself, never about another payload's, and no size from 0x800 to below
\* 0x1000 is refused.  Of 0x1000 itself nothing is said: the code refuses it, and
\* README.md:67, 94 and 302 give it as the largest size that is accepted.
RefusedForAReason ==
  pc = "done" =>
     /\ err = "PK11_MAGIC" => pkg.magicAt = {}
     /\ err = "WB_SIZE_INVALID" =>
          /\ ptr \in WarmbootStarts
          /\ info.size = pkg.word[ptr]
          /\ info.size \notin WARMBOOT_MIN_SIZE .. (WARMBOOT_MAX_SIZE - 1)

\* The nine ways out of the function clean up alike.  The Package1 buffer is freed
\* and the warmboot buffer is the caller's exactly when the call succeeded; the
\* eMMC is switched off before the result is used, whatever failed, unless it did
\* not answer CMD0 or was never brought up.
CleanedUp ==
  /\ pc = "done" => heap = IF err = "SUCCESS" THEN {"wb"} ELSE {}
  /\ (pc \in {"decrypt", "done"} /\ err \notin {"MMC_INIT", "MALLOC_PKG1"}) =>
       emmc.stuck \/ ~emmc.clock
=============================================================================
