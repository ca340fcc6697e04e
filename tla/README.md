# Verification of Warmboot-Extractor

Warmboot-Extractor is a bare-metal payload for a game console. It reads
Package1 from the eMMC, decrypts it, takes the warmboot firmware out of its PK11
container and writes two files to the SD card: `warmboot_mariko/wb_XX.bin` for
Atmosphere and `bootloader/sys/l4t/sc7exit_b01.bin` for Hekate. Then it waits for
the user and starts another payload. There is one thread and no interrupt
handler with state; what makes the program hard is what happens to it: calls
that fail half-way, power that goes away between two writes, a card that is
pulled, a user who presses buttons between two polls, and a program that is
started again on whatever the last start left behind.

## Inventory

| Component | Source | State it keeps | Operations | Modelled |
|---|---|---|---|---|
| Saving the files | `source/warmboot/warmboot_extractor.c:388-474` | names on the card, local `success` | `save_warmboot_to_sd`, `save_sc7exit_to_sd` | `Saves` |
| FatFs names | `bdk/libs/fatfs/ff.c` | sector window, directory | `f_stat`, `f_open`, `f_write`, `f_close`, `f_unlink`, `f_rename` | `FatVolume` (partly) |
| FatFs clusters | `bdk/libs/fatfs/ff.c` | FAT, exFAT bitmap, `FFOBJID`, `FIL`, count of free clusters | `f_open`, `f_read`, `f_write`, `f_lseek`, `f_truncate`, `f_sync`, `f_close`, `f_unlink`, `f_getfree` | `FatAlloc`, `FatFile` (partly) |
| Package1 extraction | `source/warmboot/warmboot_extractor.c:132-380` | `wb_info`, two heap buffers | `extract_warmboot_from_pkg1_ex` | `Extract` |
| eMMC session | `source/storage/emummc.c`, `bdk/storage/sdmmc.c` | `emmc_storage`, selected partition | init, end, set partition, read with five tries | `Extract` (sysMMC) |
| Workflow and exit | `source/main.c`, `source/frontend/gui.c` | `wb_info.data`, `payload_path`, flags of the loop | `ipl_main`, `warmboot_extraction_workflow`, `launch_payload`, `save_fb_to_bmp` | `Workflow` |
| Touch and buttons | `bdk/input/touch.c`, `bdk/utils/btn.c` | the event passed in | `touch_poll`, `btn_read`, `btn_wait` | `Workflow` (partly) |
| SD mount, speed fallback | `source/storage/nx_sd.c`, `bdk/storage/sdmmc.c:238-309` | `sd_mounted`, `sd_mode`, `sd_errors` | `sd_mount`, `sd_end`, `sd_initialize`, `sd_init_retry`, transfer retry | `SdCard`, `SdPromise`, `Workflow` |
| Heap | `bdk/mem/heap.c` | linked list of nodes | `malloc`, `free` | `Heap`, `Allocator` |
| BIS cluster cache, GPT | `source/storage/nx_emmc_bis.c`, `nx_emmc.c` | cache slots, `cluster_lookup`, dirty count, saved tweak | `nx_emmc_bis_init`, `_read`, `_write`, `_finalize`, `_end` | `BisCache` (the GPT list is not) |
| SD/MMC host driver | `bdk/storage/sdmmc_driver.c`, `bdk/storage/sdmmc.c` | rails, pads, `sdmmc_t`, `sdmmc_storage_t`, the card's own mode | `sdmmc_init`, `sdmmc_end`, `sdmmc_setup_clock`, `sdmmc_enable_low_voltage`, `sdmmc_storage_init_sd`, `sdmmc_storage_init_mmc` | `SdmmcHost`, `SdInit`, `MmcInit`, `Sdmmc` (partly) |
| Boot loader, LZ77 | `loader/start.S`, `loader/loader.c`, `tools/lz`, `bdk/libs/compr/lz.c` | the memory of the console before the program runs | the coder of the build, two moves, `LZ_Uncompress` | `Lz77`, `Loader` |
| Everything else | see PROJECT.json | | | not modelled |

How they interact: everything is a direct call. `ipl_main` mounts the card and
calls the workflow; the workflow calls the extraction, which allocates from the
heap and drives the eMMC session; the result is passed to the two save routines,
which call FatFs; FatFs calls `disk_read`/`disk_write`, which call the SD layer,
which may re-initialise the card in the middle of a transfer. State that is
shared and can be stale: `sd_mounted` (set while the card is gone), the
registered volume (set by a failed `f_mount`), the FatFs sector window (newer
than the medium), `emmc_storage` (left by an earlier session), and what the card in
the slot remembers of one: a card that was switched to 1.8 V stays there until it
loses its power. Before any of this runs, the boot loader has unpacked the program
over its own packed copy.

What makes each component correct:

* *Saving*: the user's sc7exit file is not lost by any failure or power loss; the
  installed name never leads to a half-written file; "saved" means on the card (both
  fail where the result of `f_close` is dropped, see below);
  whatever an interrupted boot leaves behind never blocks the next one.
* *Extraction*: what is handed out is the warmboot of BOOT0, with a size in range;
  a good Package1 is never refused; each of the nine exits releases what it holds
  and ends the eMMC session.
* *Workflow*: the buffer is released once on every path; a press that lasts is
  never missed; the right payload is started with the card shut down; once the
  program leaves it ends in a payload or a reboot.
* *SD card*: the speed only goes down, every retry loop ends, a transfer that
  reports success has moved every sector at one speed.
* *Heap*: blocks never overlap, unused neighbours are joined, the list and the
  memory agree.
* *Clusters*: a file leads to its clusters in their order however it was grown, cut
  and reopened; a cluster belongs to one file; the count of free clusters is exact;
  disk errors lose clusters but do not hand one out twice.
* *BIS cache*: it behaves as the partition would without it; what it knows of itself
  (lookup, dirty count) stays exact also when transfers fail.
* *SD/MMC bring-up*: rails, pads, controller and card agree on voltage, width and
  speed on every way through the initialisation; a fallback is slower than what
  failed; the initialisation ends.
* *Boot loader*: the program that is started is the one that was built.

## Modules

* `FatVolume` - the operations of ff.c on the four names the saves use. A
  directory has two values: `dir`, which FatFs sees through its sector window,
  and `card`, which is on the medium. A call that ends in `sync_fs` and returns
  FR_OK makes them equal; a call that fails stops at any of its stages, and the
  medium has any of the directories the window went through. A directory entry is
  a cluster chain, an entry of size 0, or absent; a chain holds a version, a part
  of one, or is free. `crossed` remembers that two names have shared a chain, `torn`
  what a file was left with whose `f_close` failed: its chain, and the entry of size 0.
* `Saves` (extends `FatVolume`) - the two save routines, one action per FatFs call
  in the order of the code, `PowerOff` at any moment, `Start` again. A power loss
  inside a call is that call failing at the stage it had reached, followed by
  `PowerOff`. `f_mkdir` is left out: its result is ignored and no property is
  about directories; a missing directory is one of the ways `f_open` fails.
* `MCSaves` - the symmetry of cluster chains.
* `Extract` - `extract_warmboot_from_pkg1_ex`, one action per call that can fail,
  and the eMMC layer under it: `sdmmc_storage_end`, which gives up when CMD0
  fails, `sdmmc_storage_init_mmc`, which reports success for an eMMC older than
  4.0 without setting `initialized`, and the partition switch whose result is
  dropped. A Package1 is a record of where "PK11" is found, the two sizes used to
  skip payloads, and the words at the starts of the payloads. The failures of
  `malloc` are those the function checks for; heap.c itself never reports one.
* `MCExtract` - the Package1 images that TLC enumerates.
* `Extract_proofs` - the theorems about `Extract`.
* `Workflow` - `ipl_main` to the end of the program, one action per call that
  waits or can fail, against a user who moves fingers, presses buttons and pulls
  the card. The extraction and the saves are one step with a result each.
* `Workflow_proofs` - the theorems about `Workflow`.
* `SdPromise` - what FatFs may expect of the SD layer: a call returns, and a call
  that returns success has moved every part of the buffer.
* `SdCard` - `sd_mount`, `sd_end`, `sd_initialize`, `sd_init_retry` and
  `_sdmmc_storage_readwrite`, which call each other, one action per command or
  branch of the loops; the user may move the card between any two. `sd_init_retry`
  is one operator with the two callers that the code has, `Restart` the assignments
  before `goto reinit_try`. A transfer is `Chunks` commands; the buffer is the
  number of the chunk of the card that each part of it holds. A read is followed
  here; a write takes the same path.
* `Card_proofs` - the theorems about the two components that work on the card, `SdCard` and
  `Saves`. Both modules are extended, so that `SdCard` says `sdPc`, `SdCardInit` and so on
  where the others say `pc` and `Init`.
* `Allocator` - what callers may expect of `malloc` and `free`: a call returns, and
  blocks that are held at the same time share no byte.
* `Heap` - heap.c. `mem` holds the nodes by address, with the four fields of
  `hnode_t`; sizes and addresses are bytes, a header has 32. One action is one round of
  the search in `_heap_alloc` or of the walk in `_heap_free`, so that the list is seen
  in the middle of a call. A header that has been absorbed is taken out of `mem`; the
  loop's last read of it (`node = node->next`) is part of the same action. `live` is
  what the callers hold; they free each block once.
* `MCHeap` - two sizes that split, split with a rest of exactly four headers, and fit
  with some bytes to spare.
* `Heap_proofs` - the theorems about `Heap`.

* `FatAlloc` - cluster chains of ff.c as operators on a volume `v` and an object `o`:
  `get_fat`, `put_fat`, `find_bitmap`, `change_bitmap`, `fill_first_frag`,
  `fill_last_frag`, `create_chain`, `remove_chain`. FAT and exFAT are one value of
  `v.type`; on exFAT a contiguous file has no links, a file with one break has those of
  its first fragment and a growing edge that exists only in `n_frag`. An operator that
  may fail returns the set of its outcomes, a volume and an object as they are at the
  access that failed.
* `FatFile` (extends `FatAlloc`) - the calls on files, one action per call, or per
  cluster where `f_read`, `f_write` and `f_lseek` loop. `chain` is history: the clusters
  each file was given. `loose` notes the four situations in which ff.c itself lets a
  cluster be named twice after an error: `f_truncate` is stopped; a file is given up while
  its growing edge is not on the FAT, or while its entry leads to clusters that it gave
  back (*LeftLoose*); `fill_first_frag` is stopped in the middle while the entry on the
  card is of the time before the file was cut to a contiguous one, and says that the FAT
  is to be followed (*FirstHalfway*).
* `MCFat` - symmetry of files, view, and the constraint that stops after `loose`.
* `FatFile_proofs` - the theorems about `FatFile`, and what they need to know of the
  operators of `FatAlloc`: which outcomes each has, and what it does to a chain.
* `FatSafe_proofs` (extends `FatFile_proofs`) - the theorem about disk errors: the same
  operators again, with the outcomes that stop in the middle.
* `BisCache` - nx_emmc_bis.c, one action per branch: hit, miss, eviction, fill, write
  back, read past a locked cache, and each transfer may fail. A sector is "fresh" or not;
  the key stream is the position it stands for.
* `MCBis` - the view.
* `Bis_proofs` - the theorems about `BisCache`: the table, the slots and the count, and
  from their invariant *Transparent*.
* `SdmmcHost` - the controller with its rails, pads and clock, the card on the other
  side, and the way a command finds each other: `Heard` says whether the two sides
  understand each other, `Ask` and `Tell` are a command that changes nothing or
  something on the card, and may get lost either way.
* `SdInit` - `sdmmc_storage_init_sd` command by command with `sd_init_retry`,
  `sd_initialize` and `sd_mount` around it; the UHS and the high-speed path.
* `MmcInit` - `sdmmc_storage_init_mmc` command by command: HS, HS200 and the descent to
  HS and climb to HS400.
* `Sdmmc` - the two together, one session at a time, and the properties.
* `MCSdmmc` - the kinds of cards.
* `Sdmmc_proofs` - the theorems about `Sdmmc`.
* `Lz77` - the coder of the build (`LZ_CompressFast`, `_LZ_WriteVarSize`, the two halves of
  lz77.c) and the numbers its decoder reads, as functions on sequences. The jump table
  is not there: it leads to every earlier place with the same two symbols, and a match
  has more than three. The quick test of one symbol beyond the end of the input
  (`ptr1[bestlength]`) cannot change the result and is left out for that reason.
* `Loader` (extends `Lz77`) - `_reloc_ipl`, the loop that moves the packed program,
  `LZ_Uncompress` token by token in the same memory, and the boot configuration. `Base`
  scales the alphabet: the code's bytes hold seven bits and a flag.
* `MCLoader` - the programs.

How the code's state corresponds: `sd_mode`, `sd_mounted`, `success`, `btn_last`,
`payload_path`, `retries`, `first_reinit`, `sct_off`, `pk11_offset` have the names
of the source. `pc` is the place in the function. History variables, which the code
does not have, are few: `orig`, `crossed`, `torn`, `faulted` in `Saves`, `ioError`
in `Workflow`, `chain`, `faults` and `loose` in `FatFile`, `faulted` and `astray` in
`BisCache`.

## Runs

All passing runs check deadlock but `fat`, which comes to an end at the bound on opens.
The states below are those of the bounds in the configuration.

| Run | States | Question | Result |
|---|---|---|---|
| `saves` | 964,550 | Do the two files survive failures and power losses between or inside any FatFs calls of three boots? | holds |
| `extract` | 70,680 | Does the extraction return the warmboot or refuse for a reason, and clean up on each of its exits? | holds |
| `workflow` | 179,408 | Is the right payload started, the buffer released once, and is there always a way out? | holds |
| `sd_card` | 4,669 | Does the SD layer keep its promise to FatFs through retries, slower speeds and movements of the card? | holds |
| `heap` | 215,234 | Do blocks that callers hold ever overlap, and is what they free used again? | holds |
| `bis` | 1,394,902 | Does the cluster cache behave as the partition without it, and does it stay consistent through failed transfers? | holds |
| `fat` | about 1,890,000 | Do files keep their clusters, FAT and exFAT, through every order of calls and a disk error? | holds |
| `sdmmc` | 88,472 | Do host and card agree on voltage, width and speed, on every way through the initialisation and through fallbacks? | holds |
| `loader` | 157,934 | Is the program that is started the one that was built? | holds |
| `saves_report` | | Are the files that are reported as saved on the card? | no |
| `saves_backup` | | Does the backup survive every power loss? | no |
| `sdmmc_discharge` | | Is the power off when the initialisation waits for it to discharge? | no |

### What the passing runs show

* `saves`. *OriginalSurvives*: the user's sc7exit file is complete under its own
  name or the backup's, for this boot and on the medium, except after an `f_rename`
  that is cut off in its critical section. *InstalledIsWhole*: the name that Hekate
  loads leads to a whole file, with two exceptions that the code has: a file whose
  `f_close` failed and was renamed into place all the same (warmboot_extractor.c:452,
  `saves_report`), which is what `torn` holds, and a rename that was cut off. A full
  volume, a short `f_write`, any other call that fails and a power loss never get a
  half-written file there. *SavedIsInstalled*: when "saved successfully" is printed, the
  medium has a file under the name, the temporary name is gone, and an original that was
  there is complete under the backup's name; if `f_close` succeeded, the file is this
  boot's. *RetrySucceeds*: what an earlier boot left on
  the card never blocks a boot without faults. *InstalledIsNotOverwritten*: no step
  changes the content of the file that the card's entry names.
* `extract`. *ExtractedIsWarmboot*: the three payloads are skipped by the size that
  belongs to each, in every order, and the bytes are those of BOOT0.
  *RefusedForAReason*: "no PK11" means that neither offset has it; a refusal for the size
  is about the warmboot's own size word, and no size from 0x800 to below 0x1000 is refused
  (0x1000 itself is left open, see below). *CleanedUp*: every exit gives back its buffers
  and ends the session.
* `workflow`. *BufferReleased*: the buffer is given back, once, before the wait loop, also
  when the saves fail. *RunsTheRightPayload*: what runs is update.bin unless there was
  none or the card failed to show it, fits the console, and the card was shut down. *HeldPressLeaves*: a press that
  lasts is never missed, also when other buttons, touches and screenshots come in
  between. *LeavingEnds*: leaving always ends in a payload or a reboot.
* `sd_card`. *Promised* is refinement of `SdPromise`, liveness included: a call
  returns after any mix of failures, and success means that every part of the buffer
  holds its own part of the card although the transfer restarted in the middle.
  *SpeedOnlyDrops*: `sd_mode`, unsigned, is never decremented at 0, and during a call
  it rises only when the card is out.
* `heap`. *Promised* is refinement of `Allocator`, liveness included: no two blocks
  overlap and each walk ends. *Coalesced*: no two unused neighbours between calls, so
  when everything is freed the heap is one node. *GrowsOnlyIfFull*: the first-fit search
  misses nothing.
* `bis`. *Transparent*: no order of reads, writes, evictions and flushes loses the only
  copy of a sector, and a read past the locked cache is decrypted at the right place
  although its tweak is moved on from the read before. *LookupIsMutual* and
  *DirtyIsCounted* hold through failures too: a flush finds the cluster it is for, and the
  unsigned count never passes 0. The two cases in which the cache is not transparent are
  named in the properties: a failed transfer, and (`astray`) a block for a cluster whose
  slot has been given to another, which `cluster_lookup` still points to.
* `fat`. *ChainIsFound*: the links that exFAT generates for contiguous files, first
  fragments and growing edges are those the file was given, and `fp->clust` belongs to
  `fp->fptr`. *NothingLostOrShared*: what is taken is taken by one file, and `free_clst` is
  exact. *ChecksHold*: FatFs's internal checks never fire without a disk error.
  *NeverShared*: after a disk error clusters may be lost, but two closed files lead to a
  common cluster only after one of the four situations of `loose`.
* `sdmmc`. *BusAgrees*: whatever is lost on the way, rail, pads, controller and clock mode
  fit together whenever the card has a clock, and a storage that calls itself initialised
  is in the card's mode. *NeverTooFast*: on the way from HS200 over HS to HS400 no command
  is sent above the card's speed. *SpeedIsWithinMode*: a fallback is one.
  *InitReturns*: it ends, also while the card is moved.
* `loader`. *NotOvertaken*: what is not unpacked yet is never overwritten, although in the
  end the program covers where its packed copy was. *Unpacked*: packing, both moves and
  unpacking undo each other. *PackedFits*: the worst case that lz.c:52 gives is one.

### Where the code and its words disagree

* `saves_report`: `save_warmboot_to_sd` and `save_sc7exit_to_sd` both drop the result of
  `f_close` (warmboot_extractor.c:416, 452), although the entry of the file may never have
  been completed; the second renames its temporary file over the installed name all the
  same. "Warmboot saved successfully!" and "sc7exit_b01.bin saved successfully!" are then
  printed of files that are empty or not whole. *ReportedIsOnCard* asks only that one of the
  two messages be true when both are printed, so that one behaviour shows both drops. An
  original that was there is the backup by then (*SavedIsInstalled*).
* `saves_backup`: `f_rename` cut off between its two directory writes leaves two
  names on one chain; the next boot unlinks one and frees the other's clusters.
* `sdmmc_discharge`: after a failed `f_mount` the next `sd_mount` initialises a card whose
  power was never taken away; the wait "for IO and Controller power to discharge" waits
  for nothing, and the rail is set to 3.3 V under a card that signals at 1.8 V.

Met on the way, without a run:

* README.md:67, 94 and 302 and the message for the error (warmboot_extractor.c:143) give
  0x1000 as the largest warmboot; the code refuses that size (warmboot_extractor.c:347,
  `>=`). `extract` enumerates images of exactly that size: they end in
  `WB_SIZE_INVALID`, and neither property calls that right or wrong.
* `emummc_storage_set_mmc_partition` drops the result of the switch (emummc.c:282): the
  program then decrypts the user area and blames the key.
* An update.bin that is refused ends in a reboot although payload.bin is good
  (main.c:405-408, README.md:369-370).
* A poll without a new touch event is taken for a release of all fingers
  (main.c:321, 355-360), so that three fingers that stay take two screenshots.
* Releasing a volume button while POWER is down leaves the wait loop (main.c:365-366).
* The comment on `SD_INIT_FAIL` says the mode is reset; it is not until `sd_end`
  (nx_sd.c:87-88).
* `cluster_lookup` of an evicted cluster still points to its old slot
  (nx_emmc_bis.c:226), so that "Read from cached cluster" can read another one; it is set
  before the cluster has been read and stays after a failed read; the result of the flush
  before an eviction is ignored. Nobody in this program calls `nx_emmc_bis_init`.
* After a disk error ff.c can leave a file leading to clusters of another: an `f_truncate`
  stopped by an error is relinked by the next `f_sync`; a failed append leaves a growing
  edge off the FAT, and `f_unlink` then follows stale links; the entry of a truncated file
  is not updated. A first write that fails on a new exFAT file leaves size 0 with a first
  cluster, and the next `f_open` or `f_unlink` ends in FR_INT_ERR.
* `sdmmc_init` picks the pad trims by `sdmmc->t210b01` before it is assigned
  (sdmmc_driver.c:1254): the first initialisation on a T210B01 uses the trims of the T210.
* `_mmc_storage_enable_highspeed` (sdmmc.c:621) tries HS200 for any eMMC on eight lines,
  whatever its card type: one that only has HS is refused.
* `sdmmc_storage_init_mmc` returns success for an eMMC before 4.0 without having set
  `initialized` (sdmmc.c:688).
* README.md:75, 146-147, 195 and 294-295 say that POWER turns the console off and Vol- returns
  to Hekate. In the code POWER leaves for Hekate's payload, as the line on the screen
  says (main.c:164, 381-385), Vol- does nothing, and nothing turns the console off.
* The `sd_unmount` at main.c:444 is never reached, since the workflow does not return.

## Bounds, and why they are enough

* `saves`: `MaxBoots = 3`. The branches depend on what was there before (path,
  backup, left-over temporary file); one boot creates each, a second meets it, a third
  meets what the second left of it. `Parts = 3`: the first write, one in the
  middle, the last. Five chains: at most four names and one lost chain matter at a
  time; a chain that no name has left is taken again. Chains are interchangeable
  and the run uses that symmetry, with safety properties only.
* `extract`: `MaxCalls = 2`, because the second call finds what the first left in
  `emmc_storage`. Packages: each order of the payloads, each subset of the two
  offsets for the magic, both monitors, sizes at and next to 0x800 and 0x1000.
* `workflow`: `Contact = {0, 2}`, the first and the third finger: `touch_poll` gives
  the id of the last one only, and 3 fingers are seen from id 2. The wait loop is
  unbounded.
* `heap`: `Limit = 700` leaves room for three blocks of the larger size or for ten of the
  smaller, with a split, a joining on either side and a joining on both in every order. `Room` keeps
  the callers below it: heap.c has no limit of its own and never returns NULL. The
  theorems do not depend on the limit, the sizes or the start.
* `sd_card`: `Chunks = 2`: a restart from the first chunk and from a later one. The
  retries 5 and 3 and the four modes are those of the code. The theorems do not
  depend on `Chunks`.
* `bis`: three clusters of two sectors and two slots, one partition: a cluster is always
  out, the index rolls over, and a request crosses from one cluster into the next. Requests
  are bounded by the partition, not in number. The view leaves out the contents once a
  transfer has failed or a block has gone astray: the guards do not look at them, and of
  the properties only *Transparent*, which then says nothing.
* `fat`: two files, four clusters of two sectors, sizes to 6: a file is contiguous, in two
  fragments or in three, the volume is full with two. One disk error
  (`MaxFaults`), three opens (`MaxOpens`, a disk error counts as one), transfers of 5, seeks to
  0, 1 and 5: within a cluster, to a boundary, and past the end. The view keeps one stale
  link of the free clusters of an exFAT volume; the constraint stops where `loose` is set,
  after which nothing is claimed. *FirstHalfway* needs six clusters and four files: it
  was met while working out the proof, and replayed step by step at that size.
* `sdmmc`: SD 1.0, standard capacity 2.0, SDHC, one with SDR25 at most, one with all UHS
  speeds; eMMC before 4.0, HS, HS200 and HS400. `MaxPolls = 2`: a poll loop that is left
  early, late, or by its timeout. Lost commands, changes of the card and the number of
  sessions are unbounded.
* `loader`: all programs of 7 to 10 bytes over two symbols; programs of 17 to 40 bytes
  over all sixteen, where the marker occurs, matches are of 4 to 20 bytes, and offsets have
  one digit or two. The memory is 1.4 times the longest program, as 0x30000 bytes are of
  the 140288 that the Makefile allows (`Makefile:68`), so that the packed copy is overwritten
  by its own contents. Starts: in place, above but overlapping, and above.

## Fairness

There is one thread. `Workflow` assumes WF of the program's own steps, `SdCard` and
`Heap` of those of a call under way, `Sdmmc` of the commands of an initialisation: the processor runs, and every hardware wait has a timeout.
Nothing is assumed of the user, of the card or of which result a call has. `Saves`, `Extract`,
`FatFile`, `BisCache` and `Loader` have safety properties only.

## Proofs

Eight modules hold theorems that TLAPS checks for every value of the constants that
satisfies the named assumptions.

* `TypeCorrect` - `Saves`, for every set of chains, `Parts` and `MaxBoots`.
* `OriginalNeverLost` - *OriginalSurvives*, the first promise of the README. It is
  not inductive: a later `f_unlink` or `f_open` could hit the original through another
  name. `IInv` adds to the type invariant *Kept* - two names of one chain are noted in
  `crossed`, only the temporary and the warmboot file are ever opened, and in both `dir`
  and `card` the original is the backup, or is installed with the backup name free - and
  *BackupFound*: where `path` is about to be removed, a backup exists. There is one
  lemma per FatFs operation, which says under which condition it keeps *Kept*, and one
  step per action.
* `AlwaysWhole` (*InstalledIsWhole*), `ReportIsTrue` (*SavedIsInstalled*) - the argument
  is in two parts. A file that is being written has a chain that is Partial
  (*OwnChain*), so that no complete file has it, and what a call releases was the only
  name of its chain in the directory that is then on the card too. And the temporary file
  is complete from a close that succeeded to its rename (*TempComplete*), since the last
  write found no part missing; after a close that failed it is noted in `torn`. The backup
  must be whole or noted as well: it may be put back. That an original is complete under
  the backup's name follows from *Kept*: `f_rename` refuses a name in use, so `path` was
  free before it.
* `NeverOverwritten` (*InstalledIsNotOverwritten*, an action property) - adds *NamesHold*:
  no name leads to free clusters, nor to those of the file being written; so an allocation
  cannot hit an installed file, also when closes have failed.
* `RetryAlwaysSucceeds` (*RetrySucceeds*) - *Smooth* says what each place in the two
  routines knows of the directory while nothing fails: an `f_rename` is reached only with
  its old name there and its new name free.
* `ExtractTypeCorrect`, `HandsOutTheWarmboot`, `RefusesForAReason`, `AlwaysCleanedUp` - for
  every set of Package1 images and any number of calls. `ExtractAssumption` asks each image
  to be a container: its payloads follow each other, and one of the first three has no
  signature. *Walking* follows the loop: after `i` rounds the pointer has passed `i`
  signed payloads. *Holding* and *Closed* are what an exit needs to know at each call.
* `WorkflowTypeCorrect`, `AlwaysReleased`, `AlwaysTheRightPayload` - *Buffer* says who has
  the buffer at each place, *Choice* what has been found out of the payloads so far. The
  user's steps keep both: pulling the card changes none of the facts that were read.
* `BisTypeCorrect`, `AlwaysMutual`, `AlwaysCounted` - for every number of clusters, sectors
  and slots. The three need each other: `dirty_cluster_count` is a natural number only
  because it covers the dirty slots, and it does because the write back marks the slot
  that is evicted, which is *LookupIsMutual*. *Unused* (slots from the index on are
  not reached until the cache has been full, unless a fill has failed) is why marks in the
  uninitialised memory are not counted.
* `AlwaysTransparent` (*Transparent*) - on top of that invariant. Until a transfer fails or
  a block goes astray, *Copied* says that a slot has all bytes of its cluster from the fill
  to its eviction, *AllKept* that every sector is on the eMMC or in the dirty slot of its
  cluster, *TweakKnown* where the saved key stream stands, and *Passed* that the finalize
  pass leaves no dirty slot behind it. *Used* (every slot below the index, and after a roll
  over every slot, is reached) is why the write back of an evicted slot finds its bytes.
  A request begins at a cluster or does not leave the one it is in (*Aligned*), without
  which a block could hit two clusters and only one slot.
* `SdTypeCorrect` - positions stay inside the transfer and `sd_mode` never wraps. It
  needs *MoreToDo* (a command is only sent while a chunk and a try are left) and
  *Working* (a card that has been initialised is not in the failed mode, so that the
  next decrement does not wrap).
* `SpeedNeverRises` - *SpeedOnlyDrops* from the same invariant.
* `KeepsThePromise` - the safety part of the refinement of `SdPromise`. *Filled* says
  that the buffer up to the current position has its own chunks, which `Restart` must
  re-establish.
* `HeapTypeCorrect`, `AlwaysCoalesced`, `GrowsOnlyWhenFull`, `HeapKeepsThePromise` - for
  every start address, every set of sizes and every sequence of calls. The invariant
  is *Linked* (`next` is the node right behind, `prev` the way back), *Tiled* (no
  overlap, one end), *Held* (every block of a caller lies in a node of its own that is
  used), *Searched* (malloc has passed over nothing that fits) and *Walked* (two unused
  neighbours are still in front of the walk). None of the four results is inductive
  alone: that a merge is sound needs the pointers to be exact, that the walk of `free`
  joins everything needs to know where it already was. `SplitMemory` and `JoinedAt` say
  what the two operations that change the set of nodes do to memory; there is one lemma
  per action.
* `SdmmcTypeCorrect`, `SidesAgree` (*BusAgrees*), `CommandsNeverTooFast` (*NeverTooFast*),
  `FallbackIsSlower` (*SpeedIsWithinMode*) - for every set of cards and every number of
  polls. The steps of the two initialisations are put into classes by how far the card has
  come (`Early`, `Ready`, `Ident`, `Stby`, `Slow`, `Fast`). *Reached* relates the class to
  the state of the card, which may have been pulled, changed or sent back to idle in the
  meantime; *Fresh* says what a card uses before it transfers data; *Fits* and *Rails* that
  address, width and voltage are those of the controller at each step; *Timings* and *Speeds*
  which timing the controller has there and that the card is not slower, except between
  the switch of the card and that of the clock; *Within* that an initialisation uses only
  what its mode allows; *Session* that a storage which calls itself initialised, and
  whose card is still in its session, agrees with it. None of the three results is
  inductive: a command may be lost on either side, so that only what the host does next
  tells which sides are left to agree.
* `FatTypeCorrect` - `FatFile`, for every number of clusters, cluster size and set of files,
  disk errors included. Its invariant is *Proper* (every value in its range), *Edged* (the
  growing edge of an exFAT file ends with the cluster of the file pointer and is not
  longer than the clusters before it, so that `fill_last_frag` does not count back beyond
  the volume) and *Calling* (a call under way does not go beyond the largest size, a
  read not beyond the file). There is one lemma for each operator of `FatAlloc`, which lists
  its outcomes, and one for each action. What `Walk` meets is an induction: it is done with
  *SetInduction*, which takes the property as a set and rests on the well-foundedness of
  the natural numbers.
* `ChainFollowed` (*ChainIsFound*), `ClustersOwned` (*NothingLostOrShared*),
  `NoInternalError` (*ChecksHold*) - as long as no disk error has occurred, for every number
  of clusters, cluster size, set of files and order of calls. The three are parts of one
  invariant, *Sound*. *Shape* says which sequence of clusters an object stands for, and
  which of the links between them are on the FAT: all of them for a plain chain, none for
  a contiguous one (status 2), those behind the first fragment for status 3, and not those
  of the growing edge. *Owned* says who has which cluster. *Held* relates the open file to
  its clusters and its entry, between two calls (*Pointing*) and within a seek (*Seeking*,
  where a file that is stretched has a size that is behind its clusters); *Filed* says
  that the entry of any other file is enough to find it. What a call may do to the rest of
  the volume is *Rechained*: it touches no cluster of another file, takes free ones and
  gives back its own, so that one lemma (*KeptMoves*) serves every call. For `create_chain`
  there is a lemma for each way in which a chain goes on (`GrownRun`, `GrownEdge`,
  `GrownBreak`, `GrownFat`), for `remove_chain` one for a whole chain and one for its
  tail, where the status of what is left is computed anew, and for `f_sync`
  *SettledSound*: the chain it leaves is the one that was given. *Sound* is conditional on
  `faults = 0` and so says nothing of a state after an error.
* `NeverSharedAlways` (*NeverShared*) - the same with any number of disk errors, at any
  access of any call. The clusters that a file was given do not describe it any more, so the
  invariant *FatSafe* asks for some sequence of clusters for each file, no two with a
  cluster in common and all in use (*Unshared*): clusters may be lost, not shared. The entry
  of a file that is not open leads to its sequence (*Leads*): it has the *Shape* that its
  status says, and *Sized* is what is left of the relation between size and length, since
  a file that has links on the FAT may be longer or shorter than its size. For the open
  file the FIL object leads to it (*Grip*), also when ABORT has been set and the first step
  onto another place left a status 3 without a second fragment (*Frayed*), and its pointer
  is where it should be, between two calls (*Resting*) and within a seek (*Crossing*), or
  behind a chain that is too short for the size (*Adrift*). The part that no single call
  shows is *Old*: the entry of the open file is as old as the last `f_sync`, an error makes it
  the entry again, and the clusters it was stored with may have been given back or linked
  anew since. It leads, over links that no call has touched since or over a contiguous
  piece, to an end or into the part of the open file that is on the FAT (*Firm*), and never to
  a cluster of another. For each call there is a lemma for each way in which it can be
  stopped: after no, some or all of the links of a growing edge (`FlushPartly`) or of a
  first fragment (`FirstLinked`), between the bitmap and the FAT (`BitmapStopped`), in the
  middle of a removal (`RemovedReroutes`), and before or after the entry is stored
  (`SyncOld`). `OldKeeps` and `OldGoesOn` say that old links survive what is written to the
  volume: they are left alone, become ends, or are the new links of the same file. The
  theorem is conditional on `loose` as the property is; before the proof a program with
  the same actions, which is not kept here, tried the invariant on random states of up
  to seven clusters and three files, and it was on that way that *FirstHalfway* was met.

Model-checked only: all liveness (*HeldPressLeaves*, *LeavingEnds*, *InitReturns*, the
fairness part of *Promised* in both), which TLAPS cannot prove, and `Loader`. What `Lz77`
computes for every program is an induction over data and stays with TLC.

## Not modelled

emuMMC routing (`emu_cfg.enabled` is never set in this program); pad calibration, DMA and
interrupt set-up of the SD/MMC controller, the game card slot; the display, touch and
security hardware, whose results are the failures of the layers above; the GPT list;
drawing and formatting; vendored libraries that are not called (USB, LVGL, save data, LZ4,
BLZ, memory training tables: most of the lines of the repository). In `FatVolume` and
`FatFile` long names, directories of several sectors, `f_mkdir`, `f_mkfs`, fast seek and the
sector buffer of a file are left out. In `SdCard` the card is one card: another card put in during a transfer is not
told from the first, and the initialisation is one step; `Sdmmc` has both in detail, but
not the contents of a transfer. The card is external: two sides at different voltage
levels are taken not to understand each other, CMD0 has no answer, and an answer that is
lost is the same as an unheard command except for CMD11, since what follows is CMD0. The
parts of `Lz77` that only make the coder faster are not there.

## Plan

1. Proofs: `Loader`, the move of the packed program for every size.
2. An abstract specification of installing a file, which `Saves` implements.
3. The transfer of `SdCard` over the initialisation of `Sdmmc`.
