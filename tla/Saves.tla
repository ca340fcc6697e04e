-------------------------------- MODULE Saves --------------------------------
(***************************************************************************)
(* What one start of the program writes to the SD card: first              *)
(* save_warmboot_to_sd, then save_sc7exit_to_sd                            *)
(* (source/warmboot/warmboot_extractor.c, called one after the other from  *)
(* source/main.c).  One action per FatFs call, so that power can be lost   *)
(* between any two calls and any call can fail; then the program is        *)
(* started again on what the card holds.                                   *)
(***************************************************************************)
EXTENDS FatVolume

VARIABLES pc,       \* the FatFs call that is made next
          boot,     \* number of this start: the version of what it writes
          saved,    \* return values: the files reported as saved in this boot
          success,  \* local variable success of save_sc7exit_to_sd
          orig      \* constant: chain of the sc7exit file found at first, or NoEntry

vars  == <<dir, card, data, fil, crossed, torn, faulted, pc, boot, saved, success, orig>>

WarmbootPc == {"wb_open", "wb_write", "wb_close"}
Sc7Pc == {"open", "write", "close", "discard", "stat_path", "stat_backup",
          "preserve", "remove", "install", "stat_again", "restore"}
Pc == {"off", "done"} \cup WarmbootPc \cup Sc7Pc

TypeOK ==
  /\ VolumeTypeOK
  /\ pc \in Pc
  /\ boot \in 0 .. MaxBoots
  /\ saved \in SUBSET {"wb", "path"}
  /\ success \in BOOLEAN
  /\ orig \in Chain \cup {NoEntry}

\* The card as the user inserts it: no sc7exit file, or a complete one.
Init ==
  /\ orig \in Chain \cup {NoEntry}
  /\ card = [n \in Name |-> IF n = "path" THEN orig ELSE NoEntry]
  /\ dir = card
  /\ data = [c \in Chain |-> IF c = orig THEN 0 ELSE Free]
  /\ fil = NoFile
  /\ crossed = FALSE
  /\ torn = {}
  /\ faulted = FALSE
  /\ pc = "off"
  /\ boot = 0
  /\ saved = {}
  /\ success = FALSE

-----------------------------------------------------------------------------
\* The program starts, mounts the card and has extracted a warmboot.
\* Bounded by MaxBoots.
Start ==
  /\ pc = "off"
  /\ boot < MaxBoots
  /\ boot' = boot + 1
  /\ pc' = "wb_open"
  /\ saved' = {}
  /\ success' = FALSE
  /\ UNCHANGED <<volume, orig>>

\* save_warmboot_to_sd: f_mkdir (ignored), f_open
WbOpen ==
  /\ pc = "wb_open"
  /\ \E ok \in BOOLEAN :
        /\ f_open("wb", ok)
        /\ pc' = IF ok THEN "wb_write" ELSE "done"
  /\ UNCHANGED <<boot, saved, success, orig>>

\* f_write of the whole binary; success is remembered as bytes_written == size
WbWrite ==
  /\ pc = "wb_write"
  /\ \E ok \in BOOLEAN : f_write(ok) /\ success' = ok
  /\ pc' = "wb_close"
  /\ UNCHANGED <<boot, saved, orig>>

\* f_close, its result ignored; main.c goes on to sc7exit when the file was
\* reported as saved
WbClose ==
  /\ pc = "wb_close"
  /\ \E ok \in BOOLEAN : f_close(boot, 1, ok)
  /\ saved' = IF success THEN {"wb"} ELSE {}
  /\ pc' = IF success THEN "open" ELSE "done"
  /\ UNCHANGED <<boot, success, orig>>

-----------------------------------------------------------------------------
\* Mutant: FA_CREATE_NEW, which refuses a left-over temporary file.
OpenNew ==
  /\ pc = "open"
  /\ \E ok \in BOOLEAN :
        /\ f_open("temp", ok)
        /\ pc' = IF ok /\ dir["temp"] = NoEntry THEN "write" ELSE "done"
  /\ UNCHANGED <<boot, saved, success, orig>>

\* save_sc7exit_to_sd: three f_mkdir (ignored), f_open of the temporary file
Open ==
  /\ pc = "open"
  /\ \E ok \in BOOLEAN :
        /\ f_open("temp", ok)
        /\ pc' = IF ok THEN "write" ELSE "done"
  /\ UNCHANGED <<boot, saved, success, orig>>

\* Mutant: one write too many.
WriteOnceMore ==
  /\ pc = "write"
  /\ \E ok \in BOOLEAN :
        /\ f_write(ok)
        /\ success' = ok
        /\ pc' = IF ok /\ fil.parts < Parts THEN "write" ELSE "close"
  /\ UNCHANGED <<boot, saved, orig>>

\* The f_write calls for fuse count, warmboot and revision; the first that
\* fails skips the others
Write ==
  /\ pc = "write"
  /\ \E ok \in BOOLEAN :
        /\ f_write(ok)
        /\ success' = ok
        /\ pc' = IF ok /\ fil.parts + 1 < Parts THEN "write" ELSE "close"
  /\ UNCHANGED <<boot, saved, orig>>

\* Mutant: the result of the writes is not looked at.
CloseUnchecked ==
  /\ pc = "close"
  /\ \E ok \in BOOLEAN : f_close(boot, Parts, ok)
  /\ pc' = "stat_path"
  /\ UNCHANGED <<boot, saved, success, orig>>

\* f_close, its result ignored
Close ==
  /\ pc = "close"
  /\ \E ok \in BOOLEAN : f_close(boot, Parts, ok)
  /\ pc' = IF success THEN "stat_path" ELSE "discard"
  /\ UNCHANGED <<boot, saved, success, orig>>

\* !success: f_unlink(temp_path), return false
Discard ==
  /\ pc = "discard"
  /\ \E ok \in BOOLEAN : f_unlink("temp", ok)
  /\ pc' = "done"
  /\ UNCHANGED <<boot, saved, success, orig>>

\* if (f_stat(path) == FR_OK)
StatPath ==
  /\ pc = "stat_path"
  /\ \E ok \in BOOLEAN :
        /\ f_stat("path", ok)
        /\ pc' = IF ok THEN "stat_backup" ELSE "install"
  /\ UNCHANGED <<boot, saved, success, orig>>

\* Mutant: the test is the wrong way round.
StatBackupInverted ==
  /\ pc = "stat_backup"
  /\ \E ok \in BOOLEAN :
        /\ f_stat("backup", ok)
        /\ pc' = IF ok THEN "preserve" ELSE "remove"
  /\ UNCHANGED <<boot, saved, success, orig>>

\* if (f_stat(backup_path) != FR_OK)
StatBackup ==
  /\ pc = "stat_backup"
  /\ \E ok \in BOOLEAN :
        /\ f_stat("backup", ok)
        /\ pc' = IF ok THEN "remove" ELSE "preserve"
  /\ UNCHANGED <<boot, saved, success, orig>>

\* f_rename(path, backup_path); a failure returns false
Preserve ==
  /\ pc = "preserve"
  /\ \E ok \in BOOLEAN :
        /\ f_rename("path", "backup", ok)
        /\ pc' = IF ok THEN "install" ELSE "done"
  /\ UNCHANGED <<boot, saved, success, orig>>

\* f_unlink(path); a failure returns false
Remove ==
  /\ pc = "remove"
  /\ \E ok \in BOOLEAN :
        /\ f_unlink("path", ok)
        /\ pc' = IF ok THEN "install" ELSE "done"
  /\ UNCHANGED <<boot, saved, success, orig>>

\* Mutant: the result of the rename is not looked at.
InstallUnchecked ==
  /\ pc = "install"
  /\ \E ok \in BOOLEAN : f_rename("temp", "path", ok)
  /\ saved' = saved \cup {"path"}
  /\ pc' = "done"
  /\ UNCHANGED <<boot, success, orig>>

\* if (f_rename(temp_path, path) == FR_OK) return true
Install ==
  /\ pc = "install"
  /\ \E ok \in BOOLEAN :
        /\ f_rename("temp", "path", ok)
        /\ saved' = IF ok THEN saved \cup {"path"} ELSE saved
        /\ pc' = IF ok THEN "done" ELSE "stat_again"
  /\ UNCHANGED <<boot, success, orig>>

\* if (f_stat(path) != FR_OK)
StatAgain ==
  /\ pc = "stat_again"
  /\ \E ok \in BOOLEAN :
        /\ f_stat("path", ok)
        /\ pc' = IF ok THEN "done" ELSE "restore"
  /\ UNCHANGED <<boot, saved, success, orig>>

\* f_rename(backup_path, path), its result ignored; return false
Restore ==
  /\ pc = "restore"
  /\ \E ok \in BOOLEAN : f_rename("backup", "path", ok)
  /\ pc' = "done"
  /\ UNCHANGED <<boot, saved, success, orig>>

-----------------------------------------------------------------------------
\* The console is reset or loses power, in the middle of a save or after it.
\* The program itself ends that way: launch_payload and power_set_state leave
\* without writing anything back.
PowerOff ==
  /\ pc # "off"
  /\ PowerLost
  /\ pc' = "off"
  /\ saved' = {}
  /\ success' = FALSE
  /\ UNCHANGED <<boot, orig>>

\* All boots are used up.
Finished ==
  /\ pc = "off"
  /\ boot = MaxBoots
  /\ UNCHANGED vars

SaveStep ==
  \/ WbOpen \/ WbWrite \/ WbClose
  \/ Open \/ Write \/ Close \/ Discard
  \/ StatPath \/ StatBackup \/ Preserve \/ Remove
  \/ Install \/ StatAgain \/ Restore

Next == Start \/ SaveStep \/ PowerOff \/ Finished

Spec == Init /\ [][Next]_vars

-----------------------------------------------------------------------------
\* Properties

\* README "the first replacement preserves it": the sc7exit file the user had
\* is complete under its own name or as the backup, whatever call fails and
\* wherever power is lost, both for this boot and for the next one, as long
\* as no f_rename was interrupted in its critical section.
HoldsOriginal(d) == \E n \in {"path", "backup"} : d[n] = orig

OriginalSurvives ==
  (orig # NoEntry /\ ~crossed) =>
     /\ data[orig] = 0
     /\ HoldsOriginal(dir)
     /\ HoldsOriginal(card)

\* The name Hekate loads leads to no file, to a complete one, or to one whose own
\* f_close has failed, also after a power loss: the code writes elsewhere and
\* renames.  The last case is there because warmboot_extractor.c:452 drops the
\* result of f_close and the rename follows.  torn has the chains that such closes
\* have left, and Empty once there was one; a full volume, a failed write, any
\* other failed call or a power loss never puts half a file there.
InstalledIsWhole ==
  ~crossed =>
     \A d \in {dir, card} : d["path"] \notin torn \cup {NoEntry} => WholeIn(d, "path")

\* When save_sc7exit_to_sd returns true, on the card itself the installed name is
\* there and the temporary one is gone; the file the user had is the backup, as
\* README.md:33 has it; and what is installed is this boot's complete wrapper, if
\* its f_close succeeded: the function returns true all the same if it did not
\* (ReportedIsOnCard).
SavedIsInstalled ==
  ("path" \in saved /\ ~crossed) =>
     /\ card["path"] # NoEntry /\ card["temp"] = NoEntry
     /\ orig # NoEntry => card["backup"] = orig /\ data[orig] = 0
     /\ fil.closed = "ok" => WholeIn(card, "path") /\ data[card["path"]] = boot

\* Whatever an interrupted or failed boot has left on the card, a boot in which
\* the medium works and has room saves both files: a left-over temporary file,
\* a missing sc7exit or a backup without one never blocks the program.
RetrySucceeds ==
  (pc = "done" /\ ~faulted) => saved = {"wb", "path"}

\* A file that is installed is never written to: while the card's name leads to
\* a chain, that chain keeps its content.
InstalledIsNotOverwritten ==
  [][ (card["path"] \in Chain /\ card'["path"] = card["path"] /\ ~crossed')
        => data'[card["path"]] = data[card["path"]] ]_vars

\* warmboot_extractor.c:418 "Verify write succeeded", and main.c:301 "sc7exit_b01.bin
\* saved successfully!": what is reported as saved is on the card.  When both
\* messages have been printed, at least one of them is true of the card.  That is
\* less than they say together, so that a behaviour that violates it belies both:
\* the f_close of line 416 has failed in it, and the one of line 452.
ReportedIsOnCard ==
  saved = {"wb", "path"} => \E n \in saved : WholeIn(card, n) /\ data[card[n]] = boot

\* README "preserves it as sc7exit_b01.bin.bak", without the exception that
\* OriginalSurvives makes.
BackupIsPreserved ==
  orig # NoEntry => \E n \in {"path", "backup"} : WholeIn(card, n)
=============================================================================
