------------------------------ MODULE FatVolume ------------------------------
(***************************************************************************)
(* The FatFs volume of the SD card (bdk/libs/fatfs/ff.c), as far as the    *)
(* names that the save routines use are concerned.                         *)
(*                                                                         *)
(* FatFs keeps one sector window in RAM.  A call that changes a directory  *)
(* first changes the window; the card holds the change once the window is  *)
(* written back.  So a directory has two values here: `dir', which the     *)
(* FatFs calls of this boot see, and `card', which a boot after a power    *)
(* loss finds.  A directory entry is a cluster chain, an entry of size 0   *)
(* (Empty), or absent (NoEntry).                                           *)
(*                                                                         *)
(* Every operation takes its result as a parameter.  An operation that     *)
(* ends in sync_fs and returns FR_OK leaves card' = dir'.  One that fails  *)
(* stops at any of its stages: dir' is one of them, and card' is any       *)
(* earlier value.  A power loss inside an operation is such a failure      *)
(* followed by a power loss between two operations.                        *)
(***************************************************************************)
EXTENDS Naturals

CONSTANTS Chain,      \* cluster chains of the volume
          NoEntry,    \* directory entry: absent
          Empty,      \* directory entry: present, size 0, no chain
          Free,       \* content of a chain: its clusters are free in the FAT
          Partial,    \* content of a chain: not the complete bytes of a file
          MaxBoots,   \* how often the program is started
          Parts       \* f_write calls that make up one sc7exit file

VARIABLES dir,        \* directory as FatFs sees it in this boot
          card,       \* directory on the medium
          data,       \* what each cluster chain holds
          fil,        \* the FIL object: the program has one file open at a time
          crossed,    \* history: two names have shared one chain
          torn,       \* history: what a failed f_close has left in the place of a file
          faulted     \* history: in this boot the medium or a full volume failed a call

volume == <<dir, card, data, fil, crossed, torn, faulted>>

\* wb_XX.bin, sc7exit_b01.bin, sc7exit_b01.bin.bak, sc7exit_b01.bin.new
Name == {"wb", "path", "backup", "temp"}

Version == 0 .. MaxBoots   \* 0: the file found at first; b: written by boot b

ASSUME VolumeAssumption ==
  /\ NoEntry # Empty /\ NoEntry \notin Chain /\ Empty \notin Chain
  /\ MaxBoots \in Nat
  /\ Free # Partial /\ Free \notin Version /\ Partial \notin Version
  /\ Parts \in Nat \ {0}

Entry     == Chain \cup {NoEntry, Empty}
Directory == [Name -> Entry]
Content   == Version \cup {Free, Partial}
File      == [name : Name, chain : Chain \cup {Empty}, parts : 0 .. Parts,
              closed : {"open", "ok", "failed"}]

NoFile    == [name |-> "temp", chain |-> Empty, parts |-> 0, closed |-> "ok"]

VolumeTypeOK ==
  /\ dir \in Directory
  /\ card \in Directory
  /\ data \in [Chain -> Content]
  /\ fil \in File
  /\ crossed \in BOOLEAN
  /\ torn \in SUBSET (Chain \cup {Empty})
  /\ faulted \in BOOLEAN

-----------------------------------------------------------------------------
\* Two names lead to the same clusters.
Shared(d) == \E m, n \in Name : m # n /\ d[m] \in Chain /\ d[m] = d[n]

\* A file that can be read back completely from directory d.
WholeIn(d, n) == d[n] \in Chain /\ data[d[n]] \in Version

NoteSharing    == crossed' = (crossed \/ Shared(dir') \/ Shared(card'))
NoteFault(bad) == faulted' = (faulted \/ bad)

\* The contents after the chain of an entry was given back to the FAT.
Released(entry) == [c \in Chain |-> IF c = entry THEN Free ELSE data[c]]

\* The window may be written back by any call that moves it to another sector.
NoChange == /\ dir' = dir
            /\ card' \in {card, dir}
            /\ data' = data

\* A call that was stopped: FatFs sees d, the medium may have any of the
\* directories that the window went through.
StoppedAt(d, passed) == dir' = d /\ card' \in {card, d} \cup passed

\* sync_fs returned FR_OK: the medium has everything.
Synced(d) == dir' = d /\ card' = d

-----------------------------------------------------------------------------
\* f_stat: the entry is there, or a missing entry or an unreadable sector is
\* reported; the callers do not tell the two apart.
f_stat(n, ok) ==
  /\ ok => dir[n] # NoEntry
  /\ NoChange
  /\ NoteSharing
  /\ NoteFault(~ok /\ dir[n] # NoEntry)
  /\ UNCHANGED <<fil, torn>>

\* f_open with FA_CREATE_ALWAYS | FA_WRITE: a new entry of size 0, or the old
\* one truncated and its chain released.  The window is not written back,
\* except that releasing a chain moves it to the FAT.
f_open(n, ok) ==
  LET opened == [dir EXCEPT ![n] = Empty]
      Truncated == Synced(opened) /\ data' = Released(dir[n])
      Pending == StoppedAt(opened, {dir}) /\ data' = data
  IN /\ \/ ok /\ dir[n] \in Chain /\ Truncated
        \/ ok /\ dir[n] \notin Chain /\ Pending
        \/ ~ok /\ (NoChange \/ Pending \/ Truncated)
     /\ fil' = [name |-> n, chain |-> Empty, parts |-> 0,
                closed |-> IF ok THEN "open" ELSE "failed"]
     /\ NoteSharing
     /\ NoteFault(~ok)
     /\ UNCHANGED torn

\* f_write of one buffer.  A full volume gives FR_OK with a short count, a
\* medium error gives FR_DISK_ERR; the callers treat both as a failure.  The
\* first write allocates the chain.
f_write(ok) ==
  /\ \E c \in Chain \cup {Empty} :
        /\ IF fil.chain \in Chain THEN c = fil.chain
                                  ELSE c \in Chain => data[c] = Free
        /\ ok => c \in Chain
        /\ fil' = [fil EXCEPT !.chain = c, !.parts = IF ok THEN @ + 1 ELSE @]
        /\ data' = [d \in Chain |-> IF d = c THEN Partial ELSE data[d]]
        /\ torn' = torn \ ({c} \cap Chain)
  /\ dir' = dir
  /\ card' \in {card, dir}
  /\ NoteSharing
  /\ NoteFault(~ok)

\* f_close: flush the last sector, then write first cluster and size into the
\* directory entry, then sync_fs.  v is the content once all parts are there,
\* total their number.
f_close(v, total, ok) ==
  LET closed == [dir EXCEPT ![fil.name] = fil.chain]
      bytes  == IF fil.parts = total THEN v ELSE Partial
      Flushed == data' = [c \in Chain |-> IF c = fil.chain THEN bytes ELSE data[c]]
  IN /\ \/ ok /\ Flushed /\ Synced(closed)
        \/ ~ok /\ NoChange                                 \* last sector not written
        \/ ~ok /\ Flushed /\ StoppedAt(closed, {dir})
     /\ fil' = [fil EXCEPT !.closed = IF ok THEN "ok" ELSE "failed"]
     /\ torn' = IF ok THEN torn ELSE torn \cup {fil.chain, Empty}
     /\ NoteSharing
     /\ NoteFault(~ok)

\* Mutant: the chain is released before the entry is removed.
f_unlink_chain_first(n, ok) ==
  LET removed == [dir EXCEPT ![n] = NoEntry]
  IN /\ \/ ok /\ dir[n] # NoEntry /\ Synced(removed) /\ data' = Released(dir[n])
        \/ ~ok /\ NoChange
        \/ ~ok /\ dir[n] # NoEntry /\ dir' = dir /\ card' = card
               /\ data' = Released(dir[n])
     /\ NoteSharing
     /\ NoteFault(~ok /\ dir[n] # NoEntry)
     /\ UNCHANGED <<fil, torn>>

\* f_unlink: remove the entry, then release its chain.
f_unlink(n, ok) ==
  LET removed == [dir EXCEPT ![n] = NoEntry]
  IN /\ \/ ok /\ dir[n] # NoEntry /\ Synced(removed) /\ data' = Released(dir[n])
        \/ ~ok /\ NoChange
        \/ ~ok /\ dir[n] # NoEntry /\ StoppedAt(removed, {dir}) /\ data' = data
        \/ ~ok /\ dir[n] # NoEntry /\ Synced(removed) /\ data' = Released(dir[n])
     /\ NoteSharing
     /\ NoteFault(~ok /\ dir[n] # NoEntry)
     /\ UNCHANGED <<fil, torn>>

\* f_rename: refuses a name in use, registers the new name, then removes the
\* old one.  Between the two both names lead to the chain: the section that
\* ff.c marks as critical.
f_rename(old, new, ok) ==
  LET both    == [dir EXCEPT ![new] = dir[old]]
      renamed == [both EXCEPT ![old] = NoEntry]
      possible == dir[old] # NoEntry /\ dir[new] = NoEntry
  IN /\ \/ ok /\ possible /\ Synced(renamed) /\ data' = data
        \/ ~ok /\ NoChange
        \/ ~ok /\ possible /\ StoppedAt(both, {dir}) /\ data' = data
        \/ ~ok /\ possible /\ StoppedAt(renamed, {dir, both}) /\ data' = data
     /\ NoteSharing
     /\ NoteFault(~ok /\ possible)
     /\ UNCHANGED <<fil, torn>>

\* Reset or power off: FatFs writes nothing back.  Clusters of a file that was
\* never closed stay allocated or not, as the FAT sector was written or not.
PowerLost ==
  /\ dir' = card
  /\ card' = card
  /\ \/ data' = data
     \/ /\ fil.closed # "ok"
        /\ \A n \in Name : card[n] # fil.chain
        /\ data' = Released(fil.chain)
  /\ fil' = NoFile
  /\ faulted' = FALSE
  /\ NoteSharing
  /\ UNCHANGED torn
=============================================================================
