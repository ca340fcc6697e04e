-------------------------------- MODULE SdCard --------------------------------
(***************************************************************************)
(* The SD card layer: mounting and speed fallback (source/storage/nx_sd.c) *)
(* and the transfer with its retries (_sdmmc_storage_readwrite of          *)
(* bdk/storage/sdmmc.c), which call each other: a transfer that fails      *)
(* re-initialises the card at a lower speed and starts over, and mounting  *)
(* transfers.  The user may take the card out and put it back at any step. *)
(***************************************************************************)
EXTENDS Naturals

CONSTANT Chunks    \* commands that make up one transfer

ASSUME ChunksAssumption == Chunks \in Nat \ {0}

VARIABLES sdPc,          \* where the layer is in its calls
          op,            \* the call under way: sd_mount, or a transfer of FatFs
          caller,        \* who called sd_initialize: sd_mount or the transfer
          result,        \* what the last call returned
          sd_mode, sd_mounted,
          initialized,   \* sd_storage.initialized
          inserted,      \* the card is in its slot
          alive,         \* the card is in the session that it was initialised for
          res,           \* result of the latest sd_init_retry
          retries, first_reinit, sct_off, bbuf,   \* locals of the transfer
          buf            \* the chunk of the card that each chunk of the buffer has

nx_sd    == <<sd_mode, sd_mounted>>
session  == <<initialized, alive>>
transfer == <<retries, first_reinit, sct_off, bbuf, buf>>
call     == <<op, caller, result>>
sdVars   == <<sdPc, op, caller, result, sd_mode, sd_mounted, initialized, inserted,
              alive, res, retries, first_reinit, sct_off, bbuf, buf>>

SD_INIT_FAIL == 0
SD_1BIT_HS25 == 1
SD_4BIT_HS25 == 2
SD_UHS_SDR82 == 3
WRAPPED      == 255     \* stands for 2^32 - 1: the enum has no such mode

SdCardTypeOK ==
  /\ sdPc \in {"idle", "init", "init_loop", "init_fail", "entry", "try", "reinit"}
  /\ op \in {"none", "mount", "io"}
  /\ caller \in {"mount", "transfer"}
  /\ result \in {"none", "ok", "failed"}
  /\ sd_mode \in {SD_INIT_FAIL, SD_1BIT_HS25, SD_4BIT_HS25, SD_UHS_SDR82}
  /\ sd_mounted \in BOOLEAN /\ initialized \in BOOLEAN /\ inserted \in BOOLEAN
  /\ alive \in BOOLEAN /\ res \in BOOLEAN /\ first_reinit \in BOOLEAN
  /\ retries \in 0 .. 5
  /\ sct_off \in 0 .. Chunks
  /\ bbuf \in 0 .. Chunks
  /\ buf \in [1 .. Chunks -> 0 .. Chunks]

SdCardInit ==
  /\ sdPc = "idle" /\ op = "none" /\ caller = "mount" /\ result = "none"
  /\ sd_mode = SD_UHS_SDR82
  /\ sd_mounted = FALSE
  /\ initialized = FALSE
  /\ inserted \in BOOLEAN
  /\ alive = FALSE
  /\ res = FALSE
  /\ retries = 0 /\ first_reinit = TRUE /\ sct_off = 0 /\ bbuf = 0
  /\ buf = [k \in 1 .. Chunks |-> 0]

-----------------------------------------------------------------------------
\* sdmmc_storage_end keeps the flag when CMD0 fails; the clock may be off
\* already.  flag, life: the session it is called in.
Ended(flag, life) == {<<FALSE, FALSE>>, <<flag, life>>}

SessionIn(sessions) == \E s \in sessions : initialized' = s[1] /\ alive' = s[2]

\* sdmmc_storage_init_sd clears the storage, then needs a card that answers.
Initialised(ok) ==
  /\ ok => inserted
  /\ initialized' = ok
  /\ alive' = ok
  /\ res' = ok

\* sd_init_retry at the given mode, after a power cycle (if there was one) has
\* left one of the given sessions.
InitAt(mode, sessions) ==
  IF mode = SD_INIT_FAIL
  THEN /\ sd_mode' = mode
       /\ res' = FALSE
       /\ SessionIn(sessions)
  ELSE /\ sd_mode' = IF mode > SD_UHS_SDR82 THEN SD_UHS_SDR82 ELSE mode
       /\ \E ok \in BOOLEAN : Initialised(ok)

\* sd_mode--, unsigned
Lower == IF sd_mode = 0 THEN WRAPPED ELSE sd_mode - 1

sd_init_retry(power_cycle) ==
  IF power_cycle THEN InitAt(Lower, Ended(initialized, alive))
                 ELSE InitAt(sd_mode, {session})

-----------------------------------------------------------------------------
\* Calls from the program and from FatFs

\* sd_mount returns at once when the flag is set.
SdMount ==
  /\ sdPc = "idle"
  /\ ~sd_mounted
  /\ sdPc' = "init"
  /\ op' = "mount" /\ caller' = "mount" /\ result' = "none"
  /\ UNCHANGED <<nx_sd, session, inserted, res, transfer>>

\* disk_read or disk_write
Transfer ==
  /\ sdPc = "idle"
  /\ sdPc' = "entry"
  /\ op' = "io" /\ result' = "none"
  /\ UNCHANGED <<caller, nx_sd, session, inserted, res, transfer>>

\* sd_end: the failed mode is forgotten; only a mounted card is shut down.
SdEnd ==
  /\ sdPc = "idle"
  /\ sd_mode' = IF sd_mode = SD_INIT_FAIL THEN SD_UHS_SDR82 ELSE sd_mode
  /\ sd_mounted' = FALSE
  /\ SessionIn(IF sd_mounted THEN Ended(initialized, alive) ELSE {session})
  /\ UNCHANGED <<sdPc, call, inserted, res, transfer>>

-----------------------------------------------------------------------------
\* sd_initialize

\* With power_cycle the session is ended first; then sd_init_retry(false).
FirstInit ==
  /\ sdPc = "init"
  /\ \/ caller = "mount" /\ sd_init_retry(FALSE)
     \/ caller = "transfer" /\ InitAt(sd_mode, Ended(initialized, alive))
  /\ sdPc' = "init_loop"
  /\ UNCHANGED <<call, sd_mounted, inserted, transfer>>

\* while (true): no card, or no lower speed left, or one more try.
CardIsOut ==
  /\ sdPc = "init_loop" /\ ~res /\ ~inserted
  /\ sd_mode' = SD_UHS_SDR82
  /\ sdPc' = "init_fail"
  /\ UNCHANGED <<call, sd_mounted, session, inserted, res, transfer>>

NoModeLeft ==
  /\ sdPc = "init_loop" /\ ~res /\ inserted /\ sd_mode = SD_INIT_FAIL
  /\ sdPc' = "init_fail"
  /\ UNCHANGED <<call, nx_sd, session, inserted, res, transfer>>

\* Mutant: the test for the failed mode is gone.
InitAgainAlways ==
  /\ sdPc = "init_loop" /\ ~res /\ inserted
  /\ sd_init_retry(TRUE)
  /\ UNCHANGED <<sdPc, call, sd_mounted, inserted, transfer>>

InitAgain ==
  /\ sdPc = "init_loop" /\ ~res /\ inserted /\ sd_mode # SD_INIT_FAIL
  /\ sd_init_retry(TRUE)
  /\ UNCHANGED <<sdPc, call, sd_mounted, inserted, transfer>>

\* The end of a transfer in the call under way.  In sd_mount it belongs to
\* f_mount, which may find no file system on a card that it can read.
Return(ok) ==
  /\ sdPc' = "idle"
  /\ \/ ok /\ result' = "ok" /\ sd_mounted' = (sd_mounted \/ op = "mount")
     \/ (ok => op = "mount") /\ result' = "failed" /\ sd_mounted' = sd_mounted
  /\ UNCHANGED <<op, caller>>

Failed ==
  /\ sdPc = "init_fail"
  /\ SessionIn(Ended(initialized, alive))
  /\ Return(FALSE)
  /\ UNCHANGED <<sd_mode, inserted, res, transfer>>

\* Mutant: bbuf is not reset.
RestartKeepsBuffer ==
  /\ sct_off' = 0
  /\ retries' = 3
  /\ first_reinit' = FALSE
  /\ UNCHANGED <<bbuf, buf>>

\* Mutant: only bbuf is reset.
RestartKeepsSector ==
  /\ bbuf' = 0
  /\ retries' = 3
  /\ first_reinit' = FALSE
  /\ UNCHANGED <<sct_off, buf>>

\* bbuf, sct_off and sct_total go back to the start.
Restart ==
  /\ sct_off' = 0
  /\ bbuf' = 0
  /\ retries' = 3
  /\ first_reinit' = FALSE
  /\ UNCHANGED buf

\* return true: sd_mount goes on to f_mount, the transfer starts over.
InitDone ==
  /\ sdPc = "init_loop" /\ res
  /\ IF caller = "mount" THEN sdPc' = "entry" /\ UNCHANGED transfer
                         ELSE sdPc' = "try" /\ Restart
  /\ UNCHANGED <<call, nx_sd, session, inserted, res>>

-----------------------------------------------------------------------------
\* _sdmmc_storage_readwrite

Enter ==
  /\ sdPc = "entry"
  /\ sct_off' = 0 /\ bbuf' = 0 /\ retries' = 5 /\ first_reinit' = TRUE /\ buf' = buf
  /\ IF initialized THEN sdPc' = "try" /\ UNCHANGED <<call, sd_mounted>>
                    ELSE Return(FALSE)
  /\ UNCHANGED <<sd_mode, session, inserted, res>>

\* One command.  Success moves a chunk and on to the next, with five new tries.
Moved ==
  /\ sdPc = "try"
  /\ alive
  /\ buf' = [buf EXCEPT ![bbuf + 1] = sct_off + 1]
  /\ sct_off' = sct_off + 1
  /\ bbuf' = bbuf + 1
  /\ IF sct_off + 1 = Chunks THEN Return(TRUE) /\ UNCHANGED retries
                             ELSE sdPc' = "try" /\ retries' = 5 /\ UNCHANGED <<call, sd_mounted>>
  /\ UNCHANGED <<sd_mode, session, inserted, res, first_reinit>>

\* A failure leaves anything in that part of the buffer.
NotMoved ==
  /\ sdPc = "try"
  /\ buf' = [buf EXCEPT ![bbuf + 1] = 0]
  /\ retries' = retries - 1
  /\ sdPc' = IF retries = 1 THEN "reinit" ELSE "try"
  /\ UNCHANGED <<call, nx_sd, session, inserted, res, first_reinit, sct_off, bbuf>>

\* The first time through sd_initialize, from then on one speed down each time.
ReinitFirst ==
  /\ sdPc = "reinit" /\ first_reinit
  /\ caller' = "transfer"
  /\ sdPc' = "init"
  /\ UNCHANGED <<op, result, nx_sd, session, inserted, res, transfer>>

ReinitAgain ==
  /\ sdPc = "reinit" /\ ~first_reinit
  /\ sd_init_retry(TRUE)
  /\ IF res' THEN sdPc' = "try" /\ Restart /\ UNCHANGED <<call, sd_mounted>>
             ELSE Return(FALSE) /\ UNCHANGED transfer
  /\ UNCHANGED inserted

-----------------------------------------------------------------------------
\* The user

CardMoves ==
  /\ inserted' = ~inserted
  /\ alive' = FALSE
  /\ UNCHANGED <<sdPc, call, nx_sd, initialized, res, transfer>>

Layer ==
  \/ FirstInit \/ CardIsOut \/ NoModeLeft \/ InitAgain \/ Failed \/ InitDone
  \/ Enter \/ Moved \/ NotMoved \/ ReinitFirst \/ ReinitAgain

SdCardNext == SdMount \/ Transfer \/ SdEnd \/ Layer \/ CardMoves

\* Every command returns, by completion or by the timeout of the controller.
Fairness == WF_sdVars(Layer)

SdCardSpec == SdCardInit /\ [][SdCardNext]_sdVars /\ Fairness

-----------------------------------------------------------------------------
\* Properties

\* While the card stays in its slot a call only slows it down, never below the
\* failed mode: sd_mode is unsigned, and a decrement at 0 would take it back to
\* full speed and the retries round for ever.
SpeedOnlyDrops == [][sd_mode' > sd_mode => sdPc = "idle" \/ ~inserted]_sdVars

\* The promise to FatFs is kept, through any retries, re-initialisations and
\* movements of the card: every call returns, and a call that returns success
\* has filled the whole buffer, each part with its own part of the card.
Promise == INSTANCE SdPromise WITH busy <- sdPc # "idle"

Promised == Promise!Spec
=============================================================================
