-------------------------------- MODULE SdInit --------------------------------
(***************************************************************************)
(* Bringing up the SD card: sdmmc_storage_init_sd of bdk/storage/sdmmc.c,  *)
(* one action per command or change of the controller, and the calls of    *)
(* source/storage/nx_sd.c and of a failing transfer that make it run.      *)
(***************************************************************************)
EXTENDS SdmmcHost

VARIABLES sd_mode,
          op,        \* who called: sd_mount, a transfer for the first time, again
          mounting,  \* the transfer is one of f_mount
          is_sdsc, hs_type   \* locals of the initialisation

nx_sd  == <<sd_mode, op, mounting>>
locals == <<is_sdsc, hs_type>>

SD_INIT_FAIL == 0
SD_1BIT_HS25 == 1
SD_4BIT_HS25 == 2
SD_UHS_SDR82 == 3

TypeOfSd ==
  /\ sd_mode \in {SD_INIT_FAIL, SD_1BIT_HS25, SD_4BIT_HS25, SD_UHS_SDR82}
  /\ op \in {"mount", "reinit", "again"}
  /\ mounting \in BOOLEAN /\ is_sdsc \in BOOLEAN
  /\ hs_type \in 0 .. 3

\* The width and timing that sd_init_retry asks for.
Wide == sd_mode # SD_1BIT_HS25

\* Mutant: 1.8 V is asked for at every speed.
UhsAtEverySpeed == Wide

\* _sdmmc_storage_get_bus_uhs_support
Uhs == sd_mode = SD_UHS_SDR82

SdInitVars == <<nx_sd, locals>>

-----------------------------------------------------------------------------
\* From the controller to an identified card

\* The power has discharged; the storage is cleared, the controller set up.
SdController ==
  /\ pc = "sd_wait"
  /\ \/ sdmmc_init /\ pc' = "cmd0"
     \/ sdmmc_init_fails /\ pc' = "sd_failed"
  /\ storage' = NewStorage
  /\ polls' = 0
  /\ is_sdsc' = FALSE
  /\ UNCHANGED <<id, open, nx_sd, hs_type>>

\* Nothing answers CMD0: success says only that it was sent.
GoIdle ==
  /\ \/ Tell("cmd0", "cmd8", TRUE, card)
     \/ Tell("cmd0", "cmd8", TRUE, GoneIdle)
  /\ UNCHANGED SdInitVars

\* A card that does not answer is taken for one of version 1; one that answers with
\* another pattern ends the initialisation (SdCommandFails).
SendIfCond ==
  /\ \/ /\ Ask("cmd8", "acmd41", Heard /\ card.state = "idle" /\ ~card.kind.v1)
        /\ UNCHANGED is_sdsc
     \/ /\ Ask("cmd8", "acmd41", TRUE)
        /\ is_sdsc' = TRUE
  /\ UNCHANGED <<nx_sd, hs_type>>

\* SD_ROCR_S18A: asked for, supported, and not yet at 1.8 V
Agrees18 == Uhs /\ ~is_sdsc /\ card.kind.low /\ card.signal = "3V3"

\* A card of more than 2 GB gets ready only for a host that says it can address it.
OpCond ==
  /\ pc = "acmd41"
  /\ Heard /\ card.state = "idle"
  /\ card.kind.hc => ~is_sdsc
  /\ card' = [card EXCEPT !.state = "ready"]
  /\ storage' = [storage EXCEPT !.has_sector_access = card.kind.hc]
  /\ polls' = 0
  /\ pc' = IF Agrees18 THEN "cmd11" ELSE "cid"
  /\ UNCHANGED <<id, host, open, SdInitVars>>

OpCondAgain == PollAgain("acmd41") /\ UNCHANGED SdInitVars

\* SD_SWITCH_VOLTAGE.  When it fails the initialisation goes on at 3.3 V, also if
\* the card has taken the command and only its answer was lost.
SwitchVoltage ==
  /\ \/ Tell("cmd11", "low", Heard, [card EXCEPT !.signal = "switching"])
     \/ Tell("cmd11", "cid", TRUE, card)
     \/ Tell("cmd11", "cid", Heard, [card EXCEPT !.signal = "switching"])
  /\ UNCHANGED SdInitVars

\* The card follows to 1.8 V, or it does not; the host goes on when it has and the
\* data lines are found released.
EnableLowVoltage ==
  /\ pc = "low"
  /\ host' = LowVoltage
  /\ \/ /\ Inserted /\ card.signal = "switching"
        /\ card' = [card EXCEPT !.signal = "1V8"]
        /\ \/ storage' = [storage EXCEPT !.is_low_voltage = TRUE] /\ pc' = "cid"
           \/ storage' = storage /\ pc' = "sd_failed"
     \/ /\ UNCHANGED <<card, storage>>
        /\ pc' = "sd_failed"
  /\ UNCHANGED <<id, polls, open, SdInitVars>>

GetCid ==
  /\ Tell("cid", "rca", Heard /\ card.state = "ready", [card EXCEPT !.state = "ident"])
  /\ UNCHANGED SdInitVars

\* A card may answer with the address 0 at first.
GetRca ==
  /\ \/ Tell("rca", "csd", Heard /\ card.state = "ident", [card EXCEPT !.state = "stby"])
     \/ PollAgain("rca")
  /\ UNCHANGED SdInitVars

GetCsd ==
  /\ Ask("csd", IF storage.is_low_voltage THEN "select" ELSE "ds12",
         Heard /\ card.state = "stby")
  /\ UNCHANGED SdInitVars

DefaultSpeed == SetClock("ds12", "select", "DS12") /\ UNCHANGED SdInitVars

Select ==
  /\ Tell("select", "blocklen", Heard /\ card.state = "stby", [card EXCEPT !.state = "tran"])
  /\ UNCHANGED SdInitVars

\* SET_BLOCKLEN, and ACMD42 for the card detect resistor
SetBlockLen == Ask("blocklen", "detect", Heard /\ card.state = "tran") /\ UNCHANGED SdInitVars
ClearCardDetect == Ask("detect", "scr", Heard /\ card.state = "tran") /\ UNCHANGED SdInitVars

-----------------------------------------------------------------------------
\* Width and speed

\* After the width: UHS, high speed, or the default speed of an SD 1.0 card.
SpeedStep ==
  IF storage.is_low_voltage THEN "uhs_get" ELSE IF card.kind.v1 THEN "ssr" ELSE "hs_get"

\* ACMD6 is sent when both sides can and the SCR is not of an SD 1.0 card.
GetScr ==
  /\ Ask("scr", IF Wide /\ 4 \in card.kind.widths /\ ~card.kind.v1 THEN "acmd6" ELSE SpeedStep,
         DataHeard)
  /\ UNCHANGED SdInitVars

\* The card first; the controller follows when it has agreed.
SetWidth ==
  /\ pc = "acmd6"
  /\ Heard /\ card.state = "tran"
  /\ card' = [card EXCEPT !.width = 4]
  /\ host' = [host EXCEPT !.width = 4]
  /\ pc' = SpeedStep
  /\ UNCHANGED <<id, storage, polls, open, SdInitVars>>

\* SDR104, or the next speed below that the card has
Best(speeds) == CHOOSE best \in speeds : \A speed \in speeds : speed <= best

\* UHS needs four lines.  The result of the current limit is not looked at.
UhsGet ==
  /\ host.width = 4
  /\ Ask("uhs_get", "uhs_set", DataHeard /\ card.kind.speeds # {})
  /\ hs_type' = Best(card.kind.speeds)
  /\ UNCHANGED <<nx_sd, is_sdsc>>

\* _sd_storage_enable_highspeed: checked, then set.
Switch(from, to) ==
  Tell(from, to, DataHeard /\ hs_type \in card.kind.speeds, [card EXCEPT !.access = hs_type])

UhsSet == Switch("uhs_set", "uhs_clock") /\ UNCHANGED SdInitVars

UhsTiming == CASE hs_type = 3 -> "SDR82" [] hs_type = 2 -> "SDR50"
               [] hs_type = 1 -> "SDR25" [] OTHER -> "SDR12"

UhsClock == SetClock("uhs_clock", "uhs_tune", UhsTiming) /\ UNCHANGED SdInitVars

\* SDR12 and SDR25 need no tuning.
UhsTune == Ask("uhs_tune", "status", DataHeard \/ hs_type < 2) /\ UNCHANGED SdInitVars

\* A card without high speed is left at the default speed.
HsGet ==
  /\ Ask("hs_get", IF 1 \in card.kind.speeds THEN "hs_set" ELSE "ssr", DataHeard)
  /\ hs_type' = 1
  /\ UNCHANGED <<nx_sd, is_sdsc>>

HsSet == Switch("hs_set", "status") /\ UNCHANGED SdInitVars

CheckStatus ==
  /\ Ask("status", IF storage.is_low_voltage THEN "ssr" ELSE "hs_clock",
         Heard /\ card.state = "tran")
  /\ UNCHANGED SdInitVars

HsClock == SetClock("hs_clock", "ssr", "HS25") /\ UNCHANGED SdInitVars

\* Whether the SD status could be read does not matter.
SdInitialised ==
  /\ pc = "ssr"
  /\ storage' = [storage EXCEPT !.initialized = TRUE]
  /\ pc' = "sd_done"
  /\ UNCHANGED <<id, host, card, polls, open, SdInitVars>>

\* The steps whose failure ends the initialisation.
SdCommands == {"cmd0", "cmd8", "acmd41", "cid", "rca", "csd", "select", "blocklen", "detect",
               "scr", "acmd6", "uhs_get", "uhs_set", "uhs_tune", "hs_get", "hs_set", "status"}

SdCommandFails ==
  /\ pc \in SdCommands
  /\ pc' = "sd_failed"
  /\ polls' = 0
  /\ UNCHANGED <<id, host, card, storage, open, SdInitVars>>

SdInitSteps ==
  \/ SdController \/ GoIdle \/ SendIfCond \/ OpCond \/ OpCondAgain \/ SwitchVoltage
  \/ EnableLowVoltage \/ GetCid \/ GetRca \/ GetCsd \/ DefaultSpeed \/ Select
  \/ SetBlockLen \/ ClearCardDetect \/ GetScr \/ SetWidth \/ UhsGet \/ UhsSet
  \/ UhsClock \/ UhsTune \/ HsGet \/ HsSet \/ CheckStatus \/ HsClock \/ SdInitialised
  \/ SdCommandFails

-----------------------------------------------------------------------------
\* nx_sd.c and the transfer

\* Where sd_init_retry starts at a mode: the failed mode returns at once.
Start(mode) == IF mode = SD_INIT_FAIL THEN "sd_failed" ELSE "sd_wait"

\* sd_mount, which does not end the session that a failed f_mount has left.
SdMount ==
  /\ pc = "idle" /\ id = SDMMC_1
  /\ ~open
  /\ pc' = Start(sd_mode)
  /\ op' = "mount" /\ mounting' = TRUE
  /\ UNCHANGED <<bus, sd_mode, locals>>

\* The initialisation returns to its caller.
SdDone ==
  /\ pc = "sd_done"
  /\ pc' = IF op = "mount" THEN "f_mount" ELSE "transfer"
  /\ UNCHANGED <<bus, SdInitVars>>

\* f_mount has read what it needs, or finds no FAT partition.
FMount ==
  /\ pc = "f_mount"
  /\ pc' = "idle"
  /\ \/ DataHeard /\ open' = TRUE
     \/ UNCHANGED open
  /\ UNCHANGED <<id, host, card, storage, polls, SdInitVars>>

\* Five commands of a transfer have failed: sd_initialize(true).
TransferFails ==
  /\ pc = "f_mount" \/ (pc = "idle" /\ open)
  /\ id = SDMMC_1 /\ storage.initialized
  /\ sdmmc_storage_end
  /\ pc' = Start(sd_mode)
  /\ op' = "reinit" /\ mounting' = (pc = "f_mount")
  /\ UNCHANGED <<id, polls, open, sd_mode, locals>>

\* The transfer that started over comes to its end.
TransferReturns ==
  /\ pc = "transfer"
  /\ DataHeard
  /\ pc' = IF mounting THEN "f_mount" ELSE "idle"
  /\ UNCHANGED <<bus, SdInitVars>>

\* Mutant: the mode stays.
PowerCycleSameMode ==
  /\ sdmmc_storage_end
  /\ pc' = Start(sd_mode)
  /\ UNCHANGED sd_mode

\* sd_init_retry(true), one speed down
PowerCycleLower ==
  /\ sd_mode' = sd_mode - 1
  /\ sdmmc_storage_end
  /\ pc' = Start(sd_mode - 1)

TransferFailsAgain ==
  /\ pc = "transfer"
  /\ op' = "again"
  /\ PowerCycleLower
  /\ UNCHANGED <<id, polls, open, mounting, locals>>

\* Mutant: the failed mode is not the end.
InitLowerAlways ==
  /\ pc = "sd_failed" /\ op # "again" /\ Inserted
  /\ PowerCycleLower
  /\ UNCHANGED <<id, polls, open, op, mounting, locals>>

\* The loop of sd_initialize
InitLower ==
  /\ pc = "sd_failed" /\ op # "again" /\ Inserted
  /\ sd_mode # SD_INIT_FAIL
  /\ PowerCycleLower
  /\ UNCHANGED <<id, polls, open, op, mounting, locals>>

\* No card, or no lower speed: the session is ended; so it is not when the
\* transfer has called sd_init_retry itself.
InitFails ==
  /\ pc = "sd_failed"
  /\ \/ /\ op # "again" /\ Inserted /\ sd_mode = SD_INIT_FAIL
        /\ sdmmc_storage_end /\ UNCHANGED sd_mode
     \/ /\ op # "again" /\ ~Inserted
        /\ sdmmc_storage_end /\ sd_mode' = SD_UHS_SDR82
     \/ /\ op = "again"
        /\ UNCHANGED <<host, card, storage, sd_mode>>
  /\ pc' = "idle"
  /\ UNCHANGED <<id, polls, open, op, mounting, locals>>

\* sd_end: only a mounted card is shut down.
SdEnd ==
  /\ pc = "idle" /\ id = SDMMC_1
  /\ sd_mode' = IF sd_mode = SD_INIT_FAIL THEN SD_UHS_SDR82 ELSE sd_mode
  /\ IF open THEN sdmmc_storage_end ELSE UNCHANGED <<host, card, storage>>
  /\ open' = FALSE
  /\ UNCHANGED <<pc, id, polls, op, mounting, locals>>

\* The user takes the card out, or puts one in; the slot may have power.
CardMoves ==
  /\ id = SDMMC_1
  /\ \/ Inserted /\ card' = Card(NoCard, "off", "3V3")
     \/ ~Inserted /\ \E kind \in SdCards :
          card' = Card(kind, IF host.rail = "off" THEN "off" ELSE "idle", "3V3")
  /\ UNCHANGED <<pc, id, host, storage, polls, open, SdInitVars>>

SdSteps == SdInitSteps \/ SdDone \/ FMount \/ TransferReturns \/ TransferFailsAgain
           \/ InitLower \/ InitFails
=============================================================================
