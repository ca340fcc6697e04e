------------------------------- MODULE MmcInit -------------------------------
(***************************************************************************)
(* Bringing up the eMMC: sdmmc_storage_init_mmc of bdk/storage/sdmmc.c, as *)
(* emummc_storage_init_mmc calls it (eight lines, HS400), one action per   *)
(* command or change of the controller.                                    *)
(***************************************************************************)
EXTENDS SdmmcHost

-----------------------------------------------------------------------------
\* From the controller to a selected card

MmcStart ==
  /\ pc = "idle" /\ id = SDMMC_4
  /\ ~open
  /\ pc' = "m_init"
  /\ UNCHANGED bus

MmcController ==
  /\ pc = "m_init"
  /\ \/ sdmmc_init /\ pc' = "m_cmd0"
     \/ sdmmc_init_fails /\ pc' = "m_failed"
  /\ storage' = NewStorage
  /\ polls' = 0
  /\ UNCHANGED <<id, open>>

MmcGoIdle == Tell("m_cmd0", "m_cmd1", TRUE, card) \/ Tell("m_cmd0", "m_cmd1", TRUE, GoneIdle)

MmcOpCond ==
  /\ pc = "m_cmd1"
  /\ Heard /\ card.state = "idle"
  /\ card' = [card EXCEPT !.state = "ready"]
  /\ storage' = [storage EXCEPT !.has_sector_access = card.kind.hc]
  /\ pc' = "m_cid"
  /\ UNCHANGED <<id, host, polls, open>>

MmcGetCid ==
  Tell("m_cid", "m_rca", Heard /\ card.state = "ready", [card EXCEPT !.state = "ident"])

MmcSetRca ==
  Tell("m_rca", "m_csd", Heard /\ card.state = "ident", [card EXCEPT !.state = "stby"])

MmcGetCsd == Ask("m_csd", "m_ls26", Heard /\ card.state = "stby")

MmcLs26 == SetClock("m_ls26", "m_select", "LS26")

MmcSelect ==
  Tell("m_select", "m_blocklen", Heard /\ card.state = "stby", [card EXCEPT !.state = "tran"])

\* Before version 4.0 this is all: success, although nothing calls the storage
\* initialised.
MmcSetBlockLen ==
  Ask("m_blocklen", IF card.kind.v1 THEN "m_done" ELSE "m_width", Heard /\ card.state = "tran")

-----------------------------------------------------------------------------
\* Width and speed

\* The switch, and the status that says whether it was taken.
MmcSetWidth ==
  /\ pc = "m_width"
  /\ Heard /\ card.state = "tran" /\ 8 \in card.kind.widths
  /\ card' = [card EXCEPT !.width = 8]
  /\ host' = [host EXCEPT !.width = 8]
  /\ pc' = "m_ext_csd"
  /\ UNCHANGED <<id, storage, polls, open>>

\* _mmc_storage_enable_highspeed: with eight lines HS200 is not made dependent on
\* the card.
MmcGetExtCsd == Ask("m_ext_csd", "m_hs200", DataHeard)

MmcSwitch(from, to, speed) ==
  Tell(from, to, Heard /\ card.state = "tran" /\ speed \in card.kind.speeds,
       [card EXCEPT !.access = speed])

\* HS200 is reached in any case, on the way to HS400 too.
MmcHs200      == MmcSwitch("m_hs200", "m_hs200_clock", 2)
MmcHs200Clock == SetClock("m_hs200_clock", "m_tune", "HS200")
MmcTune       == Ask("m_tune", "m_hs200_status", DataHeard)

MmcHs200Status ==
  Ask("m_hs200_status", IF 3 \in card.kind.speeds THEN "m_hs" ELSE "m_powersave",
      Heard /\ card.state = "tran")

\* Mutant: the status is asked for before the clock has come down.
HsChecksFirst == MmcSwitch("m_hs", "m_hs_status", 1)

\* Down to HS, where the card takes the double data rate.  The clock comes down
\* before the next command.
MmcHs       == MmcSwitch("m_hs", "m_hs_clock", 1)
MmcHsClock  == SetClock("m_hs_clock", "m_hs_status", "HS52")
MmcHsStatus == Ask("m_hs_status", "m_ddr", Heard /\ card.state = "tran")

MmcDdr ==
  Tell("m_ddr", "m_hs400", Heard /\ card.state = "tran", [card EXCEPT !.ddr = TRUE])

MmcHs400 == MmcSwitch("m_hs400", "m_hs400_clock", 3)

\* The calibration of the DLL may run into its timeout.
MmcHs400Clock ==
  \/ SetClock("m_hs400_clock", "m_status", "HS400")
  \/ SetClock("m_hs400_clock", "m_failed", "HS400")

MmcStatus == Ask("m_status", "m_powersave", Heard /\ card.state = "tran")

MmcInitialised ==
  /\ pc = "m_powersave"
  /\ storage' = [storage EXCEPT !.initialized = TRUE]
  /\ pc' = "m_done"
  /\ UNCHANGED <<id, host, card, polls, open>>

MmcCommands == {"m_cmd0", "m_cmd1", "m_cid", "m_rca", "m_csd", "m_select", "m_blocklen",
                "m_width", "m_ext_csd", "m_hs200", "m_tune", "m_hs200_status", "m_hs",
                "m_hs_status", "m_ddr", "m_hs400", "m_status"}

MmcCommandFails ==
  /\ pc \in MmcCommands
  /\ pc' = "m_failed"
  /\ UNCHANGED bus

-----------------------------------------------------------------------------
\* The caller

\* The extraction ends the session also when the initialisation has failed.
MmcReturns ==
  /\ pc \in {"m_done", "m_failed"}
  /\ open' = TRUE
  /\ pc' = "idle"
  /\ UNCHANGED <<id, host, card, storage, polls>>

MmcEnd ==
  /\ pc = "idle" /\ id = SDMMC_4
  /\ open
  /\ sdmmc_storage_end
  /\ open' = FALSE
  /\ UNCHANGED <<pc, id, polls>>

MmcSteps ==
  \/ MmcController \/ MmcGoIdle \/ MmcOpCond \/ PollAgain("m_cmd1") \/ MmcGetCid \/ MmcSetRca
  \/ MmcGetCsd \/ MmcLs26 \/ MmcSelect \/ MmcSetBlockLen \/ MmcSetWidth \/ MmcGetExtCsd
  \/ MmcHs200 \/ MmcHs200Clock \/ MmcTune \/ MmcHs200Status \/ MmcHs \/ MmcHsClock
  \/ MmcHsStatus \/ MmcDdr \/ MmcHs400 \/ MmcHs400Clock \/ MmcStatus \/ MmcInitialised
  \/ MmcCommandFails \/ MmcReturns
=============================================================================
