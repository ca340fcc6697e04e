-------------------------------- MODULE Sdmmc --------------------------------
(***************************************************************************)
(* Both users of the SD/MMC driver: the SD card on SDMMC_1 and the eMMC on *)
(* SDMMC_4.  The controllers have no register in common, so a behaviour is *)
(* that of one of them.                                                    *)
(***************************************************************************)
EXTENDS SdInit, MmcInit

vars == <<pc, bus, SdInitVars>>

Off == [rail |-> "off", det |-> "3V3", power |-> "off", vdd180 |-> FALSE, width |-> 1,
        timing |-> "ID", clocked |-> FALSE, clock_stopped |-> FALSE]

\* The statics are zero; hw_init has left the slot without power.
Init ==
  /\ pc = "idle"
  /\ \/ /\ id = SDMMC_1
        /\ host = Off
        /\ \E kind \in SdCards \cup {NoCard} : card = Card(kind, "off", "3V3")
     \/ /\ id = SDMMC_4
        /\ host = [Off EXCEPT !.rail = "1V8", !.det = "1V8"]
        /\ \E kind \in MmcCards : card = Card(kind, "idle", "1V8")
  /\ storage = NewStorage
  /\ polls = 0 /\ open = FALSE
  /\ sd_mode = SD_UHS_SDR82
  /\ op = "mount" /\ mounting = FALSE
  /\ is_sdsc = FALSE /\ hs_type = 0

Sd  == SdSteps
Mmc == MmcSteps /\ UNCHANGED SdInitVars

Calls ==
  \/ SdMount \/ TransferFails \/ SdEnd
  \/ (MmcStart \/ MmcEnd) /\ UNCHANGED SdInitVars

Next == Sd \/ Mmc \/ Calls \/ CardMoves

\* Every command returns: it is answered or the controller's timeout expires.
Fairness == WF_vars(Sd \/ Mmc)

Spec == Init /\ [][Next]_vars /\ Fairness

-----------------------------------------------------------------------------
\* Properties

AllSteps == {"idle", "sd_wait", "sd_failed", "sd_done", "f_mount", "transfer", "low",
             "cmd11", "ds12", "uhs_clock", "hs_clock", "ssr",
             "m_init", "m_failed", "m_done", "m_ls26", "m_hs200_clock", "m_hs_clock",
             "m_hs400_clock", "m_powersave"} \cup SdCommands \cup MmcCommands

TypeOK == pc \in AllSteps /\ TypeOfHost /\ TypeOfSd

\* Both sides of the bus agree.  Rail, pads, controller and clock mode of the slot
\* are set by four writes in two functions, at two points of the initialisation and
\* at its end, with returns in between: whenever the card has a clock they fit
\* together.  And a storage that is called initialised and has its card in a
\* session uses the card's lines, voltage, speed and addresses, whichever path the
\* initialisation has taken and whatever sessions went before.  (A card that was
\* changed is not in a session.)
BusAgrees ==
  /\ id = SDMMC_1 /\ host.clocked =>
       /\ host.rail = host.power /\ host.det = host.rail
       /\ host.vdd180 <=> host.rail = "1V8"
  /\ storage.initialized /\ card.state = "tran" =>
       /\ card.width = host.width
       /\ card.signal = host.power
       /\ card.access = Needs(host.timing)
       /\ card.ddr <=> host.timing = "HS400"
       /\ storage.has_sector_access = card.kind.hc

\* No command is sent to a card faster than the mode it is in: on the way up the
\* card is switched first, and on the way down to HS the clock comes down
\* without a command in between.
NeverTooFast ==
  pc \in SdCommands \cup MmcCommands /\ Heard /\ card.state = "tran" =>
    Needs(host.timing) <= card.access

\* A fallback falls back: in a session at a lower mode neither 1.8 V nor a UHS
\* speed is used, and at the lowest only one line.
SpeedIsWithinMode ==
  storage.initialized /\ pc \in {"idle", "f_mount", "transfer"} =>
    /\ sd_mode \in {SD_1BIT_HS25, SD_4BIT_HS25} =>
         ~storage.is_low_voltage /\ Needs(host.timing) <= 1
    /\ sd_mode = SD_1BIT_HS25 => host.width = 1

\* Every initialisation comes to its end, with all its loops and fallbacks and
\* a user who moves the card.
InitReturns == pc \in SdCommands \cup MmcCommands ~> pc \in {"idle", "f_mount", "transfer"}

\* sdmmc.c:1320: "T210/T210B01 WAR: Wait exactly 239ms for IO and Controller
\* power to discharge."  The wait opens sdmmc_storage_init_sd; for it to mean
\* anything the power must be off by then, also when sd_mount finds that there is
\* a session already.
DischargedBeforeInit ==
  pc = "sd_wait" /\ op = "mount" /\ storage.initialized => host.rail = "off"
=============================================================================
