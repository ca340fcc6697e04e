------------------------------ MODULE SdmmcHost ------------------------------
(***************************************************************************)
(* The SD/MMC host controller as bdk/storage/sdmmc_driver.c drives it      *)
(* (rails, pads, bus width, clock, tuning), and what a command finds on    *)
(* the other side of the bus.  SdInit and MmcInit are the two sequences of *)
(* bdk/storage/sdmmc.c that bring a card up over it.                       *)
(*                                                                         *)
(* The card itself is external: it is modelled as the commands of the      *)
(* program use it (SD Physical Layer, JESD84).                             *)
(***************************************************************************)
EXTENDS Naturals

CONSTANTS SdCards, MmcCards,   \* the cards there are (records, see AKind)
          NoCard,              \* an empty slot
          MaxPolls             \* polls that fit into a timeout

AKind == [hc : BOOLEAN,                 \* more than 2 GB: addressed by sector
          v1 : BOOLEAN,                 \* SD 1.0, or an eMMC before version 4
          low : BOOLEAN,                \* can signal at 1.8 V
          widths : SUBSET {1, 4, 8},
          speeds : SUBSET (0 .. 3)]     \* access modes it can be switched to

ASSUME CardsAssumption ==
  /\ SdCards \subseteq AKind /\ MmcCards \subseteq AKind
  /\ NoCard \notin SdCards
  /\ MaxPolls \in Nat \ {0}

VARIABLES pc,
          id,        \* the controller: SDMMC_1 has the SD card, SDMMC_4 the eMMC
          host,      \* its registers and those of rails and pads, and sdmmc_t
          card,      \* the card in the slot
          storage,   \* sdmmc_storage_t
          polls,     \* rounds of the loop under way
          open       \* sd_mounted; for the eMMC: initialised and not yet ended

bus == <<id, host, card, storage, polls, open>>

SDMMC_1 == 0
SDMMC_4 == 3

Levels == {"off", "1V8", "3V3"}

AHost == [rail : Levels,              \* LDO2 and the power pin of the slot
          det : {"1V8", "3V3"},       \* PMC_PWR_DET_VAL, what the pads expect
          power : Levels,             \* pwrcon
          vdd180 : BOOLEAN,           \* SDHCI_CTRL_VDD_180
          width : {1, 4, 8},
          timing : {"ID", "DS12", "HS25", "SDR12", "SDR25", "SDR50", "SDR82",
                    "LS26", "HS52", "HS200", "HS400"},
          clocked : BOOLEAN,          \* card_clock_enabled
          clock_stopped : BOOLEAN]

ACard(kinds) ==
  [kind : kinds,
   signal : {"1V8", "3V3", "switching"},
   state : {"off", "idle", "ready", "ident", "stby", "tran"},
   width : {1, 4, 8}, ddr : BOOLEAN,
   access : 0 .. 3]

AStorage == [initialized : BOOLEAN, is_low_voltage : BOOLEAN, has_sector_access : BOOLEAN]

TypeOfHost ==
  /\ id \in {SDMMC_1, SDMMC_4}
  /\ host \in AHost
  /\ card \in ACard(SdCards \cup MmcCards \cup {NoCard})
  /\ storage \in AStorage
  /\ polls \in 0 .. MaxPolls
  /\ open \in BOOLEAN

-----------------------------------------------------------------------------
\* The card (external)

Inserted == card.kind # NoCard

Card(kind, state, signal) ==
  [kind |-> kind, signal |-> signal, state |-> state,
   width |-> 1, ddr |-> FALSE, access |-> 0]

PowerUp(level) == IF Inserted /\ card.state = "off" THEN Card(card.kind, "idle", level) ELSE card
PowerDown      == Card(card.kind, "off", "3V3")

\* A high level of 1.8 V is below what an input at 3.3 V takes for one: a card
\* and a host that signal at different levels do not understand each other.
Heard == Inserted /\ host.clocked /\ card.state # "off" /\ card.signal = host.power

\* A data block arrives only over the lines that both sides use.
DataHeard == Heard /\ card.state = "tran" /\ card.width = host.width

\* CMD0 keeps the signalling level.
GoneIdle == IF Heard THEN Card(card.kind, "idle", card.signal) ELSE card

-----------------------------------------------------------------------------
\* The driver

\* The access mode that a host timing belongs to.
Needs(timing) ==
  CASE timing \in {"HS25", "SDR25", "HS52"} -> 1
    [] timing \in {"SDR50", "HS200"}        -> 2
    [] timing \in {"SDR82", "HS400"}        -> 3
    [] OTHER                                -> 0

\* sdmmc_setup_clock: the timing also decides whether the controller signals at
\* 1.8 V.
Clocked(h, timing) ==
  [h EXCEPT !.timing = timing,
            !.vdd180 = timing \in {"SDR12", "SDR25", "SDR50", "SDR82", "HS200", "HS400"}]

\* _sdmmc_config_sdmmc1 powers the slot at 3.3 V, whatever it had before; the
\* rail of the eMMC is always on.  _sdmmc_reset_all clears the registers.
PoweredHost ==
  LET level == IF id = SDMMC_1 THEN "3V3" ELSE "1V8"
  IN [rail |-> level, det |-> level, power |-> "off", vdd180 |-> FALSE, width |-> 1,
      timing |-> "ID", clocked |-> FALSE, clock_stopped |-> FALSE]

\* sdmmc_init: no card; or the internal clock does not get stable; or done.
sdmmc_init_fails ==
  \/ /\ ~Inserted
     /\ host' = [host EXCEPT !.clocked = FALSE, !.clock_stopped = TRUE]
     /\ UNCHANGED card
  \/ /\ Inserted
     /\ host' = PoweredHost
     /\ card' = PowerUp(host'.rail)

sdmmc_init ==
  /\ Inserted
  /\ host' = [PoweredHost EXCEPT !.power = PoweredHost.rail, !.clocked = TRUE]
  /\ card' = PowerUp(host'.rail)

\* Mutant: the controller is left at 3.3 V.
LowVoltageForgetsPower == Clocked([host EXCEPT !.rail = "1V8", !.det = "1V8"], "SDR12")

\* sdmmc_enable_low_voltage: rail, pads, controller and clock go to 1.8 V.
LowVoltage ==
  Clocked([host EXCEPT !.rail = "1V8", !.det = "1V8", !.power = "1V8"], "SDR12")

\* sdmmc_end: only the slot of the SD card loses its power.
EndedHost ==
  IF host.clock_stopped THEN host
  ELSE [host EXCEPT !.clocked = FALSE, !.clock_stopped = TRUE, !.power = "off",
                    !.rail = IF id = SDMMC_1 THEN "off" ELSE @,
                    !.det = IF id = SDMMC_1 THEN "3V3" ELSE @]

\* sdmmc_storage_end gives up when CMD0 fails, which it does for sure when the
\* clock was never enabled, and leaves everything as it is.
GivesUp ==
  /\ card' = card \/ card' = GoneIdle
  /\ UNCHANGED <<host, storage>>

Ends ==
  /\ host.clocked
  /\ host' = EndedHost
  /\ card' = IF id = SDMMC_1 THEN PowerDown ELSE GoneIdle
  /\ storage' = [storage EXCEPT !.initialized = FALSE]

sdmmc_storage_end == GivesUp \/ Ends

-----------------------------------------------------------------------------
\* Steps of an initialisation

\* A command that only asks.
Ask(from, to, heard) ==
  /\ pc = from
  /\ heard
  /\ pc' = to
  /\ UNCHANGED bus

\* A command after which the card is as given.
Tell(from, to, heard, new) ==
  /\ pc = from
  /\ heard
  /\ card' = new
  /\ pc' = to
  /\ UNCHANGED <<id, host, storage, polls, open>>

\* A call of sdmmc_setup_clock, which sends no command.
SetClock(from, to, timing) ==
  /\ pc = from
  /\ host' = Clocked(host, timing)
  /\ pc' = to
  /\ UNCHANGED <<id, card, storage, polls, open>>

\* The answer of a card that is not yet ready, before the timeout.
PollAgain(at) ==
  /\ pc = at
  /\ Heard
  /\ polls < MaxPolls
  /\ polls' = polls + 1
  /\ UNCHANGED <<pc, id, host, card, storage, open>>

\* memset of the storage at the start of an initialisation
NewStorage == [initialized |-> FALSE, is_low_voltage |-> FALSE, has_sector_access |-> FALSE]
=============================================================================
