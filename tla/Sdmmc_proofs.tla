---------------------------- MODULE Sdmmc_proofs ----------------------------
(***************************************************************************)
(* For every set of cards and every number of polls: whatever commands are *)
(* lost and whenever the card is moved, the two sides of the bus agree, no *)
(* command is sent faster than the card expects, and a fallback is slower. *)
(***************************************************************************)
EXTENDS Sdmmc, TLAPS

\* The steps of the two initialisations, by how far the card has come.
Early == {"cmd0", "cmd8", "acmd41", "m_cmd0", "m_cmd1"}
Ready == {"cmd11", "low", "cid", "m_cid"}
Ident == {"rca", "m_rca"}
Stby  == {"csd", "ds12", "select", "m_csd", "m_ls26", "m_select"}
Slow  == {"blocklen", "detect", "scr", "acmd6", "uhs_get", "uhs_set", "hs_get", "hs_set",
          "m_blocklen", "m_width", "m_ext_csd", "m_hs200"}
Fast  == {"uhs_clock", "uhs_tune", "status", "hs_clock", "ssr",
          "m_hs200_clock", "m_tune", "m_hs200_status", "m_hs", "m_hs_clock", "m_hs_status",
          "m_ddr", "m_hs400", "m_hs400_clock", "m_status", "m_powersave"}
Tran  == Slow \cup Fast
Late  == Ready \cup Ident \cup Stby \cup Tran

SdMid == {"cmd0", "cmd8", "acmd41", "cmd11", "low", "cid", "rca", "csd", "ds12", "select",
          "blocklen", "detect", "scr", "acmd6", "uhs_get", "uhs_set", "hs_get", "hs_set",
          "uhs_clock", "uhs_tune", "status", "hs_clock", "ssr"}
MmcMid == (Early \cup Late) \ SdMid

\* Timings for which a card need not be switched.
SlowTimings == {"ID", "DS12", "LS26", "SDR12"}

\* The steps at which the card has been switched and the clock not yet.
Switched == {"uhs_clock", "hs_clock", "m_hs200_clock", "m_hs_clock", "m_hs400_clock"}

Kinds == SdCards \cup MmcCards \cup {NoCard}

\* Who runs on which controller and at which speed; nothing is called initialised
\* while it is being initialised, nor after that has failed.
Places ==
  /\ pc \in SdMid \cup {"sd_wait", "sd_done", "sd_failed", "f_mount", "transfer"} => id = SDMMC_1
  /\ pc \in MmcMid \cup {"m_init", "m_done", "m_failed"} => id = SDMMC_4
  /\ id = SDMMC_4 => sd_mode = SD_UHS_SDR82
  /\ pc \in SdMid \cup {"sd_wait", "sd_done", "transfer"} => sd_mode # SD_INIT_FAIL
  /\ pc \in SdMid \cup MmcMid => ~storage.initialized
  /\ pc = "sd_failed" /\ storage.initialized => sd_mode = SD_INIT_FAIL

\* The card has come as far as the initialisation, or has been changed since.
Reached ==
  /\ pc \in Ready => card.state \in {"off", "idle", "ready"}
  /\ pc \in Ident => card.state \in {"off", "idle", "ident"}
  /\ pc \in Stby  => card.state \in {"off", "idle", "stby"}
  /\ pc \in Tran  => card.state \in {"off", "idle", "tran"}

\* Before it transfers data a card uses one line at the default speed.
Fresh == card.state # "tran" => card.width = 1 /\ ~card.ddr /\ card.access = 0

Known == card.state \notin {"off", "idle"}

\* The addresses and lines of a card that is being initialised are the host's, and
\* its signalling level is once it has answered after the change of the level.
Fits ==
  pc \in Late /\ Known =>
    /\ storage.has_sector_access = card.kind.hc
    /\ card.width = host.width
    /\ pc \notin Ready => card.signal = host.power

Rails ==
  /\ id = SDMMC_1 /\ host.clocked =>
       /\ host.rail = host.power /\ host.det = host.rail
       /\ host.vdd180 <=> host.rail = "1V8"
  /\ pc \in SdMid =>
       /\ host.clocked
       /\ storage.is_low_voltage <=> host.rail = "1V8"
  /\ pc \in Early \cup {"ds12", "hs_get", "hs_set", "hs_clock", "cmd11", "low"} =>
       ~storage.is_low_voltage
  /\ pc \in {"uhs_get", "uhs_set", "uhs_clock", "uhs_tune"} => storage.is_low_voltage

\* The timing of the controller at each step.
Timings ==
  /\ pc \in Early => host.timing = "ID" /\ host.width = 1
  /\ pc \in Ready \cup Ident \cup Stby \cup Slow \cup {"uhs_clock", "hs_clock", "m_hs200_clock"}
       => host.timing \in SlowTimings
  /\ pc = "status" /\ ~storage.is_low_voltage => host.timing \in SlowTimings
  /\ pc \in {"m_tune", "m_hs200_status", "m_hs", "m_hs_clock"} => host.timing = "HS200"
  /\ pc \in {"m_hs_status", "m_ddr", "m_hs400", "m_hs400_clock"} => host.timing = "HS52"
  /\ pc = "m_status" => host.timing = "HS400"

\* The speed of a card that transfers data, against that of the controller.
Speeds ==
  /\ pc \in Tran /\ Known =>
       /\ pc = "uhs_clock" => card.access = hs_type
       /\ pc \in {"hs_clock", "m_hs_clock"} => card.access = 1
       /\ pc = "m_hs200_clock" => card.access = 2
       /\ pc = "m_hs400_clock" => card.access = 3
       /\ pc = "status" => card.access = IF storage.is_low_voltage THEN Needs(host.timing) ELSE 1
       /\ pc \notin Switched \cup {"status"} => card.access = Needs(host.timing)
       /\ pc \in {"m_hs400", "m_hs400_clock"} => card.ddr
       /\ pc \notin {"m_hs400", "m_hs400_clock"} => (card.ddr <=> host.timing = "HS400")
  /\ pc = "hs_set" => hs_type = 1

\* The speed that an initialisation of the SD card uses is one of its mode.
Within ==
  pc \in SdMid \cup {"sd_done"} =>
    /\ sd_mode \in {SD_1BIT_HS25, SD_4BIT_HS25} => ~storage.is_low_voltage
    /\ ~storage.is_low_voltage => Needs(host.timing) <= 1
    /\ sd_mode = SD_1BIT_HS25 => (host.width = 1 /\ pc # "acmd6")
    /\ pc \in {"cmd11", "low"} => sd_mode = SD_UHS_SDR82

\* A storage that is called initialised and has its card in a session fits it.
Session ==
  storage.initialized /\ card.state = "tran" =>
    /\ card.width = host.width
    /\ card.signal = host.power
    /\ card.access = Needs(host.timing)
    /\ card.ddr <=> host.timing = "HS400"
    /\ storage.has_sector_access = card.kind.hc

\* The inductive invariant.
IInv == /\ TypeOK /\ Places /\ Reached /\ Fresh /\ Fits /\ Rails /\ Timings /\ Speeds
        /\ Within /\ Session /\ SpeedIsWithinMode

USE DEF SDMMC_1, SDMMC_4, SD_INIT_FAIL, SD_1BIT_HS25, SD_4BIT_HS25, SD_UHS_SDR82,
        AllSteps, SdCommands, MmcCommands,
        Early, Ready, Ident, Stby, Slow, Fast, Tran, Late, SdMid, MmcMid, Known, Switched

-----------------------------------------------------------------------------
\* Records

\* What the type invariant says of the fields of host, card and storage.
LEMMA Fields ==
  ASSUME TypeOK
  PROVE  /\ host.rail \in Levels /\ host.power \in Levels /\ host.det \in {"1V8", "3V3"}
         /\ host.vdd180 \in BOOLEAN /\ host.width \in {1, 4, 8} /\ host.clocked \in BOOLEAN
         /\ card.kind \in Kinds /\ card.width \in {1, 4, 8} /\ card.ddr \in BOOLEAN
         /\ card.access \in 0 .. 3
         /\ storage.initialized \in BOOLEAN /\ storage.is_low_voltage \in BOOLEAN
  BY DEF TypeOK, TypeOfHost, AHost, ACard, AStorage, Kinds

\* Only a card has a kind that a step may ask about.
LEMMA Asked ==
  ASSUME TypeOK, Inserted
  PROVE  card.kind \in AKind
  BY CardsAssumption DEF TypeOK, TypeOfHost, ACard, Inserted

LEMMA NeedsType ==
  ASSUME NEW timing
  PROVE  /\ Needs(timing) \in 0 .. 3
         /\ timing \in SlowTimings => Needs(timing) = 0
  BY DEF Needs, SlowTimings

\* The fields of a new card.
LEMMA NewCard ==
  ASSUME NEW kind, NEW state, NEW signal
  PROVE  LET c == Card(kind, state, signal)
         IN  /\ c.kind = kind /\ c.state = state /\ c.signal = signal
             /\ c.width = 1 /\ ~c.ddr /\ c.access = 0
             /\ kind \in Kinds /\ state \in {"off", "idle"} /\ signal \in {"1V8", "3V3", "switching"}
                  => c \in ACard(Kinds)
  BY DEF Card, ACard

\* sdmmc_setup_clock changes the timing and with it the level of the controller.
LEMMA NewClock ==
  ASSUME NEW h \in AHost,
         NEW timing \in {"ID", "DS12", "HS25", "SDR12", "SDR25", "SDR50", "SDR82",
                         "LS26", "HS52", "HS200", "HS400"}
  PROVE  LET c == Clocked(h, timing)
         IN  /\ c \in AHost
             /\ c.timing = timing
             /\ c.vdd180 <=> timing \in {"SDR12", "SDR25", "SDR50", "SDR82", "HS200", "HS400"}
             /\ c.rail = h.rail /\ c.det = h.det /\ c.power = h.power /\ c.width = h.width
             /\ c.clocked = h.clocked /\ c.clock_stopped = h.clock_stopped
<1> DEFINE c == Clocked(h, timing)
           high == timing \in {"SDR12", "SDR25", "SDR50", "SDR82", "HS200", "HS400"}
<1>1. c = [h EXCEPT !.timing = timing, !.vdd180 = high]
  BY DEF Clocked
<1>2. high \in BOOLEAN
  OBVIOUS
<1>3. c \in AHost
  BY <1>1, <1>2 DEF AHost
<1>4. c.timing = timing /\ c.vdd180 = high
  BY <1>1 DEF AHost
<1>5. /\ c.rail = h.rail /\ c.det = h.det /\ c.power = h.power /\ c.width = h.width
      /\ c.clocked = h.clocked /\ c.clock_stopped = h.clock_stopped
  BY <1>1 DEF AHost
<1> QED
  BY <1>3, <1>4, <1>5

-----------------------------------------------------------------------------
\* Power on and off

\* The slot or the rail of the eMMC with power, and the controller reset.
LEMMA NewHost ==
  ASSUME id \in {SDMMC_1, SDMMC_4}
  PROVE  /\ PoweredHost \in AHost
         /\ PoweredHost.rail = IF id = SDMMC_1 THEN "3V3" ELSE "1V8"
         /\ PoweredHost.det = PoweredHost.rail /\ PoweredHost.vdd180 = FALSE
         /\ PoweredHost.width = 1 /\ PoweredHost.timing = "ID"
         /\ PoweredHost.clocked = FALSE
  BY DEF PoweredHost, AHost, Levels

LEMMA PoweredUp ==
  ASSUME TypeOK, Fresh, NEW level \in {"1V8", "3V3"}, card' = PowerUp(level)
  PROVE  card' \in ACard(Kinds) /\ Fresh'
<1>1. card \in ACard(Kinds)
  BY DEF TypeOK, TypeOfHost, Kinds
<1>2. CASE Inserted /\ card.state = "off"
  <2>1. card' = Card(card.kind, "idle", level) /\ card.kind \in Kinds
    BY <1>1, <1>2 DEF PowerUp, ACard
  <2> QED
    BY <2>1, NewCard DEF Fresh
<1>3. CASE ~(Inserted /\ card.state = "off")
  BY <1>1, <1>3 DEF PowerUp, Fresh
<1> QED
  BY <1>2, <1>3

\* sdmmc_init leaves a card with a clock, and the controller as reset.
LEMMA Controller ==
  ASSUME TypeOK, Fresh, sdmmc_init
  PROVE  /\ host' \in AHost /\ card' \in ACard(Kinds) /\ Fresh'
         /\ host'.clocked /\ host'.width = 1 /\ host'.timing = "ID" /\ ~host'.vdd180
         /\ host'.power = host'.rail /\ host'.det = host'.rail
         /\ host'.rail = IF id = SDMMC_1 THEN "3V3" ELSE "1V8"
<1>1. host' = [PoweredHost EXCEPT !.power = PoweredHost.rail, !.clocked = TRUE]
  BY DEF sdmmc_init
<1>2. id \in {SDMMC_1, SDMMC_4}
  BY DEF TypeOK, TypeOfHost
<1>3. /\ host' \in AHost /\ host'.clocked /\ host'.width = 1 /\ host'.timing = "ID"
      /\ ~host'.vdd180 /\ host'.power = host'.rail /\ host'.det = host'.rail
      /\ host'.rail = IF id = SDMMC_1 THEN "3V3" ELSE "1V8"
  BY <1>1, <1>2 DEF PoweredHost, AHost, Levels
<1>4. card' = PowerUp(host'.rail)
  BY DEF sdmmc_init
<1> QED
  BY <1>3, <1>4, PoweredUp

\* After a sdmmc_init that has failed the slot has no clock.
LEMMA NoController ==
  ASSUME TypeOK, Fresh, sdmmc_init_fails
  PROVE  host' \in AHost /\ card' \in ACard(Kinds) /\ Fresh' /\ ~host'.clocked
<1>1. CASE ~Inserted /\ host' = [host EXCEPT !.clocked = FALSE, !.clock_stopped = TRUE]
           /\ UNCHANGED card
  <2>1. host' \in AHost /\ ~host'.clocked
    BY <1>1 DEF TypeOK, TypeOfHost, AHost
  <2> QED
    BY <1>1, <2>1 DEF TypeOK, TypeOfHost, Fresh, Kinds
<1>2. CASE host' = PoweredHost /\ card' = PowerUp(host'.rail)
  <2>1. id \in {SDMMC_1, SDMMC_4}
    BY DEF TypeOK, TypeOfHost
  <2> QED
    BY <1>2, <2>1, NewHost, PoweredUp
<1> QED
  BY <1>1, <1>2 DEF sdmmc_init_fails

\* sdmmc_storage_end either leaves no session, or everything but the state of the card.
LEMMA Ended ==
  ASSUME TypeOK, Fresh, sdmmc_storage_end
  PROVE  /\ host' \in AHost /\ card' \in ACard(Kinds) /\ storage' \in AStorage
         /\ Fresh'
         /\ host' = host \/ ~host'.clocked
         /\ \/ ~storage'.initialized
            \/ UNCHANGED <<host, storage>> /\ (card' = card \/ card'.state = "idle")
<1>1. /\ card \in ACard(Kinds) /\ card.kind \in Kinds /\ host \in AHost /\ storage \in AStorage
      /\ card.signal \in {"1V8", "3V3", "switching"}
  BY DEF TypeOK, TypeOfHost, Kinds, ACard
<1>2. ASSUME card' = GoneIdle
      PROVE  card' \in ACard(Kinds) /\ Fresh' /\ (card' = card \/ card'.state = "idle")
  <2>1. card' = card \/ card' = Card(card.kind, "idle", card.signal)
    BY <1>2 DEF GoneIdle
  <2>2. CASE card' = card
    BY <1>1, <2>2 DEF Fresh
  <2>3. CASE card' = Card(card.kind, "idle", card.signal)
    BY <1>1, <2>3, NewCard DEF Fresh
  <2> QED
    BY <2>1, <2>2, <2>3
<1>3. CASE GivesUp
  BY <1>1, <1>2, <1>3 DEF GivesUp, Fresh
<1>4. CASE Ends
  <2>1. storage' \in AStorage /\ ~storage'.initialized
    <3>1. storage' = [storage EXCEPT !.initialized = FALSE]
      BY <1>4 DEF Ends
    <3> QED
      BY <1>1, <3>1 DEF AStorage
  <2>2. card' \in ACard(Kinds) /\ Fresh'
    <3>1. CASE card' = PowerDown
      BY <1>1, <3>1, NewCard DEF PowerDown, Fresh
    <3>2. CASE card' = GoneIdle
      BY <1>2, <3>2
    <3> QED
      BY <1>4, <3>1, <3>2 DEF Ends
  <2>3. host' \in AHost /\ (host' = host \/ ~host'.clocked)
    <3>1. CASE host.clock_stopped
      BY <1>1, <1>4, <3>1 DEF Ends, EndedHost
    <3>2. CASE ~host.clock_stopped
      <4>1. host' = [host EXCEPT !.clocked = FALSE, !.clock_stopped = TRUE, !.power = "off",
                                 !.rail = IF id = SDMMC_1 THEN "off" ELSE @,
                                 !.det = IF id = SDMMC_1 THEN "3V3" ELSE @]
        BY <1>4, <3>2 DEF Ends, EndedHost
      <4> QED
        BY <1>1, <4>1 DEF AHost, Levels
    <3> QED
      BY <3>1, <3>2
  <2> QED
    BY <2>1, <2>2, <2>3
<1> QED
  BY <1>3, <1>4 DEF sdmmc_storage_end

-----------------------------------------------------------------------------
\* One lemma per action: commands that ask, and commands after which the card has
\* changed its state

USE DEF IInv, TypeOK, TypeOfHost, TypeOfSd, Places, Reached, Fresh, Fits, Rails, Timings,
        Speeds, Within, Session, SpeedIsWithinMode, bus, SdInitVars, nx_sd, locals

LEMMA SendIfCondOK == IInv /\ SendIfCond => IInv'
<1> SUFFICES ASSUME IInv, SendIfCond PROVE IInv'
  OBVIOUS
<1>1. pc = "cmd8" /\ pc' = "acmd41" /\ UNCHANGED <<bus, nx_sd, hs_type>>
  BY DEF SendIfCond, Ask
<1>2. is_sdsc' \in BOOLEAN
  BY DEF SendIfCond
<1> QED
  BY <1>1, <1>2

LEMMA GetCsdOK == IInv /\ GetCsd => IInv'
  BY DEF GetCsd, Ask

LEMMA SetBlockLenOK == IInv /\ SetBlockLen => IInv'
  BY DEF SetBlockLen, Ask

LEMMA ClearCardDetectOK == IInv /\ ClearCardDetect => IInv'
  BY DEF ClearCardDetect, Ask

LEMMA GetScrOK == IInv /\ GetScr => IInv'
  BY DEF GetScr, Ask, SpeedStep, Wide

LEMMA UhsTuneOK == IInv /\ UhsTune => IInv'
  BY DEF UhsTune, Ask

LEMMA CheckStatusOK == IInv /\ CheckStatus => IInv'
  BY DEF CheckStatus, Ask

LEMMA SdCommandFailsOK == IInv /\ SdCommandFails => IInv'
  BY CardsAssumption DEF SdCommandFails

LEMMA HsGetOK == IInv /\ HsGet => IInv'
  BY DEF HsGet, Ask

LEMMA SdDoneOK == IInv /\ SdDone => IInv'
  BY DEF SdDone

LEMMA TransferReturnsOK == IInv /\ TransferReturns => IInv'
  BY DEF TransferReturns

LEMMA OpCondAgainOK == IInv /\ OpCondAgain => IInv'
  BY CardsAssumption DEF OpCondAgain, PollAgain

LEMMA MmcGetCsdOK == IInv /\ MmcGetCsd /\ UNCHANGED SdInitVars => IInv'
  BY DEF MmcGetCsd, Ask

LEMMA MmcSetBlockLenOK == IInv /\ MmcSetBlockLen /\ UNCHANGED SdInitVars => IInv'
  BY DEF MmcSetBlockLen, Ask

LEMMA MmcGetExtCsdOK == IInv /\ MmcGetExtCsd /\ UNCHANGED SdInitVars => IInv'
  BY DEF MmcGetExtCsd, Ask

LEMMA MmcTuneOK == IInv /\ MmcTune /\ UNCHANGED SdInitVars => IInv'
  BY DEF MmcTune, Ask

LEMMA MmcHs200StatusOK == IInv /\ MmcHs200Status /\ UNCHANGED SdInitVars => IInv'
  BY DEF MmcHs200Status, Ask

LEMMA MmcHsStatusOK == IInv /\ MmcHsStatus /\ UNCHANGED SdInitVars => IInv'
  BY DEF MmcHsStatus, Ask

LEMMA MmcStatusOK == IInv /\ MmcStatus /\ UNCHANGED SdInitVars => IInv'
  BY DEF MmcStatus, Ask

LEMMA MmcCommandFailsOK == IInv /\ MmcCommandFails /\ UNCHANGED SdInitVars => IInv'
  BY DEF MmcCommandFails

LEMMA MmcReturnsOK == IInv /\ MmcReturns /\ UNCHANGED SdInitVars => IInv'
  BY DEF MmcReturns

LEMMA MmcStartOK == IInv /\ MmcStart /\ UNCHANGED SdInitVars => IInv'
  BY DEF MmcStart

LEMMA GoIdleOK == IInv /\ GoIdle => IInv'
<1> SUFFICES ASSUME IInv, GoIdle PROVE IInv'
  OBVIOUS
<1>1. pc = "cmd0" /\ pc' = "cmd8" /\ UNCHANGED <<id, host, storage, polls, open, SdInitVars>>
  BY DEF GoIdle, Tell
<1>2. card' = card \/ card' = Card(card.kind, "idle", card.signal)
  BY DEF GoIdle, Tell, GoneIdle
<1>3. card.signal \in {"1V8", "3V3", "switching"} /\ card.kind \in Kinds
  BY DEF ACard, Kinds
<1>4. CASE card' = card
  BY <1>1, <1>4
<1>5. CASE card' = Card(card.kind, "idle", card.signal)
  <2>1. /\ card' \in ACard(Kinds) /\ card'.state = "idle"
        /\ card'.width = 1 /\ ~card'.ddr /\ card'.access = 0
    BY <1>3, <1>5, NewCard
  <2> QED
    BY <1>1, <2>1 DEF Kinds
<1> QED
  BY <1>2, <1>4, <1>5

LEMMA GetCidOK == IInv /\ GetCid => IInv'
  BY Asked, NewCard, NeedsType DEF GetCid, Tell, Heard, ACard

LEMMA GetRcaOK == IInv /\ GetRca => IInv'
<1>1. ASSUME IInv, GetRca, PollAgain("rca") PROVE IInv'
  BY <1>1, CardsAssumption DEF GetRca, PollAgain
<1>2. ASSUME IInv, GetRca, ~PollAgain("rca") PROVE IInv'
  BY <1>2 DEF GetRca, Tell, Heard, ACard
<1> QED
  BY <1>1, <1>2

LEMMA SelectOK == IInv /\ Select => IInv'
  BY NeedsType DEF Select, Tell, Heard, ACard, SlowTimings

LEMMA UhsSetOK == IInv /\ UhsSet => IInv'
  BY Asked, NewCard, NeedsType DEF UhsSet, Tell, Heard, ACard, Switch, DataHeard

LEMMA HsSetOK == IInv /\ HsSet => IInv'
  BY Asked, NewCard, NeedsType DEF HsSet, Tell, Heard, ACard, Switch, DataHeard

LEMMA SwitchVoltageOK == IInv /\ SwitchVoltage => IInv'
  BY Asked, NewCard, NeedsType DEF SwitchVoltage, Tell, Heard, ACard

LEMMA MmcGoIdleOK == IInv /\ MmcGoIdle /\ UNCHANGED SdInitVars => IInv'
<1> SUFFICES ASSUME IInv, MmcGoIdle, UNCHANGED SdInitVars PROVE IInv'
  OBVIOUS
<1>1. pc = "m_cmd0" /\ pc' = "m_cmd1" /\ UNCHANGED <<id, host, storage, polls, open, SdInitVars>>
  BY DEF MmcGoIdle, Tell
<1>2. card' = card \/ card' = Card(card.kind, "idle", card.signal)
  BY DEF MmcGoIdle, Tell, GoneIdle
<1>3. card.signal \in {"1V8", "3V3", "switching"} /\ card.kind \in Kinds
  BY DEF ACard, Kinds
<1>4. CASE card' = card
  BY <1>1, <1>4
<1>5. CASE card' = Card(card.kind, "idle", card.signal)
  <2>1. /\ card' \in ACard(Kinds) /\ card'.state = "idle"
        /\ card'.width = 1 /\ ~card'.ddr /\ card'.access = 0
    BY <1>3, <1>5, NewCard
  <2> QED
    BY <1>1, <2>1 DEF Kinds
<1> QED
  BY <1>2, <1>4, <1>5

LEMMA MmcGetCidOK == IInv /\ MmcGetCid /\ UNCHANGED SdInitVars => IInv'
  BY Asked, NewCard, NeedsType DEF MmcGetCid, Tell, Heard, ACard

LEMMA MmcSetRcaOK == IInv /\ MmcSetRca /\ UNCHANGED SdInitVars => IInv'
  BY Asked, NewCard, NeedsType DEF MmcSetRca, Tell, Heard, ACard

LEMMA MmcSelectOK == IInv /\ MmcSelect /\ UNCHANGED SdInitVars => IInv'
  BY NeedsType DEF MmcSelect, Tell, Heard, ACard, SlowTimings

LEMMA MmcHs200OK == IInv /\ MmcHs200 /\ UNCHANGED SdInitVars => IInv'
  BY Asked, NewCard, NeedsType DEF MmcHs200, Tell, Heard, ACard, MmcSwitch

LEMMA MmcHsOK == IInv /\ MmcHs /\ UNCHANGED SdInitVars => IInv'
  BY Asked, NewCard, NeedsType DEF MmcHs, Tell, Heard, ACard, MmcSwitch

LEMMA MmcDdrOK == IInv /\ MmcDdr /\ UNCHANGED SdInitVars => IInv'
<1> SUFFICES ASSUME IInv, MmcDdr, UNCHANGED SdInitVars PROVE IInv'
  OBVIOUS
<1>1. /\ pc = "m_ddr" /\ pc' = "m_hs400" /\ card.state = "tran"
      /\ card' = [card EXCEPT !.ddr = TRUE]
      /\ UNCHANGED <<id, host, storage, polls, open, SdInitVars>>
  BY DEF MmcDdr, Tell
<1>2. /\ card' \in ACard(SdCards \cup MmcCards \cup {NoCard}) /\ card'.ddr = TRUE
      /\ card'.kind = card.kind /\ card'.state = card.state /\ card'.signal = card.signal
      /\ card'.width = card.width /\ card'.access = card.access
  BY <1>1 DEF ACard
<1> QED
  BY <1>1, <1>2

LEMMA MmcHs400OK == IInv /\ MmcHs400 /\ UNCHANGED SdInitVars => IInv'
  BY Asked, NewCard, NeedsType DEF MmcHs400, Tell, Heard, ACard, MmcSwitch

LEMMA MmcPollAgainOK == IInv /\ PollAgain("m_cmd1") /\ UNCHANGED SdInitVars => IInv'
  BY CardsAssumption DEF PollAgain

LEMMA MmcInitialisedOK == IInv /\ MmcInitialised /\ UNCHANGED SdInitVars => IInv'
<1> SUFFICES ASSUME IInv, MmcInitialised, UNCHANGED SdInitVars PROVE IInv'
  OBVIOUS
<1>1. storage' \in AStorage /\ storage'.has_sector_access = storage.has_sector_access
  BY DEF MmcInitialised, AStorage
<1> QED
  BY <1>1 DEF MmcInitialised

LEMMA SdInitialisedOK == IInv /\ SdInitialised => IInv'
<1> SUFFICES ASSUME IInv, SdInitialised PROVE IInv'
  OBVIOUS
<1>1. /\ storage' \in AStorage /\ storage'.has_sector_access = storage.has_sector_access
      /\ storage'.is_low_voltage = storage.is_low_voltage
  BY DEF SdInitialised, AStorage
<1> QED
  BY <1>1 DEF SdInitialised

LEMMA OpCondOK == IInv /\ OpCond => IInv'
<1> SUFFICES ASSUME IInv, OpCond PROVE IInv'
  OBVIOUS
<1>1. card.kind \in AKind /\ card.state = "idle"
  BY Asked DEF OpCond, Heard
<1>2. /\ card' \in ACard(SdCards \cup MmcCards \cup {NoCard}) /\ card'.state = "ready"
      /\ card'.kind = card.kind /\ card'.signal = card.signal /\ card'.width = card.width
      /\ card'.ddr = card.ddr /\ card'.access = card.access
  BY DEF OpCond, ACard
<1>3. /\ storage' \in AStorage /\ storage'.has_sector_access = card.kind.hc
      /\ storage'.initialized = storage.initialized
      /\ storage'.is_low_voltage = storage.is_low_voltage
  BY <1>1 DEF OpCond, AStorage, AKind
<1>4. /\ pc = "acmd41" /\ pc' \in {"cmd11", "cid"} /\ polls' = 0
      /\ pc' = "cmd11" => sd_mode = SD_UHS_SDR82
      /\ UNCHANGED <<id, host, open, SdInitVars>>
  BY DEF OpCond, Agrees18, Uhs
<1> QED
  BY <1>1, <1>2, <1>3, <1>4, CardsAssumption DEF SlowTimings

LEMMA MmcOpCondOK == IInv /\ MmcOpCond /\ UNCHANGED SdInitVars => IInv'
<1> SUFFICES ASSUME IInv, MmcOpCond, UNCHANGED SdInitVars PROVE IInv'
  OBVIOUS
<1>1. card.kind \in AKind /\ card.state = "idle"
  BY Asked DEF MmcOpCond, Heard
<1>2. /\ card' \in ACard(SdCards \cup MmcCards \cup {NoCard}) /\ card'.state = "ready"
      /\ card'.kind = card.kind /\ card'.signal = card.signal /\ card'.width = card.width
      /\ card'.ddr = card.ddr /\ card'.access = card.access
  BY DEF MmcOpCond, ACard
<1>3. /\ storage' \in AStorage /\ storage'.has_sector_access = card.kind.hc
      /\ storage'.initialized = storage.initialized
      /\ storage'.is_low_voltage = storage.is_low_voltage
  BY <1>1 DEF MmcOpCond, AStorage, AKind
<1>4. pc = "m_cmd1" /\ pc' = "m_cid" /\ UNCHANGED <<id, host, polls, open, SdInitVars>>
  BY DEF MmcOpCond
<1> QED
  BY <1>1, <1>2, <1>3, <1>4 DEF SlowTimings

LEMMA SetWidthOK == IInv /\ SetWidth => IInv'
<1> SUFFICES ASSUME IInv, SetWidth PROVE IInv'
  OBVIOUS
<1>1. /\ card' \in ACard(SdCards \cup MmcCards \cup {NoCard}) /\ card'.width = 4
      /\ card'.kind = card.kind /\ card'.signal = card.signal /\ card'.state = card.state
      /\ card'.ddr = card.ddr /\ card'.access = card.access
  BY DEF SetWidth, ACard
<1>2. /\ host' \in AHost /\ host'.width = 4 /\ host'.rail = host.rail /\ host'.det = host.det
      /\ host'.power = host.power /\ host'.vdd180 = host.vdd180
      /\ host'.timing = host.timing /\ host'.clocked = host.clocked
  BY DEF SetWidth, AHost
<1> QED
  BY <1>1, <1>2 DEF SetWidth, SpeedStep

LEMMA MmcSetWidthOK == IInv /\ MmcSetWidth /\ UNCHANGED SdInitVars => IInv'
<1> SUFFICES ASSUME IInv, MmcSetWidth, UNCHANGED SdInitVars PROVE IInv'
  OBVIOUS
<1>1. /\ card' \in ACard(SdCards \cup MmcCards \cup {NoCard}) /\ card'.width = 8
      /\ card'.kind = card.kind /\ card'.signal = card.signal /\ card'.state = card.state
      /\ card'.ddr = card.ddr /\ card'.access = card.access
  BY DEF MmcSetWidth, ACard
<1>2. /\ host' \in AHost /\ host'.width = 8 /\ host'.rail = host.rail /\ host'.det = host.det
      /\ host'.power = host.power /\ host'.vdd180 = host.vdd180
      /\ host'.timing = host.timing /\ host'.clocked = host.clocked
  BY DEF MmcSetWidth, AHost
<1> QED
  BY <1>1, <1>2 DEF MmcSetWidth

LEMMA DefaultSpeedOK == IInv /\ DefaultSpeed => IInv'
<1> SUFFICES ASSUME IInv, DefaultSpeed PROVE IInv'
  OBVIOUS
<1>1. host' = Clocked(host, "DS12")
  BY DEF DefaultSpeed, SetClock
<1> QED
  BY <1>1, NewClock, NeedsType DEF DefaultSpeed, SetClock, Needs, SlowTimings

LEMMA HsClockOK == IInv /\ HsClock => IInv'
<1> SUFFICES ASSUME IInv, HsClock PROVE IInv'
  OBVIOUS
<1>1. host' = Clocked(host, "HS25")
  BY DEF HsClock, SetClock
<1> QED
  BY <1>1, NewClock, NeedsType DEF HsClock, SetClock, Needs, SlowTimings

LEMMA UhsClockOK == IInv /\ UhsClock => IInv'
<1> SUFFICES ASSUME IInv, UhsClock PROVE IInv'
  OBVIOUS
<1>1. host' = Clocked(host, UhsTiming)
  BY DEF UhsClock, SetClock
<1> QED
  BY <1>1, NewClock, NeedsType DEF UhsClock, SetClock, Needs, SlowTimings, UhsTiming

LEMMA MmcLs26OK == IInv /\ MmcLs26 /\ UNCHANGED SdInitVars => IInv'
<1> SUFFICES ASSUME IInv, MmcLs26, UNCHANGED SdInitVars PROVE IInv'
  OBVIOUS
<1>1. host' = Clocked(host, "LS26")
  BY DEF MmcLs26, SetClock
<1> QED
  BY <1>1, NewClock, NeedsType DEF MmcLs26, SetClock, Needs, SlowTimings

LEMMA MmcHs200ClockOK == IInv /\ MmcHs200Clock /\ UNCHANGED SdInitVars => IInv'
<1> SUFFICES ASSUME IInv, MmcHs200Clock, UNCHANGED SdInitVars PROVE IInv'
  OBVIOUS
<1>1. host' = Clocked(host, "HS200")
  BY DEF MmcHs200Clock, SetClock
<1> QED
  BY <1>1, NewClock, NeedsType DEF MmcHs200Clock, SetClock, Needs, SlowTimings

LEMMA MmcHsClockOK == IInv /\ MmcHsClock /\ UNCHANGED SdInitVars => IInv'
<1> SUFFICES ASSUME IInv, MmcHsClock, UNCHANGED SdInitVars PROVE IInv'
  OBVIOUS
<1>1. host' = Clocked(host, "HS52")
  BY DEF MmcHsClock, SetClock
<1> QED
  BY <1>1, NewClock, NeedsType DEF MmcHsClock, SetClock, Needs, SlowTimings

LEMMA MmcHs400ClockOK == IInv /\ MmcHs400Clock /\ UNCHANGED SdInitVars => IInv'
<1> SUFFICES ASSUME IInv, MmcHs400Clock, UNCHANGED SdInitVars PROVE IInv'
  OBVIOUS
<1>1. host' = Clocked(host, "HS400")
  BY DEF MmcHs400Clock, SetClock
<1> QED
  BY <1>1, NewClock, NeedsType DEF MmcHs400Clock, SetClock, Needs, SlowTimings

-----------------------------------------------------------------------------
\* One lemma per action: the level, the best speed, the controller

LEMMA EnableLowVoltageOK == IInv /\ EnableLowVoltage => IInv'
<1> SUFFICES ASSUME IInv, EnableLowVoltage PROVE IInv'
  OBVIOUS
<1>1. /\ host' \in AHost /\ host'.rail = "1V8" /\ host'.det = "1V8" /\ host'.power = "1V8"
      /\ host'.vdd180 /\ host'.timing = "SDR12"
      /\ host'.width = host.width /\ host'.clocked = host.clocked
  <2> DEFINE h == [host EXCEPT !.rail = "1V8", !.det = "1V8", !.power = "1V8"]
  <2>1. /\ h \in AHost /\ h.rail = "1V8" /\ h.det = "1V8" /\ h.power = "1V8"
        /\ h.width = host.width /\ h.clocked = host.clocked
    BY DEF AHost, Levels
  <2>2. host' = Clocked(h, "SDR12")
    BY DEF EnableLowVoltage, LowVoltage
  <2> HIDE DEF h
  <2> QED
    BY <2>1, <2>2, NewClock
<1>2. pc = "low" /\ UNCHANGED <<id, polls, open, SdInitVars>>
  BY DEF EnableLowVoltage
<1>3. CASE UNCHANGED <<card, storage>> /\ pc' = "sd_failed"
  BY <1>1, <1>2, <1>3
<1>4. ASSUME card' = [card EXCEPT !.signal = "1V8"]
      PROVE  /\ card' \in ACard(SdCards \cup MmcCards \cup {NoCard})
             /\ card'.kind = card.kind /\ card'.state = card.state
             /\ card'.width = card.width /\ card'.ddr = card.ddr
             /\ card'.access = card.access
  BY <1>4 DEF ACard
<1>5. CASE /\ card' = [card EXCEPT !.signal = "1V8"]
           /\ storage' = storage
           /\ pc' = "sd_failed"
  BY <1>1, <1>2, <1>4, <1>5
<1>6. CASE /\ Inserted /\ card.signal = "switching"
           /\ card' = [card EXCEPT !.signal = "1V8"]
           /\ storage' = [storage EXCEPT !.is_low_voltage = TRUE]
           /\ pc' = "cid"
  <2>1. /\ card' \in ACard(SdCards \cup MmcCards \cup {NoCard})
        /\ card'.kind = card.kind /\ card'.state = card.state /\ card'.width = card.width
        /\ card'.ddr = card.ddr /\ card'.access = card.access
    BY <1>6, <1>4
  <2>2. /\ storage' \in AStorage /\ storage'.is_low_voltage
        /\ storage'.initialized = storage.initialized
        /\ storage'.has_sector_access = storage.has_sector_access
    BY <1>6 DEF AStorage
  <2> QED
    BY <1>1, <1>2, <1>6, <2>1, <2>2 DEF SlowTimings
<1> QED
  BY <1>3, <1>5, <1>6 DEF EnableLowVoltage

\* The best of the speeds of a card is one of them.
LEMMA BestSpeed ==
  ASSUME NEW speeds \in SUBSET (0 .. 3), speeds # {}
  PROVE  Best(speeds) \in speeds
<1>1. \E best \in speeds : \A speed \in speeds : speed <= best
  <2>1. CASE 3 \in speeds
    BY <2>1
  <2>2. CASE 3 \notin speeds /\ 2 \in speeds
    BY <2>2
  <2>3. CASE 3 \notin speeds /\ 2 \notin speeds /\ 1 \in speeds
    BY <2>3
  <2>4. CASE 3 \notin speeds /\ 2 \notin speeds /\ 1 \notin speeds
    <3>1. PICK best : best \in speeds
      OBVIOUS
    <3>2. \A speed \in speeds : speed = 0
      BY <2>4
    <3> QED
      BY <3>1, <3>2
  <2> QED
    BY <2>1, <2>2, <2>3, <2>4
<1> QED
  BY <1>1 DEF Best

LEMMA UhsGetOK == IInv /\ UhsGet => IInv'
<1> SUFFICES ASSUME IInv, UhsGet PROVE IInv'
  OBVIOUS
<1>1. pc = "uhs_get" /\ pc' = "uhs_set" /\ UNCHANGED <<bus, nx_sd, is_sdsc>>
  BY DEF UhsGet, Ask
<1>2. hs_type' \in 0 .. 3
  <2>1. card.kind.speeds \in SUBSET (0 .. 3) /\ card.kind.speeds # {}
    BY Asked DEF UhsGet, Ask, DataHeard, Heard, AKind
  <2> QED
    BY <2>1, BestSpeed DEF UhsGet
<1> QED
  BY <1>1, <1>2

LEMMA SdControllerOK == IInv /\ SdController => IInv'
<1> SUFFICES ASSUME IInv, SdController PROVE IInv'
  OBVIOUS
<1>1. /\ pc = "sd_wait" /\ polls' = 0 /\ is_sdsc' \in BOOLEAN /\ id = SDMMC_1
      /\ UNCHANGED <<id, open, nx_sd, hs_type>>
  BY DEF SdController
<1>2. /\ storage' \in AStorage /\ ~storage'.initialized /\ ~storage'.is_low_voltage
  BY DEF SdController, NewStorage, AStorage
<1>3. CASE sdmmc_init /\ pc' = "cmd0"
  BY <1>1, <1>2, <1>3, Controller, CardsAssumption, NeedsType DEF Kinds, SlowTimings
<1>4. CASE sdmmc_init_fails /\ pc' = "sd_failed"
  BY <1>1, <1>2, <1>4, NoController, CardsAssumption DEF Kinds
<1> QED
  BY <1>3, <1>4 DEF SdController

LEMMA MmcControllerOK == IInv /\ MmcController /\ UNCHANGED SdInitVars => IInv'
<1> SUFFICES ASSUME IInv, MmcController, UNCHANGED SdInitVars PROVE IInv'
  OBVIOUS
<1>1. pc = "m_init" /\ polls' = 0 /\ id = SDMMC_4 /\ UNCHANGED <<id, open, SdInitVars>>
  BY DEF MmcController
<1>2. /\ storage' \in AStorage /\ ~storage'.initialized /\ ~storage'.is_low_voltage
  BY DEF MmcController, NewStorage, AStorage
<1>3. CASE sdmmc_init /\ pc' = "m_cmd0"
  BY <1>1, <1>2, <1>3, Controller, CardsAssumption DEF Kinds
<1>4. CASE sdmmc_init_fails /\ pc' = "m_failed"
  BY <1>1, <1>2, <1>4, NoController, CardsAssumption DEF Kinds
<1> QED
  BY <1>3, <1>4 DEF MmcController

-----------------------------------------------------------------------------
\* One lemma per action: the sessions and the user

LEMMA SdMountOK == IInv /\ SdMount => IInv'
  BY DEF SdMount, Start

LEMMA FMountOK == IInv /\ FMount => IInv'
<1> SUFFICES ASSUME IInv, FMount PROVE IInv'
  OBVIOUS
<1>1. pc = "f_mount" /\ pc' = "idle" /\ UNCHANGED <<id, host, card, storage, polls, SdInitVars>>
  BY DEF FMount
<1>2. open' \in BOOLEAN
  BY DEF FMount
<1> QED
  BY <1>1, <1>2

LEMMA TransferFailsOK == IInv /\ TransferFails => IInv'
<1> SUFFICES ASSUME IInv, TransferFails PROVE IInv'
  OBVIOUS
<1>1. /\ id = SDMMC_1 /\ pc' = Start(sd_mode) /\ op' = "reinit" /\ mounting' \in BOOLEAN
      /\ UNCHANGED <<id, polls, open, sd_mode, locals>>
  BY DEF TransferFails
<1>2. sdmmc_storage_end
  BY DEF TransferFails
<1> QED
  BY <1>1, <1>2, Ended DEF Start, Kinds

\* sd_init_retry at a lower speed keeps the invariant, unless there is no lower speed.
LEMMA LowerOK ==
  ASSUME IInv, PowerCycleLower, id = SDMMC_1, sd_mode # SD_INIT_FAIL,
         storage.initialized => pc = "transfer",
         op' \in {"mount", "reinit", "again"}, UNCHANGED <<id, polls, open, mounting, locals>>
  PROVE  IInv'
<1>1. sd_mode' = sd_mode - 1 /\ pc' = Start(sd_mode - 1) /\ sdmmc_storage_end
  BY DEF PowerCycleLower
<1> QED
  BY <1>1, Ended DEF Start, Kinds

LEMMA TransferFailsAgainOK == IInv /\ TransferFailsAgain => IInv'
  BY LowerOK DEF TransferFailsAgain

LEMMA InitLowerOK == IInv /\ InitLower => IInv'
  BY LowerOK DEF InitLower

LEMMA InitFailsOK == IInv /\ InitFails => IInv'
<1> SUFFICES ASSUME IInv, InitFails PROVE IInv'
  OBVIOUS
<1>1. /\ pc = "sd_failed" /\ pc' = "idle" /\ id = SDMMC_1
      /\ UNCHANGED <<id, polls, open, op, mounting, locals>>
  BY DEF InitFails
<1>2. CASE UNCHANGED <<host, card, storage, sd_mode>>
  BY <1>1, <1>2
<1>3. CASE sdmmc_storage_end /\ sd_mode' \in {sd_mode, SD_UHS_SDR82}
  BY <1>1, <1>3, Ended DEF Kinds
<1> QED
  BY <1>2, <1>3 DEF InitFails

LEMMA SdEndOK == IInv /\ SdEnd => IInv'
<1> SUFFICES ASSUME IInv, SdEnd PROVE IInv'
  OBVIOUS
<1>1. /\ pc = "idle" /\ pc' = "idle" /\ id = SDMMC_1 /\ open' \in BOOLEAN
      /\ sd_mode' = IF sd_mode = SD_INIT_FAIL THEN SD_UHS_SDR82 ELSE sd_mode
      /\ UNCHANGED <<id, polls, op, mounting, locals>>
  BY DEF SdEnd
<1>2. CASE UNCHANGED <<host, card, storage>>
  BY <1>1, <1>2
<1>3. CASE sdmmc_storage_end
  BY <1>1, <1>3, Ended DEF Kinds
<1> QED
  BY <1>2, <1>3 DEF SdEnd

LEMMA MmcEndOK == IInv /\ MmcEnd /\ UNCHANGED SdInitVars => IInv'
<1> SUFFICES ASSUME IInv, MmcEnd, UNCHANGED SdInitVars PROVE IInv'
  OBVIOUS
<1>1. /\ pc = "idle" /\ pc' = "idle" /\ id = SDMMC_4 /\ open' \in BOOLEAN
      /\ UNCHANGED <<id, polls, SdInitVars>>
  BY DEF MmcEnd
<1>2. sdmmc_storage_end
  BY DEF MmcEnd
<1> QED
  BY <1>1, <1>2, Ended DEF Kinds

\* A card that is put in or taken out is not in a session.
LEMMA CardMovesOK == IInv /\ CardMoves => IInv'
<1> SUFFICES ASSUME IInv, CardMoves PROVE IInv'
  OBVIOUS
<1>1. id = SDMMC_1 /\ UNCHANGED <<pc, id, host, storage, polls, open, SdInitVars>>
  BY DEF CardMoves
<1>2. /\ card' \in ACard(Kinds) /\ card'.state \in {"off", "idle"}
      /\ card'.width = 1 /\ ~card'.ddr /\ card'.access = 0
  <2>1. CASE card' = Card(NoCard, "off", "3V3")
    <3>1. NoCard \in Kinds
      BY DEF Kinds
    <3> QED
      BY <2>1, <3>1, NewCard
  <2>2. ASSUME NEW kind \in SdCards, NEW state \in {"off", "idle"},
               card' = Card(kind, state, "3V3")
        PROVE  /\ card' \in ACard(Kinds) /\ card'.state \in {"off", "idle"}
               /\ card'.width = 1 /\ ~card'.ddr /\ card'.access = 0
    BY <2>2, NewCard, SMTT(30) DEF Kinds
  <2> QED
    BY <2>1, <2>2 DEF CardMoves
<1> QED
  BY <1>1, <1>2 DEF Kinds

LEMMA StutterOK == IInv /\ UNCHANGED vars => IInv'
  BY DEF vars

LEMMA InitOK == Init => IInv
<1> SUFFICES ASSUME Init PROVE IInv
  OBVIOUS
<1>1. /\ pc = "idle" /\ storage \in AStorage /\ ~storage.initialized /\ polls = 0
      /\ open \in BOOLEAN /\ sd_mode = SD_UHS_SDR82 /\ op = "mount" /\ mounting \in BOOLEAN
      /\ is_sdsc \in BOOLEAN /\ hs_type = 0
  BY DEF Init, NewStorage, AStorage
<1>2. CASE /\ id = SDMMC_1 /\ host = Off
           /\ \E kind \in SdCards \cup {NoCard} : card = Card(kind, "off", "3V3")
  <2>1. host \in AHost /\ ~host.clocked
    BY <1>2 DEF Off, AHost, Levels
  <2>2. /\ card \in ACard(Kinds) /\ card.state # "tran"
        /\ card.width = 1 /\ ~card.ddr /\ card.access = 0
    <3>1. PICK kind \in SdCards \cup {NoCard} : card = Card(kind, "off", "3V3")
      BY <1>2
    <3>2. kind \in Kinds
      BY DEF Kinds
    <3> QED
      BY <3>1, <3>2, NewCard
  <2> QED
    BY <1>1, <1>2, <2>1, <2>2, CardsAssumption DEF Kinds
<1>3. CASE /\ id = SDMMC_4 /\ host = [Off EXCEPT !.rail = "1V8", !.det = "1V8"]
           /\ \E kind \in MmcCards : card = Card(kind, "idle", "1V8")
  <2>1. host \in AHost /\ ~host.clocked
    BY <1>3 DEF Off, AHost, Levels
  <2>2. /\ card \in ACard(Kinds) /\ card.state # "tran"
        /\ card.width = 1 /\ ~card.ddr /\ card.access = 0
    <3>1. PICK kind \in MmcCards : card = Card(kind, "idle", "1V8")
      BY <1>3
    <3>2. kind \in Kinds
      BY DEF Kinds
    <3> QED
      BY <3>1, <3>2, NewCard
  <2> QED
    BY <1>1, <1>3, <2>1, <2>2, CardsAssumption DEF Kinds
<1> QED
  BY <1>2, <1>3 DEF Init

-----------------------------------------------------------------------------
\* The theorems

HIDE DEF IInv, TypeOK, Places, Reached, Fresh, Fits, Rails, Timings, Speeds, Within, Session,
         SpeedIsWithinMode

LEMMA SdStepsOK == IInv /\ SdSteps => IInv'
<1>1. IInv /\ SdInitSteps => IInv'
    BY SdControllerOK, GoIdleOK, SendIfCondOK, OpCondOK, OpCondAgainOK,
       SwitchVoltageOK, EnableLowVoltageOK, GetCidOK, GetRcaOK, GetCsdOK,
       DefaultSpeedOK, SelectOK, SetBlockLenOK, ClearCardDetectOK, GetScrOK,
       SetWidthOK, UhsGetOK, UhsSetOK, UhsClockOK, UhsTuneOK, HsGetOK, HsSetOK,
       CheckStatusOK, HsClockOK, SdInitialisedOK, SdCommandFailsOK
       DEF SdInitSteps
<1> QED
  BY <1>1, SdDoneOK, FMountOK, TransferReturnsOK, TransferFailsAgainOK, InitLowerOK,
     InitFailsOK
     DEF SdSteps

LEMMA MmcStepsOK == IInv /\ MmcSteps /\ UNCHANGED SdInitVars => IInv'
  BY MmcControllerOK, MmcGoIdleOK, MmcOpCondOK, MmcPollAgainOK, MmcGetCidOK,
     MmcSetRcaOK, MmcGetCsdOK, MmcLs26OK, MmcSelectOK, MmcSetBlockLenOK,
     MmcSetWidthOK, MmcGetExtCsdOK, MmcHs200OK, MmcHs200ClockOK, MmcTuneOK,
     MmcHs200StatusOK, MmcHsOK, MmcHsClockOK, MmcHsStatusOK, MmcDdrOK, MmcHs400OK,
     MmcHs400ClockOK, MmcStatusOK, MmcInitialisedOK, MmcCommandFailsOK, MmcReturnsOK
     DEF MmcSteps

LEMMA NextOK == IInv /\ [Next]_vars => IInv'
<1>1. IInv /\ Calls => IInv'
  BY SdMountOK, TransferFailsOK, SdEndOK, MmcStartOK, MmcEndOK DEF Calls
<1> QED
  BY <1>1, StutterOK, SdStepsOK, MmcStepsOK, CardMovesOK DEF Next, Sd, Mmc

LEMMA Invariance == Spec => []IInv
  BY InitOK, NextOK, PTL DEF Spec

\* Type correctness of the driver: the modes of nx_sd.c never wrap below the failed
\* one, and neither side is in a mode that does not exist.
THEOREM SdmmcTypeCorrect == Spec => []TypeOK
<1>1. IInv => TypeOK
  BY DEF IInv
<1> QED
  BY <1>1, Invariance, PTL

\* Rail, pads, controller and clock mode fit together, and an initialised storage fits
\* its card, whatever is lost and whenever the card moves (sdmmc_enable_low_voltage,
\* sdmmc_setup_clock, sdmmc_storage_init_sd, sdmmc_storage_init_mmc).
THEOREM SidesAgree == Spec => []BusAgrees
<1>1. IInv => BusAgrees
  BY DEF IInv, Rails, Session, BusAgrees
<1> QED
  BY <1>1, Invariance, PTL

\* No command is sent to a card faster than it was switched to
\* (sdmmc_storage_init_sd, and the way down to HS and up to HS400 in
\* sdmmc_storage_init_mmc).
THEOREM CommandsNeverTooFast == Spec => []NeverTooFast
<1>1. IInv => NeverTooFast
  <2> SUFFICES ASSUME IInv, pc \in SdCommands \cup MmcCommands, Heard, card.state = "tran"
               PROVE  Needs(host.timing) <= card.access
    BY DEF NeverTooFast
  <2>1. card.access \in 0 .. 3 /\ Needs("ID") = 0
    BY Fields DEF IInv, Needs
  <2>2. CASE pc \in Early
    BY <2>1, <2>2 DEF IInv, Timings
  <2>3. CASE pc \in Late
    BY <2>1, <2>3, NeedsType DEF IInv, Reached, Timings, Speeds
  <2> QED
    BY <2>2, <2>3
<1> QED
  BY <1>1, Invariance, PTL

\* A session at a lower mode uses neither 1.8 V nor a UHS speed, and at the lowest only
\* one line, whichever fallbacks and aborted sessions led to it (sd_init_retry).
THEOREM FallbackIsSlower == Spec => []SpeedIsWithinMode
<1>1. IInv => SpeedIsWithinMode
  BY DEF IInv
<1> QED
  BY <1>1, Invariance, PTL
=============================================================================
