------------------------------- MODULE Workflow -------------------------------
(***************************************************************************)
(* The program from ipl_main to its end (source/main.c): mount, extract,   *)
(* save, wait for the user, then start another payload or reboot.          *)
(*                                                                         *)
(* Two actors interleave: the program, one action per call that waits or   *)
(* can fail, and the user, who moves fingers and buttons and may pull the  *)
(* card at any moment.  Extraction and the two saves are taken as one step *)
(* with a result here; modules Extract and Saves have their detail.        *)
(***************************************************************************)
EXTENDS Integers

CONSTANT Contact    \* contact ids of fingers on the panel: the third finger has 2

ASSUME ContactAssumption == Contact \subseteq Nat

VARIABLES pc,
          mariko,            \* is_mariko(), also h_cfg.t210b01
          files,             \* what update.bin and payload.bin are on the card
          present,           \* the card is in its slot and answers
          registered,        \* f_mount has registered the volume with FatFs
          sd_mounted,        \* the flag of nx_sd.c
          data,              \* wb_info.data
          ev,                \* latest event the touch controller has
          fingers,           \* fingers on the panel
          buttons,           \* buttons that are down
          touch_active, fingers_released, btn_last,   \* locals of the loop
          pwr,               \* local of btn_wait: POWER was down from the start
          payload_path,
          ioError            \* history: on the way out a call failed on the card

card  == <<files, present, registered, sd_mounted>>
loop  == <<touch_active, fingers_released, btn_last, pwr>>
panel == <<ev, fingers, buttons>>
vars  == <<pc, mariko, files, present, registered, sd_mounted, data, ev, fingers,
           buttons, touch_active, fingers_released, btn_last, pwr, payload_path,
           ioError>>

Button   == {"POWER", "VOL"}
Payloads == {"update", "payload"}
FileKind == {"absent", "small", "big"}    \* big: 0x30000 bytes or more
NoEvent  == -1                            \* events that are not a contact
Leave    == -2

Running == {"mount", "btn_wait_first", "btn_wait", "extract", "save_wb", "save_sc7", "cleanup",
            "touch_power_on", "poll", "screenshot", "button", "stat_update",
            "stat_payload", "launch", "open", "read", "end_sd"}
Ended   == {"run", "reboot"}

TypeOK ==
  /\ pc \in Running \cup Ended
  /\ files \in [Payloads -> FileKind]
  /\ {mariko, present, registered, sd_mounted, touch_active, fingers_released,
      ioError, pwr} \subseteq BOOLEAN
  /\ data \in {"NULL", "allocated", "freed", "freed twice"}
  /\ ev \in Contact \cup {NoEvent, Leave}
  /\ fingers \in SUBSET Contact
  /\ buttons \in SUBSET Button
  /\ btn_last \in SUBSET Button
  /\ payload_path \in Payloads \cup {"NULL"}

Init ==
  /\ pc = "mount"
  /\ mariko \in BOOLEAN
  /\ files \in [Payloads -> FileKind]
  /\ present \in BOOLEAN
  /\ registered = FALSE
  /\ sd_mounted = FALSE
  /\ data = "NULL"
  /\ ev = NoEvent
  /\ fingers = {}
  /\ buttons \in SUBSET Button
  /\ touch_active = FALSE
  /\ fingers_released = TRUE
  /\ btn_last = {}
  /\ pwr = FALSE
  /\ payload_path = "NULL"
  /\ ioError = FALSE

-----------------------------------------------------------------------------
\* Calls into nx_sd.c and FatFs

\* sd_mount: nothing to do when the flag is set, even if the card is gone.
\* Otherwise init and f_mount; f_mount registers the volume before it reads it.
sd_mount(ok) ==
  \/ ok /\ sd_mounted /\ UNCHANGED <<registered, sd_mounted>>
  \/ ok /\ ~sd_mounted /\ present /\ registered' = TRUE /\ sd_mounted' = TRUE
  \/ ~ok /\ ~sd_mounted /\ UNCHANGED sd_mounted
         /\ registered' \in {registered, registered \/ present}

\* A file call that reads or writes the card may fail at any time; it can only
\* succeed with a registered volume on a card that answers.
Accessible == registered /\ present

NoteError(bad) == ioError' = (ioError \/ bad)

-----------------------------------------------------------------------------
\* ipl_main

Mount ==
  /\ pc = "mount"
  /\ \E ok \in BOOLEAN :
        /\ sd_mount(ok)
        /\ pc' = IF ok THEN "extract" ELSE "btn_wait_first"
  /\ UNCHANGED <<mariko, files, present, data, panel, loop, payload_path, ioError>>

\* "Press any button to exit": btn_wait reads the buttons once and returns when
\* they differ; a POWER button that was down from the start is left out until
\* it has been up.
BtnWaitFirst ==
  /\ pc = "btn_wait_first"
  /\ btn_last' = buttons \ {"POWER"}
  /\ pwr' = ("POWER" \in buttons)
  /\ pc' = "btn_wait"
  /\ UNCHANGED <<mariko, card, data, panel, touch_active, fingers_released,
                 payload_path, ioError>>

BtnWait ==
  LET res == IF pwr THEN buttons \ {"POWER"} ELSE buttons
  IN /\ pc = "btn_wait"
     /\ pwr' = (pwr /\ "POWER" \in buttons)
     /\ pc' = IF res = btn_last THEN "btn_wait" ELSE "stat_update"
     /\ UNCHANGED <<mariko, card, data, panel, touch_active, fingers_released,
                    btn_last, payload_path, ioError>>

-----------------------------------------------------------------------------
\* warmboot_extraction_workflow

Extract ==
  /\ pc = "extract"
  /\ IF mariko
     THEN \/ data' = "allocated" /\ pc' = "save_wb"
          \/ data' = "NULL" /\ pc' = "touch_power_on"
     ELSE data' = data /\ pc' = "touch_power_on"
  /\ UNCHANGED <<mariko, card, panel, loop, payload_path, ioError>>

\* Mutant: a failed save frees the buffer itself.
SaveWarmbootFrees ==
  /\ pc = "save_wb"
  /\ \E ok \in BOOLEAN :
        /\ ok => Accessible
        /\ data' = IF ok THEN data ELSE "freed"
        /\ pc' = IF ok THEN "save_sc7" ELSE "cleanup"
  /\ UNCHANGED <<mariko, card, panel, loop, payload_path, ioError>>

SaveWarmboot ==
  /\ pc = "save_wb"
  /\ \E ok \in BOOLEAN :
        /\ ok => Accessible
        /\ pc' = IF ok THEN "save_sc7" ELSE "cleanup"
  /\ UNCHANGED <<mariko, card, data, panel, loop, payload_path, ioError>>

\* Both results lead to the free.
SaveSc7exit ==
  /\ pc = "save_sc7"
  /\ pc' = "cleanup"
  /\ UNCHANGED <<mariko, card, data, panel, loop, payload_path, ioError>>

\* if (wb_info.data) free: the pointer is not cleared, a second free would follow it.
CleanupExit ==
  /\ pc = "cleanup"
  /\ data' = CASE data = "NULL" -> data
               [] data = "allocated" -> "freed"
               [] OTHER -> "freed twice"
  /\ pc' = "touch_power_on"
  /\ UNCHANGED <<mariko, card, panel, loop, payload_path, ioError>>

\* wait_exit: what is held now is not a press.
WaitExit ==
  /\ pc = "touch_power_on"
  /\ btn_last' = buttons
  /\ touch_active' = FALSE
  /\ fingers_released' = TRUE
  /\ pc' = "poll"
  /\ UNCHANGED <<mariko, card, data, panel, pwr, payload_path, ioError>>

\* touch_poll into a zeroed event: the latest event, or none when the
\* controller has nothing new (or takes the finger for a palm).  The number of
\* fingers is the id of the contact plus one.
PollTouch ==
  /\ pc = "poll"
  /\ \E e \in {ev, NoEvent} :
       LET touch == e \in Contact
           shot  == touch /\ e + 1 >= 3 /\ fingers_released /\ ~touch_active
       IN /\ touch_active' = (shot \/ (touch /\ touch_active))
          /\ fingers_released' = (~shot /\ (fingers_released \/ ~touch))
          /\ pc' = IF shot THEN "screenshot" ELSE "button"
  /\ UNCHANGED <<mariko, card, data, panel, btn_last, pwr, payload_path, ioError>>

\* msleep(150) and save_fb_to_bmp, which does nothing within 2 s of the last
\* one.  It may mount the card; whether the file gets written changes nothing.
Screenshot ==
  /\ pc = "screenshot"
  /\ \/ UNCHANGED <<registered, sd_mounted>>
     \/ \E ok \in BOOLEAN : sd_mount(ok)
  /\ pc' = "button"
  /\ UNCHANGED <<mariko, files, present, data, panel, loop, payload_path, ioError>>

\* Mutant: POWER is compared with the whole button mask.
ReadButtonsExactly ==
  /\ pc = "button"
  /\ btn_last' = buttons
  /\ pc' = IF buttons # btn_last /\ buttons = {"POWER"} THEN "stat_update" ELSE "poll"
  /\ UNCHANGED <<mariko, card, data, panel, touch_active, fingers_released, pwr,
                 payload_path, ioError>>

ReadButtons ==
  /\ pc = "button"
  /\ btn_last' = buttons
  /\ pc' = IF buttons # btn_last /\ "POWER" \in buttons THEN "stat_update" ELSE "poll"
  /\ UNCHANGED <<mariko, card, data, panel, touch_active, fingers_released, pwr,
                 payload_path, ioError>>

-----------------------------------------------------------------------------
\* The way out: f_stat of the two payloads, then launch_payload

\* f_stat finds a file that is there, unless the card or the volume fails it.
Found(f, ok) ==
  /\ ok => Accessible /\ files[f] # "absent"
  /\ NoteError(~ok /\ files[f] # "absent")

StatUpdate ==
  /\ pc = "stat_update"
  /\ \E ok \in BOOLEAN :
       /\ Found("update", ok)
       /\ payload_path' = IF ok THEN "update" ELSE payload_path
       /\ pc' = IF ok THEN "launch" ELSE "stat_payload"
  /\ UNCHANGED <<mariko, card, data, panel, loop>>

\* Mutant: a third, built-in path when neither file is found.
StatPayloadBuiltIn ==
  /\ pc = "stat_payload"
  /\ \E ok \in BOOLEAN :
       /\ Found("payload", ok)
       /\ payload_path' = IF ok THEN "payload" ELSE "builtin"
       /\ pc' = IF ok THEN "launch" ELSE "reboot"
  /\ UNCHANGED <<mariko, card, data, panel, loop>>

StatPayload ==
  /\ pc = "stat_payload"
  /\ \E ok \in BOOLEAN :
       /\ Found("payload", ok)
       /\ payload_path' = IF ok THEN "payload" ELSE payload_path
       /\ pc' = IF ok THEN "launch" ELSE "reboot"
  /\ UNCHANGED <<mariko, card, data, panel, loop>>

\* Mutant: a failure goes back to the wait loop.
LaunchReturns ==
  /\ pc = "launch"
  /\ \E ok \in BOOLEAN :
       /\ sd_mount(ok)
       /\ pc' = IF ok THEN "open" ELSE "poll"
       /\ NoteError(~ok)
  /\ UNCHANGED <<mariko, files, present, data, panel, loop, payload_path>>

\* launch_payload returns 1 on every failure, and its callers reboot.
Launch ==
  /\ pc = "launch"
  /\ \E ok \in BOOLEAN :
       /\ sd_mount(ok)
       /\ pc' = IF ok THEN "open" ELSE "reboot"
       /\ NoteError(~ok)
  /\ UNCHANGED <<mariko, files, present, data, panel, loop, payload_path>>

\* Mutant: the check for Mariko is gone.
OpenAnySize ==
  /\ pc = "open"
  /\ \E ok \in BOOLEAN :
       /\ Found(payload_path, ok)
       /\ pc' = IF ok THEN "read" ELSE "reboot"
  /\ UNCHANGED <<mariko, card, data, panel, loop, payload_path>>

\* f_open, and the refusal of a coreboot-sized file on Mariko.
Open ==
  /\ pc = "open"
  /\ \E ok \in BOOLEAN :
       /\ Found(payload_path, ok)
       /\ pc' = IF ok /\ ~(mariko /\ files[payload_path] = "big") THEN "read" ELSE "reboot"
  /\ UNCHANGED <<mariko, card, data, panel, loop, payload_path>>

Read ==
  /\ pc = "read"
  /\ \E ok \in BOOLEAN :
       /\ ok => Accessible
       /\ pc' = IF ok THEN "end_sd" ELSE "reboot"
       /\ NoteError(~ok)
  /\ UNCHANGED <<mariko, card, data, panel, loop, payload_path>>

\* sd_end, then the jump to the payload.
EndSd ==
  /\ pc = "end_sd"
  /\ sd_mounted' = FALSE
  /\ registered' = (registered /\ ~sd_mounted)
  /\ pc' = "run"
  /\ UNCHANGED <<mariko, files, present, data, panel, loop, payload_path, ioError>>

-----------------------------------------------------------------------------
\* The user

\* One finger comes down, moves or leaves; the controller reports its id.
Touch ==
  /\ pc \in Running
  /\ \E f \in Contact :
        \/ fingers' = fingers \cup {f} /\ ev' = f
        \/ f \in fingers /\ fingers' = fingers \ {f} /\ ev' = Leave
  /\ UNCHANGED <<pc, mariko, card, data, buttons, loop, payload_path, ioError>>

Press ==
  /\ pc \in Running
  /\ buttons' \in SUBSET Button
  /\ UNCHANGED <<pc, mariko, card, data, ev, fingers, loop, payload_path, ioError>>

PullCard ==
  /\ pc \in Running
  /\ present
  /\ present' = FALSE
  /\ UNCHANGED <<pc, mariko, files, registered, sd_mounted, data, panel, loop,
                 payload_path, ioError>>

Program ==
  \/ Mount \/ BtnWaitFirst \/ BtnWait \/ Extract \/ SaveWarmboot \/ SaveSc7exit \/ CleanupExit
  \/ WaitExit \/ PollTouch \/ Screenshot \/ ReadButtons
  \/ StatUpdate \/ StatPayload \/ Launch \/ Open \/ Read \/ EndSd

User == Touch \/ Press \/ PullCard

\* The console runs the payload or has rebooted.
Over == pc \in Ended /\ UNCHANGED vars

Next == Program \/ User \/ Over

\* The program runs alone on its core, and every call of it returns.
Fairness == WF_vars(Program)

Spec == Init /\ [][Next]_vars /\ Fairness

-----------------------------------------------------------------------------
\* Properties

Waiting == {"poll", "screenshot", "button"}
Leaving == {"stat_update", "stat_payload", "launch", "open", "read", "end_sd"}

\* The saves have their buffer, and on every path to the wait loop, also on those
\* that leave the middle of the save sequence, it has been given back, and not
\* a second time.
BufferReleased ==
  /\ pc \in {"save_wb", "save_sc7"} => data = "allocated"
  /\ pc \in Waiting \cup Leaving \cup Ended => data \in {"NULL", "freed"}

\* The payload that is started exists, it fits the console, and the card was shut
\* down first.  It is update.bin if there is one, with one exception: payload.bin
\* is started beside an update.bin when a call on the way out has failed on the
\* card (ioError), since the f_stat that fails is taken for a missing file.
RunsTheRightPayload ==
  pc = "run" =>
     /\ payload_path \in Payloads
     /\ files[payload_path] # "absent"
     /\ ~(mariko /\ files[payload_path] = "big")
     /\ payload_path = "payload" => files["update"] = "absent" \/ ioError
     /\ ~sd_mounted

\* A press that lasts is not missed.  Someone who presses POWER and keeps it down
\* gets out of the wait loop, and any button other than a POWER held from the
\* start gets past the mount error, whatever happens on the panel and to the card.
HeldPressLeaves ==
  /\ []((pc \in Waiting /\ "POWER" \notin btn_last /\ []("POWER" \in buttons))
         => <>(pc \in Ended))
  /\ []((pc = "btn_wait" /\ "VOL" \notin btn_last /\ []("VOL" \in buttons))
         => <>(pc \in Ended))

\* Once it leaves, the program ends in a payload or a reboot: no missing file,
\* dead card or failed read leaves the console hanging.
LeavingEnds == (pc \in Leaving) ~> (pc \in Ended)
=============================================================================
