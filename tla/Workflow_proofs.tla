---------------------------- MODULE Workflow_proofs ----------------------------
(***************************************************************************)
(* Theorems about Workflow, for every set of contacts: the buffer of the   *)
(* extraction is given back on every way to the wait loop, and what is     *)
(* started is the right payload, whatever the user does in between.        *)
(***************************************************************************)
EXTENDS Workflow, TLAPS

BeforeExtract == {"mount", "btn_wait_first", "btn_wait", "extract"}
Saving        == {"save_wb", "save_sc7"}
Chosen        == {"launch", "open", "read", "end_sd", "run"}

\* Who has the buffer: the saves and cleanup, and after it nobody.
Buffer ==
  /\ pc \in BeforeExtract => data = "NULL"
  /\ pc \in Saving \cup {"cleanup"} => data = "allocated"
  /\ pc \notin BeforeExtract \cup Saving \cup {"cleanup"} => data \in {"NULL", "freed"}

\* What has been found out about the payload so far.
Choice ==
  /\ pc = "stat_payload" => files["update"] = "absent" \/ ioError
  /\ pc \in Chosen => /\ payload_path \in Payloads
                      /\ files[payload_path] # "absent"
                      /\ payload_path = "payload" => files["update"] = "absent" \/ ioError
  /\ pc \in {"read", "end_sd", "run"} => ~(mariko /\ files[payload_path] = "big")
  /\ pc = "run" => ~sd_mounted

\* The inductive invariant.
IInv == TypeOK /\ Buffer /\ Choice

LEMMA MountOK == IInv /\ Mount => IInv'
<1> SUFFICES ASSUME IInv, Mount PROVE IInv'
  OBVIOUS
<1> USE DEF Mount, card, loop, panel, sd_mount
<1>1. TypeOK'
  BY DEF IInv, TypeOK, Running, Ended
<1>2. Buffer'
  BY DEF IInv, Buffer, BeforeExtract, Saving
<1>3. Choice'
  BY DEF IInv, TypeOK, Choice, Chosen, Payloads
<1> QED
  BY <1>1, <1>2, <1>3 DEF IInv

LEMMA BtnWaitFirstOK == IInv /\ BtnWaitFirst => IInv'
<1> SUFFICES ASSUME IInv, BtnWaitFirst PROVE IInv'
  OBVIOUS
<1> USE DEF BtnWaitFirst, card, loop, panel
<1>1. TypeOK'
  <2>1. pwr' \in BOOLEAN
    OBVIOUS
  <2>2. btn_last' \in SUBSET Button
    BY DEF IInv, TypeOK
  <2>3. pc' \in Running \cup Ended
    BY DEF Running
  <2> QED
    BY <2>1, <2>2, <2>3 DEF IInv, TypeOK
<1>2. Buffer'
  BY DEF IInv, Buffer, BeforeExtract, Saving
<1>3. Choice'
  BY DEF IInv, TypeOK, Choice, Chosen, Payloads
<1> QED
  BY <1>1, <1>2, <1>3 DEF IInv

LEMMA BtnWaitOK == IInv /\ BtnWait => IInv'
<1> SUFFICES ASSUME IInv, BtnWait PROVE IInv'
  OBVIOUS
<1> USE DEF BtnWait, card, loop, panel
<1>1. TypeOK'
  BY DEF IInv, TypeOK, Running, Ended
<1>2. Buffer'
  BY DEF IInv, Buffer, BeforeExtract, Saving
<1>3. Choice'
  BY DEF IInv, TypeOK, Choice, Chosen, Payloads
<1> QED
  BY <1>1, <1>2, <1>3 DEF IInv

LEMMA ExtractOK == IInv /\ Extract => IInv'
<1> SUFFICES ASSUME IInv, Extract PROVE IInv'
  OBVIOUS
<1> USE DEF Extract, card, loop, panel
<1>1. TypeOK'
  BY DEF IInv, TypeOK, Running, Ended
<1>2. Buffer'
  BY DEF IInv, Buffer, BeforeExtract, Saving
<1>3. Choice'
  BY DEF IInv, TypeOK, Choice, Chosen, Payloads
<1> QED
  BY <1>1, <1>2, <1>3 DEF IInv

LEMMA SaveWarmbootOK == IInv /\ SaveWarmboot => IInv'
<1> SUFFICES ASSUME IInv, SaveWarmboot PROVE IInv'
  OBVIOUS
<1> USE DEF SaveWarmboot, card, loop, panel, Accessible
<1>1. TypeOK'
  BY DEF IInv, TypeOK, Running, Ended
<1>2. Buffer'
  BY DEF IInv, Buffer, BeforeExtract, Saving
<1>3. Choice'
  BY DEF IInv, TypeOK, Choice, Chosen, Payloads
<1> QED
  BY <1>1, <1>2, <1>3 DEF IInv

LEMMA SaveSc7exitOK == IInv /\ SaveSc7exit => IInv'
<1> SUFFICES ASSUME IInv, SaveSc7exit PROVE IInv'
  OBVIOUS
<1> USE DEF SaveSc7exit, card, loop, panel
<1>1. TypeOK'
  BY DEF IInv, TypeOK, Running, Ended
<1>2. Buffer'
  BY DEF IInv, Buffer, BeforeExtract, Saving
<1>3. Choice'
  BY DEF IInv, TypeOK, Choice, Chosen, Payloads
<1> QED
  BY <1>1, <1>2, <1>3 DEF IInv

LEMMA CleanupExitOK == IInv /\ CleanupExit => IInv'
<1> SUFFICES ASSUME IInv, CleanupExit PROVE IInv'
  OBVIOUS
<1> USE DEF CleanupExit, card, loop, panel
<1>1. TypeOK'
  BY DEF IInv, TypeOK, Running, Ended
<1>2. Buffer'
  BY DEF IInv, Buffer, BeforeExtract, Saving
<1>3. Choice'
  BY DEF IInv, TypeOK, Choice, Chosen, Payloads
<1> QED
  BY <1>1, <1>2, <1>3 DEF IInv

LEMMA WaitExitOK == IInv /\ WaitExit => IInv'
<1> SUFFICES ASSUME IInv, WaitExit PROVE IInv'
  OBVIOUS
<1> USE DEF WaitExit, card, loop, panel
<1>1. TypeOK'
  BY DEF IInv, TypeOK, Running, Ended
<1>2. Buffer'
  BY DEF IInv, Buffer, BeforeExtract, Saving
<1>3. Choice'
  BY DEF IInv, TypeOK, Choice, Chosen, Payloads
<1> QED
  BY <1>1, <1>2, <1>3 DEF IInv

LEMMA PollTouchOK == IInv /\ PollTouch => IInv'
<1> SUFFICES ASSUME IInv, PollTouch PROVE IInv'
  OBVIOUS
<1> USE DEF PollTouch, card, loop, panel
<1>1. TypeOK'
  BY DEF IInv, TypeOK, Running, Ended
<1>2. Buffer'
  BY DEF IInv, Buffer, BeforeExtract, Saving
<1>3. Choice'
  BY DEF IInv, TypeOK, Choice, Chosen, Payloads
<1> QED
  BY <1>1, <1>2, <1>3 DEF IInv

LEMMA ScreenshotOK == IInv /\ Screenshot => IInv'
<1> SUFFICES ASSUME IInv, Screenshot PROVE IInv'
  OBVIOUS
<1> USE DEF Screenshot, card, loop, panel, sd_mount
<1>1. TypeOK'
  BY DEF IInv, TypeOK, Running, Ended
<1>2. Buffer'
  BY DEF IInv, Buffer, BeforeExtract, Saving
<1>3. Choice'
  BY DEF IInv, TypeOK, Choice, Chosen, Payloads
<1> QED
  BY <1>1, <1>2, <1>3 DEF IInv

LEMMA ReadButtonsOK == IInv /\ ReadButtons => IInv'
<1> SUFFICES ASSUME IInv, ReadButtons PROVE IInv'
  OBVIOUS
<1> USE DEF ReadButtons, card, loop, panel
<1>1. TypeOK'
  BY DEF IInv, TypeOK, Running, Ended
<1>2. Buffer'
  BY DEF IInv, Buffer, BeforeExtract, Saving
<1>3. Choice'
  BY DEF IInv, TypeOK, Choice, Chosen, Payloads
<1> QED
  BY <1>1, <1>2, <1>3 DEF IInv

LEMMA StatUpdateOK == IInv /\ StatUpdate => IInv'
<1> SUFFICES ASSUME IInv, StatUpdate PROVE IInv'
  OBVIOUS
<1> USE DEF StatUpdate, card, loop, panel, Found, NoteError
<1>1. TypeOK'
  <2>1. PICK ok \in BOOLEAN :
          /\ payload_path' = IF ok THEN "update" ELSE payload_path
          /\ pc' = IF ok THEN "launch" ELSE "stat_payload"
          /\ ioError' = (ioError \/ (~ok /\ files["update"] # "absent"))
    OBVIOUS
  <2>2. payload_path' \in Payloads \cup {"NULL"}
    BY <2>1 DEF IInv, TypeOK, Payloads
  <2>3. pc' \in Running \cup Ended
    BY <2>1 DEF Running, Ended
  <2>4. ioError' \in BOOLEAN
    BY <2>1
  <2> QED
    BY <2>2, <2>3, <2>4 DEF IInv, TypeOK
<1>2. Buffer'
  BY DEF IInv, Buffer, BeforeExtract, Saving
<1>3. Choice'
  BY DEF IInv, TypeOK, Choice, Chosen, Payloads
<1> QED
  BY <1>1, <1>2, <1>3 DEF IInv

LEMMA StatPayloadOK == IInv /\ StatPayload => IInv'
<1> SUFFICES ASSUME IInv, StatPayload PROVE IInv'
  OBVIOUS
<1> USE DEF StatPayload, card, loop, panel, Found, NoteError
<1>1. TypeOK'
  <2>1. PICK ok \in BOOLEAN :
          /\ payload_path' = IF ok THEN "payload" ELSE payload_path
          /\ pc' = IF ok THEN "launch" ELSE "reboot"
          /\ ioError' = (ioError \/ (~ok /\ files["payload"] # "absent"))
    OBVIOUS
  <2>2. payload_path' \in Payloads \cup {"NULL"}
    BY <2>1 DEF IInv, TypeOK, Payloads
  <2>3. pc' \in Running \cup Ended
    BY <2>1 DEF Running, Ended
  <2>4. ioError' \in BOOLEAN
    BY <2>1
  <2> QED
    BY <2>2, <2>3, <2>4 DEF IInv, TypeOK
<1>2. Buffer'
  BY DEF IInv, Buffer, BeforeExtract, Saving
<1>3. Choice'
  BY DEF IInv, TypeOK, Choice, Chosen, Payloads
<1> QED
  BY <1>1, <1>2, <1>3 DEF IInv

LEMMA LaunchOK == IInv /\ Launch => IInv'
<1> SUFFICES ASSUME IInv, Launch PROVE IInv'
  OBVIOUS
<1> USE DEF Launch, card, loop, panel, sd_mount, NoteError
<1>1. TypeOK'
  BY DEF IInv, TypeOK, Running, Ended
<1>2. Buffer'
  BY DEF IInv, Buffer, BeforeExtract, Saving
<1>3. Choice'
  BY DEF IInv, TypeOK, Choice, Chosen, Payloads
<1> QED
  BY <1>1, <1>2, <1>3 DEF IInv

LEMMA OpenOK == IInv /\ Open => IInv'
<1> SUFFICES ASSUME IInv, Open PROVE IInv'
  OBVIOUS
<1> USE DEF Open, card, loop, panel, Found, NoteError
<1>1. TypeOK'
  BY DEF IInv, TypeOK, Running, Ended
<1>2. Buffer'
  BY DEF IInv, Buffer, BeforeExtract, Saving
<1>3. Choice'
  BY DEF IInv, TypeOK, Choice, Chosen, Payloads
<1> QED
  BY <1>1, <1>2, <1>3 DEF IInv

LEMMA ReadOK == IInv /\ Read => IInv'
<1> SUFFICES ASSUME IInv, Read PROVE IInv'
  OBVIOUS
<1> USE DEF Read, card, loop, panel, Accessible, NoteError
<1>1. TypeOK'
  BY DEF IInv, TypeOK, Running, Ended
<1>2. Buffer'
  BY DEF IInv, Buffer, BeforeExtract, Saving
<1>3. Choice'
  BY DEF IInv, TypeOK, Choice, Chosen, Payloads
<1> QED
  BY <1>1, <1>2, <1>3 DEF IInv

LEMMA EndSdOK == IInv /\ EndSd => IInv'
<1> SUFFICES ASSUME IInv, EndSd PROVE IInv'
  OBVIOUS
<1> USE DEF EndSd, card, loop, panel
<1>1. TypeOK'
  BY DEF IInv, TypeOK, Running, Ended
<1>2. Buffer'
  BY DEF IInv, Buffer, BeforeExtract, Saving
<1>3. Choice'
  BY DEF IInv, TypeOK, Choice, Chosen, Payloads
<1> QED
  BY <1>1, <1>2, <1>3 DEF IInv

LEMMA TouchOK == IInv /\ Touch => IInv'
<1> SUFFICES ASSUME IInv, Touch PROVE IInv'
  OBVIOUS
<1> USE DEF Touch, card, loop, panel
<1>1. TypeOK'
  BY DEF IInv, TypeOK, Running, Ended
<1>2. Buffer'
  BY DEF IInv, Buffer, BeforeExtract, Saving
<1>3. Choice'
  BY DEF IInv, TypeOK, Choice, Chosen, Payloads
<1> QED
  BY <1>1, <1>2, <1>3 DEF IInv

LEMMA PressOK == IInv /\ Press => IInv'
<1> SUFFICES ASSUME IInv, Press PROVE IInv'
  OBVIOUS
<1> USE DEF Press, card, loop, panel
<1>1. TypeOK'
  BY DEF IInv, TypeOK, Running, Ended
<1>2. Buffer'
  BY DEF IInv, Buffer, BeforeExtract, Saving
<1>3. Choice'
  BY DEF IInv, TypeOK, Choice, Chosen, Payloads
<1> QED
  BY <1>1, <1>2, <1>3 DEF IInv

LEMMA PullCardOK == IInv /\ PullCard => IInv'
<1> SUFFICES ASSUME IInv, PullCard PROVE IInv'
  OBVIOUS
<1> USE DEF PullCard, card, loop, panel
<1>1. TypeOK'
  BY DEF IInv, TypeOK, Running, Ended
<1>2. Buffer'
  BY DEF IInv, Buffer, BeforeExtract, Saving
<1>3. Choice'
  BY DEF IInv, TypeOK, Choice, Chosen, Payloads
<1> QED
  BY <1>1, <1>2, <1>3 DEF IInv

-----------------------------------------------------------------------------
LEMMA InitOK == Init => IInv
BY DEF Init, IInv, TypeOK, Running, Ended, Buffer, BeforeExtract, Saving, Choice, Chosen,
   NoEvent

LEMMA NextOK == IInv /\ [Next]_vars => IInv'
<1> SUFFICES ASSUME IInv, [Next]_vars PROVE IInv'
  OBVIOUS
<1>1. CASE UNCHANGED vars
  BY <1>1 DEF vars, IInv, TypeOK, Buffer, Choice
<1>2. CASE Over
  BY <1>1, <1>2 DEF Over
<1> QED
  BY <1>1, <1>2, MountOK, BtnWaitFirstOK, BtnWaitOK, ExtractOK, SaveWarmbootOK, SaveSc7exitOK, CleanupExitOK, WaitExitOK, PollTouchOK, ScreenshotOK, ReadButtonsOK, StatUpdateOK, StatPayloadOK, LaunchOK, OpenOK, ReadOK, EndSdOK, TouchOK, PressOK, PullCardOK DEF Next, Program, User

THEOREM Invariance == Spec => []IInv
<1>1. Init => IInv
  BY InitOK
<1>2. IInv /\ [Next]_vars => IInv'
  BY NextOK
<1> QED
  BY <1>1, <1>2, PTL DEF Spec

\* The program and the user stay well typed, for any contact ids of the panel.
THEOREM WorkflowTypeCorrect == Spec => []TypeOK
<1>1. IInv => TypeOK
  BY DEF IInv
<1> QED
  BY <1>1, Invariance, PTL

\* main.c: on each way from the extraction to the wait loop the buffer is given back,
\* and given back once.
THEOREM AlwaysReleased == Spec => []BufferReleased
<1>1. IInv => BufferReleased
  BY DEF IInv, TypeOK, Buffer, BufferReleased, BeforeExtract, Saving, Waiting, Leaving,
     Ended
<1> QED
  BY <1>1, Invariance, PTL

\* main.c: what is started is the payload that comes first, fits and was found, with
\* the card shut down, whatever the user does to card, panel and buttons meanwhile.
THEOREM AlwaysTheRightPayload == Spec => []RunsTheRightPayload
<1>1. IInv => RunsTheRightPayload
  BY DEF IInv, Choice, Chosen, RunsTheRightPayload
<1> QED
  BY <1>1, Invariance, PTL
=============================================================================
