------------------------------ MODULE Card_proofs ------------------------------
(***************************************************************************)
(* Theorems about the two components that work on the SD card.             *)
(*                                                                         *)
(* SdCard, for transfers of any length: every state is well typed, the     *)
(* speed never wraps round, and every step is a step that SdPromise        *)
(* allows.                                                                 *)
(*                                                                         *)
(* Saves, for every volume and every number of boots: the save routines    *)
(* keep their state well-formed, and never lose the sc7exit file that was  *)
(* on the card when the user inserted it.  Then: the installed sc7exit     *)
(* file is never a part of one, and what is reported as saved is on the    *)
(* card.                                                                   *)
(***************************************************************************)
EXTENDS SdCard, Saves, TLAPS

-----------------------------------------------------------------------------
\* SdCard: the inductive invariant

\* The position in the buffer is the position on the card, and what lies before
\* it has been moved.
Filled ==
  /\ bbuf = sct_off
  /\ \A k \in 1 .. bbuf : buf[k] = k

\* A command is only sent with a chunk and a try left.
MoreToDo == sdPc = "try" => bbuf < Chunks /\ retries # 0

\* A card that has been initialised is at one of the working speeds, and stays
\* there for as long as the transfer has not started a new round.
Working ==
  /\ sdPc = "init_loop" /\ res => sd_mode # SD_INIT_FAIL
  /\ sdPc \in {"try", "reinit"} /\ ~first_reinit => sd_mode # SD_INIT_FAIL

\* The inductive invariant.
SdCardIInv == SdCardTypeOK /\ Filled /\ MoreToDo /\ Working

\* sd_init_retry leaves a mode and a session of the right type, and a card that
\* it has initialised is not in the failed mode.  The second part is for the
\* decrement: it lowers the mode unless the mode is 0 already.
LEMMA InitAtResult ==
  ASSUME NEW mode \in {0, 1, 2, 3, WRAPPED}, NEW sessions, InitAt(mode, sessions),
         \A s \in sessions : s[1] \in BOOLEAN /\ s[2] \in BOOLEAN
  PROVE  /\ sd_mode' \in {0, 1, 2, 3}
         /\ mode \in {0, 1, 2, 3} => sd_mode' = mode
         /\ res' \in BOOLEAN /\ initialized' \in BOOLEAN /\ alive' \in BOOLEAN
         /\ res' => sd_mode' # 0
<1> USE DEF SD_INIT_FAIL, SD_UHS_SDR82, WRAPPED
<1>1. CASE mode = 0
  BY <1>1 DEF InitAt, SessionIn
<1>2. CASE mode # 0
  BY <1>2 DEF InitAt, Initialised
<1> QED
  BY <1>1, <1>2

\* The two sessions that sdmmc_storage_end may leave are sessions.
LEMMA EndedType ==
  ASSUME SdCardTypeOK
  PROVE  /\ \A s \in Ended(initialized, alive) : s[1] \in BOOLEAN /\ s[2] \in BOOLEAN
         /\ \A s \in {session} : s[1] \in BOOLEAN /\ s[2] \in BOOLEAN
BY DEF SdCardTypeOK, Ended, session

\* One power cycle: what sd_init_retry does to the mode.
LEMMA RetryResult ==
  ASSUME SdCardTypeOK, NEW cycle \in BOOLEAN, sd_init_retry(cycle)
  PROVE  /\ sd_mode' \in {0, 1, 2, 3}
         /\ res' \in BOOLEAN /\ initialized' \in BOOLEAN /\ alive' \in BOOLEAN
         /\ res' => sd_mode' # 0
         /\ sd_mode # 0 \/ ~cycle => sd_mode' <= sd_mode
<1>1. sd_mode \in {0, 1, 2, 3}
  BY DEF SdCardTypeOK, SD_INIT_FAIL, SD_1BIT_HS25, SD_4BIT_HS25, SD_UHS_SDR82
<1>2. CASE cycle
  <2>1. Lower \in {0, 1, 2, 3, WRAPPED} /\ (sd_mode # 0 => Lower \in {0, 1, 2, 3} /\ Lower <= sd_mode)
    BY <1>1 DEF Lower
  <2>2. InitAt(Lower, Ended(initialized, alive))
    BY <1>2 DEF sd_init_retry
  <2>3. /\ sd_mode' \in {0, 1, 2, 3}
        /\ Lower \in {0, 1, 2, 3} => sd_mode' = Lower
        /\ res' \in BOOLEAN /\ initialized' \in BOOLEAN /\ alive' \in BOOLEAN
        /\ res' => sd_mode' # 0
    BY <2>1, <2>2, InitAtResult, EndedType
  <2> QED
    BY <1>2, <2>1, <2>3
<1>3. CASE ~cycle
  <2>1. InitAt(sd_mode, {session})
    BY <1>3 DEF sd_init_retry
  <2>2. /\ sd_mode' = sd_mode
        /\ res' \in BOOLEAN /\ initialized' \in BOOLEAN /\ alive' \in BOOLEAN
        /\ res' => sd_mode' # 0
    BY <1>1, <2>1, InitAtResult, EndedType
  <2> QED
    BY <1>1, <2>2
<1> QED
  BY <1>2, <1>3

-----------------------------------------------------------------------------
\* The initial state is in the invariant.
LEMMA InitInv == SdCardInit => SdCardIInv
<1> SUFFICES ASSUME SdCardInit
             PROVE  SdCardIInv
  OBVIOUS
<1>1. /\ sct_off \in 0 .. Chunks /\ bbuf \in 0 .. Chunks
      /\ buf \in [1 .. Chunks -> 0 .. Chunks]
  BY ChunksAssumption DEF SdCardInit
<1>2. /\ sd_mounted \in BOOLEAN /\ initialized \in BOOLEAN /\ inserted \in BOOLEAN
      /\ alive \in BOOLEAN /\ res \in BOOLEAN /\ first_reinit \in BOOLEAN
  BY DEF SdCardInit
<1>3. /\ sd_mode \in {SD_INIT_FAIL, SD_1BIT_HS25, SD_4BIT_HS25, SD_UHS_SDR82}
      /\ retries \in 0 .. 5
  BY DEF SdCardInit, SD_INIT_FAIL, SD_1BIT_HS25, SD_4BIT_HS25, SD_UHS_SDR82
<1>4. SdCardTypeOK
  BY <1>1, <1>2, <1>3 DEF SdCardInit, SdCardTypeOK
<1>5. Filled
  BY DEF SdCardInit, Filled
<1> QED
  BY <1>4, <1>5 DEF SdCardInit, SdCardIInv, MoreToDo, Working

\* The start of a new round: nothing has been moved yet.
LEMMA RestartKeeps ==
  ASSUME SdCardTypeOK, Restart
  PROVE  /\ retries' \in 1 .. 5 /\ retries' # 0 /\ first_reinit' = FALSE
         /\ sct_off' \in 0 .. Chunks /\ bbuf' \in 0 .. Chunks /\ bbuf' < Chunks
         /\ buf' \in [1 .. Chunks -> 0 .. Chunks]
         /\ Filled'
<1>1. /\ retries' = 3 /\ first_reinit' = FALSE /\ sct_off' = 0 /\ bbuf' = 0
      /\ buf' = buf
  BY DEF Restart
<1>2. Filled'
  BY <1>1 DEF Filled
<1> QED
  BY <1>1, <1>2, ChunksAssumption DEF SdCardTypeOK

\* sd_initialize and the end of a session keep the invariant: they do not touch
\* the transfer, except that a successful one starts it again.
LEMMA InitializeKeeps ==
  ASSUME SdCardIInv,
         FirstInit \/ CardIsOut \/ NoModeLeft \/ InitAgain \/ Failed \/ InitDone
  PROVE  SdCardIInv'
<1> USE DEF SdCardIInv
<1>1. CASE FirstInit
  <2>1. /\ sd_mode' \in {0, 1, 2, 3}
        /\ res' \in BOOLEAN /\ initialized' \in BOOLEAN /\ alive' \in BOOLEAN
        /\ res' => sd_mode' # 0
    <3>1. CASE sd_init_retry(FALSE)
      BY <3>1, RetryResult
    <3>2. CASE InitAt(sd_mode, Ended(initialized, alive))
      <4>1. sd_mode \in {0, 1, 2, 3, WRAPPED}
        BY DEF SdCardTypeOK, SD_INIT_FAIL, SD_1BIT_HS25, SD_4BIT_HS25, SD_UHS_SDR82
      <4> QED
        BY <3>2, <4>1, InitAtResult, EndedType
    <3> QED
      BY <1>1, <3>1, <3>2 DEF FirstInit
  <2> QED
    BY <1>1, <2>1 DEF FirstInit, SdCardTypeOK, Filled, MoreToDo, Working, call, transfer,
       SD_INIT_FAIL, SD_1BIT_HS25, SD_4BIT_HS25, SD_UHS_SDR82
<1>2. CASE CardIsOut
  BY <1>2 DEF CardIsOut, SdCardTypeOK, Filled, MoreToDo, Working, call, transfer, session
<1>3. CASE NoModeLeft
  BY <1>3 DEF NoModeLeft, SdCardTypeOK, Filled, MoreToDo, Working, call, transfer, session, nx_sd
<1>4. CASE InitAgain
  <2>1. /\ sd_mode' \in {0, 1, 2, 3}
        /\ res' \in BOOLEAN /\ initialized' \in BOOLEAN /\ alive' \in BOOLEAN
        /\ res' => sd_mode' # 0
    BY <1>4, RetryResult DEF InitAgain
  <2> QED
    BY <1>4, <2>1 DEF InitAgain, SdCardTypeOK, Filled, MoreToDo, Working, call, transfer,
       SD_INIT_FAIL, SD_1BIT_HS25, SD_4BIT_HS25, SD_UHS_SDR82
<1>5. CASE Failed
  <2>1. initialized' \in BOOLEAN /\ alive' \in BOOLEAN
    BY <1>5, EndedType DEF Failed, SessionIn
  <2> QED
    BY <1>5, <2>1 DEF Failed, Return, SdCardTypeOK, Filled, MoreToDo, Working, transfer
<1>6. CASE InitDone
  <2>1. CASE caller = "mount"
    BY <1>6, <2>1
    DEF InitDone, SdCardTypeOK, Filled, MoreToDo, Working, call, transfer, session, nx_sd
  <2>2. CASE caller # "mount"
    <3>1. /\ sdPc' = "try" /\ Restart
          /\ sd_mode # SD_INIT_FAIL
          /\ UNCHANGED <<call, nx_sd, session, inserted, res>>
      BY <1>6, <2>2 DEF InitDone, Working
    <3>2. /\ sd_mounted' \in BOOLEAN /\ initialized' \in BOOLEAN /\ inserted' \in BOOLEAN
          /\ alive' \in BOOLEAN /\ res' \in BOOLEAN /\ first_reinit' \in BOOLEAN
      BY <3>1 DEF SdCardTypeOK, Restart, session, nx_sd
    <3>3. /\ retries' \in 0 .. 5 /\ sct_off' \in 0 .. Chunks /\ bbuf' \in 0 .. Chunks
          /\ buf' \in [1 .. Chunks -> 0 .. Chunks] /\ Filled' /\ MoreToDo'
      BY <3>1, RestartKeeps DEF MoreToDo
    <3>4. SdCardTypeOK'
      BY <3>1, <3>2, <3>3 DEF SdCardTypeOK, call, nx_sd
    <3> QED
      BY <3>1, <3>3, <3>4 DEF Working, nx_sd
  <2> QED
    BY <2>1, <2>2
<1> QED
  BY <1>1, <1>2, <1>3, <1>4, <1>5, <1>6

\* A command that succeeds moves one chunk to its own place; one that fails
\* touches only the place that is next.
LEMMA CommandKeeps ==
  ASSUME SdCardIInv, Enter \/ Moved \/ NotMoved
  PROVE  SdCardIInv'
<1> USE DEF SdCardIInv
<1>1. CASE Enter
  BY <1>1, ChunksAssumption
  DEF Enter, Return, SdCardTypeOK, Filled, MoreToDo, Working, call, session
<1>2. CASE Moved
  <2>1. /\ bbuf \in 0 .. Chunks /\ bbuf < Chunks /\ sct_off = bbuf
        /\ buf' = [buf EXCEPT ![bbuf + 1] = bbuf + 1]
        /\ bbuf' = bbuf + 1 /\ sct_off' = bbuf + 1
    BY <1>2 DEF Moved, SdCardTypeOK, Filled, MoreToDo
  <2>2. bbuf + 1 \in 1 .. Chunks /\ bbuf + 1 \in 0 .. Chunks
    BY <2>1, ChunksAssumption
  <2>3. buf' \in [1 .. Chunks -> 0 .. Chunks]
    BY <2>1, <2>2 DEF SdCardTypeOK
  <2>4. Filled'
    <3> SUFFICES ASSUME NEW k \in 1 .. bbuf + 1
                 PROVE  buf'[k] = k
      BY <2>1 DEF Filled
    <3>1. k \in 1 .. Chunks /\ (k = bbuf + 1 \/ k \in 1 .. bbuf)
      BY <2>1, ChunksAssumption
    <3> QED
      BY <2>1, <3>1 DEF SdCardTypeOK, Filled
  <2>5. CASE bbuf + 1 = Chunks
    BY <1>2, <2>1, <2>2, <2>3, <2>4, <2>5
    DEF Moved, Return, SdCardTypeOK, MoreToDo, Working, session
  <2>6. CASE bbuf + 1 # Chunks
    <3>1. bbuf + 1 < Chunks
      BY <2>1, <2>6, ChunksAssumption
    <3> QED
      BY <1>2, <2>1, <2>2, <2>3, <2>4, <2>6, <3>1
      DEF Moved, SdCardTypeOK, MoreToDo, Working, session, call
  <2> QED
    BY <2>5, <2>6
<1>3. CASE NotMoved
  <2>1. bbuf \in 0 .. Chunks /\ bbuf < Chunks /\ retries \in 1 .. 5
    BY <1>3 DEF NotMoved, SdCardTypeOK, MoreToDo
  <2>2. bbuf + 1 \in 1 .. Chunks /\ buf' = [buf EXCEPT ![bbuf + 1] = 0]
    BY <1>3, <2>1, ChunksAssumption DEF NotMoved
  <2>3. buf' \in [1 .. Chunks -> 0 .. Chunks]
    BY <2>2, ChunksAssumption DEF SdCardTypeOK
  <2>4. Filled'
    <3> SUFFICES ASSUME NEW k \in 1 .. bbuf
                 PROVE  buf'[k] = k
      BY <1>3 DEF NotMoved, Filled
    <3> QED
      BY <2>1, <2>2, ChunksAssumption DEF SdCardTypeOK, Filled
  <2> QED
    BY <1>3, <2>1, <2>3, <2>4
    DEF NotMoved, SdCardTypeOK, MoreToDo, Working, call, nx_sd, session
<1> QED
  BY <1>1, <1>2, <1>3

\* Whoever calls, and the user, leave the transfer alone; a second round of the
\* transfer starts at a working speed.
LEMMA OthersKeep ==
  ASSUME SdCardIInv, SdMount \/ Transfer \/ SdEnd \/ CardMoves \/ ReinitFirst \/ ReinitAgain
  PROVE  SdCardIInv'
<1> USE DEF SdCardIInv
<1>1. CASE SdMount
  BY <1>1 DEF SdMount, SdCardTypeOK, Filled, MoreToDo, Working, nx_sd, session, transfer
<1>2. CASE Transfer
  BY <1>2 DEF Transfer, SdCardTypeOK, Filled, MoreToDo, Working, nx_sd, session, transfer
<1>3. CASE SdEnd
  <2>1. initialized' \in BOOLEAN /\ alive' \in BOOLEAN
    BY <1>3, EndedType DEF SdEnd, SessionIn
  <2> QED
    BY <1>3, <2>1 DEF SdEnd, SdCardTypeOK, Filled, MoreToDo, Working, call, transfer
<1>4. CASE CardMoves
  <2>1. inserted' \in BOOLEAN /\ alive' \in BOOLEAN
    <3>1. inserted' \in BOOLEAN
      BY <1>4, Zenon DEF CardMoves
    <3>2. alive' \in BOOLEAN
      BY <1>4 DEF CardMoves
    <3> QED
      BY <3>1, <3>2
  <2>2. UNCHANGED <<sdPc, op, caller, result, sd_mode, sd_mounted, initialized, res, retries,
                    first_reinit, sct_off, bbuf, buf>>
    BY <1>4 DEF CardMoves, call, nx_sd, transfer
  <2> QED
    BY <2>1, <2>2 DEF SdCardTypeOK, Filled, MoreToDo, Working
<1>5. CASE ReinitFirst
  BY <1>5 DEF ReinitFirst, SdCardTypeOK, Filled, MoreToDo, Working, nx_sd, session, transfer
<1>6. CASE ReinitAgain
  <2>1. /\ sd_mode' \in {0, 1, 2, 3}
        /\ res' \in BOOLEAN /\ initialized' \in BOOLEAN /\ alive' \in BOOLEAN
        /\ res' => sd_mode' # 0
    BY <1>6, RetryResult DEF ReinitAgain
  <2>2. CASE res'
    <3>1. sdPc' = "try" /\ Restart /\ UNCHANGED <<call, sd_mounted, inserted>>
      BY <1>6, <2>2 DEF ReinitAgain
    <3>2. sd_mode' # 0
      BY <2>1, <2>2
    <3>3. /\ sd_mounted' \in BOOLEAN /\ inserted' \in BOOLEAN /\ first_reinit' \in BOOLEAN
      BY <3>1 DEF SdCardTypeOK, Restart
    <3>4. /\ retries' \in 0 .. 5 /\ sct_off' \in 0 .. Chunks /\ bbuf' \in 0 .. Chunks
          /\ buf' \in [1 .. Chunks -> 0 .. Chunks] /\ Filled' /\ MoreToDo'
      BY <3>1, RestartKeeps DEF MoreToDo
    <3>5. sd_mode' \in {SD_INIT_FAIL, SD_1BIT_HS25, SD_4BIT_HS25, SD_UHS_SDR82}
      BY <2>1 DEF SD_INIT_FAIL, SD_1BIT_HS25, SD_4BIT_HS25, SD_UHS_SDR82
    <3>6. SdCardTypeOK'
      BY <2>1, <3>1, <3>3, <3>4, <3>5 DEF SdCardTypeOK, call
    <3> QED
      BY <3>1, <3>2, <3>4, <3>6 DEF Working, SD_INIT_FAIL
  <2>3. CASE ~res'
    BY <1>6, <2>1, <2>3
    DEF ReinitAgain, Return, SdCardTypeOK, Filled, MoreToDo, Working, transfer,
        SD_INIT_FAIL, SD_1BIT_HS25, SD_4BIT_HS25, SD_UHS_SDR82
  <2> QED
    BY <2>2, <2>3
<1> QED
  BY <1>1, <1>2, <1>3, <1>4, <1>5, <1>6

\* The invariant is inductive.
LEMMA NextInv == SdCardIInv /\ [SdCardNext]_sdVars => SdCardIInv'
<1> SUFFICES ASSUME SdCardIInv, [SdCardNext]_sdVars
             PROVE  SdCardIInv'
  OBVIOUS
<1>1. CASE SdCardNext
  BY <1>1, InitializeKeeps, CommandKeeps, OthersKeep DEF SdCardNext, Layer
<1>2. CASE UNCHANGED sdVars
  BY <1>2 DEF sdVars, SdCardIInv, SdCardTypeOK, Filled, MoreToDo, Working
<1> QED
  BY <1>1, <1>2

\* Every reachable state of the SD layer is well typed; in particular sd_mode is
\* one of the four modes and no counter leaves its range.
THEOREM SdTypeCorrect == SdCardSpec => []SdCardTypeOK
<1>1. SdCardIInv => SdCardTypeOK
  BY DEF SdCardIInv
<1> QED
  BY <1>1, InitInv, NextInv, PTL DEF SdCardSpec

-----------------------------------------------------------------------------
\* While the card is in its slot and a call is under way, the speed never rises:
\* no decrement is ever made at mode 0, so that sd_mode never wraps round.
THEOREM SpeedNeverRises == SdCardSpec => SpeedOnlyDrops
<1>1. ASSUME SdCardIInv, [SdCardNext]_sdVars, sd_mode' > sd_mode
      PROVE  sdPc = "idle" \/ ~inserted
  <2>1. sd_mode \in {0, 1, 2, 3}
    BY <1>1 DEF SdCardIInv, SdCardTypeOK, SD_INIT_FAIL, SD_1BIT_HS25, SD_4BIT_HS25, SD_UHS_SDR82
  <2>2. sd_mode' # sd_mode
    BY <1>1, <2>1
  <2>3. CASE FirstInit
    <3>1. InitAt(sd_mode, {session}) \/ InitAt(sd_mode, Ended(initialized, alive))
      BY <2>3 DEF FirstInit, sd_init_retry
    <3> QED
      BY <1>1, <2>1, <2>2, <3>1, InitAtResult, EndedType DEF SdCardIInv
  <2>4. CASE CardIsOut
    BY <2>4 DEF CardIsOut
  <2>5. CASE InitAgain
    <3>1. sd_mode # 0 /\ sd_init_retry(TRUE)
      BY <2>5 DEF InitAgain, SD_INIT_FAIL
    <3>2. sd_mode' \in {0, 1, 2, 3} /\ sd_mode' <= sd_mode
      BY <1>1, <3>1, RetryResult DEF SdCardIInv
    <3> QED
      BY <1>1, <2>1, <3>2
  <2>6. CASE ReinitAgain
    <3>1. sd_mode # 0 /\ sd_init_retry(TRUE)
      BY <1>1, <2>6 DEF ReinitAgain, SdCardIInv, Working, SD_INIT_FAIL
    <3>2. sd_mode' \in {0, 1, 2, 3} /\ sd_mode' <= sd_mode
      BY <1>1, <3>1, RetryResult DEF SdCardIInv
    <3> QED
      BY <1>1, <2>1, <3>2
  <2>7. CASE SdEnd
    BY <2>7 DEF SdEnd
  <2>8. CASE SdMount \/ Transfer
    BY <2>8 DEF SdMount, Transfer
  <2>9. CASE NoModeLeft \/ Failed \/ InitDone \/ Enter \/ Moved \/ NotMoved
    BY <2>2, <2>9 DEF NoModeLeft, Failed, InitDone, Enter, Moved, NotMoved, nx_sd
  <2>10. CASE ReinitFirst \/ CardMoves \/ UNCHANGED sdVars
    BY <2>2, <2>10 DEF ReinitFirst, CardMoves, nx_sd, sdVars
  <2> QED
    BY <1>1, <2>3, <2>4, <2>5, <2>6, <2>7, <2>8, <2>9, <2>10 DEF SdCardNext, Layer
<1>2. SdCardIInv /\ [SdCardNext]_sdVars => [sd_mode' > sd_mode => sdPc = "idle" \/ ~inserted]_sdVars
  BY <1>1
<1> QED
  BY <1>2, InitInv, NextInv, PTL DEF SdCardSpec, SpeedOnlyDrops

\* The step part of the promise: the initial states are those of SdPromise, and
\* every step is one of its steps or changes nothing that FatFs can see.  In
\* particular success is only reported for a buffer that is full and in order.
THEOREM KeepsThePromise == SdCardSpec => Promise!Init /\ [][Promise!Next]_(Promise!promise)
<1>1. SdCardInit => Promise!Init
  <2> SUFFICES ASSUME SdCardInit
               PROVE  Promise!Init
    OBVIOUS
  <2>1. buf \in [1 .. Chunks -> 0 .. Chunks]
    BY ChunksAssumption DEF SdCardInit
  <2> QED
    BY <2>1 DEF SdCardInit, Promise!Init, Promise!Content
<1>2. SdCardIInv /\ SdCardIInv' /\ [SdCardNext]_sdVars => [Promise!Next]_(Promise!promise)
  <2> SUFFICES ASSUME SdCardIInv, SdCardIInv', [SdCardNext]_sdVars
               PROVE  [Promise!Next]_(Promise!promise)
    OBVIOUS
  <2> USE DEF Promise!promise
  <2>0. buf' \in Promise!Content
    BY DEF SdCardIInv, SdCardTypeOK, Promise!Content
  <2>1. CASE SdMount \/ Transfer
    <3>1. Promise!Call
      BY <2>0, <2>1 DEF SdMount, Transfer, Promise!Call
    <3> QED
      BY <3>1 DEF Promise!Next
  <2>2. CASE Return(FALSE) /\ sdPc # "idle"
    <3>1. Promise!Fail
      BY <2>0, <2>2 DEF Return, Promise!Fail
    <3> QED
      BY <3>1 DEF Promise!Next
  <2>3. CASE Moved /\ Return(TRUE)
    <3>1. CASE result' = "failed"
      <4>1. Promise!Fail
        BY <2>0, <2>3, <3>1 DEF Moved, Return, Promise!Fail
      <4> QED
        BY <4>1 DEF Promise!Next
    <3>2. CASE result' = "ok"
      <4>1. CASE bbuf' = Chunks
        <5>1. buf' = Promise!Complete
          BY <4>1, <2>0 DEF SdCardIInv, Filled, Promise!Complete, Promise!Content
        <5>2. Promise!Succeed
          BY <2>3, <3>2, <5>1 DEF Moved, Return, Promise!Succeed
        <5> QED
          BY <5>2 DEF Promise!Next
      <4>2. bbuf' = Chunks \/ sdPc' = "try"
        BY <2>3 DEF Moved, SdCardIInv, Filled
      <4> QED
        BY <2>3, <4>1, <4>2 DEF Return
    <3> QED
      BY <2>3, <3>1, <3>2 DEF Return
  <2>4. CASE UNCHANGED result /\ sdPc # "idle" /\ sdPc' # "idle"
    <3>1. Promise!Fill
      BY <2>0, <2>4 DEF Promise!Fill
    <3> QED
      BY <3>1 DEF Promise!Next
  <2>5. CASE SdEnd \/ CardMoves \/ UNCHANGED sdVars
    BY <2>5 DEF SdEnd, CardMoves, call, transfer, sdVars
  <2>6. CASE Layer
    <3>1. CASE FirstInit \/ CardIsOut \/ NoModeLeft \/ InitAgain \/ InitDone
      BY <2>4, <3>1 DEF FirstInit, CardIsOut, NoModeLeft, InitAgain, InitDone, call
    <3>2. CASE Failed
      BY <2>2, <3>2 DEF Failed
    <3>3. CASE Enter
      BY <2>2, <2>4, <3>3 DEF Enter, call
    <3>4. CASE Moved
      <4>1. CASE sct_off + 1 = Chunks
        BY <2>3, <3>4, <4>1 DEF Moved
      <4>2. CASE sct_off + 1 # Chunks
        BY <2>4, <3>4, <4>2 DEF Moved, call
      <4> QED
        BY <4>1, <4>2
    <3>5. CASE NotMoved \/ ReinitFirst
      BY <2>4, <3>5 DEF NotMoved, ReinitFirst, call
    <3>6. CASE ReinitAgain
      <4>1. CASE res'
        BY <2>4, <3>6, <4>1 DEF ReinitAgain, call
      <4>2. CASE ~res'
        BY <2>2, <3>6, <4>2 DEF ReinitAgain
      <4> QED
        BY <4>1, <4>2
    <3> QED
      BY <2>6, <3>1, <3>2, <3>3, <3>4, <3>5, <3>6 DEF Layer
  <2> QED
    BY <2>1, <2>5, <2>6 DEF SdCardNext
<1> QED
  BY <1>1, <1>2, InitInv, NextInv, PTL DEF SdCardSpec

-----------------------------------------------------------------------------
\* Saves: type correctness, one lemma per FatFs operation

\* f_stat keeps the volume well-formed (ff.c f_stat).
LEMMA StatType ==
  ASSUME VolumeTypeOK, NEW n \in Name, NEW ok \in BOOLEAN, f_stat(n, ok)
  PROVE  VolumeTypeOK'
  BY VolumeAssumption
     DEF VolumeTypeOK, f_stat, NoChange, NoteSharing, NoteFault, Shared

\* Giving a chain back to the FAT leaves well-formed contents (ff.c remove_chain).
LEMMA ReleasedType ==
  ASSUME VolumeTypeOK, NEW e
  PROVE  Released(e) \in [Chain -> Content]
  BY DEF VolumeTypeOK, Released, Content

\* f_open keeps the volume well-formed (ff.c f_open).
LEMMA OpenType ==
  ASSUME VolumeTypeOK, NEW n \in Name, NEW ok \in BOOLEAN, f_open(n, ok)
  PROVE  VolumeTypeOK'
  <1>1. [dir EXCEPT ![n] = Empty] \in Directory
    BY DEF VolumeTypeOK, Directory, Entry
  <1>2. dir' \in Directory /\ card' \in Directory
    BY <1>1 DEF VolumeTypeOK, f_open, NoChange, StoppedAt, Synced
  <1>3. data' \in [Chain -> Content]
    BY ReleasedType DEF VolumeTypeOK, f_open, NoChange, StoppedAt, Synced
  <1>4. fil' \in File
    BY VolumeAssumption DEF f_open, File
  <1> QED
    BY <1>2, <1>3, <1>4
       DEF VolumeTypeOK, f_open, NoteSharing, NoteFault, Shared

\* f_write keeps the volume well-formed while parts of the file are missing
\* (ff.c f_write).
LEMMA WriteType ==
  ASSUME VolumeTypeOK, NEW ok \in BOOLEAN, f_write(ok), fil.parts < Parts
  PROVE  VolumeTypeOK'
  <1>1. PICK c \in Chain \cup {Empty} :
           /\ fil' = [fil EXCEPT !.chain = c, !.parts = IF ok THEN @ + 1 ELSE @]
           /\ data' = [d \in Chain |-> IF d = c THEN Partial ELSE data[d]]
    BY DEF f_write
  <1>2. fil.parts \in 0 .. Parts /\ fil.parts + 1 \in 0 .. Parts
    BY VolumeAssumption DEF VolumeTypeOK, File
  <1>3. fil' \in File
    <2>1. fil \in File
      BY DEF VolumeTypeOK
    <2>2. (IF ok THEN fil.parts + 1 ELSE fil.parts) \in 0 .. Parts
      BY <1>2
    <2> QED
      BY <1>1, <2>1, <2>2 DEF File
  <1>4. data' \in [Chain -> Content]
    BY <1>1 DEF VolumeTypeOK, Content
  <1> QED
    BY <1>3, <1>4 DEF VolumeTypeOK, f_write, NoteSharing, NoteFault, Shared

\* f_close keeps the volume well-formed (ff.c f_close, f_sync).
LEMMA CloseType ==
  ASSUME VolumeTypeOK, NEW v \in Version, NEW total, NEW ok \in BOOLEAN,
         f_close(v, total, ok)
  PROVE  VolumeTypeOK'
  <1>1. [dir EXCEPT ![fil.name] = fil.chain] \in Directory
    BY DEF VolumeTypeOK, Directory, Entry, File
  <1>2. dir' \in Directory /\ card' \in Directory
    BY <1>1 DEF VolumeTypeOK, f_close, NoChange, StoppedAt, Synced
  <1>3. data' \in [Chain -> Content]
    BY DEF VolumeTypeOK, f_close, NoChange, Content
  <1>4. fil' \in File
    BY DEF VolumeTypeOK, f_close, File
  <1>5. torn' \in SUBSET (Chain \cup {Empty})
    BY DEF VolumeTypeOK, f_close, File
  <1> QED
    BY <1>2, <1>3, <1>4, <1>5
       DEF VolumeTypeOK, f_close, NoteSharing, NoteFault, Shared

\* f_unlink keeps the volume well-formed (ff.c f_unlink).
LEMMA UnlinkType ==
  ASSUME VolumeTypeOK, NEW n \in Name, NEW ok \in BOOLEAN, f_unlink(n, ok)
  PROVE  VolumeTypeOK'
  <1>1. [dir EXCEPT ![n] = NoEntry] \in Directory
    BY DEF VolumeTypeOK, Directory, Entry
  <1>2. dir' \in Directory /\ card' \in Directory
    BY <1>1 DEF VolumeTypeOK, f_unlink, NoChange, StoppedAt, Synced
  <1>3. data' \in [Chain -> Content]
    BY ReleasedType DEF VolumeTypeOK, f_unlink, NoChange
  <1> QED
    BY <1>2, <1>3 DEF VolumeTypeOK, f_unlink, NoteSharing, NoteFault, Shared

\* f_rename keeps the volume well-formed (ff.c f_rename).
LEMMA RenameType ==
  ASSUME VolumeTypeOK, NEW old \in Name, NEW new \in Name, NEW ok \in BOOLEAN,
         f_rename(old, new, ok)
  PROVE  VolumeTypeOK'
  <1> DEFINE both    == [dir EXCEPT ![new] = dir[old]]
             renamed == [both EXCEPT ![old] = NoEntry]
  <1>1. both \in Directory /\ renamed \in Directory
    BY DEF VolumeTypeOK, Directory, Entry
  <1> HIDE DEF both, renamed
  <1>2. dir' \in Directory /\ card' \in Directory /\ data' = data
    BY <1>1 DEF VolumeTypeOK, f_rename, NoChange, StoppedAt, Synced, both, renamed
  <1> QED
    BY <1>2 DEF VolumeTypeOK, f_rename, NoteSharing, NoteFault, Shared

\* A power loss keeps the volume well-formed.
LEMMA PowerType ==
  ASSUME VolumeTypeOK, PowerLost
  PROVE  VolumeTypeOK'
  <1>1. fil' \in File
    BY VolumeAssumption DEF PowerLost, File, NoFile, Name
  <1> QED
    BY <1>1, ReleasedType DEF VolumeTypeOK, PowerLost, NoteSharing, Shared

-----------------------------------------------------------------------------
\* Type correctness of the whole module

\* The counter of parts never passes Parts: a file that is being written still
\* lacks one.
PartsLeft ==
  /\ pc = "wb_write" => fil.parts = 0
  /\ pc = "write" => fil.parts < Parts

TypeInv == TypeOK /\ PartsLeft

\* The program starts with a well-formed volume.
LEMMA InitType == Init => TypeInv
  <1> SUFFICES ASSUME Init PROVE TypeInv
    OBVIOUS
  <1>1. dir \in Directory /\ card \in Directory
    BY DEF Init, Directory, Entry
  <1>2. data \in [Chain -> Content]
    BY VolumeAssumption DEF Init, Content, Version
  <1>3. fil \in File
    BY VolumeAssumption DEF Init, File, NoFile, Name
  <1>4. VolumeTypeOK
    BY <1>1, <1>2, <1>3 DEF Init, VolumeTypeOK
  <1>5. boot \in 0 .. MaxBoots
    BY VolumeAssumption DEF Init
  <1> QED
    BY <1>4, <1>5 DEF Init, TypeInv, TypeOK, PartsLeft, Pc

\* Every step of the program keeps it well-formed.
LEMMA NextType == TypeInv /\ [Next]_vars => TypeInv'
  <1> SUFFICES ASSUME TypeInv, [Next]_vars PROVE TypeInv'
    OBVIOUS
  <1> USE DEF TypeInv, TypeOK, PartsLeft, Pc, WarmbootPc, Sc7Pc
  <1>n. "wb" \in Name /\ "path" \in Name /\ "backup" \in Name /\ "temp" \in Name
    BY DEF Name
  <1>v. 0 \in Version /\ boot \in Version
    BY VolumeAssumption DEF Version
  <1>1. CASE Start
    <2>1. VolumeTypeOK'
      BY <1>1 DEF Start, volume, VolumeTypeOK
    <2>2. boot' \in 0 .. MaxBoots
      BY <1>1, VolumeAssumption DEF Start
    <2> QED
      BY <1>1, <2>1, <2>2 DEF Start, volume
  <1>2. CASE WbOpen
    <2>1. PICK ok \in BOOLEAN : f_open("wb", ok)
      BY <1>2 DEF WbOpen
    <2>2. VolumeTypeOK'
      BY <2>1, <1>n, OpenType
    <2>3. fil'.parts = 0
      BY <2>1 DEF f_open
    <2> QED
      BY <1>2, <2>2, <2>3 DEF WbOpen
  <1>3. CASE WbWrite
    <2>1. VolumeTypeOK'
      BY <1>3, WriteType, VolumeAssumption DEF WbWrite
    <2> QED
      BY <1>3, <2>1 DEF WbWrite
  <1>4. CASE WbClose
    <2>1. VolumeTypeOK'
      BY <1>4, <1>v, CloseType DEF WbClose
    <2> QED
      BY <1>4, <2>1 DEF WbClose
  <1>5. CASE Open
    <2>1. PICK ok \in BOOLEAN : f_open("temp", ok)
      BY <1>5 DEF Open
    <2>2. VolumeTypeOK'
      BY <2>1, <1>n, OpenType
    <2>3. fil'.parts = 0
      BY <2>1 DEF f_open
    <2> QED
      BY <1>5, <2>2, <2>3, VolumeAssumption DEF Open
  <1>6. CASE Write
    <2>1. PICK ok \in BOOLEAN :
             /\ f_write(ok)
             /\ pc' = IF ok /\ fil.parts + 1 < Parts THEN "write" ELSE "close"
      BY <1>6 DEF Write
    <2>2. VolumeTypeOK'
      BY <1>6, <2>1, WriteType DEF Write
    <2>3. ok => fil'.parts = fil.parts + 1
      BY <2>1 DEF f_write, VolumeTypeOK, File
    <2> QED
      BY <1>6, <2>1, <2>2, <2>3 DEF Write
  <1>7. CASE Close
    <2>1. VolumeTypeOK'
      BY <1>7, <1>v, CloseType DEF Close
    <2> QED
      BY <1>7, <2>1 DEF Close
  <1>8. CASE Discard \/ Remove
    <2>1. VolumeTypeOK'
      BY <1>8, <1>n, UnlinkType DEF Discard, Remove
    <2> QED
      BY <1>8, <2>1 DEF Discard, Remove
  <1>9. CASE StatPath \/ StatBackup \/ StatAgain
    <2>1. VolumeTypeOK'
      BY <1>9, <1>n, StatType DEF StatPath, StatBackup, StatAgain
    <2> QED
      BY <1>9, <2>1 DEF StatPath, StatBackup, StatAgain
  <1>10. CASE Preserve \/ Install \/ Restore
    <2>1. VolumeTypeOK'
      BY <1>10, <1>n, RenameType DEF Preserve, Install, Restore
    <2> QED
      BY <1>10, <2>1 DEF Preserve, Install, Restore
  <1>11. CASE PowerOff
    BY <1>11, PowerType DEF PowerOff
  <1>12. CASE UNCHANGED vars
    BY <1>12 DEF vars, VolumeTypeOK
  <1> QED
    BY <1>1, <1>2, <1>3, <1>4, <1>5, <1>6, <1>7, <1>8, <1>9, <1>10, <1>11, <1>12
       DEF Next, SaveStep, Finished

\* Every reachable state of the save routines is well-formed.
THEOREM TypeCorrect == Spec => []TypeOK
  <1>1. TypeInv => TypeOK
    BY DEF TypeInv
  <1> QED
    BY InitType, NextType, <1>1, PTL DEF Spec

-----------------------------------------------------------------------------
\* The original file is never lost

\* In directory d the original is the backup, or is installed with the backup
\* name free; no name that the program writes leads to it.
Safe(d) ==
  /\ d["temp"] # orig /\ d["wb"] # orig
  /\ \/ d["backup"] = orig
     \/ d["backup"] = NoEntry /\ d["path"] = orig

\* What every FatFs call keeps: a chain with two names is noted, only the
\* temporary file and the warmboot file are opened, and the original is safe.
SharingNoted == (Shared(dir) \/ Shared(card)) => crossed
OpensOwnFile == fil.name \in {"wb", "temp"}
OrigKept ==
  (orig # NoEntry /\ ~crossed) =>
     /\ data[orig] = 0
     /\ fil.chain # orig
     /\ Safe(dir)
     /\ Safe(card)

Kept == SharingNoted /\ OpensOwnFile /\ OrigKept

\* path is removed only after f_stat has found a backup.
BackupFound == pc = "remove" => dir["backup"] # NoEntry

IInv == TypeInv /\ Kept /\ BackupFound

\* Two names of one chain are noted by every call that notes sharing at all.
LEMMA SharingStaysNoted ==
  ASSUME NoteSharing
  PROVE  SharingNoted' /\ (~crossed' => ~crossed /\ ~Shared(dir') /\ ~Shared(card'))
  BY DEF NoteSharing, SharingNoted, Shared

\* The original is a chain, and not one that is free.
LEMMA OrigIsChain ==
  ASSUME TypeOK, orig # NoEntry
  PROVE  orig \in Chain /\ orig # Empty /\ 0 # Free /\ 0 # Partial
  BY VolumeAssumption DEF TypeOK, Version

\* f_stat keeps the original.
LEMMA StatKeeps ==
  ASSUME TypeOK, Kept, NEW n \in Name, NEW ok \in BOOLEAN, f_stat(n, ok),
         orig' = orig
  PROVE  Kept'
  <1>1. SharingNoted' /\ OpensOwnFile'
    BY SharingStaysNoted DEF f_stat, Kept, OpensOwnFile
  <1>2. OrigKept'
    BY SharingStaysNoted DEF f_stat, NoChange, Kept, OrigKept, Safe
  <1> QED
    BY <1>1, <1>2 DEF Kept

\* f_open of the temporary or the warmboot file keeps the original: neither
\* leads to it, so truncating them cannot release it.
LEMMA OpenKeeps ==
  ASSUME TypeOK, Kept, NEW n \in {"wb", "temp"}, NEW ok \in BOOLEAN,
         f_open(n, ok), orig' = orig
  PROVE  Kept'
  <1>1. SharingNoted' /\ OpensOwnFile'
    BY SharingStaysNoted DEF f_open, OpensOwnFile
  <1>2. ASSUME orig # NoEntry, ~crossed'
        PROVE  data'[orig] = 0 /\ fil'.chain # orig /\ Safe(dir)' /\ Safe(card)'
    <2> DEFINE opened == [dir EXCEPT ![n] = Empty]
    <2>1. data[orig] = 0 /\ Safe(dir) /\ Safe(card)
      BY <1>2, SharingStaysNoted DEF f_open, Kept, OrigKept
    <2>2. fil'.chain # orig
      BY <1>2, OrigIsChain DEF f_open
    <2>3. dir[n] # orig
      BY <2>1 DEF Safe
    <2>4. data'[orig] = 0
      BY <1>2, <2>1, <2>3, OrigIsChain
         DEF f_open, NoChange, StoppedAt, Synced, Released
    <2>5. /\ opened["temp"] # orig /\ opened["wb"] # orig
          /\ opened["backup"] = dir["backup"] /\ opened["path"] = dir["path"]
      BY <1>2, <2>1, OrigIsChain
         DEF Safe, TypeOK, VolumeTypeOK, Directory, Name
    <2> HIDE DEF opened
    <2>6. dir' \in {dir, opened} /\ card' \in {card, dir, opened}
      BY DEF f_open, NoChange, StoppedAt, Synced, opened
    <2>7. Safe(dir)' /\ Safe(card)'
      BY <2>1, <2>5, <2>6 DEF Safe
    <2> QED
      BY <2>2, <2>4, <2>7
  <1> QED
    BY <1>1, <1>2 DEF Kept, OrigKept

\* f_write keeps the original: it writes to the file's own chain or to a free
\* one.
LEMMA WriteKeeps ==
  ASSUME TypeOK, Kept, NEW ok \in BOOLEAN, f_write(ok), orig' = orig
  PROVE  Kept'
  <1>1. PICK c \in Chain \cup {Empty} :
           /\ IF fil.chain \in Chain THEN c = fil.chain
                                     ELSE c \in Chain => data[c] = Free
           /\ fil' = [fil EXCEPT !.chain = c, !.parts = IF ok THEN @ + 1 ELSE @]
           /\ data' = [d \in Chain |-> IF d = c THEN Partial ELSE data[d]]
    BY DEF f_write
  <1>2. fil'.chain = c /\ fil'.name = fil.name
    BY <1>1 DEF TypeOK, VolumeTypeOK, File
  <1>3. SharingNoted' /\ OpensOwnFile'
    BY <1>2, SharingStaysNoted DEF f_write, Kept, OpensOwnFile
  <1>4. ASSUME orig # NoEntry, ~crossed'
        PROVE  data'[orig] = 0 /\ fil'.chain # orig /\ Safe(dir)' /\ Safe(card)'
    <2>1. data[orig] = 0 /\ fil.chain # orig /\ Safe(dir) /\ Safe(card)
      BY <1>4, SharingStaysNoted DEF f_write, Kept, OrigKept
    <2>2. c # orig
      BY <1>1, <1>4, <2>1, OrigIsChain
    <2> QED
      BY <1>1, <1>2, <1>4, <2>1, <2>2, OrigIsChain DEF f_write, Safe
  <1> QED
    BY <1>3, <1>4 DEF Kept, OrigKept

\* f_close keeps the original: the entry it completes is the file's own.
LEMMA CloseKeeps ==
  ASSUME TypeOK, Kept, NEW v, NEW total, NEW ok \in BOOLEAN,
         f_close(v, total, ok), orig' = orig
  PROVE  Kept'
  <1>1. fil'.chain = fil.chain /\ fil'.name = fil.name
    BY DEF f_close, TypeOK, VolumeTypeOK, File
  <1>2. SharingNoted' /\ OpensOwnFile'
    BY <1>1, SharingStaysNoted DEF f_close, Kept, OpensOwnFile
  <1>3. ASSUME orig # NoEntry, ~crossed'
        PROVE  data'[orig] = 0 /\ fil'.chain # orig /\ Safe(dir)' /\ Safe(card)'
    <2> DEFINE closed == [dir EXCEPT ![fil.name] = fil.chain]
    <2>1. data[orig] = 0 /\ fil.chain # orig /\ Safe(dir) /\ Safe(card)
      BY <1>3, SharingStaysNoted DEF f_close, Kept, OrigKept
    <2>2. data'[orig] = 0
      BY <1>3, <2>1, OrigIsChain DEF f_close, NoChange
    <2>3. /\ closed["temp"] # orig /\ closed["wb"] # orig
          /\ closed["backup"] = dir["backup"] /\ closed["path"] = dir["path"]
      BY <2>1 DEF Kept, OpensOwnFile, Safe, TypeOK, VolumeTypeOK, Directory, Name
    <2> HIDE DEF closed
    <2>4. dir' \in {dir, closed} /\ card' \in {card, dir, closed}
      BY DEF f_close, NoChange, StoppedAt, Synced, closed
    <2>5. Safe(dir)' /\ Safe(card)'
      BY <2>1, <2>3, <2>4 DEF Safe
    <2> QED
      BY <1>1, <2>1, <2>2, <2>5
  <1> QED
    BY <1>2, <1>3 DEF Kept, OrigKept

\* f_unlink keeps the original, when path is only removed with a backup there.
LEMMA UnlinkKeeps ==
  ASSUME TypeOK, Kept, NEW n \in {"temp", "path"}, NEW ok \in BOOLEAN,
         f_unlink(n, ok), orig' = orig,
         n = "path" => dir["backup"] # NoEntry
  PROVE  Kept'
  <1>1. SharingNoted' /\ OpensOwnFile'
    BY SharingStaysNoted DEF f_unlink, Kept, OpensOwnFile
  <1>2. ASSUME orig # NoEntry, ~crossed'
        PROVE  data'[orig] = 0 /\ fil'.chain # orig /\ Safe(dir)' /\ Safe(card)'
    <2> DEFINE removed == [dir EXCEPT ![n] = NoEntry]
    <2>1. /\ data[orig] = 0 /\ fil.chain # orig /\ Safe(dir) /\ Safe(card)
          /\ ~crossed
      BY <1>2, SharingStaysNoted DEF f_unlink, Kept, OrigKept
    <2>2. ~Shared(dir)
      BY <2>1 DEF Kept, SharingNoted
    <2>3. dir[n] # orig
      BY <1>2, <2>1, <2>2, OrigIsChain DEF Safe, Shared, Name
    <2>4. data'[orig] = 0
      BY <1>2, <2>1, <2>3, OrigIsChain DEF f_unlink, NoChange, Released
    <2>5. Safe(removed)
      BY <1>2, <2>1, <2>3 DEF Safe, TypeOK, VolumeTypeOK, Directory, Name
    <2> HIDE DEF removed
    <2>6. dir' \in {dir, removed} /\ card' \in {card, dir, removed}
      BY DEF f_unlink, NoChange, StoppedAt, Synced, removed
    <2>7. Safe(dir)' /\ Safe(card)'
      BY <2>1, <2>5, <2>6 DEF Safe
    <2> QED
      BY <2>1, <2>4, <2>7 DEF f_unlink
  <1> QED
    BY <1>1, <1>2 DEF Kept, OrigKept

\* The three renames of save_sc7exit_to_sd.
Renames == {<<"path", "backup">>, <<"temp", "path">>, <<"backup", "path">>}

\* f_rename keeps the original unless it is interrupted in its critical
\* section: a name in use is refused, so the original is moved, never replaced.
LEMMA RenameKeeps ==
  ASSUME TypeOK, Kept, NEW old \in Name, NEW new \in Name,
         <<old, new>> \in Renames, NEW ok \in BOOLEAN,
         f_rename(old, new, ok), orig' = orig
  PROVE  Kept'
  <1>1. SharingNoted' /\ OpensOwnFile'
    BY SharingStaysNoted DEF f_rename, Kept, OpensOwnFile
  <1>2. ASSUME orig # NoEntry, ~crossed'
        PROVE  data'[orig] = 0 /\ fil'.chain # orig /\ Safe(dir)' /\ Safe(card)'
    <2> DEFINE both    == [dir EXCEPT ![new] = dir[old]]
               renamed == [both EXCEPT ![old] = NoEntry]
    <2>1. /\ data[orig] = 0 /\ fil.chain # orig /\ Safe(dir) /\ Safe(card)
      BY <1>2, SharingStaysNoted DEF f_rename, Kept, OrigKept
    <2>2. data' = data /\ fil' = fil
      BY DEF f_rename, NoChange
    <2>3. CASE dir[old] # NoEntry /\ dir[new] = NoEntry
      <3>1. Safe(renamed)
        BY <1>2, <2>1, <2>3
           DEF Renames, Safe, TypeOK, VolumeTypeOK, Directory, Name
      <3>2. both = dir \/ both = renamed \/ Safe(both) \/ Shared(both)
        <4>1. CASE dir[old] = orig
          BY <1>2, <2>3, <4>1, OrigIsChain
             DEF Shared, TypeOK, VolumeTypeOK, Directory, Name
        <4>2. CASE dir[old] # orig
          BY <1>2, <2>1, <2>3, <4>2
             DEF Renames, Safe, TypeOK, VolumeTypeOK, Directory, Name
        <4> QED
          BY <4>1, <4>2
      <3> HIDE DEF both, renamed
      <3>3. dir' \in {dir, both, renamed} /\ card' \in {card, dir, both, renamed}
        BY DEF f_rename, NoChange, StoppedAt, Synced, both, renamed
      <3>4. ~Shared(dir') /\ ~Shared(card')
        BY <1>2, SharingStaysNoted DEF f_rename
      <3>5. dir' \in {dir, renamed} \/ Safe(dir')
        BY <3>2, <3>3, <3>4
      <3>6. card' \in {card, dir, renamed} \/ Safe(card')
        BY <3>2, <3>3, <3>4
      <3>7. Safe(dir)' /\ Safe(card)'
        BY <2>1, <3>1, <3>5, <3>6 DEF Safe
      <3> QED
        BY <2>1, <2>2, <3>7
    <2>4. CASE ~(dir[old] # NoEntry /\ dir[new] = NoEntry)
      <3>1. dir' = dir /\ card' \in {card, dir}
        BY <2>4 DEF f_rename, NoChange
      <3> QED
        BY <2>1, <2>2, <3>1 DEF Safe
    <2> QED
      BY <2>3, <2>4
  <1> QED
    BY <1>1, <1>2 DEF Kept, OrigKept

\* A power loss keeps the original: it is safe on the card, and only the chain
\* of the file being written can be given back.
LEMMA PowerKeeps ==
  ASSUME TypeOK, Kept, PowerLost, orig' = orig
  PROVE  Kept'
  <1>1. SharingNoted' /\ OpensOwnFile'
    BY SharingStaysNoted DEF PowerLost, OpensOwnFile, NoFile
  <1>2. ASSUME orig # NoEntry, ~crossed'
        PROVE  data'[orig] = 0 /\ fil'.chain # orig /\ Safe(dir)' /\ Safe(card)'
    <2>1. data[orig] = 0 /\ fil.chain # orig /\ Safe(dir) /\ Safe(card)
      BY <1>2, SharingStaysNoted DEF PowerLost, Kept, OrigKept
    <2>2. data'[orig] = 0
      BY <1>2, <2>1, OrigIsChain DEF PowerLost, Released
    <2>3. fil'.chain # orig
      BY <1>2, OrigIsChain DEF PowerLost, NoFile
    <2> QED
      BY <2>1, <2>2, <2>3 DEF PowerLost, Safe
  <1> QED
    BY <1>1, <1>2 DEF Kept, OrigKept

\* The card as the user inserts it satisfies the inductive invariant.
LEMMA InitSafe == Init => IInv
  <1> SUFFICES ASSUME Init PROVE IInv
    OBVIOUS
  <1>1. SharingNoted
    BY VolumeAssumption DEF Init, SharingNoted, Shared, Name
  <1>2. OpensOwnFile /\ BackupFound
    BY DEF Init, OpensOwnFile, NoFile, BackupFound
  <1>3. OrigKept
    BY VolumeAssumption DEF Init, OrigKept, Safe, NoFile, Name
  <1> QED
    BY <1>1, <1>2, <1>3, InitType DEF IInv, Kept

\* Every step keeps the inductive invariant: f_stat of the backup is followed
\* by the removal of path with nothing in between.
LEMMA NextSafe == IInv /\ [Next]_vars => IInv'
  <1> SUFFICES ASSUME IInv, [Next]_vars PROVE IInv'
    OBVIOUS
  <1>0. TypeInv' /\ TypeOK /\ Kept /\ BackupFound
    BY NextType DEF IInv, TypeInv
  <1>n. Name = {"wb", "path", "backup", "temp"}
    BY DEF Name
  <1>1. CASE Start
    BY <1>0, <1>1
       DEF Start, volume, IInv, Kept, SharingNoted, Shared, OpensOwnFile,
           OrigKept, Safe, BackupFound
  <1>2. CASE WbOpen \/ Open
    <2>1. Kept'
      BY <1>0, <1>2, OpenKeeps DEF WbOpen, Open
    <2> QED
      BY <1>0, <1>2, <2>1 DEF IInv, WbOpen, Open, BackupFound
  <1>3. CASE WbWrite \/ Write
    <2>1. Kept'
      BY <1>0, <1>3, WriteKeeps DEF WbWrite, Write
    <2> QED
      BY <1>0, <1>3, <2>1 DEF IInv, WbWrite, Write, BackupFound
  <1>4. CASE WbClose \/ Close
    <2>1. Kept'
      BY <1>0, <1>4, CloseKeeps DEF WbClose, Close
    <2> QED
      BY <1>0, <1>4, <2>1 DEF IInv, WbClose, Close, BackupFound
  <1>5. CASE Discard
    <2>1. Kept'
      BY <1>0, <1>5, UnlinkKeeps DEF Discard
    <2> QED
      BY <1>0, <1>5, <2>1 DEF IInv, Discard, BackupFound
  <1>6. CASE StatPath \/ StatAgain
    <2>1. Kept'
      BY <1>0, <1>6, <1>n, StatKeeps DEF StatPath, StatAgain
    <2> QED
      BY <1>0, <1>6, <2>1 DEF IInv, StatPath, StatAgain, BackupFound
  <1>7. CASE StatBackup
    <2>1. Kept'
      BY <1>0, <1>7, <1>n, StatKeeps DEF StatBackup
    <2>2. BackupFound'
      BY <1>7 DEF StatBackup, f_stat, NoChange, BackupFound
    <2> QED
      BY <1>0, <2>1, <2>2 DEF IInv
  <1>8. CASE Preserve \/ Install \/ Restore
    <2>1. Kept'
      BY <1>0, <1>8, <1>n, RenameKeeps DEF Preserve, Install, Restore, Renames
    <2> QED
      BY <1>0, <1>8, <2>1 DEF IInv, Preserve, Install, Restore, BackupFound
  <1>9. CASE Remove
    <2>1. Kept'
      BY <1>0, <1>9, UnlinkKeeps DEF Remove, BackupFound
    <2> QED
      BY <1>0, <1>9, <2>1 DEF IInv, Remove, BackupFound
  <1>10. CASE PowerOff
    <2>1. Kept'
      BY <1>0, <1>10, PowerKeeps DEF PowerOff
    <2> QED
      BY <1>0, <1>10, <2>1 DEF IInv, PowerOff, BackupFound
  <1>11. CASE UNCHANGED vars
    BY <1>0, <1>11
       DEF vars, IInv, Kept, SharingNoted, Shared, OpensOwnFile, OrigKept, Safe,
           BackupFound
  <1> QED
    BY <1>1, <1>2, <1>3, <1>4, <1>5, <1>6, <1>7, <1>8, <1>9, <1>10, <1>11
       DEF Next, SaveStep, Finished

\* README "the first replacement preserves it": at every moment, in RAM and on
\* the card, the original sc7exit file is complete under its name or as the
\* backup, unless f_rename was interrupted in its critical section.
THEOREM OriginalNeverLost == Spec => []OriginalSurvives
  <1>1. IInv => OriginalSurvives
    BY DEF IInv, Kept, OrigKept, Safe, OriginalSurvives, HoldsOriginal
  <1> QED
    BY InitSafe, NextSafe, <1>1, PTL DEF Spec

-----------------------------------------------------------------------------
Writing    == {"wb_write", "wb_close", "write", "close"}
Installing == {"stat_path", "stat_backup", "preserve", "remove", "install"}

\* What each file call relies on in a type-correct volume.
LEMMA Ready ==
  ASSUME IInv
  PROVE  /\ dir \in Directory /\ card \in Directory /\ data \in [Chain -> Content]
         /\ fil \in File /\ boot \in Version /\ fil.name \in {"wb", "temp"}
         /\ ~crossed => ~Shared(dir) /\ ~Shared(card)
         /\ crossed \in BOOLEAN /\ torn \in SUBSET (Chain \cup {Empty})
BY VolumeAssumption
DEF IInv, TypeInv, TypeOK, VolumeTypeOK, Version, Kept, SharingNoted, OpensOwnFile

-----------------------------------------------------------------------------
\* An installed file is not written to

\* No name leads to clusters that are free, or to those of a file being written.
Named(d) == \A n \in Name : d[n] \in Chain => data[d[n]] # Free
Apart(d) == \A n \in Name : d[n] \in Chain => d[n] # fil.chain

NamesHold == ~crossed => /\ Named(dir) /\ Named(card)
                         /\ pc \in Writing => Apart(dir) /\ Apart(card)

NInv == IInv /\ NamesHold

\* What a call does to the installed file.
Unwritten == (card["path"] \in Chain /\ card'["path"] = card["path"])
               => data'[card["path"]] = data[card["path"]]

\* A call that leaves the contents alone.
LEMMA SameContents ==
  ASSUME data' = data, Named(dir'), Named(card')
  PROVE  (Named(dir) /\ Named(card))' /\ Unwritten
BY DEF Named, Unwritten

\* f_open
LEMMA OpenNames ==
  ASSUME NInv, NEW n \in {"wb", "temp"}, NEW ok \in BOOLEAN, f_open(n, ok), ~crossed'
  PROVE  (Named(dir) /\ Named(card))' /\ Unwritten
<1> DEFINE opened == [dir EXCEPT ![n] = Empty]
<1>1. ~Shared(dir) /\ Named(dir) /\ Named(card)
  BY Ready DEF f_open, NoteSharing, NInv, NamesHold
<1>2. n \in Name /\ "path" \in Name /\ \A m \in Name : opened[m] = IF m = n THEN Empty ELSE dir[m]
  BY Ready DEF NInv, Directory, Name
<1>3. CASE dir' = opened /\ card' = opened /\ data' = Released(dir[n])
  <2>1. \A m \in Name : m # n /\ dir[m] \in Chain => dir[m] # dir[n]
    BY <1>1, <1>2 DEF Shared
  <2>2. \A m \in Name : opened[m] \in Chain => data'[opened[m]] = data[opened[m]] /\ data[opened[m]] # Free
    BY <1>1, <1>2, <1>3, <2>1, VolumeAssumption DEF Named, Released
  <2> QED
    BY <1>2, <1>3, <2>2 DEF Named, Unwritten
<1>4. CASE dir' \in {dir, opened} /\ card' \in {card, dir, opened} /\ data' = data
  <2>1. \A d \in {card, dir, opened} : Named(d)
    BY <1>1, <1>2, VolumeAssumption DEF Named
  <2> HIDE DEF opened
  <2>2. Named(dir') /\ Named(card')
    BY <1>4, <2>1
  <2> QED
    BY <1>4, <2>2, SameContents
<1> QED
  BY <1>3, <1>4 DEF f_open, NoChange, StoppedAt, Synced

\* f_write
LEMMA WriteNames ==
  ASSUME NInv, pc \in Writing, NEW ok \in BOOLEAN, f_write(ok), ~crossed'
  PROVE  (Named(dir) /\ Named(card) /\ Apart(dir) /\ Apart(card))' /\ Unwritten
<1>1. Named(dir) /\ Named(card) /\ Apart(dir) /\ Apart(card)
  BY DEF f_write, NoteSharing, NInv, NamesHold
<1>2. PICK c \in Chain \cup {Empty} :
        /\ IF fil.chain \in Chain THEN c = fil.chain ELSE c \in Chain => data[c] = Free
        /\ fil' = [fil EXCEPT !.chain = c, !.parts = IF ok THEN @ + 1 ELSE @]
        /\ data' = [d \in Chain |-> IF d = c THEN Partial ELSE data[d]]
  BY DEF f_write
<1>3. fil'.chain = c
  BY <1>2, Ready DEF NInv, File
<1>4. \A d \in {dir, card} : \A n \in Name : d[n] \in Chain => d[n] # c
  BY <1>1, <1>2 DEF Named, Apart
<1>5. \A d \in Chain : d # c => data'[d] = data[d]
  BY <1>2
<1>6. dir' = dir /\ card' \in {card, dir} /\ "path" \in Name
  BY DEF f_write, Name
<1> QED
  BY <1>1, <1>3, <1>4, <1>5, <1>6 DEF Named, Apart, Unwritten

\* f_close
LEMMA CloseNames ==
  ASSUME NInv, pc \in Writing, NEW v \in Version, NEW total, NEW ok \in BOOLEAN,
         f_close(v, total, ok), ~crossed'
  PROVE  (Named(dir) /\ Named(card))' /\ Unwritten
<1> DEFINE closed == [dir EXCEPT ![fil.name] = fil.chain]
<1>1. Named(dir) /\ Named(card) /\ Apart(dir) /\ Apart(card)
  BY DEF f_close, NoteSharing, NInv, NamesHold
<1>2. CASE NoChange
  <2>1. Named(dir') /\ Named(card') /\ data' = data
    BY <1>1, <1>2 DEF NoChange
  <2> QED
    BY <2>1, SameContents
<1>3. CASE \E w \in Version \cup {Partial} :
             data' = [c \in Chain |-> IF c = fil.chain THEN w ELSE data[c]]
  <2>1. PICK w \in Version \cup {Partial} :
             data' = [c \in Chain |-> IF c = fil.chain THEN w ELSE data[c]]
    BY <1>3
  <2>2. \A c \in Chain : data'[c] = IF c = fil.chain THEN w ELSE data[c]
    BY <2>1
  <2>3. w # Free
    BY VolumeAssumption
  <2>4. \A m \in Name : closed[m] = IF m = fil.name THEN fil.chain ELSE dir[m]
    BY Ready DEF NInv, Directory, Name
  <2>5. \A d \in {card, dir, closed} : \A m \in Name : d[m] \in Chain => data'[d[m]] # Free
    BY <1>1, <2>2, <2>3, <2>4, ZenonT(60) DEF Named, Apart
  <2>6. card["path"] \in Chain => data'[card["path"]] = data[card["path"]]
    BY <1>1, <2>2 DEF Apart, Name
  <2> HIDE DEF closed
  <2>7. dir' \in {card, dir, closed} /\ card' \in {card, dir, closed}
    BY DEF f_close, NoChange, StoppedAt, Synced, closed
  <2> QED
    BY <2>5, <2>6, <2>7 DEF Named, Unwritten
<1> QED
  BY <1>2, <1>3 DEF f_close

\* f_unlink
LEMMA UnlinkNames ==
  ASSUME NInv, NEW n \in {"temp", "path"}, NEW ok \in BOOLEAN, f_unlink(n, ok), ~crossed'
  PROVE  (Named(dir) /\ Named(card))' /\ Unwritten
<1> DEFINE removed == [dir EXCEPT ![n] = NoEntry]
<1>1. ~Shared(dir) /\ Named(dir) /\ Named(card)
  BY Ready DEF f_unlink, NoteSharing, NInv, NamesHold
<1>2. n \in Name /\ "path" \in Name /\ \A m \in Name : removed[m] = IF m = n THEN NoEntry ELSE dir[m]
  BY Ready DEF NInv, Directory, Name
<1>3. CASE dir' = removed /\ card' = removed /\ data' = Released(dir[n])
  <2>1. \A m \in Name : m # n /\ dir[m] \in Chain => dir[m] # dir[n]
    BY <1>1, <1>2 DEF Shared
  <2>2. \A m \in Name : removed[m] \in Chain => data'[removed[m]] = data[removed[m]] /\ data[removed[m]] # Free
    BY <1>1, <1>2, <1>3, <2>1, VolumeAssumption DEF Named, Released
  <2> QED
    BY <1>2, <1>3, <2>2 DEF Named, Unwritten
<1>4. CASE dir' \in {dir, removed} /\ card' \in {card, dir, removed} /\ data' = data
  <2>1. \A d \in {card, dir, removed} : Named(d)
    BY <1>1, <1>2, VolumeAssumption DEF Named
  <2> HIDE DEF removed
  <2>2. Named(dir') /\ Named(card')
    BY <1>4, <2>1
  <2> QED
    BY <1>4, <2>2, SameContents
<1> QED
  BY <1>3, <1>4 DEF f_unlink, NoChange, StoppedAt, Synced

\* f_rename
LEMMA RenameNames ==
  ASSUME NInv, NEW old \in Name, NEW new \in Name, NEW ok \in BOOLEAN,
         f_rename(old, new, ok), ~crossed'
  PROVE  (Named(dir) /\ Named(card))' /\ Unwritten
<1> DEFINE both    == [dir EXCEPT ![new] = dir[old]]
           renamed == [both EXCEPT ![old] = NoEntry]
<1>1. Named(dir) /\ Named(card)
  BY DEF f_rename, NoteSharing, NInv, NamesHold
<1>2. \A d \in {card, dir, both, renamed} : Named(d)
  BY <1>1, Ready, VolumeAssumption DEF NInv, Named, Directory
<1> HIDE DEF both, renamed
<1>3. data' = data /\ dir' \in {card, dir, both, renamed} /\ card' \in {card, dir, both, renamed}
  BY DEF f_rename, NoChange, StoppedAt, Synced, both, renamed
<1>4. Named(dir') /\ Named(card')
  BY <1>2, <1>3
<1> QED
  BY <1>3, <1>4, SameContents

\* A power loss
LEMMA PowerNames ==
  ASSUME NInv, PowerLost, ~crossed'
  PROVE  (Named(dir) /\ Named(card))' /\ Unwritten
<1>1. Named(card)
  BY DEF PowerLost, NoteSharing, NInv, NamesHold
<1>2. \A n \in Name : card[n] \in Chain => data'[card[n]] = data[card[n]]
  BY DEF PowerLost, Released
<1> QED
  BY <1>1, <1>2 DEF PowerLost, Named, Unwritten, Name

\* f_stat
LEMMA StatNames ==
  ASSUME NInv, NEW n \in Name, NEW ok \in BOOLEAN, f_stat(n, ok), ~crossed'
  PROVE  (Named(dir) /\ Named(card))' /\ Unwritten
<1>1. Named(dir) /\ Named(card)
  BY DEF f_stat, NoteSharing, NInv, NamesHold
<1>2. Named(dir') /\ Named(card') /\ data' = data
  BY <1>1 DEF f_stat, NoChange
<1> QED
  BY <1>2, SameContents

\* Each step
LEMMA NextNames == NInv /\ [Next]_vars => NInv' /\ (~crossed' => Unwritten)
<1> SUFFICES ASSUME NInv, [Next]_vars PROVE NamesHold' /\ (~crossed' => Unwritten)
  BY NextSafe DEF NInv
<1>n. Name = {"wb", "path", "backup", "temp"}
  BY DEF Name
<1>1. CASE Start \/ UNCHANGED vars
  BY <1>1 DEF Start, volume, vars, Writing, NInv, NamesHold, Named, Apart, Unwritten
<1>2. CASE WbOpen \/ Open
  <2>1. PICK n \in {"wb", "temp"}, ok \in BOOLEAN : f_open(n, ok)
    BY <1>2 DEF WbOpen, Open
  <2>2. Apart(dir)' /\ Apart(card)'
    BY <2>1, VolumeAssumption DEF f_open, Apart
  <2> QED
    BY <2>1, <2>2, OpenNames DEF NamesHold
<1>3. CASE WbWrite \/ Write
  BY <1>3, WriteNames DEF WbWrite, Write, Writing, NamesHold
<1>4. CASE WbClose \/ Close
  <2>1. PICK total \in {1, Parts}, ok \in BOOLEAN : f_close(boot, total, ok)
    BY <1>4 DEF WbClose, Close
  <2>2. pc \in Writing /\ pc' \notin Writing
    BY <1>4 DEF WbClose, Close, Writing
  <2> QED
    BY <2>1, <2>2, CloseNames, Ready DEF NamesHold, NInv
<1>5. CASE StatPath \/ StatBackup \/ StatAgain
  <2>1. pc' \notin Writing
    BY <1>5 DEF StatPath, StatBackup, StatAgain, Writing
  <2> QED
    BY <1>5, <1>n, <2>1, StatNames DEF StatPath, StatBackup, StatAgain, NamesHold
<1>6. CASE Discard \/ Remove
  <2>1. pc' \notin Writing
    BY <1>6 DEF Discard, Remove, Writing
  <2> QED
    BY <1>6, <2>1, UnlinkNames DEF Discard, Remove, NamesHold
<1>7. CASE Preserve \/ Install \/ Restore
  <2>1. pc' \notin Writing
    BY <1>7 DEF Preserve, Install, Restore, Writing
  <2> QED
    BY <1>7, <1>n, <2>1, RenameNames DEF Preserve, Install, Restore, NamesHold
<1>8. CASE PowerOff
  BY <1>8, PowerNames DEF PowerOff, Writing, NamesHold
<1> QED
  BY <1>1, <1>2, <1>3, <1>4, <1>5, <1>6, <1>7, <1>8 DEF Next, SaveStep, Finished

LEMMA InitNames == Init => NInv
  BY InitSafe, VolumeAssumption
  DEF NInv, NamesHold, Named, Writing, Init, Name, Version

\* While a name on the card leads to a file, no call of the save routines, and no power
\* loss, changes that file: they write elsewhere and rename.
THEOREM NeverOverwritten == Spec => InstalledIsNotOverwritten
<1>1. Init => NInv
  BY InitNames
<1>2. NInv /\ [Next]_vars => NInv'
  BY NextNames
<1>3. NInv /\ [Next]_vars =>
        [(card["path"] \in Chain /\ card'["path"] = card["path"] /\ ~crossed')
           => data'[card["path"]] = data[card["path"]]]_vars
  BY NextNames DEF Unwritten
<1> QED
  BY <1>1, <1>2, <1>3, PTL DEF Spec, InstalledIsNotOverwritten

-----------------------------------------------------------------------------
\* What is installed is complete

\* The file under path, and the backup that may be put back there, are complete,
\* unless their own close has failed.
Whole(d) == \A n \in {"path", "backup"} : d[n] \notin torn \cup {NoEntry} => WholeIn(d, n)

InstalledWhole == ~crossed => Whole(dir) /\ Whole(card)

\* A file that is being written has a chain of its own: what it has is Partial.
OwnChain ==
  /\ pc \in Writing => fil.closed = "open" /\ (fil.chain \in Chain => data[fil.chain] = Partial)
  /\ pc \in {"write", "close"} => fil.name = "temp" /\ dir["temp"] = Empty
  /\ pc = "close" /\ success => fil.parts = Parts /\ fil.chain \in Chain

\* A file that is about to be installed is complete, unless its close has failed.
TempComplete ==
  pc \in Installing =>
    /\ fil.closed # "ok" => dir["temp"] \in torn
    /\ fil.closed = "ok" /\ ~crossed => dir["temp"] \in Chain /\ data[dir["temp"]] = boot

SavedLast == "path" \in saved => pc = "done"

\* The inductive invariant.
SInv == /\ NInv /\ InstalledWhole /\ OwnChain /\ TempComplete
        /\ SavedLast /\ SavedIsInstalled

LEMMA ReadyToSave ==
  ASSUME SInv
  PROVE  /\ dir \in Directory /\ card \in Directory /\ data \in [Chain -> Content]
         /\ fil \in File /\ boot \in Version /\ fil.name \in {"wb", "temp"}
         /\ ~crossed => ~Shared(dir) /\ ~Shared(card)
         /\ crossed \in BOOLEAN /\ torn \in SUBSET (Chain \cup {Empty})
BY Ready DEF SInv, NInv

\* Contents and directories that did not change stay whole.
LEMMA StaysWhole ==
  ASSUME data' = data, torn' = torn, Whole(dir), Whole(card), dir' = dir, card' \in {card, dir}
  PROVE  (Whole(dir) /\ Whole(card))'
BY DEF Whole, WholeIn

\* f_stat
LEMMA StatWhole ==
  ASSUME SInv, NEW n \in Name, NEW ok \in BOOLEAN, f_stat(n, ok)
  PROVE  InstalledWhole'
<1>1. ASSUME ~crossed' PROVE (Whole(dir) /\ Whole(card))'
  <2>1. ~crossed
    BY <1>1 DEF f_stat, NoteSharing
  <2> QED
    BY <2>1, StaysWhole DEF f_stat, NoChange, SInv, InstalledWhole
<1> QED
  BY <1>1 DEF InstalledWhole

\* f_open of the temporary or the warmboot file releases a chain that no other
\* name leads to.
LEMMA OpenWhole ==
  ASSUME SInv, NEW n \in {"wb", "temp"}, NEW ok \in BOOLEAN, f_open(n, ok)
  PROVE  InstalledWhole'
<1>1. ASSUME ~crossed' PROVE (Whole(dir) /\ Whole(card))'
  <2> DEFINE opened == [dir EXCEPT ![n] = Empty]
  <2>0. torn' = torn
    BY DEF f_open
  <2>1. ~crossed /\ Whole(dir) /\ Whole(card) /\ ~Shared(dir)
    BY <1>1, ReadyToSave DEF f_open, NoteSharing, SInv, InstalledWhole
  <2>2. opened["path"] = dir["path"] /\ opened["backup"] = dir["backup"]
    BY ReadyToSave DEF Directory, Name
  <2>3. CASE dir' = opened /\ card' = opened /\ data' = Released(dir[n])
    <3>1. \A m \in {"path", "backup"} : dir[m] \in Chain => dir[m] # dir[n]
      BY <2>1 DEF Shared, Name
    <3>2. \A m \in {"path", "backup"} : dir[m] \notin torn \cup {NoEntry} =>
             data'[dir[m]] = data[dir[m]] /\ dir[m] \in Chain /\ data[dir[m]] \in Version
      BY <2>1, <2>3, <3>1 DEF Whole, WholeIn, Released
    <3> QED
      BY <2>0, <2>2, <2>3, <3>2 DEF Whole, WholeIn
  <2>4. CASE dir' \in {dir, opened} /\ card' \in {card, dir, opened} /\ data' = data
    BY <2>0, <2>1, <2>2, <2>4 DEF Whole, WholeIn
  <2> QED
    BY <2>3, <2>4 DEF f_open, NoChange, StoppedAt, Synced
<1> QED
  BY <1>1 DEF InstalledWhole

\* f_write uses the file's own chain, which is Partial, or a free one.
LEMMA WriteWhole ==
  ASSUME SInv, pc \in Writing, NEW ok \in BOOLEAN, f_write(ok)
  PROVE  InstalledWhole'
<1>1. ASSUME ~crossed' PROVE (Whole(dir) /\ Whole(card))'
  <2>1. ~crossed /\ Whole(dir) /\ Whole(card)
    BY <1>1 DEF f_write, NoteSharing, SInv, InstalledWhole
  <2>2. PICK c \in Chain \cup {Empty} :
          /\ IF fil.chain \in Chain THEN c = fil.chain ELSE c \in Chain => data[c] = Free
          /\ data' = [d \in Chain |-> IF d = c THEN Partial ELSE data[d]]
          /\ torn' = torn \ ({c} \cap Chain)
    BY DEF f_write
  <2>3. \A d \in {dir, card} : \A n \in Name : d[n] \in Chain => d[n] # c
    BY <2>1, <2>2 DEF SInv, NInv, NamesHold, Named, Apart
  <2>4. \A d \in Chain : d # c => data'[d] = data[d]
    BY <2>2
  <2>5. \A d \in {dir, card} : \A n \in {"path", "backup"} :
          d[n] \notin torn' \cup {NoEntry} => d[n] \in Chain /\ data'[d[n]] \in Version
    <3> SUFFICES ASSUME NEW d \in {dir, card}, NEW n \in {"path", "backup"},
                        d[n] \notin torn' \cup {NoEntry}
                 PROVE  d[n] \in Chain /\ data'[d[n]] \in Version
      OBVIOUS
    <3>1. d[n] \notin torn
      BY <2>2, <2>3 DEF Name
    <3>2. d[n] \in Chain /\ data[d[n]] \in Version
      BY <2>1, <3>1 DEF Whole, WholeIn
    <3> QED
      BY <2>3, <2>4, <3>2 DEF Name
  <2>6. dir' \in {dir, card} /\ card' \in {dir, card}
    BY DEF f_write
  <2> QED
    BY <2>5, <2>6 DEF Whole, WholeIn
<1> QED
  BY <1>1 DEF InstalledWhole

\* f_close completes an entry that is not installed.
LEMMA CloseWhole ==
  ASSUME SInv, pc \in Writing, NEW v, NEW total, NEW ok \in BOOLEAN, f_close(v, total, ok)
  PROVE  InstalledWhole'
<1>1. ASSUME ~crossed' PROVE (Whole(dir) /\ Whole(card))'
  <2> DEFINE closed == [dir EXCEPT ![fil.name] = fil.chain]
  <2>1. ~crossed /\ Whole(dir) /\ Whole(card)
    BY <1>1 DEF f_close, NoteSharing, SInv, InstalledWhole
  <2>2. closed["path"] = dir["path"] /\ closed["backup"] = dir["backup"]
    BY ReadyToSave DEF Directory, Name
  <2>3. \A d \in {dir, card} : \A n \in {"path", "backup"} : d[n] \in Chain => d[n] # fil.chain
    BY <2>1 DEF SInv, NInv, NamesHold, Apart, Name
  <2>4. \A d \in Chain : d # fil.chain => data'[d] = data[d]
    BY DEF f_close, NoChange
  <2>5. torn \subseteq torn'
    BY DEF f_close
  <2>6. \A d \in {dir, card, closed} : \A n \in {"path", "backup"} :
          d[n] \notin torn' \cup {NoEntry} => d[n] \in Chain /\ data'[d[n]] \in Version
    <3>1. \A d \in {dir, card} : \A n \in {"path", "backup"} :
            d[n] \notin torn' \cup {NoEntry} => d[n] \in Chain /\ data'[d[n]] \in Version
      BY <2>1, <2>3, <2>4, <2>5 DEF Whole, WholeIn
    <3> HIDE DEF closed
    <3> QED
      BY <2>2, <3>1
  <2>7. dir' \in {dir, card, closed} /\ card' \in {dir, card, closed}
    BY DEF f_close, NoChange, StoppedAt, Synced
  <2> HIDE DEF closed
  <2> QED
    BY <2>6, <2>7 DEF Whole, WholeIn
<1> QED
  BY <1>1 DEF InstalledWhole

\* f_unlink releases a chain that no other name leads to, once the entry is gone.
LEMMA UnlinkWhole ==
  ASSUME SInv, NEW n \in {"temp", "path"}, NEW ok \in BOOLEAN, f_unlink(n, ok)
  PROVE  InstalledWhole'
<1>1. ASSUME ~crossed' PROVE (Whole(dir) /\ Whole(card))'
  <2> DEFINE removed == [dir EXCEPT ![n] = NoEntry]
  <2>0. torn' = torn
    BY DEF f_unlink
  <2>1. ~crossed /\ Whole(dir) /\ Whole(card) /\ ~Shared(dir)
    BY <1>1, ReadyToSave DEF f_unlink, NoteSharing, SInv, InstalledWhole
  <2>2. \A m \in {"path", "backup"} : removed[m] = IF m = n THEN NoEntry ELSE dir[m]
    BY ReadyToSave DEF Directory, Name
  <2>3. CASE dir' = removed /\ card' = removed /\ data' = Released(dir[n])
    <3>1. \A m \in {"path", "backup"} : dir[m] \in Chain /\ m # n => dir[m] # dir[n]
      BY <2>1 DEF Shared, Name
    <3>2. \A m \in {"path", "backup"} : dir[m] \notin torn \cup {NoEntry} /\ m # n =>
             data'[dir[m]] = data[dir[m]] /\ dir[m] \in Chain /\ data[dir[m]] \in Version
      BY <2>1, <2>3, <3>1 DEF Whole, WholeIn, Released
    <3> QED
      BY <2>0, <2>2, <2>3, <3>2 DEF Whole, WholeIn
  <2>4. CASE dir' \in {dir, removed} /\ card' \in {card, dir, removed} /\ data' = data
    BY <2>0, <2>1, <2>2, <2>4 DEF Whole, WholeIn
  <2> QED
    BY <2>3, <2>4 DEF f_unlink, NoChange, StoppedAt, Synced
<1> QED
  BY <1>1 DEF InstalledWhole

\* f_rename gives path a complete file, in each of its stages.
LEMMA RenameWhole ==
  ASSUME SInv, NEW old \in Name, NEW new \in Name, <<old, new>> \in Renames,
         NEW ok \in BOOLEAN, f_rename(old, new, ok), old = "temp" => pc = "install"
  PROVE  InstalledWhole'
<1>1. ASSUME ~crossed' PROVE (Whole(dir) /\ Whole(card))'
  <2> DEFINE both    == [dir EXCEPT ![new] = dir[old]]
             renamed == [both EXCEPT ![old] = NoEntry]
  <2>1. ~crossed /\ Whole(dir) /\ Whole(card)
    BY <1>1 DEF f_rename, NoteSharing, SInv, InstalledWhole
  <2>2. dir[old] \notin torn \cup {NoEntry} => WholeIn(dir, old)
    <3>1. CASE old = "temp"
      BY <2>1, <3>1, ReadyToSave DEF WholeIn, SInv, TempComplete, Installing
    <3>2. CASE old # "temp"
      BY <2>1, <3>2 DEF Whole, Renames
    <3> QED
      BY <3>1, <3>2
  <2>3. Whole(both) /\ Whole(renamed)
    BY <2>1, <2>2, ReadyToSave DEF Whole, WholeIn, Directory, Name
  <2> HIDE DEF both, renamed
  <2>4. /\ data' = data /\ torn' = torn
        /\ \/ dir' = dir /\ card' \in {card, dir}
           \/ /\ dir[old] # NoEntry
              /\ dir' \in {dir, both, renamed} /\ card' \in {card, dir, both, renamed}
    BY DEF f_rename, NoChange, StoppedAt, Synced, both, renamed
  <2>5. \A d \in {dir, card} : Whole(d)
    BY <2>1
  <2>6. Whole(dir') /\ Whole(card')
    BY <2>3, <2>4, <2>5
  <2> QED
    BY <2>4, <2>6 DEF Whole, WholeIn
<1> QED
  BY <1>1 DEF InstalledWhole

\* A power loss gives back a chain that the card has no name for.
LEMMA PowerWhole ==
  ASSUME SInv, PowerLost
  PROVE  InstalledWhole'
<1>1. ASSUME ~crossed' PROVE (Whole(dir) /\ Whole(card))'
  <2>1. ~crossed /\ Whole(card)
    BY <1>1 DEF PowerLost, NoteSharing, SInv, InstalledWhole
  <2>2. \A n \in {"path", "backup"} : card[n] \in Chain => data'[card[n]] = data[card[n]]
    BY DEF PowerLost, Released, Name
  <2>3. torn' = torn /\ dir' = card /\ card' = card
    BY DEF PowerLost
  <2> QED
    BY <2>1, <2>2, <2>3 DEF Whole, WholeIn
<1> QED
  BY <1>1 DEF InstalledWhole

-----------------------------------------------------------------------------
\* The steps of the program

\* SavedIsInstalled has nothing to say before the last rename.
LEMMA NotSavedYet ==
  ASSUME "path" \notin saved'
  PROVE  SavedLast' /\ SavedIsInstalled'
BY DEF SavedLast, SavedIsInstalled

LEMMA StartOK == SInv /\ Start => (InstalledWhole /\ OwnChain /\ TempComplete)' /\ "path" \notin saved'
<1> SUFFICES ASSUME SInv, Start
             PROVE  (InstalledWhole /\ OwnChain /\ TempComplete)' /\ "path" \notin saved'
  OBVIOUS
<1>1. InstalledWhole'
  BY DEF Start, volume, SInv, InstalledWhole, Whole, WholeIn
<1> QED
  BY <1>1 DEF Start, OwnChain, TempComplete, Writing, Installing

\* The three opens: the file is new and has no chain.
LEMMA OpenStep ==
  ASSUME SInv, WbOpen \/ Open
  PROVE  (InstalledWhole /\ OwnChain /\ TempComplete)' /\ "path" \notin saved'
<1>1. PICK n \in {"wb", "temp"}, ok \in BOOLEAN :
        /\ f_open(n, ok) /\ saved' = saved
        /\ pc' \in {"wb_write", "write", "done"}
        /\ pc' = "write" => n = "temp"
        /\ pc' # "done" => ok
  <2>1. CASE WbOpen
    BY <2>1 DEF WbOpen
  <2>2. CASE Open
    BY <2>2 DEF Open
  <2> QED
    BY <2>1, <2>2
<1>2. InstalledWhole'
  BY <1>1, OpenWhole
<1>3. fil' = [name |-> n, chain |-> Empty, parts |-> 0,
              closed |-> IF ok THEN "open" ELSE "failed"]
  BY <1>1 DEF f_open
<1>4. OwnChain'
  <2>1. pc' = "write" => dir'["temp"] = Empty
    BY <1>1, ReadyToSave DEF f_open, Synced, StoppedAt, Directory, Name
  <2> QED
    BY <1>1, <1>3, <2>1, VolumeAssumption DEF OwnChain, Writing
<1>5. TempComplete'
  BY <1>1 DEF TempComplete, Installing
<1>6. "path" \notin saved'
  BY <1>1 DEF SInv, SavedLast, WbOpen, Open
<1> QED
  BY <1>2, <1>4, <1>5, <1>6

\* A write leaves a Partial chain, and ends when no part is missing or it failed.
LEMMA WriteStep ==
  ASSUME SInv, WbWrite \/ Write
  PROVE  (InstalledWhole /\ OwnChain /\ TempComplete)' /\ "path" \notin saved'
<1>1. PICK ok \in BOOLEAN :
        /\ f_write(ok) /\ saved' = saved /\ success' = ok
        /\ \/ pc = "wb_write" /\ pc' = "wb_close"
           \/ pc = "write" /\ pc' = IF ok /\ fil.parts + 1 < Parts THEN "write" ELSE "close"
  BY DEF WbWrite, Write
<1>2. pc \in Writing /\ pc' \in Writing /\ pc' \notin Installing
  BY <1>1 DEF Writing, Installing
<1>3. InstalledWhole'
  BY <1>1, <1>2, WriteWhole
<1>4. PICK c \in Chain \cup {Empty} :
        /\ ok => c \in Chain
        /\ fil' = [fil EXCEPT !.chain = c, !.parts = IF ok THEN @ + 1 ELSE @]
        /\ data' = [d \in Chain |-> IF d = c THEN Partial ELSE data[d]]
  BY <1>1 DEF f_write
<1>5. /\ fil'.chain = c /\ fil'.name = fil.name /\ fil'.closed = fil.closed
      /\ ok => fil'.parts = fil.parts + 1
  BY <1>4, ReadyToSave DEF File
<1>6. pc' = "close" /\ success' => fil'.parts = Parts /\ fil'.chain \in Chain
  <2>1. ASSUME pc' = "close", success' PROVE fil'.parts = Parts
    <3>1. pc = "write" /\ ok
      BY <1>1, <2>1
    <3>2. fil.parts \in 0 .. Parts /\ fil.parts < Parts /\ Parts \in Nat
      BY <3>1, ReadyToSave, VolumeAssumption
         DEF File, SInv, NInv, IInv, TypeInv, PartsLeft
    <3>3. ~(fil.parts + 1 < Parts)
      BY <1>1, <2>1, <3>1
    <3>4. fil.parts + 1 = Parts
      BY <3>2, <3>3
    <3> QED
      BY <1>5, <3>1, <3>4
  <2> QED
    BY <1>1, <1>4, <1>5, <2>1
<1>7. OwnChain'
  <2>1. pc' \in {"write", "close"} => fil'.name = "temp" /\ dir'["temp"] = Empty
    BY <1>1, <1>5 DEF f_write, SInv, OwnChain
  <2>2. fil'.closed = "open"
    BY <1>2, <1>5 DEF SInv, OwnChain
  <2>3. fil'.chain \in Chain => data'[fil'.chain] = Partial
    BY <1>4, <1>5
  <2> QED
    BY <1>6, <2>1, <2>2, <2>3 DEF OwnChain
<1>8. TempComplete'
  BY <1>2 DEF TempComplete
<1>9. "path" \notin saved'
  BY <1>1 DEF SInv, SavedLast
<1> QED
  BY <1>3, <1>7, <1>8, <1>9

\* The close of the temporary file completes it or is noted.
LEMMA CloseStep ==
  ASSUME SInv, WbClose \/ Close
  PROVE  (InstalledWhole /\ OwnChain /\ TempComplete)' /\ "path" \notin saved'
<1>1. CASE WbClose
  <2>1. InstalledWhole'
    BY <1>1, CloseWhole DEF WbClose, Writing
  <2>2. "path" \notin saved' /\ pc' \notin Writing /\ pc' \notin Installing
    BY <1>1 DEF WbClose, Writing, Installing
  <2> QED
    BY <2>1, <2>2 DEF OwnChain, TempComplete, Writing
<1>2. CASE Close
  <2>1. PICK ok \in BOOLEAN :
          /\ f_close(boot, Parts, ok) /\ pc = "close" /\ saved' = saved /\ boot' = boot
          /\ pc' = IF success THEN "stat_path" ELSE "discard"
    BY <1>2 DEF Close
  <2>2. InstalledWhole'
    BY <2>1, CloseWhole DEF Writing
  <2>3. "path" \notin saved' /\ pc' \notin Writing
    BY <2>1 DEF SInv, SavedLast, Writing
  <2>4. fil'.closed = (IF ok THEN "ok" ELSE "failed")
    BY <2>1, ReadyToSave DEF f_close, File
  <2>5. ASSUME pc' \in Installing, ok
        PROVE  dir'["temp"] \in Chain /\ data'[dir'["temp"]] = boot'
    <3>1. success /\ fil.parts = Parts /\ fil.chain \in Chain /\ fil.name = "temp"
      BY <2>1, <2>5 DEF Installing, SInv, OwnChain
    <3>2. dir' = [dir EXCEPT !["temp"] = fil.chain]
      BY <2>1, <2>5, <3>1 DEF f_close, Synced
    <3>3. data'[fil.chain] = boot
      BY <2>1, <2>5, <3>1 DEF f_close
    <3> QED
      BY <2>1, <3>1, <3>2, <3>3, ReadyToSave DEF Directory, Name
  <2>6. ASSUME ~ok PROVE dir'["temp"] \in torn'
    <3>1. fil.name = "temp" /\ dir["temp"] = Empty
      BY <2>1 DEF SInv, OwnChain
    <3>2. dir' = dir \/ dir' = [dir EXCEPT !["temp"] = fil.chain]
      BY <2>1, <2>6, <3>1 DEF f_close, NoChange, StoppedAt
    <3>3. dir'["temp"] \in {fil.chain, Empty}
      BY <3>1, <3>2, ReadyToSave DEF Directory, Name
    <3> QED
      BY <2>1, <2>6, <3>3 DEF f_close
  <2>7. TempComplete'
    BY <2>4, <2>5, <2>6 DEF TempComplete
  <2> QED
    BY <2>2, <2>3, <2>7 DEF OwnChain, Writing
<1> QED
  BY <1>1, <1>2

\* The looks at the directory change nothing.
LEMMA StatStep ==
  ASSUME SInv, StatPath \/ StatBackup \/ StatAgain
  PROVE  (InstalledWhole /\ OwnChain /\ TempComplete)' /\ "path" \notin saved'
<1>1. PICK n \in Name, ok \in BOOLEAN :
        /\ f_stat(n, ok) /\ saved' = saved /\ boot' = boot
        /\ pc' \in {"stat_backup", "install", "remove", "preserve", "done", "restore"}
        /\ pc # "done"
        /\ pc' \in Installing => pc \in Installing
  BY DEF StatPath, StatBackup, StatAgain, Name, Installing
<1>2. InstalledWhole'
  BY <1>1, StatWhole
<1>3. OwnChain' /\ "path" \notin saved'
  BY <1>1 DEF OwnChain, Writing, SInv, SavedLast
<1>4. TempComplete'
  BY <1>1, ReadyToSave DEF f_stat, NoChange, NoteSharing, SInv, TempComplete
<1> QED
  BY <1>2, <1>3, <1>4

\* What is removed is not the temporary file, unless the save is given up.
LEMMA UnlinkStep ==
  ASSUME SInv, Discard \/ Remove
  PROVE  (InstalledWhole /\ OwnChain /\ TempComplete)' /\ "path" \notin saved'
<1>1. PICK n \in {"temp", "path"}, ok \in BOOLEAN :
        /\ f_unlink(n, ok) /\ saved' = saved /\ boot' = boot
        /\ pc # "done" /\ pc' \in {"install", "done"}
        /\ pc' = "install" => pc = "remove" /\ n = "path" /\ ok
  <2>1. CASE Discard
    BY <2>1 DEF Discard
  <2>2. CASE Remove
    BY <2>2 DEF Remove
  <2> QED
    BY <2>1, <2>2
<1>2. InstalledWhole'
  BY <1>1, UnlinkWhole
<1>3. OwnChain' /\ "path" \notin saved'
  BY <1>1 DEF OwnChain, Writing, SInv, SavedLast
<1>4. TempComplete'
  <2> SUFFICES ASSUME pc' \in Installing PROVE TempComplete'
    BY DEF TempComplete
  <2>1. pc = "remove" /\ n = "path" /\ ok
    BY <1>1 DEF Installing
  <2>2. /\ dir' = [dir EXCEPT !["path"] = NoEntry] /\ data' = Released(dir["path"])
        /\ fil' = fil /\ torn' = torn
    BY <1>1, <2>1 DEF f_unlink, Synced
  <2>3. /\ fil.closed # "ok" => dir["temp"] \in torn
        /\ fil.closed = "ok" /\ ~crossed => dir["temp"] \in Chain /\ data[dir["temp"]] = boot
    BY <2>1 DEF SInv, TempComplete, Installing
  <2>4. dir'["temp"] = dir["temp"]
    BY <2>2, ReadyToSave DEF Directory, Name
  <2>5. ASSUME fil.closed = "ok", ~crossed'
        PROVE  dir'["temp"] \in Chain /\ data'[dir'["temp"]] = boot
    <3>1. ~crossed /\ ~Shared(dir)
      BY <1>1, <2>5, ReadyToSave DEF f_unlink, NoteSharing
    <3>2. dir["temp"] # dir["path"]
      BY <2>3, <2>5, <3>1 DEF Shared, Name
    <3> QED
      BY <2>2, <2>3, <2>4, <2>5, <3>1, <3>2 DEF Released
  <2> QED
    BY <1>1, <2>2, <2>3, <2>4, <2>5 DEF TempComplete
<1> QED
  BY <1>2, <1>3, <1>4

\* The backup is made, or put back.
LEMMA PreserveStep ==
  ASSUME SInv, Preserve \/ Restore
  PROVE  (InstalledWhole /\ OwnChain /\ TempComplete)' /\ "path" \notin saved'
<1>1. PICK old \in Name, new \in Name, ok \in BOOLEAN :
        /\ f_rename(old, new, ok) /\ saved' = saved /\ boot' = boot
        /\ <<old, new>> \in Renames /\ old # "temp" /\ new # "temp"
        /\ pc # "done" /\ pc' \in {"install", "done"}
        /\ pc' = "install" => pc = "preserve" /\ ok
  <2>1. CASE Preserve
    BY <2>1 DEF Preserve, Name, Renames
  <2>2. CASE Restore
    BY <2>2 DEF Restore, Name, Renames
  <2> QED
    BY <2>1, <2>2
<1>2. InstalledWhole'
  BY <1>1, RenameWhole
<1>3. OwnChain' /\ "path" \notin saved'
  BY <1>1 DEF OwnChain, Writing, SInv, SavedLast
<1>4. TempComplete'
  <2> SUFFICES ASSUME pc' \in Installing PROVE TempComplete'
    BY DEF TempComplete
  <2>1. pc = "preserve" /\ ok
    BY <1>1 DEF Installing
  <2>2. /\ dir' = [[dir EXCEPT ![new] = dir[old]] EXCEPT ![old] = NoEntry]
        /\ data' = data /\ fil' = fil /\ torn' = torn
    BY <1>1, <2>1 DEF f_rename, Synced
  <2>3. dir'["temp"] = dir["temp"]
    BY <1>1, <2>2, ReadyToSave DEF Directory, Name
  <2>4. crossed => crossed'
    BY <1>1 DEF f_rename, NoteSharing
  <2> QED
    BY <1>1, <2>1, <2>2, <2>3, <2>4 DEF SInv, TempComplete, Installing
<1> QED
  BY <1>2, <1>3, <1>4

\* The last rename: only its success is reported.
LEMMA InstallStep ==
  ASSUME SInv, Install
  PROVE  (InstalledWhole /\ OwnChain /\ TempComplete /\ SavedLast /\ SavedIsInstalled)'
<1>1. PICK ok \in BOOLEAN :
        /\ f_rename("temp", "path", ok) /\ boot' = boot /\ pc = "install"
        /\ saved' = IF ok THEN saved \cup {"path"} ELSE saved
        /\ pc' = IF ok THEN "done" ELSE "stat_again"
  BY DEF Install
<1>2. InstalledWhole'
  BY <1>1, RenameWhole DEF Name, Renames
<1>3. OwnChain' /\ TempComplete'
  BY <1>1 DEF OwnChain, Writing, TempComplete, Installing
<1>4. SavedLast' /\ (~ok => "path" \notin saved')
  BY <1>1 DEF SInv, SavedLast
<1>5. ASSUME ok, fil'.closed = "ok", ~crossed'
      PROVE  (WholeIn(card, "path") /\ data[card["path"]] = boot /\ card["temp"] = NoEntry)'
  <2>1. /\ card' = [[dir EXCEPT !["path"] = dir["temp"]] EXCEPT !["temp"] = NoEntry]
        /\ data' = data /\ fil' = fil /\ ~crossed
    BY <1>1, <1>5 DEF f_rename, Synced, NoteSharing
  <2>2. card'["path"] = dir["temp"] /\ card'["temp"] = NoEntry
    BY <2>1, ReadyToSave DEF Directory, Name
  <2>3. dir["temp"] \in Chain /\ data[dir["temp"]] = boot
    BY <1>1, <1>5, <2>1 DEF SInv, TempComplete, Installing
  <2> QED
    BY <1>1, <2>1, <2>2, <2>3, ReadyToSave DEF WholeIn
<1>6. ASSUME ok, ~crossed'
      PROVE  /\ card'["path"] # NoEntry /\ card'["temp"] = NoEntry
             /\ orig' # NoEntry => card'["backup"] = orig' /\ data'[orig'] = 0
  <2>1. /\ card' = [[dir EXCEPT !["path"] = dir["temp"]] EXCEPT !["temp"] = NoEntry]
        /\ dir["temp"] # NoEntry /\ dir["path"] = NoEntry
        /\ data' = data /\ ~crossed /\ orig' = orig
    BY <1>1, <1>6 DEF f_rename, Synced, NoteSharing, Install
  <2>2. /\ card'["path"] = dir["temp"] /\ card'["temp"] = NoEntry
        /\ card'["backup"] = dir["backup"]
    BY <2>1, ReadyToSave DEF Directory, Name
  <2>3. orig # NoEntry => dir["backup"] = orig /\ data[orig] = 0
    BY <2>1 DEF SInv, NInv, IInv, Kept, OrigKept, Safe
  <2> QED
    BY <2>1, <2>2, <2>3
<1>7. SavedIsInstalled'
  BY <1>4, <1>5, <1>6 DEF SavedIsInstalled
<1> QED
  BY <1>2, <1>3, <1>4, <1>7

LEMMA PowerStep ==
  ASSUME SInv, PowerOff
  PROVE  (InstalledWhole /\ OwnChain /\ TempComplete)' /\ "path" \notin saved'
BY PowerWhole DEF PowerOff, OwnChain, Writing, TempComplete, Installing

-----------------------------------------------------------------------------
\* The theorems

LEMMA InitInstall == Init => SInv
<1> SUFFICES ASSUME Init PROVE SInv
  OBVIOUS
<1>1. InstalledWhole
  BY VolumeAssumption DEF Init, InstalledWhole, Whole, WholeIn, Name, Version
<1>2. NInv
  BY InitNames
<1>3. OwnChain /\ TempComplete
  BY DEF Init, OwnChain, TempComplete, Writing, Installing
<1>4. SavedLast /\ SavedIsInstalled
  BY DEF Init, SavedLast, SavedIsInstalled
<1> QED
  BY <1>1, <1>2, <1>3, <1>4 DEF SInv

LEMMA NextInstall == SInv /\ [Next]_vars => SInv'
<1> SUFFICES ASSUME SInv, [Next]_vars PROVE SInv'
  OBVIOUS
<1>1. NInv'
  BY NextNames DEF SInv
<1>2. CASE UNCHANGED vars
  <2>1. (InstalledWhole /\ OwnChain /\ TempComplete)'
    BY <1>2 DEF vars, SInv, InstalledWhole, Whole, WholeIn, OwnChain, TempComplete
  <2>2. (SavedLast /\ SavedIsInstalled)'
    BY <1>2 DEF vars, SInv, SavedLast, SavedIsInstalled, WholeIn
  <2> QED
    BY <1>1, <2>1, <2>2 DEF SInv
<1>3. CASE Install
  BY <1>1, <1>3, InstallStep DEF SInv
<1>4. CASE Start \/ PowerOff \/ WbOpen \/ Open \/ WbWrite \/ Write \/ WbClose \/ Close
  <2>1. (InstalledWhole /\ OwnChain /\ TempComplete)' /\ "path" \notin saved'
    BY <1>4, StartOK, PowerStep, OpenStep, WriteStep, CloseStep
  <2> QED
    BY <1>1, <2>1, NotSavedYet DEF SInv
<1>5. CASE StatPath \/ StatBackup \/ StatAgain \/ Discard \/ Remove \/ Preserve \/ Restore
  <2>1. (InstalledWhole /\ OwnChain /\ TempComplete)' /\ "path" \notin saved'
    BY <1>5, StatStep, UnlinkStep, PreserveStep
  <2> QED
    BY <1>1, <2>1, NotSavedYet DEF SInv
<1> QED
  BY <1>2, <1>3, <1>4, <1>5 DEF Next, SaveStep, Finished

THEOREM InstallInvariance == Spec => []SInv
  BY InitInstall, NextInstall, PTL DEF Spec

\* save_sc7exit_to_sd writes elsewhere and renames: on the card and in RAM, path
\* leads to a complete file, to none, or to what the file's own failed f_close has
\* left, unless f_rename was interrupted in its critical section.
THEOREM AlwaysWhole == Spec => []InstalledIsWhole
<1>1. SInv => InstalledIsWhole
  BY DEF SInv, InstalledWhole, Whole, InstalledIsWhole
<1> QED
  BY <1>1, InstallInvariance, PTL

\* When save_sc7exit_to_sd returns true the file is installed and the original is the
\* backup; the installed file is this boot's complete one if its f_close succeeded.
THEOREM ReportIsTrue == Spec => []SavedIsInstalled
<1>1. SInv => SavedIsInstalled
  BY DEF SInv
<1> QED
  BY <1>1, InstallInvariance, PTL

-----------------------------------------------------------------------------
\* A boot in which nothing fails saves both files

\* What each place in the two routines relies on while the medium works.
Smooth ==
  ~faulted =>
    /\ pc \notin {"discard", "stat_again", "restore"}
    /\ pc \in {"wb_close", "close"} => success
    /\ pc \in {"open", "write", "close"} \cup Installing => saved = {"wb"}
    /\ pc \in {"write", "close"} => fil.name = "temp"
    /\ pc \in Installing => dir["temp"] # NoEntry
    /\ pc \in {"stat_backup", "preserve", "remove"} => dir["path"] # NoEntry
    /\ pc = "preserve" => dir["backup"] = NoEntry
    /\ pc = "install" => dir["path"] = NoEntry
    /\ pc = "done" => saved = {"wb", "path"}

LEMMA NextSmooth == TypeInv /\ OwnChain /\ Smooth /\ [Next]_vars => Smooth'
<1> SUFFICES ASSUME TypeInv, OwnChain, Smooth, [Next]_vars PROVE Smooth'
  OBVIOUS
<1>0. dir \in Directory /\ fil \in File /\ Name = {"wb", "path", "backup", "temp"}
  BY DEF TypeInv, TypeOK, VolumeTypeOK, Name
<1>1. CASE Start \/ PowerOff
  BY <1>1 DEF Start, PowerOff, Smooth, Installing
<1>2. CASE WbOpen \/ Open
  <2>1. PICK n \in {"wb", "temp"}, ok \in BOOLEAN :
          /\ f_open(n, ok) /\ saved' = saved
          /\ \/ pc = "wb_open" /\ pc' = IF ok THEN "wb_write" ELSE "done"
             \/ n = "temp" /\ pc = "open" /\ pc' = IF ok THEN "write" ELSE "done"
    BY <1>2 DEF WbOpen, Open
  <2>2. ASSUME ~faulted' PROVE ok /\ ~faulted
    BY <2>1, <2>2 DEF f_open, NoteFault
  <2>3. fil'.name = n
    BY <2>1 DEF f_open
  <2> QED
    BY <2>1, <2>2, <2>3 DEF Smooth, Installing
<1>3. CASE WbWrite \/ Write
  <2>0. PICK ok \in BOOLEAN : f_write(ok) /\ success' = ok
    BY <1>3 DEF WbWrite, Write
  <2>n. fil'.name = fil.name
    BY <1>0, <2>0 DEF f_write, File
  <2>1. ASSUME ~faulted' PROVE ~faulted /\ success' /\ fil'.name = fil.name
    BY <2>0, <2>1, <2>n DEF f_write, NoteFault
  <2>2. \/ pc = "wb_write" /\ pc' = "wb_close" /\ saved' = saved
        \/ pc = "write" /\ pc' \in {"write", "close"} /\ saved' = saved
    BY <1>3 DEF WbWrite, Write
  <2> QED
    BY <2>1, <2>2 DEF Smooth, Installing
<1>4. CASE WbClose
  <2>1. ASSUME ~faulted' PROVE ~faulted
    BY <1>4, <2>1 DEF WbClose, f_close, NoteFault
  <2> QED
    BY <1>4, <2>1 DEF WbClose, Smooth, Installing
<1>5. CASE Close
  <2>1. PICK ok \in BOOLEAN : f_close(boot, Parts, ok)
    BY <1>5 DEF Close
  <2>2. ASSUME ~faulted'
        PROVE  /\ ~faulted /\ success /\ pc' = "stat_path" /\ saved' = {"wb"}
               /\ dir'["temp"] # NoEntry
    <3>1. ~faulted /\ ok
      BY <2>1, <2>2 DEF f_close, NoteFault
    <3>2. success /\ saved = {"wb"} /\ fil.name = "temp" /\ pc = "close"
      BY <1>5, <3>1 DEF Close, Smooth
    <3>3. dir' = [dir EXCEPT !["temp"] = fil.chain] /\ fil.chain # NoEntry
      BY <1>0, <2>1, <3>1, <3>2, VolumeAssumption DEF f_close, Synced, File
    <3> QED
      BY <1>0, <1>5, <3>1, <3>2, <3>3 DEF Close, Directory
  <2> QED
    BY <2>2 DEF Smooth, Installing
<1>6. CASE StatPath \/ StatBackup \/ StatAgain
  <2>1. ASSUME ~faulted' PROVE ~faulted /\ dir' = dir /\ saved' = saved
    BY <1>6, <2>1 DEF StatPath, StatBackup, StatAgain, f_stat, NoChange, NoteFault
  <2>2. CASE StatPath
    <3>1. ASSUME ~faulted'
          PROVE  IF dir["path"] = NoEntry THEN pc' = "install" ELSE pc' = "stat_backup"
      BY <2>2, <3>1 DEF StatPath, f_stat, NoteFault
    <3> QED
      BY <2>1, <2>2, <3>1 DEF StatPath, Smooth, Installing
  <2>3. CASE StatBackup
    <3>1. ASSUME ~faulted'
          PROVE  IF dir["backup"] = NoEntry THEN pc' = "preserve" ELSE pc' = "remove"
      BY <2>3, <3>1 DEF StatBackup, f_stat, NoteFault
    <3> QED
      BY <2>1, <2>3, <3>1 DEF StatBackup, Smooth, Installing
  <2>4. CASE StatAgain
    BY <2>1, <2>4 DEF StatAgain, Smooth
  <2> QED
    BY <1>6, <2>2, <2>3, <2>4
<1>7. CASE Discard \/ Restore
  <2>1. ASSUME ~faulted' PROVE ~faulted
    BY <1>7, <2>1 DEF Discard, Restore, f_unlink, f_rename, NoteFault
  <2> QED
    BY <1>7, <2>1 DEF Discard, Restore, Smooth
<1>8. CASE Preserve
  <2>1. PICK ok \in BOOLEAN : f_rename("path", "backup", ok) /\ pc' = IF ok THEN "install" ELSE "done"
    BY <1>8 DEF Preserve
  <2>2. ASSUME ~faulted' PROVE ok /\ ~faulted
    BY <1>8, <2>1, <2>2 DEF f_rename, NoteFault, Preserve, Smooth
  <2>3. ASSUME ~faulted' PROVE dir'["path"] = NoEntry /\ dir'["temp"] = dir["temp"]
    <3>1. dir' = [[dir EXCEPT !["backup"] = dir["path"]] EXCEPT !["path"] = NoEntry]
      BY <2>1, <2>2, <2>3 DEF f_rename, Synced
    <3> QED
      BY <1>0, <3>1 DEF Directory
  <2> QED
    BY <1>8, <2>1, <2>2, <2>3 DEF Preserve, Smooth, Installing
<1>9. CASE Remove
  <2>1. PICK ok \in BOOLEAN : f_unlink("path", ok) /\ pc' = IF ok THEN "install" ELSE "done"
    BY <1>9 DEF Remove
  <2>2. ASSUME ~faulted' PROVE ok /\ ~faulted
    BY <1>9, <2>1, <2>2 DEF f_unlink, NoteFault, Remove, Smooth
  <2>3. ASSUME ~faulted' PROVE dir'["path"] = NoEntry /\ dir'["temp"] = dir["temp"]
    <3>1. dir' = [dir EXCEPT !["path"] = NoEntry]
      BY <2>1, <2>2, <2>3 DEF f_unlink, Synced
    <3> QED
      BY <1>0, <3>1 DEF Directory
  <2> QED
    BY <1>9, <2>1, <2>2, <2>3 DEF Remove, Smooth, Installing
<1>10. CASE Install
  <2>1. PICK ok \in BOOLEAN :
          /\ f_rename("temp", "path", ok)
          /\ saved' = IF ok THEN saved \cup {"path"} ELSE saved
          /\ pc' = IF ok THEN "done" ELSE "stat_again"
    BY <1>10 DEF Install
  <2>2. ASSUME ~faulted' PROVE ok /\ ~faulted /\ saved = {"wb"}
    <3>1. ~faulted
      BY <2>1, <2>2 DEF f_rename, NoteFault
    <3>2. dir["temp"] # NoEntry /\ dir["path"] = NoEntry /\ saved = {"wb"}
      BY <1>10, <3>1 DEF Install, Smooth, Installing
    <3> QED
      BY <2>1, <2>2, <3>1, <3>2 DEF f_rename, NoteFault
  <2> QED
    BY <2>1, <2>2 DEF Smooth, Installing
<1>11. CASE UNCHANGED vars
  BY <1>11 DEF vars, Smooth
<1> QED
  BY <1>1, <1>2, <1>3, <1>4, <1>5, <1>6, <1>7, <1>8, <1>9, <1>10, <1>11
  DEF Next, SaveStep, Finished

\* Whatever is left on the card, a boot in which the medium works saves both files:
\* no left-over name blocks save_warmboot_to_sd or save_sc7exit_to_sd.
THEOREM RetryAlwaysSucceeds == Spec => []RetrySucceeds
<1>1. Init => SInv /\ Smooth
  BY InitInstall DEF Init, Smooth, Installing
<1>2. SInv /\ Smooth /\ [Next]_vars => (SInv /\ Smooth)'
  BY NextInstall, NextSmooth DEF SInv, NInv, IInv
<1>3. Smooth => RetrySucceeds
  BY DEF Smooth, RetrySucceeds
<1> QED
  BY <1>1, <1>2, <1>3, PTL DEF Spec
================================================================================
