---------------------------- MODULE AECCore_proofs ----------------------------
(***************************************************************************)
(* Proofs about AECCore, for every value of its constants: types, what is  *)
(* left of a session when stop() has returned, that the threads it joins   *)
(* only go forward, that no wake-up of the play thread is lost, and what a *)
(* clear leaves behind.                                                    *)
(***************************************************************************)
EXTENDS AECCore, TLAPS

-----------------------------------------------------------------------------
(* Types. *)

LEMMA TypeInit == Init => TypeOK
<1> SUFFICES ASSUME Init PROVE TypeOK
  OBVIOUS
<1> USE DEF Init
<1>1. FlagTypes BY DEF FlagTypes
<1>2. CountTypes BY ConstantsAssumption DEF CountTypes
<1>3. PlaceTypes BY DEF PlaceTypes
<1> QED BY <1>1, <1>2, <1>3 DEF TypeOK

LEMMA FlagTypesStep == FlagTypes /\ [Next]_vars => FlagTypes'
<1> SUFFICES ASSUME FlagTypes, [Next]_vars PROVE FlagTypes'
  OBVIOUS
<1> USE DEF FlagTypes, flags, counts, devices, playVars, recVars, cbVars, apiVars
<1>1. CASE Start
  BY <1>1 DEF Start, ResetStatus
<1>2. CASE StartRecord
  BY <1>2 DEF StartRecord
<1>3. CASE Stop
  BY <1>3 DEF Stop, Joined
<1>4. CASE StopJoinRecord
  BY <1>4 DEF StopJoinRecord, Joined
<1>5. CASE StopJoinPlay
  BY <1>5 DEF StopJoinPlay, Joined, ResetStatus
<1>6. CASE Release
  BY <1>6 DEF Release
<1>7. CASE PlayCreate
  BY <1>7 DEF PlayCreate, PlayGoto
<1>8. CASE PlayFrame
  BY <1>8 DEF PlayFrame
<1>9. CASE PlayFirst
  BY <1>9 DEF PlayFirst
<1>10. CASE PlayFirstWait
  BY <1>10 DEF PlayFirstWait, PlayWaits, ClassMonitorFree
<1>11. CASE PlayFirstPass
  BY <1>11 DEF PlayFirstPass, PlayGoto, ClassMonitorFree
<1>12. CASE PlayClearTest
  BY <1>12 DEF PlayClearTest, MustClear
<1>13. CASE PlayClearWait
  BY <1>13 DEF PlayClearWait, PlayWaits, ClassMonitorFree, MustClear
<1>14. CASE PlayClearPass
  BY <1>14 DEF PlayClearPass, PlayGoto, ClassMonitorFree, MustClear
<1>15. CASE PlayWaitInterrupted
  BY <1>15 DEF PlayWaitInterrupted, ClassMonitorFree
<1>16. CASE PlayResume
  BY <1>16 DEF PlayResume, PlayGoto
<1>17. CASE PlayPut
  BY <1>17 DEF PlayPut, HasRoom
<1>18. CASE PlayWrite
  BY <1>18 DEF PlayWrite, PlayGoto
<1>19. CASE PlayCount
  BY <1>19 DEF PlayCount, Up
<1>20. CASE PlayFinally
  BY <1>20 DEF PlayFinally, PlayGoto
<1>21. CASE RecAnnounce
  BY <1>21 DEF RecAnnounce, RecGoto, Notify
<1>22. CASE RecWarm
  BY <1>22 DEF RecWarm
<1>23. CASE RecSleepInterrupted
  BY <1>23 DEF RecSleepInterrupted
<1>24. CASE RecCreate
  BY <1>24 DEF RecCreate, RecGoto
<1>25. CASE RecTake
  BY <1>25 DEF RecTake
<1>26. CASE RecRead
  BY <1>26 DEF RecRead
<1>27. CASE RecDry
  BY <1>27 DEF RecDry, RecGoto
<1>28. CASE RecClear
  BY <1>28 DEF RecClear
<1>29. CASE RecDrain \/ RecEmpty \/ RecPause \/ RecFlush
  BY <1>29 DEF RecDrain, RecEmpty, RecPause, RecFlush
<1>30. CASE RecZero
  BY <1>30 DEF RecZero
<1>31. CASE RecEndClear
  BY <1>31 DEF RecEndClear, RecGoto, Notify
<1>32. CASE RecNap
  BY <1>32 DEF RecNap, RecGoto
<1>33. CASE RecFinally
  BY <1>33 DEF RecFinally, RecGoto
<1>34. CASE RecDie
  BY <1>34 DEF RecDie, RecGoto
<1>35. CASE CbBegin
  BY <1>35 DEF CbBegin
<1>36. CASE CbPosition
  BY <1>36 DEF CbPosition, Up
<1>37. CASE CbUnderrun
  BY <1>37 DEF CbUnderrun
<1>38. CASE CbRollCount
  BY <1>38 DEF CbRollCount, Back
<1>39. CASE CbRollPosition
  BY <1>39 DEF CbRollPosition, Back
<1>40. CASE PlayFault
  BY <1>40 DEF PlayFault, PlayGoto
<1>41. CASE RecFault \/ RecSpinEnds
  BY <1>41 DEF RecFault, RecSpinEnds
<1>42. CASE NotifyLater
  BY <1>42 DEF NotifyLater, Notify, ClassMonitorFree
<1>43. CASE HwPlays
  BY <1>43 DEF HwPlays
<1>44. CASE UNCHANGED vars
  BY <1>44 DEF vars
<1> QED
  BY <1>1, <1>2, <1>3, <1>4, <1>5, <1>6, <1>7, <1>8, <1>9, <1>10, <1>11,
     <1>12, <1>13, <1>14, <1>15, <1>16, <1>17, <1>18, <1>19, <1>20, <1>21,
     <1>22, <1>23, <1>24, <1>25, <1>26, <1>27, <1>28, <1>29, <1>30, <1>31,
     <1>32, <1>33, <1>34, <1>35, <1>36, <1>37, <1>38, <1>39, <1>40, <1>41,
     <1>42, <1>43, <1>44
  DEF Next, Api, Play, Record, Callback

LEMMA CountTypesStep == CountTypes /\ [Next]_vars => CountTypes'
<1> SUFFICES ASSUME CountTypes, [Next]_vars PROVE CountTypes'
  OBVIOUS
<1> USE ConstantsAssumption
    DEF CountTypes, flags, counts, devices, playVars, recVars, cbVars, apiVars
<1>1. CASE Api
  BY <1>1
  DEF Api, Start, ResetStatus, StartRecord, Stop, Joined, StopJoinRecord,
      StopJoinPlay, Release
<1>2. CASE Play
  BY <1>2
  DEF Play, PlayCreate, PlayGoto, PlayFrame, PlayFirst, PlayFirstWait,
      PlayWaits, ClassMonitorFree, PlayFirstPass, PlayClearTest, MustClear,
      PlayClearWait, PlayClearPass, PlayWaitInterrupted, PlayResume, PlayPut,
      HasRoom, PlayWrite, PlayCount, Up, PlayFinally
<1>3. CASE Record
  BY <1>3
  DEF Record, RecAnnounce, RecGoto, Notify, RecWarm, RecSleepInterrupted,
      RecCreate, RecTake, RecRead, RecDry, RecClear, RecDrain, RecEmpty,
      RecPause, RecFlush, RecZero, RecEndClear, RecNap, RecFinally, RecDie
<1>4. CASE Callback
  BY <1>4
  DEF Callback, CbBegin, CbPosition, Up, CbUnderrun, CbRollCount, Back,
      CbRollPosition
<1>5. CASE PlayFault
  BY <1>5 DEF PlayFault, PlayGoto
<1>6. CASE RecFault \/ RecSpinEnds
  BY <1>6 DEF RecFault, RecSpinEnds
<1>7. CASE NotifyLater
  BY <1>7 DEF NotifyLater, Notify, ClassMonitorFree
<1>8. CASE HwPlays
  BY <1>8 DEF HwPlays
<1>9. CASE UNCHANGED vars
  BY <1>9 DEF vars
<1> QED BY <1>1, <1>2, <1>3, <1>4, <1>5, <1>6, <1>7, <1>8, <1>9 DEF Next

LEMMA PlaceTypesStep == PlaceTypes /\ [Next]_vars => PlaceTypes'
<1> SUFFICES ASSUME PlaceTypes, [Next]_vars PROVE PlaceTypes'
  OBVIOUS
<1> USE DEF PlaceTypes, flags, counts, devices, playVars, recVars, cbVars, apiVars
<1>1. CASE Api
  BY <1>1
  DEF Api, Start, ResetStatus, StartRecord, Stop, Joined, StopJoinRecord,
      StopJoinPlay, Release
<1>2. CASE Play
  BY <1>2
  DEF Play, PlayCreate, PlayGoto, PlayFrame, PlayFirst, PlayFirstWait,
      PlayWaits, ClassMonitorFree, PlayFirstPass, PlayClearTest, MustClear,
      PlayClearWait, PlayClearPass, PlayWaitInterrupted, PlayResume, PlayPut,
      HasRoom, PlayWrite, PlayCount, Up, PlayFinally
<1>3. CASE Record
  BY <1>3
  DEF Record, RecAnnounce, RecGoto, Notify, RecWarm, RecSleepInterrupted,
      RecCreate, RecTake, RecRead, RecDry, RecClear, RecDrain, RecEmpty,
      RecPause, RecFlush, RecZero, RecEndClear, RecNap, RecFinally, RecDie
<1>4. CASE Callback
  BY <1>4
  DEF Callback, CbBegin, CbPosition, Up, CbUnderrun, CbRollCount, Back,
      CbRollPosition
<1>5. CASE PlayFault
  BY <1>5 DEF PlayFault, PlayGoto
<1>6. CASE RecFault \/ RecSpinEnds
  BY <1>6 DEF RecFault, RecSpinEnds
<1>7. CASE NotifyLater
  BY <1>7 DEF NotifyLater, Notify, ClassMonitorFree
<1>8. CASE HwPlays
  BY <1>8 DEF HwPlays
<1>9. CASE UNCHANGED vars
  BY <1>9 DEF vars
<1> QED BY <1>1, <1>2, <1>3, <1>4, <1>5, <1>6, <1>7, <1>8, <1>9 DEF Next

LEMMA TypeStep == TypeOK /\ [Next]_vars => TypeOK'
BY FlagTypesStep, CountTypesStep, PlaceTypesStep DEF TypeOK

(* The fields keep their types; playBuffer and the AudioTrack never hold    *)
(* more than they have room for.                                            *)
THEOREM TypeCorrect == Spec => []TypeOK
BY TypeInit, TypeStep, PTL DEF Spec

-----------------------------------------------------------------------------
(* The inductive invariant. *)

(* The devices are in use only while the thread that opens them lives.      *)
DevicesOwned ==
  /\ recPc \in {"none", "announce", "warmUp", "create", "dead"} => audioRecode = "none"
  /\ playPc \in {"none", "create", "dead"} => audioPlay # "playing"

(* What start() and stop() know of the threads.  While the record thread is *)
(* not started yet, the play thread cannot get past its first wait.         *)
SessionKept ==
  /\ ~mIsWorking =>
       playPc = "none" /\ recPc = "none" /\ playBuffer = 0 /\ apiPc # "startRecord"
  /\ apiPc = "joinPlay" => recPc = "none"
  /\ apiPc = "startRecord" =>
       /\ recPc = "none" /\ isFirst /\ mIsRecodeWorking /\ ~audioRecodeStart
       /\ playPc \notin {"clearTest", "clearLock", "clearWait", "resume", "put", "write",
                         "count"}

(* What the flags tell the play thread about the record thread is true: it  *)
(* will announce itself unless it has, and it has not ended if it is said   *)
(* to work.                                                                 *)
FlagsTellTruth ==
  playPc # "none" =>
    /\ audioRecodeStart \/ apiPc = "startRecord" \/ recPc = "announce"
    /\ recPc \in {"none", "notify", "dead"} /\ apiPc # "startRecord" => ~mIsRecodeWorking

(* A thread that waits still has a reason, and somebody to wake it.         *)
WaitsForSomeone ==
  /\ playPc = "firstWait" => ~audioRecodeStart
  /\ playPc = "clearWait" =>
       MustClear /\ (recPc \notin {"none", "dead"} \/ notifiers > 0)

(* The frame the play thread holds counts as put, or written, already.      *)
One(P) == IF P THEN 1 ELSE 0
FrameInHand ==
  /\ ~ClassMonitorFree => isClearing
  /\ recPc \in {"pause", "flush", "zero", "zeroFull"} =>
       playBuffer + One(playPc \in {"resume", "put"}) <= 1
  /\ recPc = "zero" => inHw + One(playPc \in {"resume", "put", "write"}) <= 1

(* A thread that stop() waits for was told to end, and is interrupted, or   *)
(* past caring.                                                             *)
Told ==
  /\ apiPc \in {"joinRecord", "joinPlay"} => ~mIsPlayThreadAlive
  /\ apiPc = "joinRecord" => recInterrupted \/ recPc \in {"none", "finally", "notify", "dead"}
  /\ apiPc = "joinPlay" => playInterrupted \/ playPc \in {"none", "finally", "dead"}

(* A track in use is there, and one that is paused, but about to be flushed,*)
(* holds a frame only until the play thread comes to the top of its loop.   *)
TrackInUse ==
  /\ playPc \notin {"none", "create", "finally", "dead"} => audioPlay # "none"
  /\ audioPlay = "paused" /\ inHw > 0 /\ recPc # "flush" =>
       playPc \in {"none", "create", "loop", "count", "finally", "dead"}

IInv ==
  /\ TypeOK /\ DevicesOwned /\ SessionKept /\ FlagsTellTruth /\ WaitsForSomeone
  /\ FrameInHand /\ Told /\ TrackInUse

LEMMA IInvInit == Init => IInv
<1> SUFFICES ASSUME Init PROVE IInv
  OBVIOUS
<1>1. TypeOK BY TypeInit
<1>2. DevicesOwned /\ SessionKept BY DEF Init, DevicesOwned, SessionKept
<1>3. FlagsTellTruth /\ WaitsForSomeone BY DEF Init, FlagsTellTruth, WaitsForSomeone
<1>4. FrameInHand BY DEF Init, FrameInHand, ClassMonitorFree
<1>5. Told /\ TrackInUse BY DEF Init, Told, TrackInUse
<1> QED BY <1>1, <1>2, <1>3, <1>4, <1>5 DEF IInv

LEMMA DevicesOwnedStep == IInv /\ [Next]_vars => DevicesOwned'
<1> SUFFICES ASSUME DevicesOwned, SessionKept, [Next]_vars
             PROVE  DevicesOwned'
  BY DEF IInv
<1> USE DEF DevicesOwned, SessionKept, flags, counts, devices, playVars,
            recVars, cbVars, apiVars
<1>1. CASE Api
  BY <1>1
  DEF Api, Start, ResetStatus, StartRecord, Stop, Joined, StopJoinRecord,
      StopJoinPlay, Release
<1>2. CASE Play
  BY <1>2
  DEF Play, PlayCreate, PlayGoto, PlayFrame, PlayFirst, PlayFirstWait,
      PlayWaits, ClassMonitorFree, PlayFirstPass, PlayClearTest, MustClear,
      PlayClearWait, PlayClearPass, PlayWaitInterrupted, PlayResume, PlayPut,
      HasRoom, PlayWrite, PlayCount, Up, PlayFinally
<1>3. CASE Record
  BY <1>3
  DEF Record, RecAnnounce, RecGoto, Notify, RecWarm, RecSleepInterrupted,
      RecCreate, RecTake, RecRead, RecDry, RecClear, RecDrain, RecEmpty,
      RecPause, RecFlush, RecZero, RecEndClear, RecNap, RecFinally, RecDie
<1>4. CASE Callback
  BY <1>4
  DEF Callback, CbBegin, CbPosition, Up, CbUnderrun, CbRollCount, Back,
      CbRollPosition
<1>5. CASE PlayFault
  BY <1>5 DEF PlayFault, PlayGoto
<1>6. CASE RecFault \/ RecSpinEnds
  BY <1>6 DEF RecFault, RecSpinEnds
<1>7. CASE NotifyLater
  BY <1>7 DEF NotifyLater, Notify, ClassMonitorFree
<1>8. CASE HwPlays
  BY <1>8 DEF HwPlays
<1>9. CASE UNCHANGED vars
  BY <1>9 DEF vars
<1> QED BY <1>1, <1>2, <1>3, <1>4, <1>5, <1>6, <1>7, <1>8, <1>9 DEF Next

LEMMA SessionKeptStep == IInv /\ [Next]_vars => SessionKept'
<1> SUFFICES ASSUME SessionKept, [Next]_vars
             PROVE  SessionKept'
  BY DEF IInv
<1> USE DEF SessionKept, flags, counts, devices, playVars, recVars, cbVars,
            apiVars
<1>1. CASE Api
  BY <1>1
  DEF Api, Start, ResetStatus, StartRecord, Stop, Joined, StopJoinRecord,
      StopJoinPlay, Release
<1>2. CASE Play
  BY <1>2
  DEF Play, PlayCreate, PlayGoto, PlayFrame, PlayFirst, PlayFirstWait,
      PlayWaits, ClassMonitorFree, PlayFirstPass, PlayClearTest, MustClear,
      PlayClearWait, PlayClearPass, PlayWaitInterrupted, PlayResume, PlayPut,
      HasRoom, PlayWrite, PlayCount, Up, PlayFinally
<1>3. CASE Record
  BY <1>3
  DEF Record, RecAnnounce, RecGoto, Notify, RecWarm, RecSleepInterrupted,
      RecCreate, RecTake, RecRead, RecDry, RecClear, RecDrain, RecEmpty,
      RecPause, RecFlush, RecZero, RecEndClear, RecNap, RecFinally, RecDie
<1>4. CASE Callback
  BY <1>4
  DEF Callback, CbBegin, CbPosition, Up, CbUnderrun, CbRollCount, Back,
      CbRollPosition
<1>5. CASE PlayFault
  BY <1>5 DEF PlayFault, PlayGoto
<1>6. CASE RecFault \/ RecSpinEnds
  BY <1>6 DEF RecFault, RecSpinEnds
<1>7. CASE NotifyLater
  BY <1>7 DEF NotifyLater, Notify, ClassMonitorFree
<1>8. CASE HwPlays
  BY <1>8 DEF HwPlays
<1>9. CASE UNCHANGED vars
  BY <1>9 DEF vars
<1> QED BY <1>1, <1>2, <1>3, <1>4, <1>5, <1>6, <1>7, <1>8, <1>9 DEF Next

LEMMA FlagsTellTruthStep == IInv /\ [Next]_vars => FlagsTellTruth'
<1> SUFFICES ASSUME SessionKept, FlagsTellTruth, [Next]_vars
             PROVE  FlagsTellTruth'
  BY DEF IInv
<1> USE DEF SessionKept, FlagsTellTruth, flags, counts, devices, playVars,
            recVars, cbVars, apiVars
<1>1. CASE Api
  BY <1>1
  DEF Api, Start, ResetStatus, StartRecord, Stop, Joined, StopJoinRecord,
      StopJoinPlay, Release
<1>2. CASE Play
  BY <1>2
  DEF Play, PlayCreate, PlayGoto, PlayFrame, PlayFirst, PlayFirstWait,
      PlayWaits, ClassMonitorFree, PlayFirstPass, PlayClearTest, MustClear,
      PlayClearWait, PlayClearPass, PlayWaitInterrupted, PlayResume, PlayPut,
      HasRoom, PlayWrite, PlayCount, Up, PlayFinally
<1>3. CASE Record
  BY <1>3
  DEF Record, RecAnnounce, RecGoto, Notify, RecWarm, RecSleepInterrupted,
      RecCreate, RecTake, RecRead, RecDry, RecClear, RecDrain, RecEmpty,
      RecPause, RecFlush, RecZero, RecEndClear, RecNap, RecFinally, RecDie
<1>4. CASE Callback
  BY <1>4
  DEF Callback, CbBegin, CbPosition, Up, CbUnderrun, CbRollCount, Back,
      CbRollPosition
<1>5. CASE PlayFault
  BY <1>5 DEF PlayFault, PlayGoto
<1>6. CASE RecFault \/ RecSpinEnds
  BY <1>6 DEF RecFault, RecSpinEnds
<1>7. CASE NotifyLater
  BY <1>7 DEF NotifyLater, Notify, ClassMonitorFree
<1>8. CASE HwPlays
  BY <1>8 DEF HwPlays
<1>9. CASE UNCHANGED vars
  BY <1>9 DEF vars
<1> QED BY <1>1, <1>2, <1>3, <1>4, <1>5, <1>6, <1>7, <1>8, <1>9 DEF Next

LEMMA WaitsForSomeoneStep == IInv /\ [Next]_vars => WaitsForSomeone'
<1> SUFFICES ASSUME TypeOK, SessionKept, FlagsTellTruth, WaitsForSomeone,
                    [Next]_vars
             PROVE  WaitsForSomeone'
  BY DEF IInv
<1> USE DEF TypeOK, FlagTypes, CountTypes, SessionKept, FlagsTellTruth, WaitsForSomeone,
            ClassMonitorFree, MustClear, flags, counts, devices, playVars,
            recVars, cbVars, apiVars
<1>1. CASE Api
  BY <1>1
  DEF Api, Start, ResetStatus, StartRecord, Stop, Joined, StopJoinRecord,
      StopJoinPlay, Release
<1>2. CASE Play
  BY <1>2
  DEF Play, PlayCreate, PlayGoto, PlayFrame, PlayFirst, PlayFirstWait,
      PlayWaits, ClassMonitorFree, PlayFirstPass, PlayClearTest, MustClear,
      PlayClearWait, PlayClearPass, PlayWaitInterrupted, PlayResume, PlayPut,
      HasRoom, PlayWrite, PlayCount, Up, PlayFinally
<1>3. CASE Record
  BY <1>3
  DEF Record, RecAnnounce, RecGoto, Notify, RecWarm, RecSleepInterrupted,
      RecCreate, RecTake, RecRead, RecDry, RecClear, RecDrain, RecEmpty,
      RecPause, RecFlush, RecZero, RecEndClear, RecNap, RecFinally, RecDie
<1>4. CASE Callback
  BY <1>4
  DEF Callback, CbBegin, CbPosition, Up, CbUnderrun, CbRollCount, Back,
      CbRollPosition
<1>5. CASE PlayFault
  BY <1>5 DEF PlayFault, PlayGoto
<1>6. CASE RecFault \/ RecSpinEnds
  BY <1>6 DEF RecFault, RecSpinEnds
<1>7. CASE NotifyLater
  BY <1>7 DEF NotifyLater, Notify, ClassMonitorFree
<1>8. CASE HwPlays
  BY <1>8 DEF HwPlays
<1>9. CASE UNCHANGED vars
  BY <1>9 DEF vars
<1> QED BY <1>1, <1>2, <1>3, <1>4, <1>5, <1>6, <1>7, <1>8, <1>9 DEF Next

LEMMA FrameInHandStep == IInv /\ [Next]_vars => FrameInHand'
<1> SUFFICES ASSUME TypeOK, SessionKept, FrameInHand, [Next]_vars
             PROVE  FrameInHand'
  BY DEF IInv
<1> USE DEF TypeOK, CountTypes, SessionKept, FrameInHand, One,
            ClassMonitorFree, MustClear, flags, counts, devices, playVars,
            recVars, cbVars, apiVars
<1>1. CASE Api
  BY <1>1
  DEF Api, Start, ResetStatus, StartRecord, Stop, Joined, StopJoinRecord,
      StopJoinPlay, Release
<1>2. CASE Play
  BY <1>2
  DEF Play, PlayCreate, PlayGoto, PlayFrame, PlayFirst, PlayFirstWait,
      PlayWaits, ClassMonitorFree, PlayFirstPass, PlayClearTest, MustClear,
      PlayClearWait, PlayClearPass, PlayWaitInterrupted, PlayResume, PlayPut,
      HasRoom, PlayWrite, PlayCount, Up, PlayFinally
<1>3. CASE Record
  BY <1>3
  DEF Record, RecAnnounce, RecGoto, Notify, RecWarm, RecSleepInterrupted,
      RecCreate, RecTake, RecRead, RecDry, RecClear, RecDrain, RecEmpty,
      RecPause, RecFlush, RecZero, RecEndClear, RecNap, RecFinally, RecDie
<1>4. CASE Callback
  BY <1>4
  DEF Callback, CbBegin, CbPosition, Up, CbUnderrun, CbRollCount, Back,
      CbRollPosition
<1>5. CASE PlayFault
  BY <1>5 DEF PlayFault, PlayGoto
<1>6. CASE RecFault \/ RecSpinEnds
  BY <1>6 DEF RecFault, RecSpinEnds
<1>7. CASE NotifyLater
  BY <1>7 DEF NotifyLater, Notify, ClassMonitorFree
<1>8. CASE HwPlays
  BY <1>8 DEF HwPlays
<1>9. CASE UNCHANGED vars
  BY <1>9 DEF vars
<1> QED BY <1>1, <1>2, <1>3, <1>4, <1>5, <1>6, <1>7, <1>8, <1>9 DEF Next

LEMMA ToldStep == IInv /\ [Next]_vars => Told'
<1> SUFFICES ASSUME SessionKept, Told, [Next]_vars
             PROVE  Told'
  BY DEF IInv
<1> USE DEF SessionKept, Told, flags, counts, devices, playVars, recVars, cbVars,
            apiVars
<1>1. CASE Api
  <2>1. CASE Start
    BY <2>1 DEF Start, ResetStatus
  <2>2. CASE StartRecord
    BY <2>2 DEF StartRecord
  <2>3. CASE Stop
    <3>1. recInterrupted' \/ recPc' \in {"none", "dead"}
      BY <2>3, Zenon DEF Stop, Joined
    <3> QED BY <2>3, <3>1 DEF Stop
  <2>4. CASE StopJoinRecord
    <3>1. playInterrupted' \/ playPc' \in {"none", "dead"}
      BY <2>4, Zenon DEF StopJoinRecord, Joined
    <3> QED BY <2>4, <3>1 DEF StopJoinRecord
  <2>5. CASE StopJoinPlay
    BY <2>5 DEF StopJoinPlay, ResetStatus
  <2>6. CASE Release
    BY <2>6 DEF Release
  <2> QED BY <1>1, <2>1, <2>2, <2>3, <2>4, <2>5, <2>6 DEF Api
<1>2. CASE Play
  BY <1>2
  DEF Play, PlayCreate, PlayGoto, PlayFrame, PlayFirst, PlayFirstWait,
      PlayWaits, ClassMonitorFree, PlayFirstPass, PlayClearTest, MustClear,
      PlayClearWait, PlayClearPass, PlayWaitInterrupted, PlayResume, PlayPut,
      HasRoom, PlayWrite, PlayCount, Up, PlayFinally
<1>3. CASE Record
  BY <1>3
  DEF Record, RecAnnounce, RecGoto, Notify, RecWarm, RecSleepInterrupted,
      RecCreate, RecTake, RecRead, RecDry, RecClear, RecDrain, RecEmpty,
      RecPause, RecFlush, RecZero, RecEndClear, RecNap, RecFinally, RecDie
<1>4. CASE Callback
  BY <1>4
  DEF Callback, CbBegin, CbPosition, Up, CbUnderrun, CbRollCount, Back,
      CbRollPosition
<1>5. CASE PlayFault
  BY <1>5 DEF PlayFault, PlayGoto
<1>6. CASE RecFault \/ RecSpinEnds
  BY <1>6 DEF RecFault, RecSpinEnds
<1>7. CASE NotifyLater
  BY <1>7 DEF NotifyLater, Notify, ClassMonitorFree
<1>8. CASE HwPlays
  BY <1>8 DEF HwPlays
<1>9. CASE UNCHANGED vars
  BY <1>9 DEF vars
<1> QED BY <1>1, <1>2, <1>3, <1>4, <1>5, <1>6, <1>7, <1>8, <1>9 DEF Next

LEMMA TrackInUseStep == IInv /\ [Next]_vars => TrackInUse'
<1> SUFFICES ASSUME TypeOK, SessionKept, TrackInUse, [Next]_vars
             PROVE  TrackInUse'
  BY DEF IInv
<1> USE DEF TypeOK, CountTypes, SessionKept, TrackInUse, flags, counts, devices, playVars,
            recVars, cbVars, apiVars
<1>1. CASE Api
  BY <1>1
  DEF Api, Start, ResetStatus, StartRecord, Stop, Joined, StopJoinRecord,
      StopJoinPlay, Release
<1>2. CASE Play
  BY <1>2
  DEF Play, PlayCreate, PlayGoto, PlayFrame, PlayFirst, PlayFirstWait,
      PlayWaits, ClassMonitorFree, PlayFirstPass, PlayClearTest, MustClear,
      PlayClearWait, PlayClearPass, PlayWaitInterrupted, PlayResume, PlayPut,
      HasRoom, PlayWrite, PlayCount, Up, PlayFinally
<1>3. CASE Record
  BY <1>3
  DEF Record, RecAnnounce, RecGoto, Notify, RecWarm, RecSleepInterrupted,
      RecCreate, RecTake, RecRead, RecDry, RecClear, RecDrain, RecEmpty,
      RecPause, RecFlush, RecZero, RecEndClear, RecNap, RecFinally, RecDie
<1>4. CASE Callback
  BY <1>4
  DEF Callback, CbBegin, CbPosition, Up, CbUnderrun, CbRollCount, Back,
      CbRollPosition
<1>5. CASE PlayFault
  BY <1>5 DEF PlayFault, PlayGoto
<1>6. CASE RecFault \/ RecSpinEnds
  BY <1>6 DEF RecFault, RecSpinEnds
<1>7. CASE NotifyLater
  BY <1>7 DEF NotifyLater, Notify, ClassMonitorFree
<1>8. CASE HwPlays
  BY <1>8 DEF HwPlays
<1>9. CASE UNCHANGED vars
  BY <1>9 DEF vars
<1> QED BY <1>1, <1>2, <1>3, <1>4, <1>5, <1>6, <1>7, <1>8, <1>9 DEF Next

LEMMA IInvStep == IInv /\ [Next]_vars => IInv'
BY TypeStep, DevicesOwnedStep, SessionKeptStep, FlagsTellTruthStep, WaitsForSomeoneStep,
   FrameInHandStep, ToldStep, TrackInUseStep DEF IInv

LEMMA IInvHolds == Spec => []IInv
BY IInvInit, IInvStep, PTL DEF Spec

-----------------------------------------------------------------------------
(* What follows. *)

(* When stop() has returned nothing of the session is left.                 *)
THEOREM StoppedIsQuietHolds == Spec => []StoppedIsQuiet
<1>1. IInv => StoppedIsQuiet
  BY DEF IInv, SessionKept, DevicesOwned, StoppedIsQuiet
<1> QED BY <1>1, IInvHolds, PTL

(* While the play thread waits there is a reason to wait and a thread that  *)
(* will notify it.                                                          *)
THEOREM NoLostWakeupHolds == Spec => []NoLostWakeup
<1>1. IInv => NoLostWakeup
  BY DEF IInv, FlagsTellTruth, WaitsForSomeone, NoLostWakeup
<1> QED BY <1>1, IInvHolds, PTL

(* A clear leaves at most one frame in playBuffer, and in a track that is   *)
(* still paused when it is flushed.                                         *)
THEOREM ClearedTogetherHolds == Spec => []ClearedTogether
<1>1. IInv => ClearedTogether
  BY DEF IInv, FrameInHand, One, ClearedTogether, TypeOK, CountTypes
<1> QED BY <1>1, IInvHolds, PTL

(* While stop() waits, the thread it waits for can go on.                   *)
THEOREM StopNeverStuckHolds == Spec => []StopNeverStuck
<1>1. IInv => StopNeverStuck
  BY ConstantsAssumption
  DEF IInv, StopNeverStuck, Told, TrackInUse, SessionKept, ClassMonitorFree, TypeOK,
      PlaceTypes
<1> QED BY <1>1, IInvHolds, PTL

(* What a step of the joined record thread, or of the joined play thread,   *)
(* does to its place.                                                       *)
LEMMA RecordGoesForward ==
  ASSUME IInv, Next, apiPc = "joinRecord", recPc' # recPc
  PROVE  RecPlace[recPc] < RecPlace[recPc']
<1> USE DEF IInv, Told, RecPlace, flags, counts, devices, playVars, recVars, cbVars, apiVars
<1>1. CASE Api
  BY <1>1
  DEF Api, Start, ResetStatus, StartRecord, Stop, Joined, StopJoinRecord,
      StopJoinPlay, Release
<1>2. CASE Record
  BY <1>2
  DEF Record, RecAnnounce, RecGoto, Notify, RecWarm, RecSleepInterrupted,
      RecCreate, RecTake, RecRead, RecDry, RecClear, RecDrain, RecEmpty,
      RecPause, RecFlush, RecZero, RecEndClear, RecNap, RecFinally, RecDie
<1>3. CASE RecFault \/ RecSpinEnds
  BY <1>3 DEF RecFault, RecSpinEnds
<1>4. CASE Play \/ PlayFault
  BY <1>4
  DEF Play, PlayCreate, PlayGoto, PlayFrame, PlayFirst, PlayFirstWait,
      PlayWaits, ClassMonitorFree, PlayFirstPass, PlayClearTest, MustClear,
      PlayClearWait, PlayClearPass, PlayWaitInterrupted, PlayResume, PlayPut,
      HasRoom, PlayWrite, PlayCount, Up, PlayFinally, PlayFault
<1>5. CASE Callback \/ NotifyLater \/ HwPlays
  BY <1>5
  DEF Callback, CbBegin, CbPosition, Up, CbUnderrun, CbRollCount, Back,
      CbRollPosition, NotifyLater, HwPlays
<1> QED BY <1>1, <1>2, <1>3, <1>4, <1>5 DEF Next

LEMMA PlayGoesForward ==
  ASSUME IInv, Next, apiPc = "joinPlay", playPc' # playPc
  PROVE  PlayPlace[playPc] < PlayPlace[playPc']
<1> USE DEF IInv, Told, SessionKept, FlagsTellTruth, PlayPlace, flags, counts, devices,
            playVars, recVars, cbVars, apiVars
<1>1. CASE Api
  BY <1>1
  DEF Api, Start, ResetStatus, StartRecord, Stop, Joined, StopJoinRecord,
      StopJoinPlay, Release
<1>2. CASE Record \/ RecFault \/ RecSpinEnds
  BY <1>2
  DEF Record, RecAnnounce, RecGoto, Notify, RecWarm, RecSleepInterrupted,
      RecCreate, RecTake, RecRead, RecDry, RecClear, RecDrain, RecEmpty,
      RecPause, RecFlush, RecZero, RecEndClear, RecNap, RecFinally, RecDie, RecFault,
      RecSpinEnds
<1>3. CASE Play \/ PlayFault
  BY <1>3
  DEF Play, PlayCreate, PlayGoto, PlayFrame, PlayFirst, PlayFirstWait,
      PlayWaits, ClassMonitorFree, PlayFirstPass, PlayClearTest, MustClear,
      PlayClearWait, PlayClearPass, PlayWaitInterrupted, PlayResume, PlayPut,
      HasRoom, PlayWrite, PlayCount, Up, PlayFinally, PlayFault
<1>4. CASE NotifyLater
  BY <1>4 DEF NotifyLater, Notify
<1>5. CASE Callback \/ HwPlays
  BY <1>5
  DEF Callback, CbBegin, CbPosition, Up, CbUnderrun, CbRollCount, Back,
      CbRollPosition, HwPlays
<1> QED BY <1>1, <1>2, <1>3, <1>4, <1>5 DEF Next

(* A thread that stop() waits for goes forward only.                        *)
THEOREM StopGoesForwardHolds == Spec => StopGoesForward
<1> DEFINE Forward ==
      /\ apiPc = "joinRecord" /\ recPc' # recPc => RecPlace[recPc] < RecPlace[recPc']
      /\ apiPc = "joinPlay" /\ playPc' # playPc => PlayPlace[playPc] < PlayPlace[playPc']
<1>1. IInv /\ [Next]_vars => [Forward]_vars
  BY RecordGoesForward, PlayGoesForward
<1> QED BY <1>1, IInvHolds, PTL DEF Spec, StopGoesForward

=============================================================================
