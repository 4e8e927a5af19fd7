------------------------------ MODULE AECCore ------------------------------
(***************************************************************************)
(* AECCore.java: one echo-cancelling session after another on one player.  *)
(* start() creates a play thread, which feeds the AudioTrack, and a record *)
(* thread, which reads the AudioRecord and cancels the echo of what was    *)
(* played.  They hand each other frames through playBuffer and meet on the *)
(* monitor of AECCore.class: the play thread waits there until the record  *)
(* thread runs, and whenever the record thread has run dry and clears the  *)
(* devices.  The AudioTrack reports each frame played to a callback on the *)
(* main looper.  stop() ends both threads.                                 *)
(*                                                                         *)
(* start, stop and release are synchronized on the player, so that at most *)
(* one of them is running: apiPc is where it is, whichever thread runs it. *)
(* The play thread and the notifier hold the class monitor only while they *)
(* evaluate a condition, which is one step here; the record thread holds   *)
(* it while it clears, so that it is free unless recPc says otherwise.     *)
(***************************************************************************)
EXTENDS Integers

CONSTANTS
  WarmUp,         (* 6: the record thread waits until a count exceeds it   *)
  UnderrunAfter,  (* 10: the callback looks for underruns past this count  *)
  Rollover,       (* 1000: past this count both counts are set back ...    *)
  Rollback,       (* 100: ... by this                                      *)
  PlayCap,        (* frames playBuffer holds                               *)
  HwCap,          (* frames the AudioTrack holds                           *)
  MaxDue,         (* bound: notifications queued on the main looper        *)
  MaxCount,       (* bound: neither count goes above it ...                *)
  MaxLag,         (* bound: ... and playPosition not below -MaxLag         *)
  MaxStarts       (* bound: accepted calls of start                        *)

ASSUME ConstantsAssumption ==
  /\ WarmUp \in Nat /\ UnderrunAfter \in Nat
  /\ WarmUp <= UnderrunAfter
  /\ Rollover \in Nat /\ Rollback \in 1 .. Rollover - UnderrunAfter
  /\ PlayCap \in Nat \ {0} /\ HwCap \in Nat \ {0} /\ MaxDue \in Nat \ {0}
  /\ MaxCount \in Nat /\ MaxCount >= Rollover /\ MaxLag \in Nat
  /\ MaxStarts \in Nat

VARIABLES
  mIsPlayThreadAlive, mIsWorking, mIsRecodeWorking, audioRecodeStart,
  isFirst, isClearing, shouldClear, isSupportPeriod,
  playCount,    (* frames written to the AudioTrack                        *)
  playPosition, (* frames the AudioTrack reported played                   *)
  playBuffer,   (* whole frames in it                                      *)
  released,     (* the three buffers are null                              *)
  audioPlay,    (* the AudioTrack: none (null), playing or paused          *)
  audioRecode,  (* the AudioRecord: none (null) or recording               *)
  inHw,         (* frames inside the AudioTrack                            *)
  due,          (* position notifications posted to the main looper        *)
  playPc, playTmp, playInterrupted,
  recPc, recInterrupted,
  cbPc, cbTmp,  (* the position callback                                   *)
  notifiers,    (* the threads a dying record thread leaves behind         *)
  apiPc,        (* start or stop, where it is                              *)
  starts,       (* start calls accepted                                    *)
  stale         (* history: start found shouldClear already set            *)

flags     == <<mIsPlayThreadAlive, mIsWorking, mIsRecodeWorking,
               audioRecodeStart, isFirst, isClearing>>
counts    == <<playCount, playPosition>>
devices   == <<audioPlay, audioRecode, inHw, due>>
playVars  == <<playPc, playTmp, playInterrupted>>
recVars   == <<recPc, recInterrupted>>
cbVars    == <<cbPc, cbTmp>>
apiVars   == <<apiPc, starts>>
vars == <<flags, shouldClear, isSupportPeriod, counts, playBuffer, released,
          devices, playVars, recVars, cbVars, notifiers, apiVars, stale>>

Init ==
  /\ mIsPlayThreadAlive = FALSE /\ mIsWorking = FALSE
  /\ mIsRecodeWorking = TRUE /\ audioRecodeStart = FALSE
  /\ isFirst = TRUE /\ isClearing = FALSE /\ shouldClear = FALSE
  /\ isSupportPeriod = FALSE
  /\ playCount = 0 /\ playPosition = 0 /\ playBuffer = 0
  /\ released = FALSE
  /\ audioPlay = "none" /\ audioRecode = "none" /\ inHw = 0 /\ due = 0
  /\ playPc = "none" /\ playTmp = 0 /\ playInterrupted = FALSE
  /\ recPc = "none" /\ recInterrupted = FALSE
  /\ cbPc = "idle" /\ cbTmp = 0
  /\ notifiers = 0
  /\ apiPc = "idle" /\ starts = 0
  /\ stale = FALSE

(* The counts are ints of the program, cut off at the bounds. *)
Up(n)   == IF n < MaxCount THEN n + 1 ELSE n
Back(n) == IF n - Rollback < -MaxLag THEN -MaxLag ELSE n - Rollback

(* The record thread is inside synchronized (AECCore.class). *)
ClassMonitorFree ==
  recPc \notin {"clear", "drain", "spin", "empty", "pause", "flush", "zero", "zeroFull",
                "endClear"}

(* Mutant: a notify() that misses the wait for a clear. *)
NotifyFirstOnly == playPc' = IF playPc = "firstWait" THEN "firstLock" ELSE playPc

(* AECCore.class.notify(): the play thread is the only one that ever waits. *)
Notify ==
  playPc' = CASE playPc = "firstWait" -> "firstLock"
              [] playPc = "clearWait" -> "clearLock"
              [] OTHER -> playPc

(* Mutant: a clear that does not hold the play thread back. *)
OnlyAskedToClear == shouldClear

(* The play thread must wait until the record thread has cleared. *)
MustClear == isClearing \/ shouldClear

(* resetStatus(): everything a session left behind, except shouldClear. *)
ResetStatus(alive, working) ==
  /\ mIsPlayThreadAlive' = alive
  /\ mIsWorking' = working
  /\ mIsRecodeWorking' = TRUE
  /\ audioRecodeStart' = FALSE
  /\ isFirst' = TRUE
  /\ isClearing' = FALSE
  /\ playCount' = 0
  /\ playPosition' = 0

-----------------------------------------------------------------------------
(* start, stop, release. *)

(* start() on a player that works returns at once; otherwise the play thread*)
(* is started first ...                                                     *)
Start ==
  /\ apiPc = "idle" /\ ~mIsWorking
  /\ starts < MaxStarts
  /\ ResetStatus(TRUE, TRUE)
  /\ playPc' = "create" /\ playTmp' = 0 /\ playInterrupted' = FALSE
  /\ apiPc' = "startRecord"
  /\ starts' = starts + 1
  /\ stale' = shouldClear
  /\ UNCHANGED <<shouldClear, isSupportPeriod, playBuffer, released, devices,
                 recVars, cbVars, notifiers>>

(* ... and then the record thread. *)
StartRecord ==
  /\ apiPc = "startRecord"
  /\ recPc' = "announce" /\ recInterrupted' = FALSE
  /\ apiPc' = "idle"
  /\ UNCHANGED <<flags, shouldClear, isSupportPeriod, counts, playBuffer, released,
                 devices, playVars, cbVars, notifiers, starts, stale>>

(* Mutant: a join() that is cut short. *)
JoinGivesUp(pc) == pc = pc

(* join() has nothing to wait for, or returns. *)
Joined(pc) == pc \in {"none", "dead"}

(* Mutant: the threads are interrupted, but not told to end. *)
StopInterruptsOnly ==
  /\ apiPc = "idle"
  /\ recInterrupted' = ~Joined(recPc)
  /\ apiPc' = "joinRecord"
  /\ UNCHANGED <<flags, shouldClear, isSupportPeriod, counts, playBuffer, released,
                 devices, playVars, recPc, cbVars, notifiers, starts, stale>>

(* Mutant: the threads are told to end, but not interrupted. *)
StopTellsOnly ==
  /\ apiPc = "idle"
  /\ mIsPlayThreadAlive' = FALSE
  /\ apiPc' = "joinRecord"
  /\ UNCHANGED <<mIsWorking, mIsRecodeWorking, audioRecodeStart, isFirst, isClearing,
                 shouldClear, isSupportPeriod, counts, playBuffer, released, devices,
                 playVars, recVars, cbVars, notifiers, starts, stale>>

(* stop() interrupts the record thread, waits for its end, then does the    *)
(* same with the play thread, empties the buffers and resets the flags.     *)
Stop ==
  /\ apiPc = "idle"
  /\ mIsPlayThreadAlive' = FALSE
  /\ recInterrupted' = ~Joined(recPc)
  /\ apiPc' = "joinRecord"
  /\ UNCHANGED <<mIsWorking, mIsRecodeWorking, audioRecodeStart, isFirst,
                 isClearing, shouldClear, isSupportPeriod, counts, playBuffer,
                 released, devices, playVars, recPc, cbVars, notifiers, starts, stale>>

StopJoinRecord ==
  /\ apiPc = "joinRecord" /\ Joined(recPc)
  /\ recPc' = "none"
  /\ playInterrupted' = ~Joined(playPc)
  /\ apiPc' = "joinPlay"
  /\ UNCHANGED <<flags, shouldClear, isSupportPeriod, counts, playBuffer, released,
                 devices, playPc, playTmp, recInterrupted, cbVars, notifiers,
                 starts, stale>>

StopJoinPlay ==
  /\ apiPc = "joinPlay" /\ Joined(playPc)
  /\ playPc' = "none"
  /\ playBuffer' = 0
  /\ ResetStatus(FALSE, FALSE)
  /\ apiPc' = "idle"
  /\ UNCHANGED <<shouldClear, isSupportPeriod, released, devices, playTmp,
                 playInterrupted, recVars, cbVars, notifiers, starts, stale>>

(* release() does not wait for the threads: they find null where the        *)
(* buffers were.                                                            *)
Release ==
  /\ apiPc = "idle" /\ ~released
  /\ released' = TRUE
  /\ UNCHANGED <<flags, shouldClear, isSupportPeriod, counts, playBuffer, devices,
                 playVars, recVars, cbVars, notifiers, apiVars, stale>>

-----------------------------------------------------------------------------
(* The play thread. *)

PlayGoto(from, to) == playPc = from /\ playPc' = to

(* createTracker gives a track, which is asked to report its position and   *)
(* started, or it fails.                                                    *)
PlayCreate ==
  /\ \/ /\ PlayGoto("create", "loop")
        /\ audioPlay' = "playing"
        /\ isSupportPeriod' \in BOOLEAN
     \/ /\ PlayGoto("create", "finally")
        /\ audioPlay' = "none"
        /\ UNCHANGED isSupportPeriod
  /\ inHw' = 0
  /\ UNCHANGED <<flags, shouldClear, counts, playBuffer, released, audioRecode, due,
                 playTmp, playInterrupted, recVars, cbVars, notifiers, apiVars, stale>>

(* The top of the loop: a frame from buffer, or silence; and play() if      *)
(* somebody paused the track.                                               *)
PlayFrame ==
  /\ playPc = "loop"
  /\ IF released
       THEN playPc' = "finally" /\ UNCHANGED audioPlay
       ELSE /\ playPc' = "first"
            /\ audioPlay' = "playing"
  /\ UNCHANGED <<flags, shouldClear, isSupportPeriod, counts, playBuffer, released,
                 audioRecode, inHw, due, playTmp, playInterrupted, recVars, cbVars,
                 notifiers, apiVars, stale>>

PlayFirst ==
  /\ playPc = "first"
  /\ playPc' = IF isFirst /\ mIsRecodeWorking THEN "firstLock" ELSE "clearTest"
  /\ UNCHANGED <<flags, shouldClear, isSupportPeriod, counts, playBuffer, released,
                 devices, playTmp, playInterrupted, recVars, cbVars, notifiers,
                 apiVars, stale>>

(* wait(): a thread that was interrupted leaves with the exception. *)
PlayWaits(from, to) ==
  /\ playPc = from /\ ClassMonitorFree
  /\ playPc' = IF playInterrupted THEN "finally" ELSE to
  /\ playInterrupted' = FALSE
  /\ UNCHANGED <<flags, shouldClear, isSupportPeriod, counts, playBuffer, released,
                 devices, playTmp, recVars, cbVars, notifiers, apiVars, stale>>

PlayFirstWait ==
  /\ ~audioRecodeStart /\ mIsRecodeWorking
  /\ PlayWaits("firstLock", "firstWait")

PlayFirstPass ==
  /\ PlayGoto("firstLock", "clearTest") /\ ClassMonitorFree
  /\ audioRecodeStart \/ ~mIsRecodeWorking
  /\ isFirst' = FALSE
  /\ UNCHANGED <<mIsPlayThreadAlive, mIsWorking, mIsRecodeWorking, audioRecodeStart,
                 isClearing, shouldClear, isSupportPeriod, counts, playBuffer,
                 released, devices, playTmp, playInterrupted, recVars, cbVars,
                 notifiers, apiVars, stale>>

PlayClearTest ==
  /\ playPc = "clearTest"
  /\ playPc' = IF MustClear THEN "clearLock" ELSE "put"
  /\ UNCHANGED <<flags, shouldClear, isSupportPeriod, counts, playBuffer, released,
                 devices, playTmp, playInterrupted, recVars, cbVars, notifiers,
                 apiVars, stale>>

PlayClearWait ==
  /\ MustClear /\ mIsRecodeWorking
  /\ PlayWaits("clearLock", "clearWait")

PlayClearPass ==
  /\ PlayGoto("clearLock", "resume") /\ ClassMonitorFree
  /\ ~MustClear \/ ~mIsRecodeWorking
  /\ UNCHANGED <<flags, shouldClear, isSupportPeriod, counts, playBuffer, released,
                 devices, playTmp, playInterrupted, recVars, cbVars, notifiers,
                 apiVars, stale>>

(* interrupt() reaches a thread that waits. *)
PlayWaitInterrupted ==
  /\ playPc \in {"firstWait", "clearWait"}
  /\ playInterrupted /\ ClassMonitorFree
  /\ playPc' = "finally" /\ playInterrupted' = FALSE
  /\ UNCHANGED <<flags, shouldClear, isSupportPeriod, counts, playBuffer, released,
                 devices, playTmp, recVars, cbVars, notifiers, apiVars, stale>>

PlayResume ==
  /\ PlayGoto("resume", "put")
  /\ audioPlay' = "playing"
  /\ UNCHANGED <<flags, shouldClear, isSupportPeriod, counts, playBuffer, released,
                 audioRecode, inHw, due, playTmp, playInterrupted, recVars, cbVars,
                 notifiers, apiVars, stale>>

(* Mutant: a ring that lets one frame too many in. *)
Overfills == playBuffer <= PlayCap

(* playBuffer.putAll finds room for one more frame. *)
HasRoom == playBuffer < PlayCap

(* The far end for the record thread; what does not fit is dropped. *)
PlayPut ==
  /\ playPc = "put"
  /\ IF released
       THEN playPc' = "finally" /\ UNCHANGED playBuffer
       ELSE /\ playPc' = "write"
            /\ playBuffer' = IF HasRoom THEN playBuffer + 1 ELSE playBuffer
  /\ UNCHANGED <<flags, shouldClear, isSupportPeriod, counts, released, devices,
                 playTmp, playInterrupted, recVars, cbVars, notifiers, apiVars, stale>>

(* AudioTrack.write blocks until there is room; then the time-stamp         *)
(* listener is called, and playCount is read.                               *)
PlayWrite ==
  /\ PlayGoto("write", "count")
  /\ inHw < HwCap
  /\ inHw' = inHw + 1
  /\ playTmp' = playCount
  /\ UNCHANGED <<flags, shouldClear, isSupportPeriod, counts, playBuffer, released,
                 audioPlay, audioRecode, due, playInterrupted, recVars, cbVars,
                 notifiers, apiVars, stale>>

(* playCount = playCount + 1, and the test of the loop. *)
PlayCount ==
  /\ playPc = "count"
  /\ playCount' = Up(playTmp) /\ playTmp' = 0
  /\ playPc' = IF mIsPlayThreadAlive THEN "loop" ELSE "finally"
  /\ UNCHANGED <<flags, shouldClear, isSupportPeriod, playPosition, playBuffer,
                 released, devices, playInterrupted, recVars, cbVars, notifiers,
                 apiVars, stale>>

(* The AudioTrack or the listener throws. *)
PlayFault ==
  /\ PlayGoto("write", "finally")
  /\ UNCHANGED <<flags, shouldClear, isSupportPeriod, counts, playBuffer, released,
                 devices, playTmp, playInterrupted, recVars, cbVars, notifiers,
                 apiVars, stale>>

(* Only a track that plays is released. *)
PlayFinally ==
  /\ PlayGoto("finally", "dead")
  /\ IF audioPlay = "playing"
       THEN audioPlay' = "none" /\ inHw' = 0
       ELSE UNCHANGED <<audioPlay, inHw>>
  /\ UNCHANGED <<flags, shouldClear, isSupportPeriod, counts, playBuffer, released,
                 audioRecode, due, playTmp, playInterrupted, recVars, cbVars,
                 notifiers, apiVars, stale>>

-----------------------------------------------------------------------------
(* The record thread. *)

RecGoto(from, to) == recPc = from /\ recPc' = to

RecAnnounce ==
  /\ RecGoto("announce", "warmUp")
  /\ audioRecodeStart' = TRUE
  /\ Notify
  /\ UNCHANGED <<mIsPlayThreadAlive, mIsWorking, mIsRecodeWorking, isFirst, isClearing,
                 shouldClear, isSupportPeriod, counts, playBuffer, released, devices,
                 playTmp, playInterrupted, recInterrupted, cbVars, notifiers, apiVars,
                 stale>>

(* Mutant: trust a device to report its position. *)
ReportedProgress == playPosition

(* What the warm-up counts: frames heard, if the device tells. *)
Progress == IF isSupportPeriod THEN playPosition ELSE playCount

(* Enough was played; the far end of what was already heard is dropped. *)
RecWarm ==
  /\ recPc = "warmUp" /\ Progress > WarmUp
  /\ IF released /\ playPosition > 0
       THEN recPc' = "finally" /\ UNCHANGED playBuffer
       ELSE /\ recPc' = "create"
            /\ playBuffer' = CASE playPosition <= 0         -> playBuffer
                               [] playPosition > playBuffer -> 0
                               [] OTHER -> playBuffer - playPosition
  /\ UNCHANGED <<flags, shouldClear, isSupportPeriod, counts, released, devices,
                 playVars, recInterrupted, cbVars, notifiers, apiVars, stale>>

(* Thread.sleep throws, while warming up or after a clear. *)
RecSleepInterrupted ==
  /\ recPc \in {"warmUp", "nap"} /\ recInterrupted
  /\ recPc' = "finally" /\ recInterrupted' = FALSE
  /\ UNCHANGED <<flags, shouldClear, isSupportPeriod, counts, playBuffer, released,
                 devices, playVars, cbVars, notifiers, apiVars, stale>>

RecCreate ==
  /\ \/ RecGoto("create", "take") /\ audioRecode' = "recording"
     \/ RecGoto("create", "finally") /\ UNCHANGED audioRecode
  /\ UNCHANGED <<flags, shouldClear, isSupportPeriod, counts, playBuffer, released,
                 audioPlay, inHw, due, playVars, recInterrupted, cbVars, notifiers,
                 apiVars, stale>>

(* The test of the loop and playBuffer.takeAll(). *)
RecTake ==
  /\ recPc = "take"
  /\ recPc' = IF ~mIsPlayThreadAlive \/ released THEN "finally"
              ELSE IF playBuffer = 0 THEN "dry" ELSE "read"
  /\ playBuffer' = IF recPc' = "read" THEN playBuffer - 1 ELSE playBuffer
  /\ UNCHANGED <<flags, shouldClear, isSupportPeriod, counts, released, devices,
                 playVars, recInterrupted, cbVars, notifiers, apiVars, stale>>

(* One frame from the microphone: to the listener, through the canceller,   *)
(* into filterBuffer.                                                       *)
RecRead ==
  /\ recPc = "read"
  /\ recPc' \in IF released THEN {"take", "finally"} ELSE {"take"}
  /\ UNCHANGED <<flags, shouldClear, isSupportPeriod, counts, playBuffer, released,
                 devices, playVars, recInterrupted, cbVars, notifiers, apiVars, stale>>

(* isClearing is set before the monitor is entered. *)
RecDry ==
  /\ RecGoto("dry", "clear")
  /\ isClearing' = TRUE
  /\ UNCHANGED <<mIsPlayThreadAlive, mIsWorking, mIsRecodeWorking, audioRecodeStart,
                 isFirst, shouldClear, isSupportPeriod, counts, playBuffer, released,
                 devices, playVars, recInterrupted, cbVars, notifiers, apiVars, stale>>

(* Inside the monitor, a few frames of silence go through the canceller;    *)
(* what comes out goes to filterBuffer if the application wants it          *)
(* (mIsRecordAudio, which it sets at any time: a choice here).              *)
RecClear ==
  /\ recPc = "clear"
  /\ recPc' \in IF released THEN {"drain", "finally"} ELSE {"drain"}
  /\ UNCHANGED <<flags, shouldClear, isSupportPeriod, counts, playBuffer, released,
                 devices, playVars, recInterrupted, cbVars, notifiers, apiVars, stale>>

(* The microphone is read until a read takes 10 ms.  A device whose reads   *)
(* come back at once with an error keeps the thread in this loop, unless    *)
(* the error code reaches putAll (mIsRecordAudio) or the listener objects:  *)
(* see RecFault.                                                            *)
RecDrain ==
  /\ recPc = "drain"
  /\ recPc' \in {"empty", "spin"} \cup (IF released THEN {"finally"} ELSE {})
  /\ UNCHANGED <<flags, shouldClear, isSupportPeriod, counts, playBuffer, released,
                 devices, playVars, recInterrupted, cbVars, notifiers, apiVars, stale>>

(* The loop ends when the device, the application or the listener changes;  *)
(* nothing in the code makes it, an interrupt() included.                   *)
RecSpinEnds ==
  /\ recPc = "spin"
  /\ recPc' \in {"empty", "finally"}
  /\ UNCHANGED <<flags, shouldClear, isSupportPeriod, counts, playBuffer, released,
                 devices, playVars, recInterrupted, cbVars, notifiers, apiVars, stale>>

(* If there is a track that has played something, playBuffer is emptied ... *)
RecEmpty ==
  /\ recPc = "empty"
  /\ IF audioPlay # "none" /\ playPosition > 0
       THEN IF released THEN recPc' = "finally" /\ UNCHANGED playBuffer
                        ELSE recPc' = "pause" /\ playBuffer' = 0
       ELSE recPc' = "endClear" /\ UNCHANGED playBuffer
  /\ UNCHANGED <<flags, shouldClear, isSupportPeriod, counts, released, devices,
                 playVars, recInterrupted, cbVars, notifiers, apiVars, stale>>

(* ... the track is paused, unless the play thread took it away in the      *)
(* meantime ...                                                             *)
RecPause ==
  /\ recPc = "pause"
  /\ IF audioPlay = "none"
       THEN recPc' = "finally" /\ UNCHANGED audioPlay
       ELSE recPc' = "flush" /\ audioPlay' = "paused"
  /\ UNCHANGED <<flags, shouldClear, isSupportPeriod, counts, playBuffer, released,
                 audioRecode, inHw, due, playVars, recInterrupted, cbVars, notifiers,
                 apiVars, stale>>

(* ... and flushed, which does nothing to a track that the play thread has  *)
(* started again since ...                                                  *)
RecFlush ==
  /\ recPc = "flush"
  /\ recPc' = CASE audioPlay = "none"   -> "finally"
                [] audioPlay = "paused" -> "zero"
                [] OTHER                -> "zeroFull"
  /\ inHw' = IF audioPlay = "paused" THEN 0 ELSE inHw
  /\ UNCHANGED <<flags, shouldClear, isSupportPeriod, counts, playBuffer, released,
                 audioPlay, audioRecode, due, playVars, recInterrupted, cbVars,
                 notifiers, apiVars, stale>>

(* ... and the counts start again in any case. *)
RecZero ==
  /\ recPc \in {"zero", "zeroFull"} /\ recPc' = "endClear"
  /\ playPosition' = 0 /\ playCount' = 0
  /\ UNCHANGED <<flags, shouldClear, isSupportPeriod, playBuffer, released, devices,
                 playVars, recInterrupted, cbVars, notifiers, apiVars, stale>>

(* Mutant: the request to clear survives the clear. *)
RecEndClearKeepsRequest ==
  /\ RecGoto("endClear", "nap")
  /\ isClearing' = FALSE /\ stale' = FALSE
  /\ Notify
  /\ UNCHANGED <<mIsPlayThreadAlive, mIsWorking, mIsRecodeWorking, audioRecodeStart,
                 isFirst, shouldClear, isSupportPeriod, counts, playBuffer, released,
                 devices, playTmp, playInterrupted, recInterrupted, cbVars, notifiers,
                 apiVars>>

RecEndClear ==
  /\ RecGoto("endClear", "nap")
  /\ isClearing' = FALSE /\ shouldClear' = FALSE
  /\ stale' = FALSE
  /\ Notify
  /\ UNCHANGED <<mIsPlayThreadAlive, mIsWorking, mIsRecodeWorking, audioRecodeStart,
                 isFirst, isSupportPeriod, counts, playBuffer, released, devices,
                 playTmp, playInterrupted, recInterrupted, cbVars, notifiers, apiVars>>

RecNap ==
  /\ RecGoto("nap", "take")
  /\ UNCHANGED <<flags, shouldClear, isSupportPeriod, counts, playBuffer, released,
                 devices, playVars, recInterrupted, cbVars, notifiers, apiVars, stale>>

(* The listener throws, a read of the drain loop answers with an error code *)
(* that putAll takes for a length, or the AudioRecord does not restart.     *)
RecFault ==
  /\ recPc \in {"read", "drain", "empty"}
  /\ recPc' = "finally"
  /\ UNCHANGED <<flags, shouldClear, isSupportPeriod, counts, playBuffer, released,
                 devices, playVars, recInterrupted, cbVars, notifiers, apiVars, stale>>

RecFinally ==
  /\ RecGoto("finally", "notify")
  /\ mIsRecodeWorking' = FALSE
  /\ UNCHANGED <<mIsPlayThreadAlive, mIsWorking, audioRecodeStart, isFirst, isClearing,
                 shouldClear, isSupportPeriod, counts, playBuffer, released, devices,
                 playVars, recInterrupted, cbVars, notifiers, apiVars, stale>>

(* The AudioRecord goes, and a thread is left that will notify later. *)
RecDie ==
  /\ RecGoto("notify", "dead")
  /\ audioRecode' = "none"
  /\ notifiers' = notifiers + 1
  /\ UNCHANGED <<flags, shouldClear, isSupportPeriod, counts, playBuffer, released,
                 audioPlay, inHw, due, playVars, recInterrupted, cbVars, apiVars, stale>>

NotifyLater ==
  /\ notifiers > 0 /\ ClassMonitorFree
  /\ notifiers' = notifiers - 1
  /\ Notify
  /\ UNCHANGED <<flags, shouldClear, isSupportPeriod, counts, playBuffer, released,
                 devices, playTmp, playInterrupted, recVars, cbVars, apiVars, stale>>

-----------------------------------------------------------------------------
(* The AudioTrack, and onPeriodicNotification on the main looper. *)

HwPlays ==
  /\ audioPlay = "playing" /\ inHw > 0 /\ due < MaxDue
  /\ inHw' = inHw - 1
  /\ due' = IF isSupportPeriod THEN due + 1 ELSE due
  /\ UNCHANGED <<flags, shouldClear, isSupportPeriod, counts, playBuffer, released,
                 audioPlay, audioRecode, playVars, recVars, cbVars, notifiers,
                 apiVars, stale>>

CbBegin ==
  /\ cbPc = "idle" /\ due > 0
  /\ due' = due - 1
  /\ cbPc' = "position" /\ cbTmp' = playPosition
  /\ UNCHANGED <<flags, shouldClear, isSupportPeriod, counts, playBuffer, released,
                 audioPlay, audioRecode, inHw, playVars, recVars, notifiers, apiVars,
                 stale>>

CbPosition ==
  /\ cbPc = "position"
  /\ playPosition' = Up(cbTmp)
  /\ cbPc' = "underrun" /\ cbTmp' = 0
  /\ UNCHANGED <<flags, shouldClear, isSupportPeriod, playCount, playBuffer, released,
                 devices, playVars, recVars, notifiers, apiVars, stale>>

(* As many frames played as were written: the track has run dry. *)
CbUnderrun ==
  /\ cbPc = "underrun"
  /\ shouldClear' = (shouldClear \/ (playPosition > UnderrunAfter /\ playCount = playPosition))
  /\ cbPc' = IF playCount > Rollover THEN "rollCount" ELSE "idle"
  /\ cbTmp' = IF playCount > Rollover THEN playCount ELSE cbTmp
  /\ UNCHANGED <<flags, isSupportPeriod, counts, playBuffer, released, devices,
                 playVars, recVars, notifiers, apiVars, stale>>

CbRollCount ==
  /\ cbPc = "rollCount"
  /\ playCount' = Back(cbTmp)
  /\ cbPc' = "rollPosition" /\ cbTmp' = playPosition
  /\ UNCHANGED <<flags, shouldClear, isSupportPeriod, playPosition, playBuffer, released,
                 devices, playVars, recVars, notifiers, apiVars, stale>>

CbRollPosition ==
  /\ cbPc = "rollPosition"
  /\ playPosition' = Back(cbTmp)
  /\ cbPc' = "idle" /\ cbTmp' = 0
  /\ UNCHANGED <<flags, shouldClear, isSupportPeriod, playCount, playBuffer, released,
                 devices, playVars, recVars, notifiers, apiVars, stale>>

-----------------------------------------------------------------------------
Api == Start \/ StartRecord \/ Stop \/ StopJoinRecord \/ StopJoinPlay \/ Release

PlayEnters == PlayFirstPass \/ PlayClearPass

Play ==
  \/ PlayCreate \/ PlayFrame \/ PlayFirst \/ PlayFirstWait \/ PlayFirstPass
  \/ PlayClearTest \/ PlayClearWait \/ PlayClearPass \/ PlayWaitInterrupted
  \/ PlayResume \/ PlayPut \/ PlayWrite \/ PlayCount \/ PlayFinally

Record ==
  \/ RecAnnounce \/ RecWarm \/ RecSleepInterrupted \/ RecCreate \/ RecTake
  \/ RecRead \/ RecDry \/ RecClear \/ RecDrain \/ RecEmpty \/ RecPause
  \/ RecFlush \/ RecZero \/ RecEndClear \/ RecNap \/ RecFinally \/ RecDie

Callback == CbBegin \/ CbPosition \/ CbUnderrun \/ CbRollCount \/ CbRollPosition

Next ==
  \/ Api \/ Play \/ PlayFault \/ Record \/ RecFault \/ RecSpinEnds
  \/ NotifyLater \/ HwPlays \/ Callback

Spec == Init /\ [][Next]_vars

(* Threads run; the devices play and record; a call of start or stop that   *)
(* has begun goes on.  The play thread gets into the monitor, and passes,   *)
(* some time when it can: the record thread leaves it free for a sleep of   *)
(* 100 ms after each clear.  Nobody has to call anything, no fault has to   *)
(* happen, and a microphone that fails at once need not recover.            *)
Fairness ==
  /\ WF_vars(Play) /\ SF_vars(PlayEnters)
  /\ WF_vars(Record)
  /\ WF_vars(NotifyLater)
  /\ WF_vars(HwPlays) /\ WF_vars(Callback)
  /\ WF_vars(StartRecord \/ StopJoinRecord \/ StopJoinPlay)

FairSpec == Spec /\ Fairness

-----------------------------------------------------------------------------
(* Properties. *)

(* The types of the fields and of the model's own variables. *)
FlagTypes ==
  /\ mIsPlayThreadAlive \in BOOLEAN /\ mIsWorking \in BOOLEAN
  /\ mIsRecodeWorking \in BOOLEAN /\ audioRecodeStart \in BOOLEAN
  /\ isFirst \in BOOLEAN /\ isClearing \in BOOLEAN /\ shouldClear \in BOOLEAN
  /\ isSupportPeriod \in BOOLEAN /\ released \in BOOLEAN
  /\ playInterrupted \in BOOLEAN /\ recInterrupted \in BOOLEAN /\ stale \in BOOLEAN

CountTypes ==
  /\ playCount \in Int /\ playPosition \in Int /\ playTmp \in Int /\ cbTmp \in Int
  /\ playBuffer \in 0 .. PlayCap
  /\ inHw \in 0 .. HwCap /\ due \in 0 .. MaxDue
  /\ notifiers \in Nat /\ starts \in 0 .. MaxStarts

PlaceTypes ==
  /\ audioPlay \in {"none", "playing", "paused"}
  /\ audioRecode \in {"none", "recording"}
  /\ playPc \in {"none", "create", "loop", "first", "firstLock", "firstWait",
                 "clearTest", "clearLock", "clearWait", "resume", "put", "write",
                 "count", "finally", "dead"}
  /\ recPc \in {"none", "announce", "warmUp", "create", "take", "read", "dry", "clear",
                "drain", "spin", "empty", "pause", "flush", "zero", "zeroFull",
                "endClear", "nap", "finally", "notify", "dead"}
  /\ cbPc \in {"idle", "position", "underrun", "rollCount", "rollPosition"}
  /\ apiPc \in {"idle", "startRecord", "joinRecord", "joinPlay"}

TypeOK == FlagTypes /\ CountTypes /\ PlaceTypes

(* When stop() has returned, and until the next start(), no thread of the   *)
(* player is left, the microphone is off, nothing sounds, and nobody holds  *)
(* the class monitor.                                                       *)
StoppedIsQuiet ==
  apiPc = "idle" /\ ~mIsWorking =>
    /\ playPc = "none" /\ recPc = "none"
    /\ audioRecode = "none" /\ audioPlay # "playing"
    /\ playBuffer = 0

(* No wake-up is lost: while the play thread waits, what it waits for has   *)
(* not happened yet, and there is a thread that will still notify it, be it *)
(* only the one a dying record thread leaves behind.                        *)
NoLostWakeup ==
  /\ playPc = "firstWait" =>
       ~audioRecodeStart /\ (apiPc = "startRecord" \/ recPc = "announce")
  /\ playPc = "clearWait" =>
       /\ MustClear
       /\ recPc \notin {"none", "dead"} \/ notifiers > 0

(* What is played and what the canceller is told was played stay in step:   *)
(* isClearing, set before playBuffer is emptied and the track flushed, lets *)
(* the play thread slip at most one frame into either of them before the    *)
(* counts are zeroed.  A track that the play thread starts again between    *)
(* pause() and flush() is not flushed and keeps what it holds ("zeroFull"); *)
(* of it nothing is said, but of playBuffer it is.                          *)
ClearedTogether ==
  /\ recPc \in {"pause", "flush", "zero", "zeroFull"} => playBuffer <= 1
  /\ recPc = "zero" => inHw <= 1

(* While stop() waits in a join, the thread it waits for can always go on:  *)
(* whatever sleep, wait, monitor or full AudioTrack it is in, or comes to,  *)
(* something will let it out.  Of the drain loop, see StopReturns.          *)
StopNeverStuck ==
  /\ apiPc = "joinRecord" /\ recPc = "warmUp" => recInterrupted
  /\ apiPc = "joinPlay" =>
       /\ ClassMonitorFree
       /\ playPc \in {"firstWait", "clearWait"} => playInterrupted
       /\ playPc = "write" /\ inHw = HwCap => audioPlay = "playing"

(* How far a thread has come on the ways to its end that do not go round    *)
(* its loop again.                                                          *)
RecPlace ==
  [announce |-> 1, warmUp |-> 2, create |-> 3, dry |-> 4, clear |-> 5, drain |-> 6,
   spin |-> 7, empty |-> 8, pause |-> 9, flush |-> 10, zero |-> 11, zeroFull |-> 11,
   endClear |-> 12, nap |-> 13, read |-> 14, take |-> 15, finally |-> 16,
   notify |-> 17, dead |-> 18, none |-> 19]
PlayPlace ==
  [create |-> 1, loop |-> 2, first |-> 3, firstWait |-> 4, firstLock |-> 5,
   clearTest |-> 6, clearWait |-> 7, clearLock |-> 8, resume |-> 9, put |-> 10,
   write |-> 11, count |-> 12, finally |-> 13, dead |-> 14, none |-> 15]

(* A thread that stop() waits for only goes forward: whatever the other     *)
(* threads and the devices do it begins nothing again and comes to each of  *)
(* its places at most once.  So the only way for stop() not to return is a  *)
(* place the thread stays in.                                               *)
StopGoesForward ==
  [][/\ apiPc = "joinRecord" /\ recPc' # recPc => RecPlace[recPc] < RecPlace[recPc']
     /\ apiPc = "joinPlay" /\ playPc' # playPc =>
          PlayPlace[playPc] < PlayPlace[playPc']]_vars

(* The record thread is in the drain loop of a clear with a microphone      *)
(* whose reads fail at once, and nobody to stop it.                         *)
Spinning == recPc = "spin"

(* stop() returns: both threads always come to their end once they are told,*)
(* unless the record thread never leaves the drain loop.                    *)
StopReturns ==
  apiPc \in {"joinRecord", "joinPlay"} ~> (apiPc = "idle" \/ []Spinning)

(* Playback goes on: from wherever it is, the play thread gets a frame into *)
(* the AudioTrack or ends.  It neither waits for ever nor blocks for ever in*)
(* a track somebody paused, unless the record thread never leaves the drain *)
(* loop.  Sessions that began with a request to clear that an earlier one   *)
(* left behind are excepted.                                                *)
PlaybackGoesOn ==
  (playPc \notin {"none", "dead"} /\ ~stale)
    ~> (playPc \in {"count", "none", "dead"} \/ stale \/ []Spinning)

(* The same of every session: init() is all that start() asks for.          *)
StartedPlays ==
  playPc \notin {"none", "dead"} ~> (playPc \in {"count", "none", "dead"} \/ []Spinning)

(* Recording begins, if there is a play thread to make the counts advance.  *)
WarmUpEnds ==
  (recPc = "warmUp" /\ ~stale) ~> (recPc # "warmUp" \/ playPc = "dead" \/ stale)

(* An underrun the callback reports is dealt with while the session lasts,  *)
(* unless the record thread never leaves the drain loop.                    *)
UnderrunIsCleared ==
  (shouldClear /\ mIsWorking /\ ~stale)
    ~> (~shouldClear \/ ~mIsRecodeWorking \/ ~mIsPlayThreadAlive \/ stale \/ []Spinning)
=============================================================================
