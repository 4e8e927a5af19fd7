---------------------------- MODULE AudioPlayer ----------------------------
(***************************************************************************)
(* AudioPlayer.java over the native canceller.  Every init() makes another *)
(* AECCore, but there is one native canceller: a handle in                 *)
(* WebRtcUtil.c and the globals apm, far_frame, near_frame of              *)
(* webrtc_aec.cpp.  Record threads use it under a mutex, release() frees   *)
(* it under the mutex, and init() replaces it without.                     *)
(*                                                                         *)
(* The application calls init, start, stop and release one at a time, in   *)
(* any order, as MainActivity does from its main thread.  Of an AECCore    *)
(* this module keeps what its record thread does to the canceller and to   *)
(* the monitor of AECCore.class, which all players share; the module       *)
(* AECCore has the rest.                                                   *)
(***************************************************************************)
EXTENDS Integers

CONSTANTS
  MaxInits,    (* bound: calls of init that reach the native canceller *)
  ClearFrames  (* frames a clear processes: msInSndCardBuf / 50 + 3    *)

ASSUME MaxInitsAssumption == MaxInits \in Nat
ASSUME ClearFramesAssumption == ClearFrames \in Nat \ {0}

Players == 1 .. MaxInits

VARIABLES
  mHasInit,
  mPlayer,    (* the current AECCore, 0 for null                           *)
  inits,      (* AECCores made, being made, or given up                    *)
  mIsWorking, (* of each AECCore ...                                       *)
  told,       (* ... stop() has told its threads to end                    *)
  released,   (* ... its buffers are null                                  *)
  rec,        (* ... where its record thread is                            *)
  left,       (* ... frames left of the clear it is in                     *)
  handle,     (* the native handle is not NULL                             *)
  canceller,  (* apm and the two frames                                    *)
  apiPc,      (* where the application is                                  *)
  crashed,    (* the process is gone                                       *)
  abandoned   (* history: a player was released with its threads running   *)

players == <<mIsWorking, told, released>>
record  == <<rec, left>>
native  == <<handle, canceller>>
facade  == <<mHasInit, mPlayer, inits>>
vars == <<facade, players, record, native, apiPc, crashed, abandoned>>

Init ==
  /\ mHasInit = FALSE /\ mPlayer = 0 /\ inits = 0
  /\ mIsWorking = [p \in Players |-> FALSE]
  /\ told = [p \in Players |-> FALSE]
  /\ released = [p \in Players |-> FALSE]
  /\ rec = [p \in Players |-> "none"]
  /\ left = [p \in Players |-> 0]
  /\ handle = FALSE /\ canceller = "none"
  /\ apiPc = "idle"
  /\ crashed = FALSE /\ abandoned = FALSE

Ended(p) == rec[p] \in {"none", "dead"}

(* Nobody holds pthread_mutex: it is held for single steps, and while a     *)
(* frame is processed.                                                      *)
MutexFree == \A p \in Players : rec[p] # "inside"

(* Nobody holds the monitor of AECCore.class: it is held while a clear      *)
(* processes its frames and empties the microphone, by other threads for    *)
(* single steps.                                                            *)
Draining == \E p \in Players : rec[p] = "drain"
MonitorFree == ~Draining /\ \A p \in Players : left[p] = 0

-----------------------------------------------------------------------------
(* init. *)

(* Mutant: the running player is not stopped. *)
InitCallKeepsRunning ==
  /\ apiPc = "idle" /\ inits < MaxInits
  /\ apiPc' = "initNew"
  /\ UNCHANGED <<facade, players, record, native, crashed, abandoned>>

(* Mutant: stop() is not asked whether there is a player. *)
InitCallUnchecked ==
  /\ apiPc = "idle" /\ inits < MaxInits
  /\ IF mHasInit
       THEN apiPc' = "initJoin" /\ told' = [told EXCEPT ![mPlayer] = TRUE]
       ELSE apiPc' = "initNew" /\ UNCHANGED told
  /\ UNCHANGED <<facade, mIsWorking, released, record, native, crashed, abandoned>>

(* A player there is is stopped first; after an init that failed there may  *)
(* be none.                                                                 *)
InitCall ==
  /\ apiPc = "idle" /\ inits < MaxInits
  /\ IF mHasInit /\ mPlayer # 0
       THEN apiPc' = "initJoin" /\ told' = [told EXCEPT ![mPlayer] = TRUE]
       ELSE apiPc' = "initNew" /\ UNCHANGED told
  /\ UNCHANGED <<facade, mIsWorking, released, record, native, crashed, abandoned>>

(* AECCore.stop() has joined the record thread. *)
Join(from, to) ==
  /\ apiPc = from /\ apiPc' = to
  /\ Ended(mPlayer)
  /\ mIsWorking' = [mIsWorking EXCEPT ![mPlayer] = FALSE]
  /\ UNCHANGED <<facade, told, released, record, native, crashed, abandoned>>

InitJoin == Join("initJoin", "initNew")

(* Without a context init throws, the player stopped. *)
InitRefuse ==
  /\ apiPc = "initNew" /\ apiPc' = "idle"
  /\ UNCHANGED <<facade, players, record, native, crashed, abandoned>>

(* new AECCore: audio_process_aec_create begins to replace the globals ...  *)
InitNew ==
  /\ apiPc = "initNew" /\ apiPc' = "build"
  /\ mHasInit' = TRUE
  /\ inits' = inits + 1
  /\ canceller' = "building"
  /\ UNCHANGED <<mPlayer, players, record, handle, crashed, abandoned>>

(* ... or has no memory even for the handle ... *)
InitNoMemory ==
  /\ apiPc = "initNew" /\ apiPc' = "construct"
  /\ mHasInit' = TRUE
  /\ inits' = inits + 1
  /\ handle' = FALSE
  /\ UNCHANGED <<mPlayer, players, record, canceller, crashed, abandoned>>

(* ... ingenic_apm_init succeeds or returns -1 ...                          *)
Build ==
  /\ apiPc = "build" /\ apiPc' = "handle"
  /\ canceller' \in {"ready", "broken"}
  /\ UNCHANGED <<facade, players, record, handle, crashed, abandoned>>

(* ... which is not looked at: there is a handle ...                        *)
SetHandle ==
  /\ apiPc = "handle" /\ apiPc' = "construct"
  /\ handle' = TRUE
  /\ UNCHANGED <<facade, players, record, canceller, crashed, abandoned>>

(* ... and, with its buffers, the volume and a receiver, a new player.      *)
Construct ==
  /\ apiPc = "construct" /\ apiPc' = "idle"
  /\ mPlayer' = inits
  /\ UNCHANGED <<mHasInit, inits, players, record, native, crashed, abandoned>>

(* The constructor throws before it touches the canceller (no hz, no native *)
(* library) or after (no memory, a refused audio mode or receiver): mHasInit*)
(* is set, and mPlayer is still null or the player before.                  *)
InitThrows ==
  /\ apiPc \in {"initNew", "construct"} /\ apiPc' = "idle"
  /\ mHasInit' = TRUE
  /\ UNCHANGED <<mPlayer, inits, players, record, native, crashed, abandoned>>

-----------------------------------------------------------------------------
(* start, stop, release. *)

(* AECCore.start() of a player that works does nothing; without a player    *)
(* there is a NullPointerException.                                         *)
Start ==
  /\ apiPc = "idle" /\ mHasInit /\ mPlayer # 0 /\ ~mIsWorking[mPlayer]
  /\ mIsWorking' = [mIsWorking EXCEPT ![mPlayer] = TRUE]
  /\ told' = [told EXCEPT ![mPlayer] = FALSE]
  /\ rec' = [rec EXCEPT ![mPlayer] = "announce"]
  /\ UNCHANGED <<facade, released, left, native, apiPc, crashed, abandoned>>

Stop ==
  /\ apiPc = "idle" /\ mPlayer # 0
  /\ apiPc' = "stopJoin"
  /\ told' = [told EXCEPT ![mPlayer] = TRUE]
  /\ UNCHANGED <<facade, mIsWorking, released, record, native, crashed, abandoned>>

StopJoin == Join("stopJoin", "idle")

(* release() does not stop the player: its buffers go first ...             *)
Release ==
  /\ apiPc = "idle" /\ mPlayer # 0
  /\ apiPc' = "free"
  /\ mHasInit' = FALSE
  /\ released' = [released EXCEPT ![mPlayer] = TRUE]
  /\ abandoned' = (abandoned \/ ~Ended(mPlayer))
  /\ UNCHANGED <<mPlayer, inits, mIsWorking, told, record, native, crashed>>

(* Mutant: free does not take the mutex. *)
FreeUnlocked ==
  /\ apiPc = "free" /\ apiPc' = "idle"
  /\ handle' = FALSE
  /\ canceller' = IF handle THEN "none" ELSE canceller
  /\ UNCHANGED <<facade, players, record, crashed, abandoned>>

(* ... and then the canceller, whoever made it. *)
Free ==
  /\ apiPc = "free" /\ apiPc' = "idle" /\ MutexFree
  /\ handle' = FALSE
  /\ canceller' = IF handle THEN "none" ELSE canceller
  /\ UNCHANGED <<facade, players, record, crashed, abandoned>>

-----------------------------------------------------------------------------
(* The record thread of a player, and the canceller. *)

RecGoto(p, from, to) ==
  /\ rec[p] = from
  /\ rec' = [rec EXCEPT ![p] = to]

(* audioRecodeStart, and a notify(). *)
RecAnnounce(p) ==
  /\ MonitorFree /\ RecGoto(p, "announce", "warmUp")
  /\ UNCHANGED <<facade, players, left, native, apiPc, crashed, abandoned>>

(* Enough was played. *)
RecWarm(p) ==
  /\ RecGoto(p, "warmUp", "take")
  /\ UNCHANGED <<facade, players, left, native, apiPc, crashed, abandoned>>

(* The interrupt of stop() ends the warm-up. *)
RecInterrupted(p) ==
  /\ told[p] /\ RecGoto(p, "warmUp", "dead")
  /\ UNCHANGED <<facade, players, left, native, apiPc, crashed, abandoned>>

(* The top of the loop: told to end, or no playBuffer any more.  Otherwise  *)
(* there is a frame to process, or none and so a clear.                     *)
RecTake(p) ==
  /\ \/ (told[p] \/ released[p]) /\ RecGoto(p, "take", "dead")
     \/ ~told[p] /\ ~released[p] /\ (RecGoto(p, "take", "lock") \/ RecGoto(p, "take", "clear"))
  /\ UNCHANGED <<facade, players, left, native, apiPc, crashed, abandoned>>

(* The clear begins: its frames go through the canceller, one after another.*)
RecClear(p) ==
  /\ MonitorFree /\ RecGoto(p, "clear", "lock")
  /\ left' = [left EXCEPT ![p] = ClearFrames]
  /\ UNCHANGED <<facade, players, native, apiPc, crashed, abandoned>>

(* A frame is through, and its mutex given back: the top of the loop, or    *)
(* the next frame of the clear, or the drain loop behind its last one.      *)
RecThrough(p, from) ==
  /\ RecGoto(p, from, CASE left[p] = 0 -> "take" [] left[p] = 1 -> "drain" [] OTHER -> "lock")
  /\ left' = [left EXCEPT ![p] = IF @ = 0 THEN 0 ELSE @ - 1]
  /\ UNCHANGED <<facade, players, native, apiPc, crashed, abandoned>>

(* A read took its 10 ms: the drain loop, and with it the clear, is over.   *)
(* With a microphone that fails at once it never is.                        *)
RecDrained(p) ==
  /\ RecGoto(p, "drain", "take")
  /\ UNCHANGED <<facade, players, left, native, apiPc, crashed, abandoned>>

(* A device or the listener fails, or a buffer is null after release().     *)
RecFault(p) ==
  /\ rec[p] \in {"take", "lock", "drain"}
  /\ rec' = [rec EXCEPT ![p] = "dead"]
  /\ left' = [left EXCEPT ![p] = 0]
  /\ UNCHANGED <<facade, players, native, apiPc, crashed, abandoned>>

(* bufferFarendAndProcess: without a handle the frame passes unprocessed.   *)
RecPass(p) == MutexFree /\ ~handle /\ RecThrough(p, "lock")

RecLock(p) ==
  /\ MutexFree /\ handle /\ RecGoto(p, "lock", "inside")
  /\ UNCHANGED <<facade, players, left, native, apiPc, crashed, abandoned>>

(* Mutant: the mutex is not given back. *)
RecKeepsMutex(p) ==
  /\ RecGoto(p, "inside", "inside")
  /\ UNCHANGED <<facade, players, left, native, apiPc, crashed, abandoned>>

(* One frame, 10 ms at a time. *)
RecProcess(p) == RecThrough(p, "inside")

(* apm or a frame is NULL, or apm is not initialized; one that is left from *)
(* an earlier canceller may let it pass.                                    *)
RecCrash(p) ==
  /\ rec[p] = "inside" /\ canceller # "ready"
  /\ crashed' = TRUE
  /\ UNCHANGED <<facade, players, record, native, apiPc, abandoned>>

-----------------------------------------------------------------------------
Begin  == InitCall \/ Start \/ Stop \/ Release
GoOn   == InitJoin \/ InitRefuse \/ InitNew \/ InitNoMemory \/ Build \/ SetHandle
          \/ Construct \/ InitThrows \/ StopJoin \/ Free
Rec(p) == RecAnnounce(p) \/ RecInterrupted(p) \/ RecTake(p) \/ RecClear(p) \/ RecPass(p)
          \/ RecLock(p) \/ RecProcess(p) \/ RecCrash(p)

Next ==
  /\ ~crashed
  /\ \/ Begin \/ GoOn
     \/ \E p \in Players : Rec(p) \/ RecWarm(p) \/ RecDrained(p) \/ RecFault(p)

Spec == Init /\ [][Next]_vars

(* Threads run, and a call that has begun goes on.  A warm-up may last for  *)
(* ever: the play thread may have ended.  So may a drain loop.              *)
FairSpec ==
  /\ Spec
  /\ WF_vars(~crashed /\ GoOn)
  /\ \A p \in Players : WF_vars(~crashed /\ Rec(p))

-----------------------------------------------------------------------------
(* Properties. *)

(* Types; init() and stop() join the threads of a player there is, also     *)
(* where mHasInit was set by an init() that failed.                         *)
TypeOK ==
  /\ mHasInit \in BOOLEAN /\ inits \in 0 .. MaxInits /\ mPlayer \in 0 .. inits
  /\ apiPc \in {"initJoin", "stopJoin"} => mPlayer # 0
  /\ mIsWorking \in [Players -> BOOLEAN] /\ told \in [Players -> BOOLEAN]
  /\ released \in [Players -> BOOLEAN]
  /\ rec \in [Players -> {"none", "announce", "warmUp", "take", "clear", "lock", "inside",
                          "drain", "dead"}]
  /\ left \in [Players -> 0 .. ClearFrames]
  /\ handle \in BOOLEAN /\ canceller \in {"none", "building", "ready", "broken"}
  /\ apiPc \in {"idle", "initJoin", "initNew", "build", "handle", "construct", "stopJoin",
                "free"}
  /\ crashed \in BOOLEAN /\ abandoned \in BOOLEAN

(* The canceller is never freed under a record thread that uses it, not     *)
(* even by a release() without stop(), nor used once it was freed.          *)
NeverFreedUnderUse == \A p \in Players : rec[p] = "inside" => canceller # "none"

(* Although init() takes no lock, the canceller is never rebuilt under a    *)
(* record thread that uses it, if the application never releases a player   *)
(* whose threads run: MainActivity stops it first.                          *)
NeverRebuiltUnderUse ==
  ~abandoned => \A p \in Players : rec[p] = "inside" => canceller # "building"

(* The threads of a player that init() replaced are gone; only those of a   *)
(* player released without stop() may linger.                               *)
ReplacedAreDone ==
  \A p \in Players : p # mPlayer /\ ~Ended(p) => released[p] /\ abandoned

(* Every call of the API returns, the joins in init and stop included,      *)
(* whoever holds the canceller or the monitor of AECCore.class, unless a    *)
(* record thread, of this player or of another, never leaves a drain loop.  *)
CallsReturn == apiPc # "idle" ~> (apiPc = "idle" \/ crashed \/ []Draining)

(* "if (handle) return 0; return -1": a handle means that the canceller was *)
(* made.                                                                    *)
HandleMeansReady == handle /\ apiPc = "idle" => canceller = "ready"

=============================================================================
