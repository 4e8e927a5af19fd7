----------------------------- MODULE Canceller -----------------------------
(***************************************************************************)
(* The native canceller, behind WebRtcUtil: the handle and its mutex in    *)
(* WebRtcUtil.c, the record behind the handle in audio_aec.cpp, and the    *)
(* globals of webrtc_aec.cpp, one step per global that is written or       *)
(* object that is made.  AudioPlayer has the calls that lead here; of its  *)
(* players this module keeps the record thread and the size of its frames. *)
(*                                                                         *)
(* Lengths are in units: a rate is the units in 10 ms of it.  A pointer is *)
(* the number of the init that made its target, 0 for NULL.                *)
(***************************************************************************)
EXTENDS Integers

CONSTANTS
  MaxInits, (* bound: calls of init                                        *)
  Rates,    (* of Frequency                                                *)
  Sizes     (* of the frames applications ask for                          *)

ASSUME MaxInitsAssumption == MaxInits \in Nat
ASSUME LengthsAssumption == Rates \subseteq Nat \ {0} /\ Sizes \subseteq Nat \ {0}

Players  == 1 .. MaxInits
Pointers == 0 .. MaxInits
Kinds    == {"handle", "apm", "far_frame", "near_frame"}

VARIABLES
  apiPc, inits,
  p,           (* the pointers: handle, apm, far_frame and near_frame      *)
  live,        (* of each kind, the objects that were made and not deleted *)
  initialized, (* the apms that Initialize accepted                        *)
  SAMPLE_RATE,
  sample_rate, (* of the record an init makes: its argument                *)
  size,        (* of the frames of the player of that init                 *)
  mutex,       (* the thread that holds it, or 0                           *)
  pc,          (* of each record thread ...                                *)
  aecsize,     (* ... the chunk it computed from the record                *)
  at,          (* ... where the next chunk begins                          *)
  fresh,       (* ... units of its output that this call has written       *)
  crashed,     (* the process is gone                                      *)
  last,        (* history: the last frame an apm was given                 *)
  failed,      (* history: the last ingenic_apm_init returned -1           *)
  replaced,    (* history: an init found a handle that was not freed       *)
  overlapped   (* history: an init ran while a frame was processed         *)

api     == <<apiPc, inits, sample_rate, size>>
globals == <<p, live, initialized, SAMPLE_RATE>>
threads == <<mutex, pc, aecsize, at, fresh>>
vars    == <<api, globals, threads, crashed, last, failed, replaced, overlapped>>

Nothing == <<"none", 0, 0, 0>>

Init ==
  /\ apiPc = "idle" /\ inits = 0
  /\ p = [k \in Kinds |-> 0] /\ live = [k \in Kinds |-> {}] /\ initialized = {}
  /\ SAMPLE_RATE \in Rates
  /\ sample_rate \in [Players -> Rates] /\ size \in [Players -> Sizes]
  /\ mutex = 0 /\ pc = [t \in Players |-> "none"]
  /\ aecsize = [t \in Players |-> 0] /\ at = [t \in Players |-> 0]
  /\ fresh = [t \in Players |-> {}]
  /\ crashed = FALSE /\ last = Nothing
  /\ failed = FALSE /\ replaced = FALSE /\ overlapped = FALSE

Goto(from, to) == apiPc = from /\ apiPc' = to

(* A new object of a kind for this init, and the pointer to it. *)
Make(k) ==
  /\ p' = [p EXCEPT ![k] = inits]
  /\ live' = [live EXCEPT ![k] = @ \union {inits}]

-----------------------------------------------------------------------------
(* WebRtcUtil_init, without the mutex. *)

InitCall ==
  /\ inits < MaxInits
  /\ Goto("idle", "malloc")
  /\ inits' = inits + 1
  /\ replaced' = (replaced \/ p["handle"] # 0)
  /\ UNCHANGED <<sample_rate, size, globals, threads, crashed, last, failed>>

(* audio_process_aec_create: the record is private until it returns ...     *)
Malloc ==
  /\ Goto("malloc", "rate")
  /\ live' = [live EXCEPT !["handle"] = @ \union {inits}]
  /\ UNCHANGED <<inits, sample_rate, size, p, initialized, SAMPLE_RATE, threads,
                 crashed, last, failed, replaced>>

NoMemory ==
  /\ Goto("malloc", "idle")
  /\ p' = [p EXCEPT !["handle"] = 0]
  /\ UNCHANGED <<inits, sample_rate, size, live, initialized, SAMPLE_RATE, threads,
                 crashed, last, failed, replaced>>

(* Mutant: the rate is that of the first init for ever. *)
SetRateOnce ==
  /\ Goto("rate", "create")
  /\ SAMPLE_RATE' = IF inits = 1 THEN sample_rate[inits] ELSE SAMPLE_RATE
  /\ UNCHANGED <<inits, sample_rate, size, p, live, initialized, threads, crashed,
                 last, failed, replaced>>

(* ... ingenic_apm_init, from its first assignment ...                      *)
SetRate ==
  /\ Goto("rate", "create")
  /\ SAMPLE_RATE' = sample_rate[inits]
  /\ UNCHANGED <<inits, sample_rate, size, p, live, initialized, threads, crashed,
                 last, failed, replaced>>

Create ==
  /\ Goto("create", "initialize")
  /\ Make("apm")
  /\ UNCHANGED <<inits, sample_rate, size, initialized, SAMPLE_RATE, threads,
                 crashed, last, failed, replaced>>

CreateFails ==
  /\ Goto("create", "publish")
  /\ p' = [p EXCEPT !["apm"] = 0]
  /\ failed' = TRUE
  /\ UNCHANGED <<inits, sample_rate, size, live, initialized, SAMPLE_RATE, threads,
                 crashed, last, replaced>>

(* Initialize, the filters and the echo control. *)
Initialize ==
  /\ Goto("initialize", "newFar")
  /\ initialized' = initialized \union {p["apm"]}
  /\ UNCHANGED <<inits, sample_rate, size, p, live, SAMPLE_RATE, threads, crashed,
                 last, failed, replaced>>

InitializeFails ==
  /\ Goto("initialize", "publish")
  /\ failed' = TRUE
  /\ UNCHANGED <<inits, sample_rate, size, globals, threads, crashed, last, replaced>>

NewFar ==
  /\ Goto("newFar", "newNear")
  /\ Make("far_frame")
  /\ UNCHANGED <<inits, sample_rate, size, initialized, SAMPLE_RATE, threads,
                 crashed, last, failed, replaced>>

NewNear ==
  /\ Goto("newNear", "publish")
  /\ Make("near_frame")
  /\ failed' = FALSE
  /\ UNCHANGED <<inits, sample_rate, size, initialized, SAMPLE_RATE, threads,
                 crashed, last, replaced>>

(* ... and back: the record gets its rate and the handle is there, whatever *)
(* ingenic_apm_init returned.                                               *)
Publish ==
  /\ Goto("publish", "idle")
  /\ p' = [p EXCEPT !["handle"] = inits]
  /\ UNCHANGED <<inits, sample_rate, size, live, initialized, SAMPLE_RATE, threads,
                 crashed, last, failed, replaced>>

InitStep == Malloc \/ NoMemory \/ SetRate \/ Create \/ CreateFails \/ Initialize
            \/ InitializeFails \/ NewFar \/ NewNear \/ Publish
Building == apiPc # "idle"

-----------------------------------------------------------------------------
(* WebRtcUtil_free: under the mutex, if there is a handle, ingenic_apm      *)
(* _destroy deletes what there is and the record goes.                      *)

DeletesOnly(kinds) ==
  /\ apiPc = "idle"
  /\ IF p["handle"] # 0
       THEN /\ live' = [k \in Kinds |-> IF k \in kinds THEN live[k] \ {p[k]} ELSE live[k]]
            /\ p' = [k \in Kinds |-> 0]
       ELSE UNCHANGED <<live, p>>
  /\ UNCHANGED <<api, initialized, SAMPLE_RATE, threads, crashed, last, failed, replaced>>

(* Mutants: without the mutex; the last frame is forgotten. *)
FreeUnlocked == DeletesOnly(Kinds)
FreeForgets  == mutex = 0 /\ DeletesOnly(Kinds \ {"near_frame"})

Free == mutex = 0 /\ DeletesOnly(Kinds)

-----------------------------------------------------------------------------
(* WebRtcUtil_bufferFarendAndProcess, by the record thread of a player.     *)

Step(t, from, to) == pc[t] = from /\ pc' = [pc EXCEPT ![t] = to]

Start(t) ==
  /\ t < inits \/ (t = inits /\ apiPc = "idle")
  /\ Step(t, "none", "out")
  /\ UNCHANGED <<api, globals, mutex, aecsize, at, fresh, crashed, last, failed, replaced>>

End(t) ==
  /\ Step(t, "out", "dead")
  /\ UNCHANGED <<api, globals, mutex, aecsize, at, fresh, crashed, last, failed, replaced>>

(* Mutant: "<=" in the loop over the chunks. *)
OneMore(t, from, chunk) == from <= size[t]

(* i < dsize/aecsize, with from = aecsize*i. *)
ChunkLeft(t, from, chunk) == from + chunk <= size[t]

(* The mutex is taken; without a handle there is nothing to do. *)
Enter(t) ==
  LET chunk == sample_rate[p["handle"]]
  IN  /\ Step(t, "out", IF p["handle"] # 0 /\ ChunkLeft(t, 0, chunk) THEN "far" ELSE "done")
      /\ mutex' = t
      /\ aecsize' = [aecsize EXCEPT ![t] = IF p["handle"] # 0 THEN chunk ELSE 0]
      /\ at' = [at EXCEPT ![t] = 0]
      /\ fresh' = [fresh EXCEPT ![t] = {}]
      /\ UNCHANGED <<api, globals, crashed, last, failed, replaced>>

(* Mutant: the mutex is not waited for. *)
LockNothing(t) == Enter(t)

Lock(t) == mutex = 0 /\ Enter(t)

(* A NULL pointer ends the process. *)
Crashes(t, kinds) ==
  /\ \E k \in kinds : p[k] = 0
  /\ crashed' = TRUE
  /\ UNCHANGED <<api, globals, threads, last, failed, replaced>>

(* ingenic_apm_set_far_frame: SAMPLE_RATE units of the far end.             *)
Far(t) ==
  /\ p["apm"] # 0 /\ p["far_frame"] # 0
  /\ Step(t, "far", "near")
  /\ last' = <<"far", p["apm"], t, at[t]>>
  /\ UNCHANGED <<api, globals, mutex, aecsize, at, fresh, crashed, failed, replaced>>

FarCrashes(t) == pc[t] = "far" /\ Crashes(t, {"apm", "far_frame"})

NearInto(t, start) ==
  /\ p["apm"] # 0 /\ p["near_frame"] # 0
  /\ Step(t, "near",
       IF ChunkLeft(t, at[t] + aecsize[t], aecsize[t]) THEN "far" ELSE "done")
  /\ last' = <<"near", p["apm"], t, at[t]>>
  /\ fresh' = [fresh EXCEPT ![t] = @ \union (start .. start + SAMPLE_RATE - 1)]
  /\ at' = [at EXCEPT ![t] = @ + aecsize[t]]
  /\ UNCHANGED <<api, globals, mutex, aecsize, crashed, failed, replaced>>

(* Mutant: every chunk is written to the beginning of the output. *)
NearFirst(t) == NearInto(t, 0)

(* ingenic_apm_set_near_frame: SAMPLE_RATE units of the near end, and as    *)
(* many of the output.                                                      *)
Near(t) == NearInto(t, at[t])

NearCrashes(t) == pc[t] = "near" /\ Crashes(t, {"apm", "near_frame"})

Unlock(t) ==
  /\ Step(t, "done", "out")
  /\ mutex' = 0
  /\ UNCHANGED <<api, globals, aecsize, at, fresh, crashed, last, failed, replaced>>

Thread(t) == Start(t) \/ End(t) \/ Lock(t) \/ Far(t) \/ FarCrashes(t) \/ Near(t)
             \/ NearCrashes(t) \/ Unlock(t)

-----------------------------------------------------------------------------
Inside(t) == pc[t] \in {"far", "near", "done"}

Next ==
  /\ ~crashed
  /\ InitCall \/ InitStep \/ Free \/ \E t \in Players : Thread(t)
  /\ overlapped' = (overlapped \/ (Building' /\ \E t \in Players : Inside(t)'))

Spec == Init /\ [][Next]_vars

-----------------------------------------------------------------------------
(* Properties. *)

TypeOK ==
  /\ apiPc \in {"idle", "malloc", "rate", "create", "initialize", "newFar", "newNear", "publish"}
  /\ inits \in 0 .. MaxInits /\ (Building => inits # 0)
  /\ p \in [Kinds -> 0 .. inits] /\ live \in [Kinds -> SUBSET Players]
  /\ initialized \subseteq Players
  /\ SAMPLE_RATE \in Rates
  /\ sample_rate \in [Players -> Rates] /\ size \in [Players -> Sizes]
  /\ mutex \in Pointers
  /\ pc \in [Players -> {"none", "out", "far", "near", "done", "dead"}]
  /\ aecsize \in [Players -> Rates \union {0}] /\ at \in [Players -> Nat]
  /\ fresh \in [Players -> SUBSET Nat]
  /\ \A t \in Players : at[t] <= size[t] /\ (pc[t] \in {"far", "near"} => aecsize[t] # 0)
  /\ crashed \in BOOLEAN /\ failed \in BOOLEAN /\ replaced \in BOOLEAN
  /\ overlapped \in BOOLEAN

(* While a frame is processed the canceller is complete, and one: its apm   *)
(* and its frames were made by the same init, Initialize accepted it, and   *)
(* nothing was deleted, unless that init failed or one ran meanwhile.       *)
Complete ==
  overlapped \/ failed \/
    \A t \in Players : pc[t] \in {"far", "near"} =>
      /\ \A k \in Kinds : p[k] \in live[k]
      /\ p["apm"] \in initialized
      /\ \A k \in {"far_frame", "near_frame"} : p[k] = p["apm"]

(* An apm is given the near end of a chunk right after the far end of the   *)
(* same chunk of the same call, whatever other record threads do.           *)
Paired ==
  overlapped \/
    \A t \in Players : pc[t] = "near" => last = <<"far", p["apm"], t, at[t]>>

(* "aec process 10ms data once": a chunk of the record's rate is as long as *)
(* what is processed at SAMPLE_RATE, and it lies inside the frame, even if  *)
(* the thread's player asked for another rate.                              *)
WithinFrame ==
  overlapped \/
    \A t \in Players : pc[t] \in {"far", "near"} =>
      /\ aecsize[t] = SAMPLE_RATE
      /\ at[t] + SAMPLE_RATE <= size[t]

(* When a call is done, all of the output was written but for an incomplete *)
(* chunk at its end.                                                        *)
OnlyTailIsStale ==
  overlapped \/
    \A t \in Players : pc[t] = "done" /\ aecsize[t] # 0 =>
      /\ fresh[t] = 0 .. at[t] - 1
      /\ size[t] - at[t] \in 0 .. aecsize[t] - 1

(* As long as every handle is freed before the next init, every object that *)
(* is left can be reached, by free from a handle.                           *)
NothingLeaks ==
  ~replaced /\ ~Building =>
    \A k \in Kinds : live[k] \subseteq (IF p["handle"] = 0 THEN {} ELSE {p[k]})

=============================================================================
