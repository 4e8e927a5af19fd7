-------------------------- MODULE Canceller_proofs --------------------------
(***************************************************************************)
(* Proofs about the native canceller, for any number of inits and record   *)
(* threads, any rates and any sizes of frames.                             *)
(***************************************************************************)
EXTENDS Canceller, TLAPS

(* One thread at most is in the canceller: the one that holds the mutex. *)
Exclusive == \A t \in Players : Inside(t) <=> mutex = t

(* What the history remembers. *)
Remembered == Building => overlapped \/ \A t \in Players : ~Inside(t)

(* The objects of the last init, from its steps to the handle. *)
Built ==
  /\ apiPc \in {"rate", "create", "initialize", "newFar", "newNear", "publish"}
       => inits \in live["handle"]
  /\ apiPc \in {"initialize", "newFar", "newNear"}
       => p["apm"] = inits /\ inits \in live["apm"]
  /\ apiPc \in {"newFar", "newNear"} => inits \in initialized
  /\ apiPc = "newNear" => p["far_frame"] = inits /\ inits \in live["far_frame"]
  /\ apiPc = "publish" /\ ~failed =>
       /\ inits \in initialized
       /\ \A k \in Kinds \ {"handle"} : p[k] = inits /\ inits \in live[k]

Whole ==
  apiPc = "idle" /\ p["handle"] # 0 /\ ~failed =>
    /\ \A k \in Kinds : p[k] \in live[k]
    /\ p["apm"] \in initialized
    /\ \A k \in {"far_frame", "near_frame"} : p[k] = p["apm"]

(* The record agrees with SAMPLE_RATE. *)
Rated ==
  /\ apiPc \in {"create", "initialize", "newFar", "newNear", "publish"}
       => SAMPLE_RATE = sample_rate[inits]
  /\ apiPc = "idle" /\ p["handle"] # 0 => SAMPLE_RATE = sample_rate[p["handle"]]

(* What a call may rely on: the handle it came in with. *)
Used ==
  overlapped \/
    \A t \in Players : pc[t] \in {"far", "near"} =>
      p["handle"] # 0 /\ aecsize[t] = sample_rate[p["handle"]]

(* The chunk at hand lies inside the frame. *)
ChunkFits == \A t \in Players : pc[t] \in {"far", "near"} => at[t] + aecsize[t] <= size[t]

Chunks ==
  overlapped \/
    \A t \in Players :
      /\ pc[t] \in {"far", "near"} => fresh[t] = 0 .. at[t] - 1
      /\ pc[t] = "done" /\ aecsize[t] # 0 =>
           fresh[t] = 0 .. at[t] - 1 /\ at[t] + aecsize[t] > size[t]

(* As long as no handle was replaced there is nothing older than the init. *)
Fresh ==
  ~replaced =>
    /\ Building => p["handle"] = 0 /\ live["handle"] \subseteq {inits}
    /\ ~Building => live["handle"] \subseteq {p["handle"]}
    /\ \A k \in Kinds \ {"handle"} : live[k] \subseteq {p[k]}
    /\ p["handle"] = 0 /\ (~Building \/ apiPc = "malloc") => \A k \in Kinds : live[k] = {}
    /\ apiPc \in {"rate", "create"} => live["apm"] = {}
    /\ apiPc \in {"rate", "create", "initialize", "newFar"} => live["far_frame"] = {}
    /\ apiPc \in {"rate", "create", "initialize", "newFar", "newNear"}
         => live["near_frame"] = {}

IInv ==
  /\ TypeOK /\ Exclusive /\ Remembered /\ Built /\ Whole /\ Rated /\ Used
  /\ ChunkFits /\ Paired /\ Chunks /\ Fresh

-----------------------------------------------------------------------------
(* What the two sides leave alone. *)

Native == InitCall \/ InitStep \/ Free
Recorded == overlapped' = (overlapped \/ (Building' /\ \E t \in Players : Inside(t)'))

LEMMA NativeFrame ==
  ASSUME Native
  PROVE  UNCHANGED <<mutex, pc, aecsize, at, fresh, crashed, last>>
<1> USE DEF threads
<1>1. CASE InitCall BY <1>1 DEF InitCall
<1>2. CASE InitStep
  BY <1>2 DEF InitStep, Malloc, NoMemory, SetRate, Create, CreateFails, Initialize,
              InitializeFails, NewFar, NewNear, Publish
<1>3. CASE Free BY <1>3 DEF Free, DeletesOnly
<1> QED BY <1>1, <1>2, <1>3 DEF Native

LEMMA ThreadFrame ==
  ASSUME NEW t \in Players, Thread(t)
  PROVE  UNCHANGED <<apiPc, inits, sample_rate, size, p, live, initialized,
                     SAMPLE_RATE, failed, replaced>>
<1> USE DEF api, globals
<1>1. CASE Start(t) BY <1>1 DEF Start
<1>2. CASE End(t) BY <1>2 DEF End
<1>3. CASE Lock(t) BY <1>3 DEF Lock, Enter
<1>4. CASE Far(t) BY <1>4 DEF Far
<1>5. CASE FarCrashes(t) BY <1>5 DEF FarCrashes, Crashes
<1>6. CASE Near(t) BY <1>6 DEF Near, NearInto
<1>7. CASE NearCrashes(t) BY <1>7 DEF NearCrashes, Crashes
<1>8. CASE Unlock(t) BY <1>8 DEF Unlock
<1> QED BY <1>1, <1>2, <1>3, <1>4, <1>5, <1>6, <1>7, <1>8 DEF Thread

(* Unless it is remembered, no thread is inside when init or free is there. *)
LEMMA NoneInside ==
  ASSUME IInv, Native, Recorded, ~overlapped'
  PROVE  \A t \in Players : ~Inside(t)'
<1>1. UNCHANGED <<mutex, pc>>
  BY NativeFrame
<1>2. ~overlapped /\ (Building' => \A t \in Players : ~Inside(t)')
  BY DEF Recorded
<1>3. CASE InitCall
  <2>1. Building'
    BY <1>3 DEF InitCall, Goto, Building
  <2> QED BY <1>2, <2>1
<1>4. CASE InitStep
  <2>1. Building
    BY <1>4 DEF InitStep, Goto, Building, Malloc, NoMemory, SetRate, Create,
                CreateFails, Initialize, InitializeFails, NewFar, NewNear, Publish
  <2>2. \A t \in Players : ~Inside(t)
    BY <1>2, <2>1 DEF IInv, Remembered
  <2> QED BY <1>1, <2>2 DEF Inside
<1>5. CASE Free
  <2>1. \A t \in Players : ~Inside(t)
    BY <1>5 DEF IInv, Exclusive, Free, Players
  <2> QED BY <1>1, <2>1 DEF Inside
<1> QED BY <1>3, <1>4, <1>5 DEF Native

-----------------------------------------------------------------------------
(* Steps of init and free. *)

LEMMA NativeType ==
  ASSUME TypeOK, Built, Native, Recorded
  PROVE  TypeOK'
<1> USE MaxInitsAssumption DEF TypeOK, Goto, api, globals, threads, Players, Pointers,
        Kinds, Building
<1>0. overlapped' \in BOOLEAN
  BY DEF Recorded
<1>1. CASE InitCall BY <1>0, <1>1, SMTT(30) DEF InitCall
<1>2. CASE Malloc BY <1>0, <1>2, SMTT(30) DEF Malloc
<1>3. CASE NoMemory BY <1>0, <1>3, SMTT(30) DEF NoMemory
<1>4. CASE SetRate BY <1>0, <1>4, SMTT(30) DEF SetRate
<1>5. CASE Create BY <1>0, <1>5, SMTT(30) DEF Create, Make
<1>6. CASE CreateFails
  <2>1. p' \in [Kinds -> 0 .. inits'] /\ live' \in [Kinds -> SUBSET Players]
    <3>1. p' = [p EXCEPT !["apm"] = 0] /\ live' = live /\ inits' = inits
      BY <1>6 DEF CreateFails
    <3>2. p \in [Kinds -> 0 .. inits] /\ live \in [Kinds -> SUBSET Players]
          /\ inits \in Nat
      OBVIOUS
    <3> HIDE DEF TypeOK
    <3> QED BY <3>1, <3>2, SMTT(30)
  <2> QED BY <1>0, <1>6, <2>1, SMTT(30) DEF CreateFails
<1>7. CASE Initialize
  <2>1. p["apm"] \in Players
    BY <1>7 DEF Initialize, Built
  <2> QED BY <1>0, <1>7, <2>1, ZenonT(30) DEF Initialize
<1>8. CASE InitializeFails BY <1>0, <1>8, SMTT(30) DEF InitializeFails
<1>9. CASE NewFar BY <1>0, <1>9, SMTT(30) DEF NewFar, Make
<1>10. CASE NewNear
  <2>1. p' \in [Kinds -> 0 .. inits'] /\ live' \in [Kinds -> SUBSET Players]
    BY <1>10 DEF NewNear, Make
  <2> QED BY <1>0, <1>10, <2>1, ZenonT(30) DEF NewNear
<1>11. CASE Publish BY <1>0, <1>11, SMTT(30) DEF Publish
<1>12. CASE Free BY <1>0, <1>12, SMTT(30) DEF Free, DeletesOnly
<1> QED
  BY <1>1, <1>2, <1>3, <1>4, <1>5, <1>6, <1>7, <1>8, <1>9, <1>10, <1>11, <1>12
  DEF Native, InitStep

LEMMA NativeObjects ==
  ASSUME IInv, Native
  PROVE  Built' /\ Whole' /\ Rated' /\ Fresh'
<1>0. TypeOK /\ Built /\ Whole /\ Rated /\ Fresh
  BY DEF IInv
<1> USE <1>0, MaxInitsAssumption
    DEF TypeOK, Built, Whole, Rated, Fresh, Goto, api, globals, Players, Kinds, Building
<1>1. CASE InitCall BY <1>1 DEF InitCall
<1>2. CASE Malloc BY <1>2 DEF Malloc
<1>3. CASE NoMemory BY <1>3 DEF NoMemory
<1>4. CASE SetRate BY <1>4 DEF SetRate
<1>5. CASE Create BY <1>5 DEF Create, Make
<1>6. CASE CreateFails BY <1>6 DEF CreateFails
<1>7. CASE Initialize BY <1>7 DEF Initialize
<1>8. CASE InitializeFails BY <1>8 DEF InitializeFails
<1>9. CASE NewFar BY <1>9 DEF NewFar, Make
<1>10. CASE NewNear BY <1>10 DEF NewNear, Make
<1>11. CASE Publish BY <1>11 DEF Publish
<1>12. CASE Free BY <1>12 DEF Free, DeletesOnly
<1> QED
  BY <1>1, <1>2, <1>3, <1>4, <1>5, <1>6, <1>7, <1>8, <1>9, <1>10, <1>11, <1>12
  DEF Native, InitStep

LEMMA NativeKeeps == ASSUME IInv, Native, Recorded PROVE IInv'
<1>1. UNCHANGED <<mutex, pc, aecsize, at, fresh, crashed, last>>
  BY NativeFrame
<1>2. TypeOK'
  BY NativeType DEF IInv
<1>3. Built' /\ Whole' /\ Rated' /\ Fresh'
  BY NativeObjects
<1>4. Exclusive'
  BY <1>1 DEF IInv, Exclusive, Inside
<1>5. Remembered'
  BY DEF Recorded, Remembered
<1>6. size' = size
  BY DEF Native, InitStep, api, InitCall, Malloc, NoMemory, SetRate, Create,
         CreateFails, Initialize, InitializeFails, NewFar, NewNear, Publish, Free,
         DeletesOnly
<1>7. ChunkFits'
  BY <1>1, <1>6 DEF IInv, ChunkFits
<1>8. Used' /\ Paired' /\ Chunks'
  BY NoneInside DEF Used, Paired, Chunks, Inside
<1> QED BY <1>2, <1>3, <1>4, <1>5, <1>7, <1>8 DEF IInv

-----------------------------------------------------------------------------
(* Steps of a record thread. *)

LEMMA HandleRate ==
  ASSUME TypeOK, p["handle"] # 0
  PROVE  /\ sample_rate[p["handle"]] \in Rates
         /\ sample_rate[p["handle"]] \in Nat \ {0}
<1>1. p["handle"] \in 0 .. inits /\ inits \in 0 .. MaxInits
  BY DEF TypeOK, Kinds
<1>2. p["handle"] \in Players
  BY <1>1, MaxInitsAssumption DEF Players
<1>3. sample_rate[p["handle"]] \in Rates
  BY <1>2 DEF TypeOK
<1> QED BY <1>3, LengthsAssumption

LEMMA Lengths ==
  ASSUME TypeOK, NEW t \in Players
  PROVE  at[t] \in Nat /\ aecsize[t] \in Nat /\ size[t] \in Nat /\ SAMPLE_RATE \in Nat
<1>1. aecsize[t] \in Rates \union {0} /\ size[t] \in Sizes /\ at[t] \in Nat
      /\ SAMPLE_RATE \in Rates
  BY DEF TypeOK
<1>2. (\A r \in Rates : r \in Nat) /\ \A s \in Sizes : s \in Nat
  BY LengthsAssumption
<1>3. aecsize[t] \in Nat
  BY <1>1, <1>2
<1> QED BY <1>1, <1>2, <1>3

LEMMA ThreadType ==
  ASSUME TypeOK, ChunkFits, NEW t \in Players, Thread(t), Recorded
  PROVE  TypeOK'
<1>0. UNCHANGED <<apiPc, inits, sample_rate, size, p, live, initialized,
                  SAMPLE_RATE, failed, replaced>>
  BY ThreadFrame
<1>1. overlapped' \in BOOLEAN
  BY DEF Recorded
<1>2. SUFFICES
        /\ mutex' \in Pointers /\ crashed' \in BOOLEAN
        /\ pc' \in [Players -> {"none", "out", "far", "near", "done", "dead"}]
        /\ aecsize' \in [Players -> Rates \union {0}] /\ at' \in [Players -> Nat]
        /\ fresh' \in [Players -> SUBSET Nat]
        /\ \A u \in Players : /\ at'[u] <= size[u]
                              /\ pc'[u] \in {"far", "near"} => aecsize'[u] # 0
  BY <1>0, <1>1 DEF TypeOK, Building
<1> USE LengthsAssumption, MaxInitsAssumption
    DEF TypeOK, Step, Players, Pointers, ChunkFits, ChunkLeft
<1>3. CASE Start(t) BY <1>3 DEF Start
<1>4. CASE End(t) BY <1>4 DEF End
<1>5. CASE Lock(t)
  <2>2. p["handle"] # 0 => sample_rate[p["handle"]] \in Rates /\ sample_rate[p["handle"]] # 0
    BY HandleRate
  <2>3. aecsize' \in [Players -> Rates \union {0}]
    BY <1>5, <2>2 DEF Lock, Enter
  <2>4. at' = [at EXCEPT ![t] = 0] /\ mutex' = t
    BY <1>5 DEF Lock, Enter
  <2>5. pc'[t] = "far" => aecsize'[t] # 0
    BY <1>5, <2>2 DEF Lock, Enter
  <2>6. pc' \in [Players -> {"none", "out", "far", "near", "done", "dead"}] /\ pc'[t] # "near"
    BY <1>5 DEF Lock, Enter
  <2>7. \A u \in Players \ {t} : pc'[u] = pc[u] /\ aecsize'[u] = aecsize[u]
    BY <1>5 DEF Lock, Enter
  <2>8. crashed' = crashed /\ fresh' \in [Players -> SUBSET Nat]
    BY <1>5 DEF Lock, Enter
  <2>9. ASSUME NEW u \in Players
        PROVE  at'[u] <= size[u] /\ (pc'[u] \in {"far", "near"} => aecsize'[u] # 0)
    <3>1. CASE u = t
      <4>1. at'[u] = 0 /\ 0 <= size[u]
        BY <2>4, <3>1, Lengths
      <4> QED BY <4>1, <2>5, <2>6, <3>1
    <3>2. CASE u # t BY <2>4, <2>7, <3>2
    <3> QED BY <3>1, <3>2
  <2>10. mutex' \in Pointers /\ at' \in [Players -> Nat]
    BY <2>4
  <2> QED BY <2>3, <2>6, <2>8, <2>9, <2>10
<1>6. CASE Far(t) BY <1>6 DEF Far
<1>7. CASE FarCrashes(t) BY <1>7 DEF FarCrashes, Crashes, threads
<1>8. CASE Near(t)
  <2>1. pc[t] = "near" /\ aecsize[t] \in Nat /\ aecsize[t] # 0 /\ at[t] + aecsize[t] <= size[t]
    BY <1>8 DEF Near, NearInto
  <2>2. at' = [at EXCEPT ![t] = at[t] + aecsize[t]] /\ UNCHANGED <<mutex, aecsize, crashed>>
    BY <1>8 DEF Near, NearInto
  <2>3. pc' \in [Players -> {"none", "out", "far", "near", "done", "dead"}]
        /\ \A u \in Players \ {t} : pc'[u] = pc[u]
    BY <1>8 DEF Near, NearInto
  <2>4. fresh' \in [Players -> SUBSET Nat]
    <3>1. fresh' = [fresh EXCEPT ![t] = fresh[t] \union (at[t] .. at[t] + SAMPLE_RATE - 1)]
      BY <1>8 DEF Near, NearInto
    <3>2. at[t] .. at[t] + SAMPLE_RATE - 1 \in SUBSET Nat
      OBVIOUS
    <3> QED BY <3>1, <3>2
  <2> QED BY <2>1, <2>2, <2>3, <2>4
<1>9. CASE NearCrashes(t) BY <1>9 DEF NearCrashes, Crashes, threads
<1>10. CASE Unlock(t) BY <1>10 DEF Unlock
<1> QED BY <1>3, <1>4, <1>5, <1>6, <1>7, <1>8, <1>9, <1>10 DEF Thread

LEMMA ThreadExclusive ==
  ASSUME IInv, NEW t \in Players, Thread(t)
  PROVE  Exclusive'
<1>0. Exclusive /\ pc \in [Players -> {"none", "out", "far", "near", "done", "dead"}]
  BY DEF IInv, TypeOK
<1> USE <1>0 DEF Exclusive, Inside, Step, Players
<1>1. CASE Start(t) BY <1>1 DEF Start
<1>2. CASE End(t) BY <1>2 DEF End
<1>3. CASE Lock(t) BY <1>3 DEF Lock, Enter
<1>4. CASE Far(t) BY <1>4 DEF Far
<1>5. CASE FarCrashes(t) BY <1>5 DEF FarCrashes, Crashes, threads
<1>6. CASE Near(t) BY <1>6 DEF Near, NearInto
<1>7. CASE NearCrashes(t) BY <1>7 DEF NearCrashes, Crashes, threads
<1>8. CASE Unlock(t) BY <1>8 DEF Unlock
<1> QED BY <1>1, <1>2, <1>3, <1>4, <1>5, <1>6, <1>7, <1>8 DEF Thread

(* A chunk of the record that is used is 10 ms of the rate that is set. *)
LEMMA SameRate ==
  ASSUME IInv, ~overlapped, NEW t \in Players, pc[t] \in {"far", "near"}
  PROVE  aecsize[t] = SAMPLE_RATE /\ p["handle"] # 0 /\ ~Building
<1>1. ~Building
  BY DEF IInv, Remembered, Inside
<1> QED BY <1>1 DEF IInv, Used, Rated, Building

LEMMA ThreadFits ==
  ASSUME IInv, NEW t \in Players, Thread(t)
  PROVE  ChunkFits'
<1>0. /\ ChunkFits /\ size' = size
      /\ pc \in [Players -> {"none", "out", "far", "near", "done", "dead"}]
      /\ aecsize \in [Players -> Rates \union {0}] /\ at \in [Players -> Nat]
  BY ThreadFrame DEF IInv, TypeOK
<1> USE <1>0 DEF ChunkFits, Step, ChunkLeft
<1>1. CASE Start(t) BY <1>1 DEF Start
<1>2. CASE End(t) BY <1>2 DEF End
<1>3. CASE Lock(t)
  <2>1. p["handle"] # 0 => sample_rate[p["handle"]] \in Rates /\ sample_rate[p["handle"]] \in Nat
    BY HandleRate DEF IInv
  <2>2. /\ at' = [at EXCEPT ![t] = 0]
        /\ aecsize' = [aecsize EXCEPT ![t] = IF p["handle"] # 0 THEN sample_rate[p["handle"]] ELSE 0]
        /\ pc' = [pc EXCEPT ![t] = IF p["handle"] # 0 /\ ChunkLeft(t, 0, sample_rate[p["handle"]])
                                     THEN "far" ELSE "done"]
    BY <1>3 DEF Lock, Enter
  <2> QED BY <2>1, <2>2
<1>4. CASE Far(t) BY <1>4 DEF Far
<1>5. CASE FarCrashes(t) BY <1>5 DEF FarCrashes, Crashes, threads
<1>6. CASE Near(t)
  <2>1. /\ at' = [at EXCEPT ![t] = at[t] + aecsize[t]] /\ aecsize' = aecsize
        /\ pc' = [pc EXCEPT ![t] = IF at[t] + aecsize[t] + aecsize[t] <= size[t]
                                     THEN "far" ELSE "done"]
    BY <1>6 DEF Near, NearInto
  <2> QED BY <2>1
<1>7. CASE NearCrashes(t) BY <1>7 DEF NearCrashes, Crashes, threads
<1>8. CASE Unlock(t) BY <1>8 DEF Unlock
<1> QED BY <1>1, <1>2, <1>3, <1>4, <1>5, <1>6, <1>7, <1>8 DEF Thread

(* Another thread is not inside. *)
LEMMA Alone ==
  ASSUME IInv, NEW t \in Players, Thread(t), pc[t] # pc'[t]
  PROVE  \A u \in Players \ {t} : /\ pc'[u] = pc[u]
                                  /\ Inside(t) \/ Lock(t) => ~Inside(u)
<1>0. Exclusive /\ pc \in [Players -> {"none", "out", "far", "near", "done", "dead"}]
  BY DEF IInv, TypeOK
<1> USE <1>0 DEF Exclusive, Step, Players
<1>1. \A u \in Players \ {t} : pc'[u] = pc[u]
  BY DEF Thread, Start, End, Lock, Enter, Far, FarCrashes, Crashes, threads, Near,
         NearInto, NearCrashes, Unlock
<1>2. CASE Inside(t) BY <1>1, <1>2
<1>3. CASE Lock(t) BY <1>1, <1>3 DEF Lock
<1> QED BY <1>1, <1>2, <1>3

LEMMA ThreadUses ==
  ASSUME IInv, NEW t \in Players, Thread(t), Recorded, ~overlapped'
  PROVE  Used' /\ Paired' /\ Chunks'
<1>0. ~overlapped
  BY DEF Recorded
<1>f. UNCHANGED <<p, sample_rate, size, SAMPLE_RATE>>
  BY ThreadFrame
<1>t. /\ pc \in [Players -> {"none", "out", "far", "near", "done", "dead"}]
      /\ aecsize \in [Players -> Rates \union {0}] /\ at \in [Players -> Nat]
      /\ size \in [Players -> Sizes] /\ fresh \in [Players -> SUBSET Nat]
      /\ SAMPLE_RATE \in Rates
  BY DEF IInv, TypeOK
<1>i. Used /\ Paired /\ Chunks /\ ChunkFits
  BY DEF IInv
<1> USE <1>0, <1>f, <1>t, <1>i DEF Used, Paired, Chunks, Step
<1>1. CASE Start(t) BY <1>1 DEF Start
<1>2. CASE End(t) BY <1>2 DEF End
<1>3. CASE Lock(t)
  <2>1. pc'[t] \in {"far", "done"} /\ pc'[t] # pc[t]
    BY <1>3 DEF Lock, Enter
  <2>2. \A u \in Players \ {t} : pc'[u] \in {"none", "out", "dead"}
    BY <1>3, <2>1, Alone DEF Inside
  <2>3. at'[t] = 0 /\ fresh'[t] = {}
    BY <1>3 DEF Lock, Enter
  <2>4. aecsize'[t] # 0 => p["handle"] # 0 /\ aecsize'[t] = sample_rate[p["handle"]]
    BY <1>3 DEF Lock, Enter
  <2>5. pc'[t] = "far" => p["handle"] # 0 /\ aecsize'[t] = sample_rate[p["handle"]]
    BY <1>3 DEF Lock, Enter
  <2>6. pc'[t] = "done" /\ aecsize'[t] # 0 => at'[t] + aecsize'[t] > size'[t]
    <3>1. SUFFICES ASSUME pc'[t] = "done", aecsize'[t] # 0
                   PROVE  at'[t] + aecsize'[t] > size'[t]
      OBVIOUS
    <3>2. /\ aecsize'[t] = sample_rate[p["handle"]]
          /\ ~(0 + sample_rate[p["handle"]] <= size[t])
      BY <1>3, <2>4, <3>1 DEF Lock, Enter, ChunkLeft
    <3>4. sample_rate[p["handle"]] \in Nat /\ size[t] \in Nat
      BY <2>4, <3>1, HandleRate, Lengths DEF IInv
    <3>5. at'[t] = 0 /\ size'[t] = size[t]
      BY <2>3
    <3> QED BY <3>2, <3>4, <3>5
  <2>7. fresh'[t] = 0 .. at'[t] - 1
    BY <2>3
  <2> QED BY <2>1, <2>2, <2>3, <2>5, <2>6, <2>7
<1>4. CASE Far(t)
  <2>1. pc[t] = "far" /\ pc' = [pc EXCEPT ![t] = "near"] /\ UNCHANGED <<aecsize, at, fresh>>
        /\ last' = <<"far", p["apm"], t, at[t]>>
    BY <1>4 DEF Far
  <2>2. \A u \in Players \ {t} : pc'[u] \in {"none", "out", "dead"}
    BY <2>1, Alone DEF Inside
  <2> QED BY <2>1, <2>2
<1>5. CASE FarCrashes(t) BY <1>5 DEF FarCrashes, Crashes, threads
<1>6. CASE Near(t)
  <2>1. /\ pc[t] = "near" /\ UNCHANGED aecsize
        /\ pc' = [pc EXCEPT ![t] = IF at[t] + aecsize[t] + aecsize[t] <= size[t]
                                     THEN "far" ELSE "done"]
        /\ at' = [at EXCEPT ![t] = at[t] + aecsize[t]]
        /\ fresh' = [fresh EXCEPT ![t] = fresh[t] \union (at[t] .. at[t] + SAMPLE_RATE - 1)]
    BY <1>6 DEF Near, NearInto, ChunkLeft
  <2>2. \A u \in Players \ {t} : pc'[u] \in {"none", "out", "dead"}
    BY <2>1, Alone DEF Inside
  <2>3. aecsize[t] = SAMPLE_RATE /\ p["handle"] # 0 /\ fresh[t] = 0 .. at[t] - 1
        /\ aecsize[t] = sample_rate[p["handle"]]
    BY <2>1, SameRate
  <2>4. fresh'[t] = 0 .. at'[t] - 1
    BY <2>1, <2>3, LengthsAssumption
  <2>5. pc'[t] = "done" => at'[t] + aecsize'[t] > size'[t]
    <3>1. at[t] \in Nat /\ size[t] \in Nat /\ aecsize[t] \in Nat
      BY Lengths DEF IInv
    <3>2. at'[t] = at[t] + aecsize[t] /\ aecsize'[t] = aecsize[t] /\ size'[t] = size[t]
      BY <2>1
    <3>3. pc'[t] = "done" => ~(at[t] + aecsize[t] + aecsize[t] <= size[t])
      BY <2>1
    <3> QED BY <3>1, <3>2, <3>3
  <2>6. pc'[t] \in {"far", "done"}
    BY <2>1
  <2> QED BY <2>1, <2>2, <2>3, <2>4, <2>5, <2>6
<1>7. CASE NearCrashes(t) BY <1>7 DEF NearCrashes, Crashes, threads
<1>8. CASE Unlock(t)
  BY <1>8 DEF Unlock
<1> QED BY <1>1, <1>2, <1>3, <1>4, <1>5, <1>6, <1>7, <1>8 DEF Thread

LEMMA ThreadKeeps == ASSUME IInv, NEW t \in Players, Thread(t), Recorded PROVE IInv'
<1>1. TypeOK'
  BY ThreadType DEF IInv
<1>2. Built' /\ Whole' /\ Rated' /\ Fresh'
  BY ThreadFrame DEF IInv, Built, Whole, Rated, Fresh, Building
<1>3. Remembered'
  BY DEF Recorded, Remembered
<1>4. Used' /\ Paired' /\ Chunks'
  BY ThreadUses DEF Used, Paired, Chunks
<1> QED BY <1>1, <1>2, <1>3, <1>4, ThreadExclusive, ThreadFits DEF IInv

-----------------------------------------------------------------------------
(* Every state. *)

LEMMA Initially == Init => IInv
<1> SUFFICES ASSUME Init PROVE IInv
  OBVIOUS
<1> USE MaxInitsAssumption, LengthsAssumption DEF Init, Players, Kinds, Building, Inside
<1>1. TypeOK
  <2>1. p \in [Kinds -> 0 .. inits] /\ live \in [Kinds -> SUBSET Players]
    OBVIOUS
  <2>2. SAMPLE_RATE \in Rates /\ sample_rate \in [Players -> Rates] /\ size \in [Players -> Sizes]
    BY DEF Init
  <2>5. aecsize \in [Players -> Rates \union {0}] /\ at \in [Players -> Nat]
        /\ fresh \in [Players -> SUBSET Nat]
    OBVIOUS
  <2>3. ASSUME NEW t \in Players PROVE at[t] <= size[t] /\ pc[t] = "none"
    <3>1. (\A s \in Sizes : s \in Nat) /\ size[t] \in Sizes
      BY <2>2, LengthsAssumption
    <3>2. size[t] \in Nat
      BY <3>1
    <3>3. at[t] = 0 /\ pc[t] = "none"
      BY DEF Init
    <3> QED BY <3>2, <3>3
  <2>4. pc \in [Players -> {"none", "out", "far", "near", "done", "dead"}]
    BY DEF Init
  <2>6. /\ apiPc = "idle" /\ inits = 0 /\ initialized = {} /\ mutex = 0
        /\ crashed = FALSE /\ failed = FALSE /\ replaced = FALSE /\ overlapped = FALSE
    BY DEF Init
  <2>7. \A t \in Players : at[t] <= size[t] /\ (pc[t] \in {"far", "near"} => aecsize[t] # 0)
    BY <2>3
  <2>8. inits \in 0 .. MaxInits /\ mutex \in Pointers /\ initialized \subseteq Players /\ ~Building
    BY <2>6, MaxInitsAssumption DEF Pointers
  <2> HIDE DEF Init, Players, Kinds, Building
  <2> QED BY <2>1, <2>2, <2>4, <2>5, <2>6, <2>7, <2>8 DEF TypeOK
<1>2. Exclusive /\ Remembered /\ Used /\ ChunkFits /\ Paired /\ Chunks
  BY DEF Exclusive, Remembered, Used, ChunkFits, Paired, Chunks
<1>3. Built /\ Whole /\ Rated /\ Fresh
  BY DEF Built, Whole, Rated, Fresh
<1> QED BY <1>1, <1>2, <1>3 DEF IInv

LEMMA Stuttering == IInv /\ UNCHANGED vars => IInv'
<1> USE DEF vars, api, globals, threads, Building, Inside
<1> SUFFICES ASSUME IInv, UNCHANGED vars PROVE IInv'
  OBVIOUS
<1>1. TypeOK' BY DEF IInv, TypeOK
<1>2. Exclusive' /\ Remembered' /\ Used' /\ ChunkFits' /\ Paired' /\ Chunks'
  BY DEF IInv, Exclusive, Remembered, Used, ChunkFits, Paired, Chunks
<1>3. Built' /\ Whole' /\ Rated' /\ Fresh'
  BY DEF IInv, Built, Whole, Rated, Fresh
<1> QED BY <1>1, <1>2, <1>3 DEF IInv

LEMMA Invariance == Spec => []IInv
<1>1. IInv /\ [Next]_vars => IInv'
  <2> SUFFICES ASSUME IInv, [Next]_vars PROVE IInv'
    OBVIOUS
  <2>1. CASE Next
    <3>1. Recorded
      BY <2>1 DEF Next, Recorded
    <3> QED BY <2>1, <3>1, NativeKeeps, ThreadKeeps DEF Next, Native
  <2>2. CASE UNCHANGED vars
    BY <2>2, Stuttering
  <2> QED BY <2>1, <2>2
<1> QED BY <1>1, Initially, PTL DEF Spec

(* Types; a chunk never begins behind the end of the frame. *)
THEOREM TypeCorrect == Spec => []TypeOK
<1>1. IInv => TypeOK BY DEF IInv
<1> QED BY <1>1, Invariance, PTL

(* A frame is processed by one complete canceller, unless its making failed *)
(* or an init ran meanwhile.                                                *)
THEOREM CompleteHolds == Spec => []Complete
<1>1. ASSUME IInv, ~overlapped, ~failed, NEW t \in Players, pc[t] \in {"far", "near"}
      PROVE  /\ \A k \in Kinds : p[k] \in live[k]
             /\ p["apm"] \in initialized
             /\ \A k \in {"far_frame", "near_frame"} : p[k] = p["apm"]
  <2>1. p["handle"] # 0 /\ apiPc = "idle"
    BY <1>1, SameRate DEF Building
  <2> QED BY <1>1, <2>1 DEF IInv, Whole
<1>2. IInv => Complete BY <1>1 DEF Complete
<1> QED BY <1>2, Invariance, PTL

(* Far end and near end go to the apm in pairs, under the mutex. *)
THEOREM PairedHolds == Spec => []Paired
<1>1. IInv => Paired BY DEF IInv
<1> QED BY <1>1, Invariance, PTL

(* What is processed lies inside the frame, for any rates and sizes. *)
THEOREM WithinFrameHolds == Spec => []WithinFrame
<1>1. ASSUME IInv, ~overlapped, NEW t \in Players, pc[t] \in {"far", "near"}
      PROVE  aecsize[t] = SAMPLE_RATE /\ at[t] + SAMPLE_RATE <= size[t]
  BY <1>1, SameRate DEF IInv, ChunkFits
<1>2. IInv => WithinFrame BY <1>1 DEF WithinFrame
<1> QED BY <1>2, Invariance, PTL

(* All of the output is written but for an incomplete chunk. *)
THEOREM OnlyTailIsStaleHolds == Spec => []OnlyTailIsStale
<1>1. ASSUME IInv, ~overlapped, NEW t \in Players, pc[t] = "done", aecsize[t] # 0
      PROVE  fresh[t] = 0 .. at[t] - 1 /\ size[t] - at[t] \in 0 .. aecsize[t] - 1
  <2>1. fresh[t] = 0 .. at[t] - 1 /\ at[t] + aecsize[t] > size[t]
    BY <1>1 DEF IInv, Chunks
  <2>2. at[t] \in Nat /\ size[t] \in Nat /\ aecsize[t] \in Nat /\ at[t] <= size[t]
    BY <1>1, LengthsAssumption DEF IInv, TypeOK
  <2> QED BY <2>1, <2>2
<1>2. IInv => OnlyTailIsStale BY <1>1 DEF OnlyTailIsStale
<1> QED BY <1>2, Invariance, PTL

(* Without an init over a handle that was not freed nothing is lost. *)
THEOREM NothingLeaksHolds == Spec => []NothingLeaks
<1>1. IInv => NothingLeaks
  BY DEF IInv, Fresh, NothingLeaks, Kinds
<1> QED BY <1>1, Invariance, PTL

=============================================================================
