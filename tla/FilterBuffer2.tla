--------------------------- MODULE FilterBuffer2 ---------------------------
(***************************************************************************)
(* FilterBuffer2.java: the ring between the application, which offers      *)
(* frames through putPlayData again and again until they are accepted      *)
(* (MainActivity), and the play thread, which polls getFrame.  Every frame *)
(* goes in with a header of INFO_SIZE bytes.  Once the reader has found    *)
(* the ring empty it gets nothing until the writer has counted CACHE_MAX   *)
(* puts: the gate shouldCache.                                             *)
(*                                                                         *)
(* takeAll is FilterBuffer's behind the gate; putAll is FilterBuffer's     *)
(* with the header, except that it forgets the header where it writes      *)
(* behind the reader.  Steps and the names of bytes are FilterBuffer's.    *)
(* This is the ring while the sound is on; with the sound off the play     *)
(* thread clears it under the writer's hands, which is not modelled.       *)
(***************************************************************************)
EXTENDS Integers

CONSTANTS
  Capacity,   (* hz*4                                                      *)
  INFO_SIZE,  (* 16                                                        *)
  FrameSize,  (* bytes of audio in a frame: takeSize of the constructor    *)
  CACHE_MAX,  (* 10                                                        *)
  MaxBytes    (* bound: bytes put and bytes taken between two clears       *)

mTakeSize == FrameSize + INFO_SIZE

ASSUME SizesAssumption ==
  /\ INFO_SIZE \in Nat \ {0} /\ FrameSize \in Nat /\ INFO_SIZE <= FrameSize
  /\ Capacity \in Nat /\ mTakeSize < Capacity
  /\ CACHE_MAX \in Nat \ {0}
  /\ MaxBytes \in Nat

VARIABLES
  mWriteIndex, mReadIndex, isNextLine, mBuffer, mTaken,
  shouldCache, cacheIndex,
  released,   (* the player has given the ring up                          *)
  offered,    (* bytes of the frame the application wants in, 0 if none    *)
  putPc, takePc, tmpIndex,
  put, got, frame  (* history, as in FilterBuffer                          *)

ring == <<mWriteIndex, mReadIndex, isNextLine, mBuffer, mTaken>>
gate == <<shouldCache, cacheIndex>>
putVars  == <<offered, putPc>>
takeVars == <<takePc, tmpIndex>>
vars == <<ring, gate, released, putVars, takeVars, put, got, frame>>

Ring == INSTANCE FilterBuffer WITH
          TakeSize <- mTakeSize, Lens <- {mTakeSize}, putLen <- offered

Init == Ring!Init /\ shouldCache = FALSE /\ cacheIndex = 0

-----------------------------------------------------------------------------
(* The application, and putAll. *)

(* The application has a frame to play. *)
Offer ==
  /\ offered = 0
  /\ put + mTakeSize <= MaxBytes
  /\ offered' = mTakeSize
  /\ UNCHANGED <<ring, gate, released, putPc, takeVars, put, got, frame>>

(* Mutant: the whole frame is forgotten. *)
FitsAnyhow == mWriteIndex < mReadIndex

(* The room of a frame written behind the reader: its header is forgotten. *)
FitsBehind ==
  /\ mWriteIndex < mReadIndex
  /\ mWriteIndex + offered - INFO_SIZE < mReadIndex

(* The room of a frame written ahead of the reader, in one piece or around. *)
FitsInLine == mWriteIndex >= mReadIndex /\ mWriteIndex + offered + 1 <= Capacity

(* Mutants: the room around the end is not looked at, or it is forgotten    *)
(* that the index goes around.                                              *)
FitsRegardless == mWriteIndex >= mReadIndex /\ ~FitsInLine
FitsUnwrapped ==
  /\ mWriteIndex >= mReadIndex /\ ~FitsInLine
  /\ mWriteIndex + offered + 1 < mReadIndex

FitsAround ==
  /\ mWriteIndex >= mReadIndex /\ ~FitsInLine
  /\ (mWriteIndex + offered + 1) % Capacity < mReadIndex

(* putAll that does not find room returns false, and the application offers *)
(* the frame again 10 ms later.                                             *)
PutBegin ==
  /\ putPc = "idle" /\ offered # 0 /\ ~released
  /\ FitsInLine \/ FitsAround \/ FitsBehind
  /\ putPc' = IF FitsAround THEN "copyAround" ELSE "copy"
  /\ UNCHANGED <<ring, gate, released, offered, takeVars, put, got, frame>>

(* A copy behind the reader may have no room even in the array: arraycopy   *)
(* throws after the header.                                                 *)
Throws == putPc = "copy" /\ mWriteIndex + offered > Capacity

PutThrow ==
  /\ Throws
  /\ putPc' = "idle" /\ offered' = 0
  /\ mBuffer' = [i \in 0 .. Capacity - 1 |->
       IF i >= mWriteIndex /\ i < mWriteIndex + INFO_SIZE
         THEN put + i - mWriteIndex ELSE mBuffer[i]]
  /\ UNCHANGED <<mWriteIndex, mReadIndex, isNextLine, mTaken, gate, released,
                 takeVars, put, got, frame>>

PutCopy ==
  /\ ~Throws
  /\ putPc \in {"copy", "copyAround"}
  /\ putPc' = IF putPc = "copyAround" THEN "flag" ELSE "count"
  /\ mBuffer' = [i \in 0 .. Capacity - 1 |->
       IF Ring!Dist(mWriteIndex, i) < offered THEN put + Ring!Dist(mWriteIndex, i)
                                              ELSE mBuffer[i]]
  /\ UNCHANGED <<mWriteIndex, mReadIndex, isNextLine, mTaken, gate, released, offered,
                 takeVars, put, got, frame>>

PutFlag ==
  /\ putPc = "flag" /\ putPc' = "countAround"
  /\ isNextLine' = TRUE
  /\ UNCHANGED <<mWriteIndex, mReadIndex, mBuffer, mTaken, gate, released, offered,
                 takeVars, put, got, frame>>

(* addCacheIndex: every CACHE_MAX-th put opens the gate. *)
AddCacheIndex ==
  /\ putPc \in {"count", "countAround"}
  /\ putPc' = IF putPc = "count" THEN "advance" ELSE "advanceAround"
  /\ cacheIndex' = (cacheIndex + 1) % CACHE_MAX
  /\ shouldCache' = (shouldCache /\ cacheIndex' # 0)
  /\ UNCHANGED <<ring, released, offered, takeVars, put, got, frame>>

(* Mutant: the write index is not wrapped. *)
PutAdvanceUnwrapped ==
  /\ putPc \in {"advance", "advanceAround"} /\ putPc' = "idle"
  /\ mWriteIndex' = mWriteIndex + offered
  /\ put' = put + offered
  /\ offered' = 0
  /\ UNCHANGED <<mReadIndex, isNextLine, mBuffer, mTaken, gate, released, takeVars,
                 got, frame>>

PutAdvance ==
  /\ putPc \in {"advance", "advanceAround"} /\ putPc' = "idle"
  /\ mWriteIndex' = IF putPc = "advance" THEN mWriteIndex + offered
                                         ELSE (mWriteIndex + offered) % Capacity
  /\ put' = put + offered
  /\ offered' = 0
  /\ UNCHANGED <<mReadIndex, isNextLine, mBuffer, mTaken, gate, released, takeVars,
                 got, frame>>

-----------------------------------------------------------------------------
(* getFrame: takeAll behind the gate. *)

TakeBegin ==
  /\ takePc = "idle" /\ ~released
  /\ got + mTakeSize <= MaxBytes
  /\ tmpIndex' = mWriteIndex
  /\ takePc' = "gate"
  /\ UNCHANGED <<ring, gate, released, putVars, put, got, frame>>

TakeGate ==
  /\ takePc = "gate"
  /\ takePc' = IF shouldCache THEN "idle" ELSE IF mReadIndex = tmpIndex THEN "close" ELSE "test"
  /\ UNCHANGED <<ring, gate, released, putVars, tmpIndex, put, got, frame>>

(* The snapshot was empty: null, and the gate is closed. *)
TakeClose ==
  /\ takePc = "close" /\ takePc' = "idle"
  /\ shouldCache' = TRUE
  /\ UNCHANGED <<ring, cacheIndex, released, putVars, tmpIndex, put, got, frame>>

(* The frame was ahead of the reader: its index is not wrapped.             *)
TakeAdvance ==
  /\ takePc = "advance" /\ takePc' = "idle"
  /\ mReadIndex' = mReadIndex + mTakeSize
  /\ got' = got + mTakeSize
  /\ frame' = mTaken
  /\ UNCHANGED <<mWriteIndex, isNextLine, mBuffer, mTaken, released, putVars,
                 tmpIndex, put>>

TakeFrame ==
  /\ \/ Ring!TakeFound \/ Ring!TakeNull \/ Ring!TakeCopy \/ TakeAdvance \/ Ring!TakeFlag
     \/ takePc = "advanceFar" /\ Ring!TakeAdvance
  /\ UNCHANGED gate

-----------------------------------------------------------------------------
(* stop() clears the ring once nobody is in it; the flag and the gate stay  *)
(* as they are.                                                             *)
Clear == Ring!Clear /\ UNCHANGED gate

(* The player drops the ring; putData keeps it out of a putAll. *)
Release == putPc = "idle" /\ Ring!Release /\ UNCHANGED gate

Producer == PutBegin \/ PutThrow \/ PutCopy \/ PutFlag \/ AddCacheIndex \/ PutAdvance
Consumer == TakeBegin \/ TakeGate \/ TakeClose \/ TakeFrame

Next == Offer \/ Producer \/ Consumer \/ Clear \/ Release

Spec == Init /\ [][Next]_vars

(* The play thread polls; the application offers a refused frame again.    *)
(* Nobody needs to have a frame.                                           *)
FairSpec == Spec /\ WF_vars(Producer) /\ WF_vars(Consumer)

-----------------------------------------------------------------------------
(* Properties. *)

(* Types; the indexes never leave the array. *)
TypeOK ==
  /\ mWriteIndex \in 0 .. Capacity - 1 /\ mReadIndex \in 0 .. Capacity - 1
  /\ isNextLine \in BOOLEAN
  /\ mBuffer \in [0 .. Capacity - 1 -> Int] /\ mTaken \in [0 .. mTakeSize - 1 -> Int]
  /\ shouldCache \in BOOLEAN /\ cacheIndex \in 0 .. CACHE_MAX - 1
  /\ released \in BOOLEAN
  /\ offered \in {0, mTakeSize}
  /\ putPc \in {"idle", "copy", "copyAround", "flag", "count", "countAround",
                "advance", "advanceAround"}
  /\ takePc \in {"idle", "gate", "close", "test", "copy", "copyBehind", "copySeam",
                 "advance", "advanceFar", "flag"}
  /\ tmpIndex \in 0 .. Capacity - 1
  /\ put \in Nat /\ got \in Nat
  /\ frame \in [0 .. mTakeSize - 1 -> Int]

(* The writer and the reader never touch the same byte of the array. *)
RegionsDisjoint ==
  \A i \in 0 .. Capacity - 1 :
    ~ /\ putPc \in {"copy", "copyAround"} /\ Ring!Dist(mWriteIndex, i) < offered
      /\ takePc \in {"copy", "copyBehind", "copySeam"}
      /\ Ring!Dist(mReadIndex, i) < mTakeSize

(* The frames the play thread gets are the frames the application put, in   *)
(* order, each once, header and data of the same frame.                     *)
Stream == INSTANCE FrameStream WITH
            TakeSize <- mTakeSize, Lens <- {mTakeSize}, in <- put, out <- got
ImplementsStream == Stream!Spec

(* A whole lap of room for the frames still missing before the gate opens. *)
Held   == put - got
Frames == (Capacity - 2) \div mTakeSize
Shut   == shouldCache /\ Held + (CACHE_MAX - cacheIndex) * mTakeSize > Frames * mTakeSize

(* The reader took the flag down after the writer had gone around. *)
Wedged ==
  /\ mWriteIndex < mReadIndex /\ ~isNextLine
  /\ mReadIndex + mTakeSize < Capacity

(* The application's loop "while(!audioPlayer.putPlayData(frame))" comes to *)
(* an end, unless the ring is full behind a closed gate or has lost its     *)
(* flag: there is no third way to get stuck ...                             *)
NoThirdJam == offered # 0 ~> (offered = 0 \/ released \/ Shut \/ Wedged)

(* ... but these two there are.                                            *)
RetriesEnd == offered # 0 ~> (offered = 0 \/ released)

(* A frame that is refused while a poll of the reader would give nothing:   *)
(* that takes a ring that is full, and behind a closed gate or without its  *)
(* flag.  A full ring that is open and keeps its flag has a frame the       *)
(* reader sees, wherever in the array the indexes are.                      *)
Poll == INSTANCE FilterBuffer WITH
          TakeSize <- mTakeSize, Lens <- {mTakeSize}, putLen <- offered,
          tmpIndex <- mWriteIndex
Refused == putPc = "idle" /\ offered # 0 /\ ~(FitsInLine \/ FitsAround \/ FitsBehind)
NoOtherJam == Refused /\ (shouldCache \/ ~Poll!Finds) => Shut \/ Wedged

(* The indexes show the bytes that were put and not taken, and what either  *)
(* side is about to do agrees with them.                                    *)
Consistent ==
  /\ Held = Ring!Dist(mReadIndex, mWriteIndex)
  /\ putPc # "idle" /\ mWriteIndex >= mReadIndex => Held + offered <= Capacity - 1
  /\ takePc # "idle" => Ring!Dist(mReadIndex, tmpIndex) <= Held
  /\ takePc \in {"copy", "copyBehind", "copySeam", "advance", "advanceFar"} =>
       Held >= mTakeSize

(* A put that goes behind the reader has room for the header, too.          *)
HeaderHasRoom == PutBegin /\ FitsBehind => mWriteIndex + offered < mReadIndex
HeaderFits    == [][HeaderHasRoom]_vars

(* Whatever the sizes, there is one way to lose track: a frame put behind   *)
(* the reader where the audio had room and the header had not.              *)
LostOnlyToHeader ==
  [][Consistent /\ ~Consistent' =>
       /\ put' > put
       /\ mReadIndex - mWriteIndex \in FrameSize + 1 .. mTakeSize]_vars
=============================================================================
