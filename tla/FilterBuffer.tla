---------------------------- MODULE FilterBuffer ----------------------------
(***************************************************************************)
(* FilterBuffer.java: the byte ring between the play thread and the record *)
(* thread (AECCore.playBuffer) and between the record thread and the       *)
(* application (AECCore.filterBuffer).  It takes no lock.  One producer is *)
(* inside putAll and one consumer inside takeAll, alignIndex at a time;    *)
(* clear is called by AECCore.stop once neither is running.                *)
(*                                                                         *)
(* A step below is one access to a field both threads use (mWriteIndex,    *)
(* mReadIndex, isNextLine, the array), with the private work around it.    *)
(* An arraycopy is one step: RegionsDisjoint shows that nothing can be     *)
(* seen of its middle.                                                     *)
(*                                                                         *)
(* Data: a byte is named by its position in the stream since the last      *)
(* clear, and a cell that holds no byte of that stream is Stale.           *)
(***************************************************************************)
EXTENDS Integers

CONSTANTS
  Capacity,  (* mCapacity: hz*4 for playBuffer, hz*2 for filterBuffer      *)
  TakeSize,  (* mTakeSize: the frame size                                  *)
  Lens,      (* the lengths putAll is called with                          *)
  MaxBytes   (* bound: bytes put and bytes taken between two clears        *)

ASSUME SizesAssumption ==
  /\ Capacity \in Nat \ {0}
  /\ TakeSize \in 1 .. Capacity
  /\ Lens \subseteq 1 .. Capacity - 1
  /\ MaxBytes \in Nat

VARIABLES
  mWriteIndex, mReadIndex, isNextLine, mBuffer, mTaken,
  released,  (* mBuffer and mTaken are null                                *)
  putPc,     (* where the producer is in putAll                            *)
  putLen,    (* its argument len                                           *)
  takePc,    (* where the consumer is in takeAll                           *)
  tmpIndex,  (* takeAll's snapshot of mWriteIndex                          *)
  put, got,  (* history: bytes published, bytes delivered or skipped       *)
  frame      (* history: the frame takeAll delivered last                  *)

putVars  == <<putPc, putLen>>
takeVars == <<takePc, tmpIndex>>
vars == <<mWriteIndex, mReadIndex, isNextLine, mBuffer, mTaken, released,
          putPc, putLen, takePc, tmpIndex, put, got, frame>>

Stale   == -1
NoFrame == [j \in 0 .. TakeSize - 1 |-> Stale]

(* Distance from index i forward to index j around the ring. *)
Dist(i, j) == IF j >= i THEN j - i ELSE j + Capacity - i

Advance(i, n) == (i + n) % Capacity

Init ==
  /\ mWriteIndex = 0 /\ mReadIndex = 0 /\ isNextLine = FALSE
  /\ mBuffer = [i \in 0 .. Capacity - 1 |-> Stale]
  /\ mTaken = NoFrame
  /\ released = FALSE
  /\ putPc = "idle" /\ putLen = 0
  /\ takePc = "idle" /\ tmpIndex = 0
  /\ put = 0 /\ got = 0 /\ frame = NoFrame

-----------------------------------------------------------------------------
(* putAll.  mWriteIndex is the producer's own, so reading mReadIndex is the *)
(* only shared access of the decision.                                      *)

(* Mutant: room is counted around the ring before the copy is split. *)
FitsUnsplit(len) ==
  IF mWriteIndex >= mReadIndex THEN mWriteIndex + len < mReadIndex + Capacity
                               ELSE mWriteIndex + len < mReadIndex

(* Mutant: the run may end where the array ends. *)
FitsToTheEnd(len) ==
  IF mWriteIndex >= mReadIndex THEN mWriteIndex + len <= Capacity
                               ELSE mWriteIndex + len < mReadIndex

FitsInLine(len) ==
  IF mWriteIndex >= mReadIndex THEN mWriteIndex + len + 1 <= Capacity
                               ELSE mWriteIndex + len < mReadIndex

(* Mutants: the wrapped write may reach the read index, or it leaves a byte *)
(* more than it must.                                                       *)
FitsUpToReader(len) ==
  /\ mWriteIndex >= mReadIndex
  /\ mWriteIndex + len + 1 > Capacity
  /\ Advance(mWriteIndex, len) <= mReadIndex
FitsWithSpare(len) ==
  /\ mWriteIndex >= mReadIndex
  /\ mWriteIndex + len + 1 > Capacity
  /\ Advance(mWriteIndex, len + 2) < mReadIndex

FitsAround(len) ==
  /\ mWriteIndex >= mReadIndex
  /\ mWriteIndex + len + 1 > Capacity
  /\ Advance(mWriteIndex, len + 1) < mReadIndex

Accepts(len) == FitsInLine(len) \/ FitsAround(len)

(* putAll that is refused returns false and changes nothing. *)
PutBegin(len) ==
  /\ putPc = "idle" /\ ~released
  /\ put + len <= MaxBytes
  /\ Accepts(len)
  /\ putPc' = IF FitsInLine(len) THEN "copy" ELSE "copyAround"
  /\ putLen' = len
  /\ UNCHANGED <<mWriteIndex, mReadIndex, isNextLine, mBuffer, mTaken, released,
                 takeVars, put, got, frame>>

(* The arraycopy, in one or two pieces; it throws if the array is gone. *)
PutCopy ==
  /\ putPc \in {"copy", "copyAround"}
  /\ IF released
       THEN putPc' = "idle" /\ UNCHANGED mBuffer
       ELSE /\ putPc' = IF putPc = "copyAround" THEN "flag" ELSE "advance"
            /\ mBuffer' = [i \in 0 .. Capacity - 1 |->
                 IF Dist(mWriteIndex, i) < putLen THEN put + Dist(mWriteIndex, i)
                                                  ELSE mBuffer[i]]
  /\ UNCHANGED <<mWriteIndex, mReadIndex, isNextLine, mTaken, released,
                 putLen, takeVars, put, got, frame>>

(* Mutant: the flag is forgotten. *)
PutNoFlag ==
  /\ putPc = "flag"
  /\ putPc' = "advanceAround"
  /\ UNCHANGED <<mWriteIndex, mReadIndex, isNextLine, mBuffer, mTaken, released,
                 putLen, takeVars, put, got, frame>>

PutFlag ==
  /\ putPc = "flag"
  /\ isNextLine' = TRUE
  /\ putPc' = "advanceAround"
  /\ UNCHANGED <<mWriteIndex, mReadIndex, mBuffer, mTaken, released,
                 putLen, takeVars, put, got, frame>>

(* Only a put that went around wraps its index; one in line just adds to it.*)
PutAdvance ==
  /\ \/ putPc = "advance" /\ mWriteIndex' = mWriteIndex + putLen
     \/ putPc = "advanceAround" /\ mWriteIndex' = Advance(mWriteIndex, putLen)
  /\ put' = put + putLen
  /\ putPc' = "idle"
  /\ UNCHANGED <<mReadIndex, isNextLine, mBuffer, mTaken, released,
                 putLen, takeVars, got, frame>>

-----------------------------------------------------------------------------
(* takeAll. *)

TakeBegin ==
  /\ takePc = "idle" /\ ~released
  /\ got + TakeSize <= MaxBytes
  /\ tmpIndex' = mWriteIndex
  /\ takePc' = "test"
  /\ UNCHANGED <<mWriteIndex, mReadIndex, isNextLine, mBuffer, mTaken, released,
                 putVars, put, got, frame>>

(* The three ways a frame can be found, in the order the code tries them. *)
Ahead  == mReadIndex < tmpIndex /\ mReadIndex + TakeSize <= tmpIndex
InLineUnbounded == isNextLine  (* mutant *)
InLine == mReadIndex + TakeSize <= Capacity /\ isNextLine
Behind == InLine /\ mReadIndex > tmpIndex
Seam   == Advance(mReadIndex, TakeSize) <= tmpIndex

FindsInEmpty == Ahead \/ Behind \/ Seam  (* mutant *)
Finds == mReadIndex # tmpIndex /\ (Ahead \/ Behind \/ Seam)

(* What TakeSize bytes from mReadIndex on are. *)
Slice == [j \in 0 .. TakeSize - 1 |-> mBuffer[Advance(mReadIndex, j)]]

TakeFound ==
  /\ takePc = "test" /\ Finds
  /\ takePc' = IF Ahead THEN "copy" ELSE IF Behind THEN "copyBehind" ELSE "copySeam"
  /\ UNCHANGED <<mWriteIndex, mReadIndex, isNextLine, mBuffer, mTaken, released,
                 putVars, tmpIndex, put, got, frame>>

(* takeAll returns null; a copy made in vain has overwritten mTaken. *)
TakeNull ==
  /\ takePc = "test" /\ ~Finds
  /\ takePc' = "idle"
  /\ mTaken' = IF mReadIndex # tmpIndex /\ InLine /\ ~released THEN Slice ELSE mTaken
  /\ UNCHANGED <<mWriteIndex, mReadIndex, isNextLine, mBuffer, released,
                 putVars, tmpIndex, put, got, frame>>

TakeCopy ==
  /\ takePc \in {"copy", "copyBehind", "copySeam"}
  /\ IF released
       THEN takePc' = "idle" /\ UNCHANGED mTaken
       ELSE /\ takePc' = IF takePc = "copy" THEN "advance" ELSE "advanceFar"
            /\ mTaken' = Slice
  /\ UNCHANGED <<mWriteIndex, mReadIndex, isNextLine, mBuffer, released,
                 putVars, tmpIndex, put, got, frame>>

(* The first way adds to the read index; the other two wrap it. *)
TakeAdvance ==
  /\ \/ takePc = "advance" /\ mReadIndex' = mReadIndex + TakeSize /\ takePc' = "idle"
     \/ takePc = "advanceFar" /\ mReadIndex' = Advance(mReadIndex, TakeSize) /\ takePc' = "flag"
  /\ got' = got + TakeSize
  /\ frame' = mTaken
  /\ UNCHANGED <<mWriteIndex, isNextLine, mBuffer, mTaken, released,
                 putVars, tmpIndex, put>>

(* Mutant: the flag goes down with every frame. *)
TakeFlagAlways ==
  /\ takePc = "flag"
  /\ isNextLine' = FALSE
  /\ takePc' = "idle"
  /\ UNCHANGED <<mWriteIndex, mReadIndex, mBuffer, mTaken, released,
                 putVars, tmpIndex, put, got, frame>>

(* The consumer, back at the start of the array, takes the flag down. *)
TakeFlag ==
  /\ takePc = "flag"
  /\ isNextLine' = (isNextLine /\ ~(mReadIndex < tmpIndex))
  /\ takePc' = "idle"
  /\ UNCHANGED <<mWriteIndex, mReadIndex, mBuffer, mTaken, released,
                 putVars, tmpIndex, put, got, frame>>

-----------------------------------------------------------------------------
(* The consumer drops what is pending; nothing in AECCore calls it. *)
AlignIndex ==
  /\ takePc = "idle" /\ ~released
  /\ mReadIndex' = mWriteIndex
  /\ got' = put
  /\ UNCHANGED <<mWriteIndex, isNextLine, mBuffer, mTaken, released,
                 putVars, takeVars, put, frame>>

(* Both indexes go to 0; isNextLine is left as it was.  The bytes in the    *)
(* array stay, and belong to no stream any more.                            *)
Clear ==
  /\ putPc = "idle" /\ takePc = "idle" /\ ~released
  /\ mWriteIndex' = 0 /\ mReadIndex' = 0
  /\ put' = 0 /\ got' = 0
  /\ mBuffer' = [i \in 0 .. Capacity - 1 |-> Stale]
  /\ UNCHANGED <<isNextLine, mTaken, released, putVars, takeVars, frame>>

(* release() may come while either thread is in the middle of a call. *)
Release ==
  /\ ~released
  /\ released' = TRUE
  /\ UNCHANGED <<mWriteIndex, mReadIndex, isNextLine, mBuffer, mTaken,
                 putVars, takeVars, put, got, frame>>

-----------------------------------------------------------------------------
Producer == (\E len \in Lens : PutBegin(len)) \/ PutCopy \/ PutFlag \/ PutAdvance

Consumer == TakeBegin \/ TakeFound \/ TakeNull \/ TakeCopy \/ TakeAdvance \/ TakeFlag

Next == Producer \/ Consumer \/ AlignIndex \/ Clear \/ Release

Spec == Init /\ [][Next]_vars

(* The record thread and the application poll takeAll again and again, and  *)
(* a putAll that was accepted runs to its end.                              *)
FairSpec ==
  /\ Spec
  /\ WF_vars(Consumer)
  /\ WF_vars(PutCopy \/ PutFlag \/ PutAdvance)

-----------------------------------------------------------------------------
(* Properties.                                                              *)

(* The types of the fields.  The indexes never leave the array, although the*)
(* updates of lines 27, 43 and 75 do not wrap them: the tests before them   *)
(* must keep the sum below Capacity.                                        *)
TypeOK ==
  /\ mWriteIndex \in 0 .. Capacity - 1
  /\ mReadIndex \in 0 .. Capacity - 1
  /\ isNextLine \in BOOLEAN
  /\ mBuffer \in [0 .. Capacity - 1 -> Int]
  /\ mTaken \in [0 .. TakeSize - 1 -> Int]
  /\ released \in BOOLEAN
  /\ putPc \in {"idle", "copy", "copyAround", "flag", "advance", "advanceAround"}
  /\ putLen \in 0 .. Capacity - 1
  /\ takePc \in {"idle", "test", "copy", "copyBehind", "copySeam",
                 "advance", "advanceFar", "flag"}
  /\ tmpIndex \in 0 .. Capacity - 1
  /\ put \in Nat /\ got \in Nat
  /\ frame \in [0 .. TakeSize - 1 -> Int]

(* While putAll copies in and takeAll copies out, they never touch the same *)
(* byte of mBuffer: the ring needs no lock for its data.                    *)
Writing(i) == putPc \in {"copy", "copyAround"} /\ Dist(mWriteIndex, i) < putLen
Reading(i) ==
  /\ takePc \in {"copy", "copyBehind", "copySeam"}
  /\ Dist(mReadIndex, i) < TakeSize
RegionsDisjoint ==
  \A i \in 0 .. Capacity - 1 : ~(Writing(i) /\ Reading(i))

(* Every System.arraycopy of putAll and takeAll stays inside mBuffer, mTaken*)
(* and the caller's data, for every length: no index exception.             *)
ArrayBounds ==
  /\ putPc = "copy" => mWriteIndex + putLen <= Capacity
  /\ putPc = "copyAround" => putLen - (Capacity - mWriteIndex) \in 0 .. Capacity
  /\ takePc \in {"copy", "copyBehind"} => mReadIndex + TakeSize <= Capacity
  /\ takePc = "copySeam" => TakeSize - (Capacity - mReadIndex) \in 0 .. Capacity

(* putAll refuses data only when fewer than len + 2 bytes are free: the ring *)
(* does not lose room as it is used.                                        *)
RefusedOnlyWhenFull ==
  \A len \in Lens : putPc = "idle" /\ ~Accepts(len) => put - got + len >= Capacity - 1

(* takeAll does not answer null when its snapshot shows a whole frame: the  *)
(* flag isNextLine, written by both threads without synchronisation, always *)
(* agrees with the indexes when takeAll consults it.                        *)
NoFrameMissed ==
  takePc = "test" /\ Dist(mReadIndex, tmpIndex) >= TakeSize => Finds

(* The ring implements a lossless stream of frames: every frame delivered   *)
(* is the next TakeSize bytes that were put, none skipped, repeated, stale  *)
(* or torn.                                                                 *)
Stream == INSTANCE FrameStream WITH in <- put, out <- got, frame <- frame
ImplementsStream == Stream!Spec

(* A frame that is in the ring is taken by a consumer that keeps asking.    *)
FramesAreTaken ==
  \A n \in 0 .. MaxBytes :
    (got = n /\ put >= n + TakeSize) ~> (got # n \/ put < n + TakeSize \/ released)

(* The indexes, and the snapshot the consumer works with, show exactly the  *)
(* bytes that were put and not yet taken.                                   *)
Consistent ==
  /\ put - got = Dist(mReadIndex, mWriteIndex)
  /\ takePc # "idle" => Dist(mReadIndex, tmpIndex) <= put - got

(* A ring that is consistent delivers bytes that were never put in one      *)
(* situation only: less than a frame is pending and it ends the array.  A   *)
(* producer that puts whole frames never creates it; AECCore's record       *)
(* thread puts as many bytes as AudioRecord.read returned.                  *)
PhantomOnlyAtRaggedSeam ==
  [][Consistent /\ got' > put' =>
       /\ put - got \in 1 .. TakeSize - 1
       /\ mReadIndex + TakeSize >= Capacity]_vars
=============================================================================
