------------------------- MODULE FilterBuffer_proofs -------------------------
(***************************************************************************)
(* Proofs about FilterBuffer, for every Capacity, TakeSize, Lens, MaxBytes.*)
(*                                                                         *)
(* The first part holds for runs of any length: types, and no arraycopy    *)
(* leaves an array.  The second part is about rings used as AECCore uses   *)
(* playBuffer: capacity and runs are whole frames (Aligned).  Then the two *)
(* threads never touch the same bytes, no frame is overlooked, and the     *)
(* ring is the lossless stream of FrameStream.                             *)
(***************************************************************************)
EXTENDS FilterBuffer, TLAPS

-----------------------------------------------------------------------------
(* Arithmetic of the ring. *)

(* A sum of two indexes is reduced by one subtraction. *)
LEMMA AdvanceValue ==
  ASSUME NEW i \in 0 .. Capacity - 1, NEW n \in 0 .. Capacity
  PROVE  /\ Advance(i, n) = IF i + n < Capacity THEN i + n ELSE i + n - Capacity
         /\ Advance(i, n) \in 0 .. Capacity - 1
BY SizesAssumption DEF Advance

LEMMA DistRange ==
  ASSUME NEW i \in 0 .. Capacity - 1, NEW j \in 0 .. Capacity - 1
  PROVE  Dist(i, j) \in 0 .. Capacity - 1
BY SizesAssumption DEF Dist

-----------------------------------------------------------------------------
(* Runs of any length. *)

(* What the tests leave for the updates that do not wrap: a put and a take  *)
(* in line end inside the array.                                            *)
InLineFits ==
  /\ putPc \in {"copy", "advance"} => mWriteIndex + putLen < Capacity
  /\ takePc \in {"copy", "advance"} => mReadIndex + TakeSize <= tmpIndex

TypeInv == TypeOK /\ InLineFits

LEMMA TypeInit == Init => TypeInv
<1> SUFFICES ASSUME Init PROVE TypeInv
  OBVIOUS
<1>1. mBuffer \in [0 .. Capacity - 1 -> Int]
  BY DEF Init, Stale
<1>2. mTaken \in [0 .. TakeSize - 1 -> Int] /\ frame \in [0 .. TakeSize - 1 -> Int]
  BY DEF Init, NoFrame, Stale
<1>3. 0 \in 0 .. Capacity - 1
  BY SizesAssumption
<1> QED BY <1>1, <1>2, <1>3 DEF Init, TypeOK, InLineFits, TypeInv

(* The places putAll and takeAll move their index to. *)
LEMMA PutTarget ==
  ASSUME TypeOK
  PROVE  /\ Advance(mWriteIndex, putLen)
               = IF mWriteIndex + putLen < Capacity THEN mWriteIndex + putLen
                                                    ELSE mWriteIndex + putLen - Capacity
         /\ Advance(mWriteIndex, putLen) \in 0 .. Capacity - 1
<1>1. mWriteIndex \in 0 .. Capacity - 1 /\ putLen \in 0 .. Capacity
  BY SizesAssumption DEF TypeOK
<1> QED BY <1>1, AdvanceValue

LEMMA TakeTarget ==
  ASSUME TypeOK
  PROVE  /\ Advance(mReadIndex, TakeSize)
               = IF mReadIndex + TakeSize < Capacity THEN mReadIndex + TakeSize
                                                     ELSE mReadIndex + TakeSize - Capacity
         /\ Advance(mReadIndex, TakeSize) \in 0 .. Capacity - 1
<1>1. mReadIndex \in 0 .. Capacity - 1 /\ TakeSize \in 0 .. Capacity
  BY SizesAssumption DEF TypeOK
<1> QED BY <1>1, AdvanceValue

LEMMA SliceType ==
  ASSUME TypeOK
  PROVE  Slice \in [0 .. TakeSize - 1 -> Int]
<1>1. SUFFICES ASSUME NEW j \in 0 .. TakeSize - 1
               PROVE  mBuffer[Advance(mReadIndex, j)] \in Int
  BY DEF Slice
<1>2. mReadIndex \in 0 .. Capacity - 1 /\ j \in 0 .. Capacity
  BY SizesAssumption DEF TypeOK
<1>3. Advance(mReadIndex, j) \in 0 .. Capacity - 1
  BY <1>2, AdvanceValue
<1> QED BY <1>3 DEF TypeOK

(* An index that moves without being wrapped lands where it would have landed *)
(* if it were.                                                              *)
LEMMA PutLands ==
  ASSUME TypeInv, PutAdvance
  PROVE  mWriteIndex' = Advance(mWriteIndex, putLen)
BY PutTarget DEF PutAdvance, TypeInv, InLineFits

LEMMA TakeLands ==
  ASSUME TypeInv, TakeAdvance
  PROVE  mReadIndex' = Advance(mReadIndex, TakeSize)
<1>1. CASE takePc = "advance"
  <2>1. mReadIndex + TakeSize < Capacity
    BY <1>1, SizesAssumption DEF TypeInv, TypeOK, InLineFits
  <2> QED BY <1>1, <2>1, TakeTarget DEF TakeAdvance, TypeInv
<1> QED BY <1>1 DEF TakeAdvance

LEMMA FitsStep == TypeInv /\ [Next]_vars => InLineFits'
<1> SUFFICES ASSUME TypeInv, [Next]_vars PROVE InLineFits'
  OBVIOUS
<1> USE SizesAssumption DEF TypeInv, TypeOK, InLineFits, putVars, takeVars
<1>1. ASSUME NEW len \in Lens, PutBegin(len) PROVE InLineFits'
  <2>1. putPc' = "copy" => mWriteIndex + len < Capacity
    BY <1>1 DEF PutBegin, FitsInLine
  <2> QED BY <1>1, <2>1 DEF PutBegin
<1>2. CASE PutCopy \/ PutFlag \/ PutAdvance
  BY <1>2 DEF PutCopy, PutFlag, PutAdvance
<1>3. CASE TakeBegin \/ TakeNull
  BY <1>3 DEF TakeBegin, TakeNull
<1>4. CASE TakeFound
  BY <1>4 DEF TakeFound, Ahead
<1>5. CASE TakeCopy \/ TakeAdvance \/ TakeFlag
  BY <1>5 DEF TakeCopy, TakeAdvance, TakeFlag
<1>6. CASE AlignIndex \/ Clear \/ Release \/ UNCHANGED vars
  BY <1>6 DEF AlignIndex, Clear, Release, vars
<1> QED
  BY <1>1, <1>2, <1>3, <1>4, <1>5, <1>6 DEF Next, Producer, Consumer

LEMMA TypeStep == TypeInv /\ [Next]_vars => TypeInv'
<1> SUFFICES ASSUME TypeInv, [Next]_vars PROVE TypeOK'
  BY FitsStep DEF TypeInv
<1> USE DEF TypeInv
<1> USE SizesAssumption DEF TypeOK, putVars, takeVars
<1>1. ASSUME NEW len \in Lens, PutBegin(len) PROVE TypeOK'
  BY <1>1, SMTT(30) DEF PutBegin
<1>2. CASE PutCopy
  <2>1. \A i \in 0 .. Capacity - 1 : Dist(mWriteIndex, i) \in Int
    BY DistRange
  <2>2. ASSUME NEW i \in 0 .. Capacity - 1
        PROVE  (IF Dist(mWriteIndex, i) < putLen THEN put + Dist(mWriteIndex, i)
                                                 ELSE mBuffer[i]) \in Int
    <3>1. mBuffer[i] \in Int
      BY SMTT(30)
    <3>2. put + Dist(mWriteIndex, i) \in Int
      BY <2>1, SMTT(30)
    <3> HIDE SizesAssumption DEF TypeOK
    <3> QED BY <3>1, <3>2
  <2>3. mBuffer' \in [0 .. Capacity - 1 -> Int]
    <3>1. CASE released BY <1>2, <3>1, SMTT(30) DEF PutCopy
    <3>2. CASE ~released BY <1>2, <2>2, <3>2, SMTT(30) DEF PutCopy
    <3> QED BY <3>1, <3>2
  <2> QED BY <1>2, <2>3, SMTT(30) DEF PutCopy
<1>3. CASE PutFlag
  BY <1>3, SMTT(30) DEF PutFlag
<1>4. CASE PutAdvance
  BY <1>4, PutLands, PutTarget, SMTT(30) DEF PutAdvance
<1>5. CASE TakeBegin
  BY <1>5, SMTT(30) DEF TakeBegin
<1>6. CASE TakeFound
  BY <1>6, SMTT(30) DEF TakeFound
<1>7. CASE TakeNull
  <2>1. mTaken' \in [0 .. TakeSize - 1 -> Int]
    BY <1>7, SliceType DEF TakeNull
  <2> QED BY <1>7, <2>1 DEF TakeNull
<1>8. CASE TakeCopy
  <2>1. mTaken' \in [0 .. TakeSize - 1 -> Int]
    BY <1>8, SliceType DEF TakeCopy
  <2> QED BY <1>8, <2>1 DEF TakeCopy
<1>9. CASE TakeAdvance
  BY <1>9, TakeLands, TakeTarget, SMTT(30) DEF TakeAdvance
<1>10. CASE TakeFlag
  BY <1>10, SMTT(30) DEF TakeFlag
<1>11. CASE AlignIndex
  BY <1>11 DEF AlignIndex
<1>12. CASE Clear
  BY <1>12 DEF Clear, Stale
<1>13. CASE Release
  BY <1>13 DEF Release
<1>14. CASE UNCHANGED vars
  BY <1>14 DEF vars
<1> QED
  BY <1>1, <1>2, <1>3, <1>4, <1>5, <1>6, <1>7, <1>8, <1>9, <1>10, <1>11, <1>12,
     <1>13, <1>14 DEF Next, Producer, Consumer

(* The indexes never leave the array and the fields keep their types. *)
THEOREM TypeCorrect == Spec => []TypeOK
BY TypeInit, TypeStep, PTL DEF Spec, TypeInv

LEMMA BoundsInit == Init => ArrayBounds
BY DEF Init, ArrayBounds

LEMMA BoundsStep == TypeInv /\ ArrayBounds /\ [Next]_vars => ArrayBounds'
<1> SUFFICES ASSUME TypeInv, ArrayBounds, [Next]_vars PROVE ArrayBounds'
  OBVIOUS
<1> USE SizesAssumption DEF TypeInv, TypeOK, ArrayBounds, putVars, takeVars
<1>1. ASSUME NEW len \in Lens, PutBegin(len) PROVE ArrayBounds'
  BY <1>1 DEF PutBegin, Accepts, FitsInLine, FitsAround
<1>2. CASE PutCopy
  BY <1>2 DEF PutCopy
<1>3. CASE PutFlag
  BY <1>3 DEF PutFlag
<1>4. CASE PutAdvance
  BY <1>4 DEF PutAdvance
<1>5. CASE TakeBegin
  BY <1>5 DEF TakeBegin
<1>6. CASE TakeFound
  <2>2. /\ mReadIndex' = mReadIndex /\ UNCHANGED <<mWriteIndex, putPc, putLen>>
        /\ takePc' \in {"copy", "copyBehind", "copySeam"}
    BY <1>6 DEF TakeFound
  <2>3. takePc' = "copy" => mReadIndex + TakeSize <= Capacity
    BY <1>6 DEF TakeFound, Ahead
  <2>4. takePc' = "copyBehind" => mReadIndex + TakeSize <= Capacity
    BY <1>6 DEF TakeFound, Behind, InLine
  <2>5. takePc' = "copySeam" => mReadIndex + TakeSize >= Capacity
    BY <1>6, TakeTarget, SMTT(30) DEF TakeFound, Finds, Ahead, Behind, InLine, Seam
  <2> QED BY <2>2, <2>3, <2>4, <2>5
<1>7. CASE TakeNull
  BY <1>7 DEF TakeNull
<1>8. CASE TakeCopy
  BY <1>8 DEF TakeCopy
<1>9. CASE TakeAdvance
  BY <1>9 DEF TakeAdvance
<1>10. CASE TakeFlag
  BY <1>10 DEF TakeFlag
<1>11. CASE AlignIndex
  BY <1>11 DEF AlignIndex
<1>12. CASE Clear
  BY <1>12 DEF Clear
<1>13. CASE Release
  BY <1>13 DEF Release
<1>14. CASE UNCHANGED vars
  BY <1>14 DEF vars
<1> QED
  BY <1>1, <1>2, <1>3, <1>4, <1>5, <1>6, <1>7, <1>8, <1>9, <1>10, <1>11, <1>12,
     <1>13, <1>14 DEF Next, Producer, Consumer

(* No System.arraycopy of putAll or takeAll leaves an array, whatever the   *)
(* lengths put and the sizes of ring and frame.                             *)
THEOREM ArrayBoundsHold == Spec => []ArrayBounds
<1>1. Init => TypeInv /\ ArrayBounds BY TypeInit, BoundsInit
<1>2. TypeInv /\ ArrayBounds /\ [Next]_vars => (TypeInv /\ ArrayBounds)'
  BY TypeStep, BoundsStep
<1> QED BY <1>1, <1>2, PTL DEF Spec

(* What the consumer found out in "test" stays true: it alone moves the     *)
(* read index and the snapshot.                                             *)
Decided ==
  /\ takePc \in {"copy", "advance"} => mReadIndex + TakeSize <= tmpIndex
  /\ takePc = "copyBehind" => tmpIndex < mReadIndex /\ mReadIndex + TakeSize <= Capacity
  /\ takePc = "copySeam" => mReadIndex # tmpIndex /\ mReadIndex + TakeSize >= Capacity
  /\ takePc = "advanceFar" =>
       \/ tmpIndex < mReadIndex /\ mReadIndex + TakeSize <= Capacity
       \/ mReadIndex # tmpIndex /\ mReadIndex + TakeSize >= Capacity

LEMMA DecidedInit == Init => Decided
BY DEF Init, Decided

LEMMA DecidedStep == TypeOK /\ Decided /\ [Next]_vars => Decided'
<1> SUFFICES ASSUME TypeOK, Decided, [Next]_vars PROVE Decided'
  OBVIOUS
<1> USE DEF Decided
<1>1. CASE UNCHANGED <<mReadIndex, takePc, tmpIndex>>
  BY <1>1
<1>2. CASE takePc' \in {"idle", "test", "flag"}
  BY <1>2
<1>3. CASE TakeFound
  <2>1. takePc' = "copySeam" => mReadIndex # tmpIndex /\ mReadIndex + TakeSize >= Capacity
    BY <1>3, TakeTarget, SizesAssumption DEF TakeFound, Finds, Ahead, Behind, InLine, Seam,
       TypeOK
  <2> QED BY <1>3, <2>1 DEF TakeFound, Ahead, Behind, InLine
<1>4. CASE TakeCopy
  BY <1>4 DEF TakeCopy
<1>5. (\E len \in Lens : PutBegin(len)) \/ PutCopy \/ PutFlag \/ PutAdvance \/ Release
        => UNCHANGED <<mReadIndex, takePc, tmpIndex>>
  BY DEF PutBegin, PutCopy, PutFlag, PutAdvance, Release, takeVars
<1>6. TakeBegin \/ TakeNull \/ TakeAdvance \/ TakeFlag => takePc' \in {"idle", "test", "flag"}
  BY DEF TakeBegin, TakeNull, TakeAdvance, TakeFlag
<1>7. AlignIndex \/ Clear => takePc' \in {"idle", "test", "flag"}
  BY DEF AlignIndex, Clear, takeVars
<1>8. UNCHANGED vars => UNCHANGED <<mReadIndex, takePc, tmpIndex>>
  BY DEF vars
<1> QED
  BY <1>1, <1>2, <1>3, <1>4, <1>5, <1>6, <1>7, <1>8 DEF Next, Producer, Consumer

(* Whatever the lengths put: a consistent ring delivers bytes that were     *)
(* never put only where less than a frame is pending and ends the array.    *)
THEOREM PhantomOnlyAtRaggedSeamHolds == Spec => PhantomOnlyAtRaggedSeam
<1>1. TypeOK /\ Decided /\ Consistent /\ [Next]_vars /\ got' > put'
        => put - got \in 1 .. TakeSize - 1 /\ mReadIndex + TakeSize >= Capacity
  <2> SUFFICES ASSUME TypeOK, Decided, Consistent, [Next]_vars, got' > put'
               PROVE  put - got \in 1 .. TakeSize - 1 /\ mReadIndex + TakeSize >= Capacity
    OBVIOUS
  <2>1. put - got = Dist(mReadIndex, mWriteIndex) /\ put - got >= 0
    BY DistRange, SizesAssumption DEF Consistent, TypeOK
  <2>2. TakeAdvance
    <3>1. ~(got' = got /\ put' = put) BY <2>1 DEF TypeOK
    <3>2. ~AlignIndex BY DEF AlignIndex, TypeOK
    <3>3. ~Clear BY DEF Clear
    <3>4. ~PutAdvance BY <2>1 DEF PutAdvance, TypeOK
    <3>5. Release \/ UNCHANGED vars => got' = got /\ put' = put BY DEF Release, vars
    <3>6. (\E len \in Lens : PutBegin(len)) \/ PutCopy \/ PutFlag => got' = got /\ put' = put
      BY DEF PutBegin, PutCopy, PutFlag
    <3>7. TakeBegin \/ TakeFound \/ TakeNull \/ TakeCopy \/ TakeFlag
            => got' = got /\ put' = put
      BY DEF TakeBegin, TakeFound, TakeNull, TakeCopy, TakeFlag
    <3> QED BY <3>1, <3>2, <3>3, <3>4, <3>5, <3>6, <3>7 DEF Next, Producer, Consumer
  <2>3. /\ takePc \in {"advance", "advanceFar"}
        /\ put - got < TakeSize /\ Dist(mReadIndex, tmpIndex) <= put - got
    BY <2>2, SizesAssumption DEF TakeAdvance, Consistent, TypeOK
  <2>4. put - got \in Int BY DEF TypeOK
  <2> QED BY <2>3, <2>4, SizesAssumption DEF Decided, Dist, TypeOK
<1>2. Init => TypeInv /\ Decided BY TypeInit, DecidedInit
<1>3. TypeInv /\ Decided /\ [Next]_vars => (TypeInv /\ Decided)'
  BY TypeStep, DecidedStep DEF TypeInv
<1>4. TypeInv /\ Decided /\ [Next]_vars =>
        [Consistent /\ got' > put' =>
           /\ put - got \in 1 .. TakeSize - 1
           /\ mReadIndex + TakeSize >= Capacity]_vars
  BY <1>1 DEF TypeInv
<1> QED BY <1>2, <1>3, <1>4, PTL DEF Spec, PhantomOnlyAtRaggedSeam

-----------------------------------------------------------------------------
(* Whole frames. *)

Multiple(n) == \E k \in 0 .. n : n = k * TakeSize

(* The ring holds a whole number of frames and so does every run put: true  *)
(* of playBuffer, whose capacity is hz*4 bytes and whose frames are hz/10   *)
(* bytes unless the application asks for another size.                      *)
Aligned == Multiple(Capacity) /\ \A len \in Lens : Multiple(len)

(* The parts of the inductive invariant. *)

OnFrames ==
  Multiple(mWriteIndex) /\ Multiple(mReadIndex) /\ Multiple(tmpIndex) /\ Multiple(putLen)

(* The indexes agree with the history ... *)
Counts == put - got = Dist(mReadIndex, mWriteIndex)

(* ... and every pending byte is where they say. *)
Contents ==
  \A i \in 0 .. Capacity - 1 :
    Dist(mReadIndex, i) < Dist(mReadIndex, mWriteIndex)
      => mBuffer[i] = got + Dist(mReadIndex, i)

(* The run being put has room, even of a reader that does not move ... *)
PutHasRoom ==
  putPc # "idle" =>
    putLen \in Lens /\ Dist(mReadIndex, mWriteIndex) + putLen <= Capacity - 1

(* ... and is in the array once it was copied. *)
Copied ==
  putPc \in {"flag", "advance", "advanceAround"} =>
    \A i \in 0 .. Capacity - 1 :
      Dist(mWriteIndex, i) < putLen => mBuffer[i] = put + Dist(mWriteIndex, i)

(* A write index that is going around leaves a reader ahead of the start of *)
(* the array, and is announced before it is published; it stays announced   *)
(* until the reader is around too.                                          *)
GoesAround == mWriteIndex + putLen >= Capacity
Announced ==
  /\ putPc \in {"copyAround", "flag", "advanceAround"} => GoesAround
  /\ putPc \in {"copy", "advance"} => ~GoesAround
  /\ putPc # "idle" /\ GoesAround => 0 < mReadIndex /\ mReadIndex <= mWriteIndex
  /\ putPc = "advanceAround" => isNextLine
  /\ mWriteIndex < mReadIndex => isNextLine

(* The consumer's snapshot shows bytes that are there, and in the branch it *)
(* is in, a frame that ends where the array ends at the latest.             *)
Snapshot ==
  /\ takePc \notin {"idle", "flag"} =>
       Dist(mReadIndex, tmpIndex) <= Dist(mReadIndex, mWriteIndex)
  /\ takePc \in {"copy", "advance"} => mReadIndex + TakeSize <= tmpIndex
  /\ takePc \in {"copyBehind", "advanceFar"} =>
       tmpIndex < mReadIndex /\ mReadIndex + TakeSize <= Capacity
  /\ takePc # "copySeam"
  /\ takePc = "flag" /\ mReadIndex < tmpIndex => mReadIndex = 0

(* The frame to be delivered is the next one. *)
Taken ==
  takePc \in {"advance", "advanceFar"} => mTaken = [j \in 0 .. TakeSize - 1 |-> got + j]

IInv ==
  /\ TypeInv /\ OnFrames /\ Counts /\ Contents /\ PutHasRoom /\ Copied
  /\ Announced /\ Snapshot /\ Taken

-----------------------------------------------------------------------------
(* Multiples of the frame size. *)

LEMMA MultipleZero == Multiple(0)
BY SizesAssumption DEF Multiple

LEMMA MultipleGap ==
  ASSUME NEW a \in Nat, NEW b \in Nat, Multiple(a), Multiple(b), a < b
  PROVE  a + TakeSize <= b
<1>1. PICK k \in Nat : a = k * TakeSize BY DEF Multiple
<1>2. PICK m \in Nat : b = m * TakeSize BY DEF Multiple
<1>3. TakeSize \in Nat \ {0} BY SizesAssumption
<1>4. k < m BY <1>1, <1>2, <1>3
<1>5. (k + 1) * TakeSize <= m * TakeSize BY <1>3, <1>4
<1>6. (k + 1) * TakeSize = k * TakeSize + TakeSize BY <1>3
<1> QED BY <1>1, <1>2, <1>3, <1>5, <1>6

LEMMA MultipleSum ==
  ASSUME NEW a \in Nat, NEW b \in Nat, Multiple(a), Multiple(b)
  PROVE  Multiple(a + b)
<1>1. PICK k \in 0 .. a : a = k * TakeSize BY DEF Multiple
<1>2. PICK m \in 0 .. b : b = m * TakeSize BY DEF Multiple
<1>3. a + b = (k + m) * TakeSize /\ k + m \in 0 .. a + b
  BY <1>1, <1>2, SizesAssumption
<1> QED BY <1>3 DEF Multiple

LEMMA MultipleDifference ==
  ASSUME NEW a \in Nat, NEW b \in Nat, Multiple(a), Multiple(b), b <= a
  PROVE  Multiple(a - b)
<1>1. PICK k \in 0 .. a : a = k * TakeSize BY DEF Multiple
<1>2. PICK m \in 0 .. b : b = m * TakeSize BY DEF Multiple
<1>3. TakeSize \in Nat \ {0} BY SizesAssumption
<1>4. k >= m BY <1>1, <1>2, <1>3
<1>5. a - b = (k - m) * TakeSize BY <1>1, <1>2, <1>3
<1>6. k - m <= (k - m) * TakeSize BY <1>3, <1>4
<1>7. k - m \in 0 .. a - b BY <1>4, <1>5, <1>6
<1> QED BY <1>5, <1>7 DEF Multiple

LEMMA MultipleFrame == Multiple(TakeSize)
<1>1. TakeSize = 1 * TakeSize /\ 1 \in 0 .. TakeSize BY SizesAssumption
<1> QED BY <1>1 DEF Multiple

(* An index on a frame boundary moves to a frame boundary. *)
LEMMA MultipleAdvance ==
  ASSUME Aligned, NEW i \in 0 .. Capacity - 1, NEW n \in 0 .. Capacity,
         Multiple(i), Multiple(n)
  PROVE  Multiple(Advance(i, n))
<1>1. Multiple(i + n) BY MultipleSum
<1>2. Multiple(Capacity) /\ Capacity \in Nat BY SizesAssumption DEF Aligned
<1>3. Advance(i, n) = IF i + n < Capacity THEN i + n ELSE i + n - Capacity
  BY AdvanceValue
<1>4. CASE i + n < Capacity BY <1>1, <1>3, <1>4
<1>5. CASE ~(i + n < Capacity)
  <2>1. i + n \in Nat /\ Capacity <= i + n BY <1>2, <1>5
  <2>2. Multiple(i + n - Capacity) BY <1>1, <1>2, <2>1, MultipleDifference
  <2> QED BY <2>2, <1>3, <1>5
<1> QED BY <1>4, <1>5

-----------------------------------------------------------------------------
(* What the invariant says of a consumer about to decide. *)

(* The snapshot shows whole frames: it is the read index, or the next frame *)
(* lies before it, or the next frame lies before the end of the array and   *)
(* the flag is up.                                                          *)
LEMMA FrameFound ==
  ASSUME IInv, Aligned, takePc = "test"
  PROVE  mReadIndex = tmpIndex \/ Ahead \/ Behind
<1> USE DEF IInv, TypeInv, TypeOK
<1>1. CASE mReadIndex < tmpIndex
  <2>1. mReadIndex + TakeSize <= tmpIndex BY <1>1, MultipleGap DEF OnFrames
  <2> QED BY <2>1, <1>1 DEF Ahead
<1>2. CASE mReadIndex > tmpIndex
  <2>1. mReadIndex + TakeSize <= Capacity
    <3>1. Multiple(mReadIndex) /\ Multiple(Capacity) /\ mReadIndex < Capacity
      BY SizesAssumption DEF OnFrames, Aligned
    <3> QED BY <3>1, MultipleGap, SizesAssumption
  <2>2. Dist(mReadIndex, tmpIndex) <= Dist(mReadIndex, mWriteIndex)
    BY DEF Snapshot
  <2>3. mWriteIndex < mReadIndex
    BY <1>2, <2>2, SizesAssumption DEF Dist
  <2>4. isNextLine BY <2>3 DEF Announced
  <2> QED BY <1>2, <2>1, <2>4 DEF Behind, InLine
<1> QED BY <1>1, <1>2

LEMMA IInvInit == Init => IInv
<1> SUFFICES ASSUME Init PROVE IInv
  OBVIOUS
<1>1. TypeInv BY TypeInit
<1>2. OnFrames BY MultipleZero DEF Init, OnFrames
<1>3. Dist(0, 0) = 0 BY DEF Dist
<1>4. Counts BY <1>3 DEF Init, Counts
<1>5. Contents
  <2>1. 0 \in 0 .. Capacity - 1 BY SizesAssumption
  <2>2. \A i \in 0 .. Capacity - 1 : ~(Dist(0, i) < 0) BY <2>1, DistRange
  <2> QED BY <1>3, <2>2 DEF Init, Contents
<1>6. PutHasRoom /\ Copied BY DEF Init, PutHasRoom, Copied
<1>7. Announced /\ Snapshot /\ Taken BY DEF Init, Announced, Snapshot, Taken
<1> QED BY <1>1, <1>2, <1>4, <1>5, <1>6, <1>7 DEF IInv

-----------------------------------------------------------------------------
(* Each step of the producer keeps the invariant. *)

LEMMA PutBeginKeeps ==
  ASSUME IInv, Aligned, NEW len \in Lens, PutBegin(len)
  PROVE  IInv'
<1> USE DEF IInv, TypeInv
<1>1. TypeInv' BY TypeStep DEF Next, Producer
<1>2. /\ UNCHANGED <<mWriteIndex, mReadIndex, isNextLine, mBuffer, mTaken, takePc,
                     tmpIndex, put, got>>
      /\ putLen' = len /\ len \in 1 .. Capacity - 1
  BY SizesAssumption DEF PutBegin, takeVars
<1>3. OnFrames' BY <1>2 DEF OnFrames, Aligned
<1>4. Counts' BY <1>2 DEF Counts, Dist
<1>5. Contents' BY <1>2 DEF Contents, Dist
<1>6. Advance(mWriteIndex, len + 1)
        = IF mWriteIndex + (len + 1) < Capacity THEN mWriteIndex + (len + 1)
                                                ELSE mWriteIndex + (len + 1) - Capacity
  <2>1. mWriteIndex \in 0 .. Capacity - 1 /\ len + 1 \in 0 .. Capacity
    BY <1>2, SizesAssumption DEF TypeOK
  <2> QED BY <2>1, AdvanceValue
<1>7. PutHasRoom'
  <2>1. CASE FitsInLine(len)
    BY <1>2, <2>1, SizesAssumption DEF FitsInLine, PutHasRoom, Dist, TypeOK
  <2>2. CASE FitsAround(len)
    BY <1>2, <1>6, <2>2, SizesAssumption DEF FitsAround, PutHasRoom, Dist, TypeOK
  <2> QED BY <2>1, <2>2 DEF PutBegin, Accepts
<1>8. Copied' BY DEF PutBegin, Copied
<1>9. Announced'
  <2>1. CASE FitsInLine(len)
    <3>1. putPc' = "copy" /\ mWriteIndex + len < Capacity
      BY <1>2, <2>1, SizesAssumption DEF PutBegin, FitsInLine, TypeOK
    <3> QED BY <1>2, <3>1, SizesAssumption DEF Announced, GoesAround, TypeOK
  <2>2. CASE ~FitsInLine(len)
    <3>1. /\ putPc' = "copyAround" /\ mWriteIndex + len >= Capacity
          /\ 0 < mReadIndex /\ mReadIndex <= mWriteIndex
      BY <1>2, <1>6, <2>2, SizesAssumption DEF PutBegin, Accepts, FitsAround, TypeOK
    <3> QED BY <1>2, <3>1, SizesAssumption DEF Announced, GoesAround, TypeOK
  <2> QED BY <2>1, <2>2
<1>10. Snapshot' BY <1>2 DEF Snapshot, Dist
<1>11. Taken' BY <1>2 DEF Taken
<1> QED
  BY <1>1, <1>3, <1>4, <1>5, <1>7, <1>8, <1>9, <1>10, <1>11

LEMMA PutCopyKeeps ==
  ASSUME IInv, PutCopy
  PROVE  IInv'
<1> USE DEF IInv, TypeInv
<1>1. TypeInv' BY TypeStep DEF Next, Producer
<1>2. UNCHANGED <<mWriteIndex, mReadIndex, isNextLine, mTaken, putLen, takePc,
                  tmpIndex, put, got>>
  BY DEF PutCopy, takeVars
<1>3. OnFrames' BY <1>2 DEF OnFrames
<1>4. Counts' BY <1>2 DEF Counts, Dist
<1>5. /\ putPc \in {"copy", "copyAround"}
      /\ \/ mBuffer' = mBuffer /\ putPc' = "idle"
         \/ /\ mBuffer' = [i \in 0 .. Capacity - 1 |->
                  IF Dist(mWriteIndex, i) < putLen THEN put + Dist(mWriteIndex, i)
                                                   ELSE mBuffer[i]]
            /\ putPc' = IF putPc = "copyAround" THEN "flag" ELSE "advance"
  BY DEF PutCopy
<1>6. Contents'
  <2>1. SUFFICES ASSUME NEW i \in 0 .. Capacity - 1,
                        Dist(mReadIndex, i) < Dist(mReadIndex, mWriteIndex)
                 PROVE  mBuffer'[i] = got + Dist(mReadIndex, i)
    BY <1>2 DEF Contents, Dist
  <2>2. mBuffer[i] = got + Dist(mReadIndex, i) BY <2>1 DEF Contents
  <2>3. ~(Dist(mWriteIndex, i) < putLen)
    BY <1>5, <2>1, SizesAssumption DEF PutHasRoom, Dist, TypeOK
  <2> QED BY <1>5, <2>2, <2>3
<1>7. PutHasRoom' BY <1>2, <1>5 DEF PutHasRoom, Dist
<1>8. Copied' BY <1>2, <1>5 DEF Copied, Dist
<1>9. Announced' BY <1>2, <1>5 DEF Announced, GoesAround
<1>10. Snapshot' BY <1>2 DEF Snapshot, Dist
<1>11. Taken' BY <1>2 DEF Taken
<1> QED
  BY <1>1, <1>3, <1>4, <1>6, <1>7, <1>8, <1>9, <1>10, <1>11

LEMMA PutFlagKeeps ==
  ASSUME IInv, PutFlag
  PROVE  IInv'
<1> USE DEF IInv, TypeInv
<1>1. TypeInv' BY TypeStep DEF Next, Producer
<1>2. /\ putPc = "flag" /\ putPc' = "advanceAround" /\ isNextLine'
      /\ UNCHANGED <<mWriteIndex, mReadIndex, mBuffer, mTaken, putLen, takePc,
                     tmpIndex, put, got>>
  BY DEF PutFlag, takeVars
<1>3. OnFrames' /\ Counts' /\ Contents' BY <1>2 DEF OnFrames, Counts, Contents, Dist
<1>4. PutHasRoom' /\ Copied' BY <1>2 DEF PutHasRoom, Copied, Dist
<1>5. Announced' BY <1>2 DEF Announced, GoesAround
<1>6. Snapshot' /\ Taken' BY <1>2 DEF Snapshot, Taken, Dist
<1> QED BY <1>1, <1>3, <1>4, <1>5, <1>6

LEMMA PutAdvanceKeeps ==
  ASSUME IInv, Aligned, PutAdvance
  PROVE  IInv'
<1> USE DEF IInv, TypeInv
<1>1. TypeInv' BY TypeStep DEF Next, Producer
<1>2. /\ putPc \in {"advance", "advanceAround"} /\ putPc' = "idle"
      /\ mWriteIndex' = Advance(mWriteIndex, putLen) /\ put' = put + putLen
      /\ UNCHANGED <<mReadIndex, isNextLine, mBuffer, mTaken, putLen, takePc,
                     tmpIndex, got>>
  BY PutLands DEF PutAdvance, takeVars
<1>3. mWriteIndex' = IF mWriteIndex + putLen < Capacity
                       THEN mWriteIndex + putLen ELSE mWriteIndex + putLen - Capacity
  BY <1>2, PutTarget
<1>4. OnFrames'
  <2>1. mWriteIndex \in 0 .. Capacity - 1 /\ putLen \in 0 .. Capacity
    BY SizesAssumption DEF TypeOK
  <2> QED BY <1>2, <2>1, MultipleAdvance DEF OnFrames
<1>5. Dist(mReadIndex, mWriteIndex') = Dist(mReadIndex, mWriteIndex) + putLen
  BY <1>2, <1>3, SizesAssumption DEF PutHasRoom, Dist, TypeOK
<1>6. Counts'
  <2>1. Dist(mReadIndex, mWriteIndex) \in Int BY DistRange DEF TypeOK
  <2>2. Dist(mReadIndex', mWriteIndex') = Dist(mReadIndex, mWriteIndex) + putLen
    BY <1>2, <1>5
  <2> QED BY <1>2, <2>1, <2>2 DEF Counts, TypeOK
<1>7. Contents'
  <2>1. SUFFICES ASSUME NEW i \in 0 .. Capacity - 1,
                        Dist(mReadIndex, i) < Dist(mReadIndex, mWriteIndex) + putLen
                 PROVE  mBuffer[i] = got + Dist(mReadIndex, i)
    BY <1>2, <1>5 DEF Contents, Dist
  <2>2. CASE Dist(mReadIndex, i) < Dist(mReadIndex, mWriteIndex)
    BY <2>2 DEF Contents
  <2>3. CASE ~(Dist(mReadIndex, i) < Dist(mReadIndex, mWriteIndex))
    <3>1. /\ Dist(mReadIndex, i) = Dist(mReadIndex, mWriteIndex) + Dist(mWriteIndex, i)
          /\ Dist(mWriteIndex, i) < putLen
      BY <1>2, <2>1, <2>3, SizesAssumption DEF PutHasRoom, Dist, TypeOK
    <3>2. mBuffer[i] = put + Dist(mWriteIndex, i) BY <1>2, <3>1 DEF Copied
    <3>3. /\ Dist(mWriteIndex, i) \in Int /\ Dist(mReadIndex, mWriteIndex) \in Int
          /\ put = got + Dist(mReadIndex, mWriteIndex)
      BY SizesAssumption DEF Counts, Dist, TypeOK
    <3> QED BY <3>1, <3>2, <3>3 DEF TypeOK
  <2> QED BY <2>2, <2>3
<1>8. PutHasRoom' /\ Copied' BY <1>2 DEF PutHasRoom, Copied
<1>9. Announced'
  BY <1>2, <1>3, SizesAssumption, SMTT(30) DEF Announced, GoesAround, TypeOK
<1>10. Snapshot'
  <2>1. Dist(mReadIndex, tmpIndex)' = Dist(mReadIndex, tmpIndex)
    BY <1>2 DEF Dist
  <2>2. /\ Dist(mReadIndex, tmpIndex) \in Int /\ Dist(mReadIndex, mWriteIndex) \in Int
        /\ putLen \in Nat
    <3>1. /\ mReadIndex \in 0 .. Capacity - 1 /\ mWriteIndex \in 0 .. Capacity - 1
          /\ tmpIndex \in 0 .. Capacity - 1 /\ putLen \in Nat
      BY DEF TypeOK
    <3> HIDE DEF IInv
    <3>2. Dist(mReadIndex, tmpIndex) \in Int BY <3>1, DistRange
    <3>3. Dist(mReadIndex, mWriteIndex) \in Int BY <3>1, DistRange
    <3> QED BY <3>1, <3>2, <3>3
  <2>3. takePc \notin {"idle", "flag"} =>
          Dist(mReadIndex, tmpIndex) <= Dist(mReadIndex, mWriteIndex)
    BY DEF Snapshot
  <2>4. takePc \notin {"idle", "flag"} =>
          Dist(mReadIndex, tmpIndex)' <= Dist(mReadIndex', mWriteIndex')
    <3> HIDE DEF IInv
    <3> QED BY <1>2, <1>5, <2>1, <2>2, <2>3
  <2>5. /\ takePc' = takePc /\ tmpIndex' = tmpIndex /\ mReadIndex' = mReadIndex
    BY <1>2
  <2> QED BY <2>4, <2>5 DEF Snapshot, Dist
<1>11. Taken' BY <1>2 DEF Taken
<1> QED BY <1>1, <1>4, <1>6, <1>7, <1>8, <1>9, <1>10, <1>11

-----------------------------------------------------------------------------
(* Each step of the consumer keeps the invariant. *)

LEMMA TakeBeginKeeps ==
  ASSUME IInv, TakeBegin
  PROVE  IInv'
<1> USE DEF IInv, TypeInv
<1>1. TypeInv' BY TypeStep DEF Next, Consumer
<1>2. /\ tmpIndex' = mWriteIndex /\ takePc' = "test"
      /\ UNCHANGED <<mWriteIndex, mReadIndex, isNextLine, mBuffer, mTaken, putPc,
                     putLen, put, got>>
  BY DEF TakeBegin, putVars
<1>3. OnFrames' /\ Counts' /\ Contents' BY <1>2 DEF OnFrames, Counts, Contents, Dist
<1>4. PutHasRoom' /\ Copied' BY <1>2 DEF PutHasRoom, Copied, Dist
<1>5. Announced' BY <1>2 DEF Announced, GoesAround
<1>6. Snapshot'
  <2>1. Dist(mReadIndex', tmpIndex') <= Dist(mReadIndex', mWriteIndex')
    BY <1>2, DistRange, SizesAssumption DEF TypeOK
  <2> QED BY <1>2, <2>1 DEF Snapshot
<1>7. Taken' BY <1>2 DEF Taken
<1> QED BY <1>1, <1>3, <1>4, <1>5, <1>6, <1>7

LEMMA TakeFoundKeeps ==
  ASSUME IInv, Aligned, TakeFound
  PROVE  IInv'
<1> USE DEF IInv, TypeInv
<1>1. TypeInv' BY TypeStep DEF Next, Consumer
<1>2. /\ takePc = "test"
      /\ UNCHANGED <<mWriteIndex, mReadIndex, isNextLine, mBuffer, mTaken, putPc,
                     putLen, tmpIndex, put, got>>
  BY DEF TakeFound, putVars
<1>3. OnFrames' /\ Counts' /\ Contents' BY <1>2 DEF OnFrames, Counts, Contents, Dist
<1>4. PutHasRoom' /\ Copied' BY <1>2 DEF PutHasRoom, Copied, Dist
<1>5. Announced' BY <1>2 DEF Announced, GoesAround
<1>6. /\ Dist(mReadIndex, tmpIndex) <= Dist(mReadIndex, mWriteIndex)
      /\ takePc' \in {"copy", "copyBehind"}
      /\ takePc' = "copy" => mReadIndex + TakeSize <= tmpIndex
      /\ takePc' = "copyBehind" =>
           tmpIndex < mReadIndex /\ mReadIndex + TakeSize <= Capacity
  <2>1. Ahead \/ Behind BY <1>2, FrameFound DEF TakeFound, Finds
  <2>2. CASE Ahead BY <1>2, <2>2 DEF TakeFound, Snapshot, Ahead
  <2>3. CASE ~Ahead
    <3>1. Behind /\ takePc' = "copyBehind" BY <2>1, <2>3 DEF TakeFound
    <3> QED BY <1>2, <3>1 DEF Snapshot, Behind, InLine, TypeOK
  <2> QED BY <2>2, <2>3
<1>7. Snapshot' BY <1>2, <1>6 DEF Snapshot, Dist
<1>8. Taken' BY <1>6 DEF Taken
<1> QED BY <1>1, <1>3, <1>4, <1>5, <1>7, <1>8

LEMMA TakeNullKeeps ==
  ASSUME IInv, TakeNull
  PROVE  IInv'
<1> USE DEF IInv, TypeInv
<1>1. TypeInv' BY TypeStep DEF Next, Consumer
<1>2. /\ takePc' = "idle"
      /\ UNCHANGED <<mWriteIndex, mReadIndex, isNextLine, mBuffer, putPc, putLen,
                     tmpIndex, put, got>>
  BY DEF TakeNull, putVars
<1>3. OnFrames' /\ Counts' /\ Contents' BY <1>2 DEF OnFrames, Counts, Contents, Dist
<1>4. PutHasRoom' /\ Copied' BY <1>2 DEF PutHasRoom, Copied, Dist
<1>5. Announced' BY <1>2 DEF Announced, GoesAround
<1>6. Snapshot' /\ Taken' BY <1>2 DEF Snapshot, Taken
<1> QED BY <1>1, <1>3, <1>4, <1>5, <1>6

(* A frame that lies in one piece among the pending bytes is the next one. *)
LEMMA SliceIsNext ==
  ASSUME IInv, takePc \in {"copy", "copyBehind"}
  PROVE  Slice = [j \in 0 .. TakeSize - 1 |-> got + j]
<1> USE DEF IInv, TypeInv
<1>1. SUFFICES ASSUME NEW j \in 0 .. TakeSize - 1
               PROVE  mBuffer[Advance(mReadIndex, j)] = got + j
  BY DEF Slice
<1>2. mReadIndex + TakeSize <= Capacity /\ TakeSize <= Dist(mReadIndex, mWriteIndex)
  BY SizesAssumption DEF Snapshot, Dist, TypeOK
<1>3. mReadIndex \in 0 .. Capacity - 1 /\ j \in 0 .. Capacity
  BY SizesAssumption DEF TypeOK
<1>4. Advance(mReadIndex, j) = mReadIndex + j
  BY <1>2, <1>3, AdvanceValue, SizesAssumption
<1>5. /\ mReadIndex + j \in 0 .. Capacity - 1
      /\ Dist(mReadIndex, mReadIndex + j) = j
  BY <1>2, <1>3, SizesAssumption DEF Dist
<1>6. j < Dist(mReadIndex, mWriteIndex)
  BY <1>2, SizesAssumption DEF Dist, TypeOK
<1> QED BY <1>4, <1>5, <1>6 DEF Contents

LEMMA TakeCopyKeeps ==
  ASSUME IInv, TakeCopy
  PROVE  IInv'
<1> USE DEF IInv, TypeInv
<1>1. TypeInv' BY TypeStep DEF Next, Consumer
<1>2. UNCHANGED <<mWriteIndex, mReadIndex, isNextLine, mBuffer, putPc, putLen,
                  tmpIndex, put, got>>
  BY DEF TakeCopy, putVars
<1>3. /\ takePc \in {"copy", "copyBehind"}
      /\ \/ takePc' = "idle"
         \/ takePc = "copy" /\ takePc' = "advance" /\ mTaken' = Slice
         \/ takePc = "copyBehind" /\ takePc' = "advanceFar" /\ mTaken' = Slice
  BY DEF TakeCopy, Snapshot
<1>4. OnFrames' /\ Counts' /\ Contents' BY <1>2 DEF OnFrames, Counts, Contents, Dist
<1>5. PutHasRoom' /\ Copied' BY <1>2 DEF PutHasRoom, Copied, Dist
<1>6. Announced' BY <1>2 DEF Announced, GoesAround
<1>7. Snapshot' BY <1>2, <1>3 DEF Snapshot, Dist
<1>8. Taken' BY <1>2, <1>3, SliceIsNext DEF Taken
<1> QED BY <1>1, <1>4, <1>5, <1>6, <1>7, <1>8

LEMMA TakeAdvanceKeeps ==
  ASSUME IInv, Aligned, TakeAdvance
  PROVE  IInv'
<1> USE DEF IInv, TypeInv
<1>1. TypeInv' BY TypeStep DEF Next, Consumer
<1>2. /\ takePc \in {"advance", "advanceFar"}
      /\ takePc' = IF takePc = "advance" THEN "idle" ELSE "flag"
      /\ mReadIndex' = Advance(mReadIndex, TakeSize) /\ got' = got + TakeSize
      /\ UNCHANGED <<mWriteIndex, isNextLine, mBuffer, putPc, putLen, tmpIndex, put>>
  BY TakeLands DEF TakeAdvance, putVars
<1>3. mReadIndex' = IF mReadIndex + TakeSize < Capacity
                      THEN mReadIndex + TakeSize ELSE mReadIndex + TakeSize - Capacity
  BY <1>2, TakeTarget
<1>4. OnFrames'
  <2>1. mReadIndex \in 0 .. Capacity - 1 /\ TakeSize \in 0 .. Capacity
    BY SizesAssumption DEF TypeOK
  <2> QED BY <1>2, <2>1, MultipleAdvance, MultipleFrame DEF OnFrames
<1>5. /\ mReadIndex + TakeSize <= Capacity
      /\ TakeSize <= Dist(mReadIndex, tmpIndex)
      /\ Dist(mReadIndex, tmpIndex) <= Dist(mReadIndex, mWriteIndex)
  BY <1>2, SizesAssumption DEF Snapshot, Dist, TypeOK
<1>6. Dist(mReadIndex', mWriteIndex) = Dist(mReadIndex, mWriteIndex) - TakeSize
  BY <1>3, <1>5, SizesAssumption DEF Dist, TypeOK
<1>7. Counts'
  <2>1. Dist(mReadIndex, mWriteIndex) \in Int /\ TakeSize \in Int
    BY DistRange, SizesAssumption DEF TypeOK
  <2>2. Dist(mReadIndex', mWriteIndex') = Dist(mReadIndex, mWriteIndex) - TakeSize
    BY <1>2, <1>6
  <2> QED BY <1>2, <2>1, <2>2 DEF Counts, TypeOK
<1>8. Contents'
  <2>1. SUFFICES ASSUME NEW i \in 0 .. Capacity - 1,
                        Dist(mReadIndex', i) < Dist(mReadIndex', mWriteIndex)
                 PROVE  mBuffer[i] = got + TakeSize + Dist(mReadIndex', i)
    BY <1>2 DEF Contents
  <2>2. /\ Dist(mReadIndex, i) = Dist(mReadIndex', i) + TakeSize
        /\ Dist(mReadIndex, i) < Dist(mReadIndex, mWriteIndex)
    BY <1>3, <1>5, <2>1, SizesAssumption DEF Dist, TypeOK
  <2>3. mBuffer[i] = got + Dist(mReadIndex, i) BY <2>2 DEF Contents
  <2>4. Dist(mReadIndex', i) \in Int /\ TakeSize \in Int
    BY <1>1, SizesAssumption, DistRange DEF TypeOK
  <2> QED BY <2>2, <2>3, <2>4 DEF TypeOK
<1>9. PutHasRoom'
  BY <1>2, <1>3, <1>5, SizesAssumption DEF PutHasRoom, Dist, TypeOK
<1>10. Copied' BY <1>2 DEF Copied
<1>11. Announced'
  BY <1>2, <1>3, <1>5, SizesAssumption DEF Announced, GoesAround, Dist, TypeOK
<1>12. Snapshot'
  BY <1>2, <1>3, <1>5, SizesAssumption DEF Snapshot, TypeOK
<1>13. Taken' BY <1>2 DEF Taken
<1> QED BY <1>1, <1>4, <1>7, <1>8, <1>9, <1>10, <1>11, <1>12, <1>13

LEMMA TakeFlagKeeps ==
  ASSUME IInv, TakeFlag
  PROVE  IInv'
<1> USE DEF IInv, TypeInv
<1>1. TypeInv' BY TypeStep DEF Next, Consumer
<1>2. /\ takePc = "flag" /\ takePc' = "idle"
      /\ isNextLine' = (isNextLine /\ ~(mReadIndex < tmpIndex))
      /\ UNCHANGED <<mWriteIndex, mReadIndex, mBuffer, mTaken, putPc, putLen,
                     tmpIndex, put, got>>
  BY DEF TakeFlag, putVars
<1>3. OnFrames' /\ Counts' /\ Contents' BY <1>2 DEF OnFrames, Counts, Contents, Dist
<1>4. PutHasRoom' /\ Copied' BY <1>2 DEF PutHasRoom, Copied, Dist
<1>5. Announced'
  <2>1. CASE mReadIndex < tmpIndex
    <3>1. mReadIndex = 0 BY <1>2, <2>1 DEF Snapshot
    <3> QED BY <1>2, <3>1, SizesAssumption DEF Announced, GoesAround, TypeOK
  <2>2. CASE ~(mReadIndex < tmpIndex)
    BY <1>2, <2>2 DEF Announced, GoesAround, TypeOK
  <2> QED BY <2>1, <2>2
<1>6. Snapshot' /\ Taken' BY <1>2 DEF Snapshot, Taken
<1> QED BY <1>1, <1>3, <1>4, <1>5, <1>6

-----------------------------------------------------------------------------
(* The other steps. *)

LEMMA AlignIndexKeeps ==
  ASSUME IInv, AlignIndex
  PROVE  IInv'
<1> USE DEF IInv, TypeInv
<1>1. TypeInv' BY TypeStep DEF Next
<1>2. /\ mReadIndex' = mWriteIndex /\ got' = put
      /\ takePc = "idle" /\ takePc' = "idle"
      /\ UNCHANGED <<mWriteIndex, isNextLine, mBuffer, mTaken, putPc, putLen,
                     tmpIndex, put>>
  BY DEF AlignIndex, putVars, takeVars
<1>3. Dist(mReadIndex', mWriteIndex') = 0
  BY <1>2, SizesAssumption DEF Dist, TypeOK
<1>4. OnFrames' BY <1>2 DEF OnFrames
<1>5. Counts' BY <1>2, <1>3 DEF Counts, TypeOK
<1>6. Contents'
  <2>1. mReadIndex' \in 0 .. Capacity - 1 BY <1>1 DEF TypeOK
  <2>2. \A i \in 0 .. Capacity - 1 : Dist(mReadIndex', i) \in Nat
    BY <2>1, DistRange
  <2>3. \A i \in 0 .. Capacity - 1 : ~(Dist(mReadIndex', i) < 0) BY <2>2
  <2> QED BY <1>3, <2>3 DEF Contents
<1>7. PutHasRoom'
  BY <1>2, <1>3, SizesAssumption DEF PutHasRoom, TypeOK
<1>8. Copied' BY <1>2 DEF Copied
<1>9. Announced' BY <1>2 DEF Announced, GoesAround, TypeOK
<1>10. Snapshot' /\ Taken' BY <1>2 DEF Snapshot, Taken
<1> QED BY <1>1, <1>4, <1>5, <1>6, <1>7, <1>8, <1>9, <1>10

LEMMA ClearKeeps ==
  ASSUME IInv, Clear
  PROVE  IInv'
<1> USE DEF IInv, TypeInv
<1>1. TypeInv' BY TypeStep DEF Next
<1>2. /\ mReadIndex' = 0 /\ mWriteIndex' = 0 /\ got' = 0 /\ put' = 0
      /\ takePc' = "idle" /\ putPc' = "idle"
      /\ UNCHANGED <<putLen, tmpIndex>>
  BY DEF Clear, putVars, takeVars
<1>3. Dist(mReadIndex', mWriteIndex') = 0 BY <1>2 DEF Dist
<1>4. OnFrames' BY <1>2, MultipleZero DEF OnFrames
<1>5. Counts' BY <1>2, <1>3 DEF Counts
<1>6. Contents'
  <2>1. mReadIndex' \in 0 .. Capacity - 1 BY <1>1 DEF TypeOK
  <2>2. \A i \in 0 .. Capacity - 1 : Dist(mReadIndex', i) \in Nat
    BY <2>1, DistRange
  <2>3. \A i \in 0 .. Capacity - 1 : ~(Dist(mReadIndex', i) < 0) BY <2>2
  <2> QED BY <1>3, <2>3 DEF Contents
<1>7. PutHasRoom' /\ Copied' BY <1>2 DEF PutHasRoom, Copied
<1>8. Announced' BY <1>2 DEF Announced
<1>9. Snapshot' /\ Taken' BY <1>2 DEF Snapshot, Taken
<1> QED BY <1>1, <1>4, <1>5, <1>6, <1>7, <1>8, <1>9

LEMMA QuietKeeps ==
  ASSUME IInv, Release \/ UNCHANGED vars
  PROVE  IInv'
<1> USE DEF IInv, TypeInv
<1>1. TypeInv' BY TypeStep DEF Next
<1>2. UNCHANGED <<mWriteIndex, mReadIndex, isNextLine, mBuffer, mTaken, putPc, putLen,
                  takePc, tmpIndex, put, got>>
  BY DEF Release, vars, putVars, takeVars
<1>3. OnFrames' /\ Counts' /\ Contents' BY <1>2 DEF OnFrames, Counts, Contents, Dist
<1>4. PutHasRoom' /\ Copied' BY <1>2 DEF PutHasRoom, Copied, Dist
<1>5. Announced' BY <1>2 DEF Announced, GoesAround
<1>6. Snapshot' /\ Taken' BY <1>2 DEF Snapshot, Taken, Dist
<1> QED BY <1>1, <1>3, <1>4, <1>5, <1>6

LEMMA IInvStep == Aligned /\ IInv /\ [Next]_vars => IInv'
<1> SUFFICES ASSUME Aligned, IInv, [Next]_vars PROVE IInv'
  OBVIOUS
<1>1. CASE Producer
  BY <1>1, PutBeginKeeps, PutCopyKeeps, PutFlagKeeps, PutAdvanceKeeps DEF Producer
<1>2. CASE Consumer
  BY <1>2, TakeBeginKeeps, TakeFoundKeeps, TakeNullKeeps, TakeCopyKeeps,
     TakeAdvanceKeeps, TakeFlagKeeps DEF Consumer
<1> QED BY <1>1, <1>2, AlignIndexKeeps, ClearKeeps, QuietKeeps DEF Next

LEMMA IInvHolds == ASSUME Aligned PROVE Spec => []IInv
<1>1. Init => IInv BY IInvInit
<1>2. IInv /\ [Next]_vars => IInv' BY IInvStep
<1> QED BY <1>1, <1>2, PTL DEF Spec

-----------------------------------------------------------------------------
(* What follows. *)

(* putAll and takeAll never touch the same byte of the array at the same    *)
(* time.                                                                    *)
THEOREM RegionsDisjointHold == ASSUME Aligned PROVE Spec => []RegionsDisjoint
<1>1. IInv => RegionsDisjoint
  <2>1. SUFFICES ASSUME IInv, NEW i \in 0 .. Capacity - 1, Writing(i), Reading(i)
                 PROVE  FALSE
    BY DEF RegionsDisjoint
  <2>2. Dist(mWriteIndex, i) < putLen
        /\ Dist(mReadIndex, mWriteIndex) + putLen <= Capacity - 1
    BY <2>1 DEF Writing, IInv, PutHasRoom
  <2>3. Dist(mReadIndex, i) < TakeSize /\ TakeSize <= Dist(mReadIndex, mWriteIndex)
    BY <2>1, SizesAssumption DEF Reading, IInv, Snapshot, Dist, TypeInv, TypeOK
  <2> QED BY <2>1, <2>2, <2>3, SizesAssumption DEF Dist, IInv, TypeInv, TypeOK
<1> QED BY <1>1, IInvHolds, PTL

(* takeAll answers null only when its snapshot shows less than a frame: no  *)
(* interleaving of the unsynchronised isNextLine makes it overlook one.     *)
THEOREM NoFrameMissedHolds == ASSUME Aligned PROVE Spec => []NoFrameMissed
<1>1. IInv => NoFrameMissed
  <2>1. SUFFICES ASSUME IInv, takePc = "test", Dist(mReadIndex, tmpIndex) >= TakeSize
                 PROVE  Finds
    BY DEF NoFrameMissed
  <2>2. mReadIndex # tmpIndex
    BY <2>1, SizesAssumption DEF Dist, IInv, TypeInv, TypeOK
  <2> QED BY <2>1, <2>2, FrameFound DEF Finds
<1> QED BY <1>1, IInvHolds, PTL

(* putAll refuses a run only when fewer than its length and two bytes are   *)
(* free.                                                                    *)
THEOREM RefusedOnlyWhenFullHolds ==
  ASSUME Aligned PROVE Spec => []RefusedOnlyWhenFull
<1>1. IInv => RefusedOnlyWhenFull
  <2>1. SUFFICES ASSUME IInv, NEW len \in Lens, ~(put - got + len >= Capacity - 1)
                 PROVE  Accepts(len)
    BY DEF RefusedOnlyWhenFull
  <2>2. /\ len \in 1 .. Capacity - 1
        /\ Dist(mReadIndex, mWriteIndex) + len < Capacity - 1
    <3>1. Dist(mReadIndex, mWriteIndex) \in Int BY <2>1, DistRange DEF IInv, TypeInv, TypeOK
    <3> QED BY <2>1, <3>1, SizesAssumption DEF IInv, Counts
  <2>3. Advance(mWriteIndex, len + 1)
          = IF mWriteIndex + (len + 1) < Capacity THEN mWriteIndex + (len + 1)
                                                  ELSE mWriteIndex + (len + 1) - Capacity
    <3>1. mWriteIndex \in 0 .. Capacity - 1 /\ len + 1 \in 0 .. Capacity
      BY <2>1, <2>2, SizesAssumption DEF IInv, TypeInv, TypeOK
    <3> QED BY <3>1, AdvanceValue
  <2> QED BY <2>1, <2>2, <2>3, SizesAssumption
             DEF Accepts, FitsInLine, FitsAround, Dist, IInv, TypeInv, TypeOK
<1> QED BY <1>1, IInvHolds, PTL

(* The ring implements the lossless stream of frames.                       *)
THEOREM Refinement == ASSUME Aligned PROVE Spec => ImplementsStream
<1>1. Init => Stream!Init
  BY DEF Init, Stream!Init, NoFrame, Stream!NoFrame, Stale
<1>2. IInv /\ [Next]_vars => [Stream!Next]_(Stream!vars)
  <2> SUFFICES ASSUME IInv, [Next]_vars PROVE [Stream!Next]_(Stream!vars)
    OBVIOUS
  <2> USE DEF Stream!vars
  <2>1. ASSUME NEW len \in Lens, PutBegin(len) PROVE UNCHANGED Stream!vars
    BY <2>1 DEF PutBegin
  <2>2. CASE PutCopy BY <2>2 DEF PutCopy
  <2>3. CASE PutFlag BY <2>3 DEF PutFlag
  <2>4. CASE PutAdvance
    <3>1. Stream!Put(putLen)
      <4>1. put + putLen - got <= Capacity - 1
        <5>1. Dist(mReadIndex, mWriteIndex) \in Int /\ putLen \in Int /\ put \in Int /\ got \in Int
          BY DistRange DEF IInv, TypeInv, TypeOK
        <5> QED BY <2>4, <5>1, SizesAssumption DEF PutAdvance, IInv, PutHasRoom, Counts
      <4> QED BY <2>4, <4>1 DEF PutAdvance, Stream!Put
    <3>2. putLen \in Lens BY <2>4 DEF PutAdvance, IInv, PutHasRoom
    <3> QED BY <3>1, <3>2 DEF Stream!Next
  <2>5. CASE TakeBegin BY <2>5 DEF TakeBegin
  <2>6. CASE TakeFound BY <2>6 DEF TakeFound
  <2>7. CASE TakeNull BY <2>7 DEF TakeNull
  <2>8. CASE TakeCopy BY <2>8 DEF TakeCopy
  <2>9. CASE TakeAdvance
    <3>1. TakeSize <= Dist(mReadIndex, mWriteIndex)
      BY <2>9, SizesAssumption DEF TakeAdvance, IInv, Snapshot, Dist, TypeInv, TypeOK
    <3>2. frame' = [j \in 0 .. TakeSize - 1 |-> got + j]
      BY <2>9 DEF TakeAdvance, IInv, Taken
    <3>3. Stream!Take
      BY <2>9, <3>1, <3>2 DEF TakeAdvance, Stream!Take, IInv, Counts
    <3> QED BY <3>3 DEF Stream!Next
  <2>10. CASE TakeFlag BY <2>10 DEF TakeFlag
  <2>11. CASE AlignIndex BY <2>11 DEF AlignIndex, Stream!Skip, Stream!Next
  <2>12. CASE Clear BY <2>12 DEF Clear, Stream!Clear, Stream!Next
  <2>13. CASE Release BY <2>13 DEF Release
  <2>14. CASE UNCHANGED vars BY <2>14 DEF vars
  <2> QED
    BY <2>1, <2>2, <2>3, <2>4, <2>5, <2>6, <2>7, <2>8, <2>9, <2>10, <2>11, <2>12,
       <2>13, <2>14 DEF Next, Producer, Consumer
<1> QED BY <1>1, <1>2, IInvHolds, PTL DEF Spec, ImplementsStream, Stream!Spec
=============================================================================
