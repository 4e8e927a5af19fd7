------------------------ MODULE FilterBuffer2_proofs ------------------------
(***************************************************************************)
(* Proofs about FilterBuffer2, for every Capacity, INFO_SIZE, FrameSize,   *)
(* CACHE_MAX and MaxBytes.                                                 *)
(*                                                                         *)
(* putAll forgets the header when it writes behind the reader, so it       *)
(* accepts a frame there with up to INFO_SIZE bytes too little room.  As   *)
(* long as that does not happen (HeaderFits), nothing else goes wrong,     *)
(* whatever the sizes.  And on one condition on the sizes (RestIsShort) it *)
(* never happens: the free room is always the rest of the array plus whole *)
(* frames, so if the rest alone is not enough for the audio, then the      *)
(* audio has room only where a whole frame more is free, and the header    *)
(* has room too.                                                           *)
(***************************************************************************)
EXTENDS FilterBuffer2, TLAPS

T == mTakeSize

(* The array holds whole frames and a rest of at least one byte that is too *)
(* short for a frame's audio: 176 of 816 bytes at 8 kHz, 976 of 1616 at 16. *)
RestIsShort == \E q \in Nat, rest \in 1 .. FrameSize : Capacity = q * T + rest

-----------------------------------------------------------------------------
(* The inductive invariant. *)

Pending == Ring!Dist(mReadIndex, mWriteIndex)
Seen    == Ring!Dist(mReadIndex, tmpIndex)

Whole(n) == \E k \in Nat : n = k * T

(* The indexes agree with the history and are whole frames apart. *)
Counts == put - got = Pending /\ Whole(Pending)

(* Every pending byte is where the indexes say. *)
Contents ==
  \A i \in 0 .. Capacity - 1 :
    Ring!Dist(mReadIndex, i) < Pending => mBuffer[i] = got + Ring!Dist(mReadIndex, i)

(* The frame being put has room, even of a reader that does not move, and   *)
(* room before the end of the array if it is put in one piece.              *)
PutHasRoom ==
  /\ putPc # "idle" => offered = T /\ Pending + T <= Capacity - 1
  /\ putPc \in {"copy", "count", "advance"} => mWriteIndex + T < Capacity

(* It is in the array once it was copied. *)
Copied ==
  putPc \in {"flag", "count", "countAround", "advance", "advanceAround"} =>
    \A i \in 0 .. Capacity - 1 :
      Ring!Dist(mWriteIndex, i) < T => mBuffer[i] = put + Ring!Dist(mWriteIndex, i)

(* The snapshot shows whole frames that are there, and a frame at least to  *)
(* a reader that copies one.                                                *)
Snapshot ==
  /\ takePc # "idle" => Seen <= Pending /\ Whole(Seen)
  /\ takePc \in {"copy", "copyBehind", "copySeam", "advance", "advanceFar"} => T <= Seen
  /\ takePc \in {"copy", "advance"} => mReadIndex + T <= tmpIndex

(* The frame to be delivered is the next one. *)
Taken ==
  takePc \in {"advance", "advanceFar"} => mTaken = [j \in 0 .. T - 1 |-> got + j]

IInv == TypeOK /\ Counts /\ Contents /\ PutHasRoom /\ Copied /\ Snapshot /\ Taken

-----------------------------------------------------------------------------
(* Arithmetic of the ring. *)

LEMMA FrameLength ==
  /\ T = FrameSize + INFO_SIZE /\ T = mTakeSize /\ T \in Nat \ {0} /\ T < Capacity
  /\ Capacity \in Nat \ {0} /\ INFO_SIZE \in Nat \ {0} /\ FrameSize \in Nat
BY SizesAssumption DEF T, mTakeSize

LEMMA DistRange ==
  ASSUME NEW i \in 0 .. Capacity - 1, NEW j \in 0 .. Capacity - 1
  PROVE  Ring!Dist(i, j) \in 0 .. Capacity - 1
BY FrameLength DEF Ring!Dist

(* A sum of two indexes is reduced by one subtraction. *)
LEMMA AdvanceValue ==
  ASSUME NEW i \in 0 .. Capacity - 1, NEW n \in 0 .. Capacity
  PROVE  /\ (i + n) % Capacity = IF i + n < Capacity THEN i + n ELSE i + n - Capacity
         /\ (i + n) % Capacity \in 0 .. Capacity - 1
         /\ Ring!Advance(i, n) = (i + n) % Capacity
BY FrameLength DEF Ring!Advance

LEMMA WholeZero == Whole(0)
BY FrameLength DEF Whole

LEMMA WholeMore ==
  ASSUME NEW n \in Nat, Whole(n)
  PROVE  Whole(n + T)
<1>1. PICK k \in Nat : n = k * T BY DEF Whole
<1>2. n + T = (k + 1) * T BY <1>1, FrameLength
<1> QED BY <1>2 DEF Whole

(* Whole frames that are some are one at least, and one less is whole. *)
LEMMA WholeSome ==
  ASSUME NEW n \in Nat, Whole(n), n > 0
  PROVE  T <= n /\ Whole(n - T)
<1>1. PICK k \in Nat : n = k * T BY DEF Whole
<1>2. T \in Nat \ {0} BY FrameLength
<1>3. k >= 1 BY <1>1, <1>2
<1>4. k - 1 \in Nat /\ n - T = (k - 1) * T BY <1>1, <1>2, <1>3
<1>5. (k - 1) * T >= 0 BY <1>2, <1>4
<1> QED BY <1>2, <1>4, <1>5 DEF Whole

(* The free room is the rest and whole frames: where it is more than a      *)
(* frame's audio, it is more than a frame.                                  *)
LEMMA RoomForHeader ==
  ASSUME RestIsShort, NEW n \in Nat, Whole(n), n < Capacity, Capacity - n > FrameSize
  PROVE  Capacity - n > T
<1>1. PICK q \in Nat, rest \in 1 .. FrameSize : Capacity = q * T + rest
  BY DEF RestIsShort
<1>2. PICK k \in Nat : n = k * T BY DEF Whole
<1>3. T \in Nat \ {0} /\ FrameSize \in Nat BY FrameLength
<1>4. Capacity - n = (q - k) * T + rest BY <1>1, <1>2, <1>3
<1>5. q - k >= 1
  <2>1. SUFFICES ASSUME q - k <= 0 PROVE FALSE OBVIOUS
  <2>2. (q - k) * T <= 0 BY <1>3, <2>1
  <2> QED BY <1>3, <1>4, <2>2
<1>6. (q - k) * T >= T BY <1>3, <1>5
<1> QED BY <1>3, <1>4, <1>6

-----------------------------------------------------------------------------
(* The initial states. *)

LEMMA TypeInit == Init => TypeOK
<1> SUFFICES ASSUME Init PROVE TypeOK
  OBVIOUS
<1> USE DEF Init, Ring!Init
<1>1. mBuffer \in [0 .. Capacity - 1 -> Int]
  BY DEF Ring!Stale
<1>2. mTaken \in [0 .. mTakeSize - 1 -> Int] /\ frame \in [0 .. mTakeSize - 1 -> Int]
  BY DEF Ring!NoFrame, Ring!Stale
<1>3. 0 \in 0 .. Capacity - 1 /\ 0 \in 0 .. CACHE_MAX - 1
  BY FrameLength, SizesAssumption
<1> QED BY <1>1, <1>2, <1>3 DEF TypeOK

LEMMA IInvInit == Init => IInv
<1> SUFFICES ASSUME Init PROVE IInv
  OBVIOUS
<1> USE DEF Init, Ring!Init
<1>1. TypeOK BY TypeInit
<1>2. Pending = 0 BY DEF Pending, Ring!Dist
<1>3. Counts BY <1>2, WholeZero DEF Counts
<1>4. Contents
  <2>1. \A i \in 0 .. Capacity - 1 : Ring!Dist(mReadIndex, i) \in Nat
    BY <1>1, DistRange DEF TypeOK
  <2> QED BY <1>2, <2>1 DEF Contents
<1>5. PutHasRoom /\ Copied /\ Snapshot /\ Taken
  BY DEF PutHasRoom, Copied, Snapshot, Taken
<1> QED BY <1>1, <1>3, <1>4, <1>5 DEF IInv
(* A step that touches neither the indexes nor the bytes. *)
LEMMA RingStays ==
  ASSUME IInv, UNCHANGED <<mWriteIndex, mReadIndex, mBuffer, put, got>>
  PROVE  Counts' /\ Contents' /\ Pending' = Pending
<1>1. Pending' = Pending BY DEF Pending, Ring!Dist
<1>2. Counts' BY <1>1 DEF IInv, Counts, Whole
<1>3. Contents' BY <1>1 DEF IInv, Contents, Ring!Dist
<1> QED BY <1>1, <1>2, <1>3

-----------------------------------------------------------------------------
(* Each step of the producer keeps the invariant. *)

LEMMA OfferKeeps ==
  ASSUME IInv, Offer
  PROVE  IInv'
<1> USE DEF IInv
<1>1. /\ putPc = "idle" /\ putPc' = "idle" /\ offered' = T
      /\ UNCHANGED <<ring, gate, released, takePc, tmpIndex, put, got, frame>>
  BY FrameLength DEF Offer, PutHasRoom, takeVars
<1>2. TypeOK' BY <1>1, FrameLength DEF TypeOK, ring, gate
<1>3. Counts' /\ Contents' /\ Pending' = Pending BY <1>1, RingStays DEF ring
<1>4. PutHasRoom' /\ Copied' BY <1>1 DEF PutHasRoom, Copied
<1>5. Seen' = Seen BY <1>1 DEF Seen, ring, Ring!Dist
<1>6. Snapshot' BY <1>1, <1>3, <1>5 DEF Snapshot, Whole, ring
<1>7. Taken' BY <1>1 DEF Taken, ring
<1> QED BY <1>2, <1>3, <1>4, <1>6, <1>7

LEMMA PutBeginKeeps ==
  ASSUME IInv, HeaderHasRoom, PutBegin
  PROVE  IInv'
<1> USE DEF IInv
<1>1. /\ offered = T /\ putPc' \in {"copy", "copyAround"}
      /\ UNCHANGED <<ring, gate, released, offered, takePc, tmpIndex, put, got, frame>>
  BY DEF PutBegin, takeVars, TypeOK, T
<1>2. TypeOK' BY <1>1 DEF TypeOK, ring, gate
<1>3. Counts' /\ Contents' /\ Pending' = Pending BY <1>1, RingStays DEF ring
<1>4. Pending + T <= Capacity - 1 /\ (putPc' = "copy" => mWriteIndex + T < Capacity)
  <2>1. CASE FitsInLine
    BY <1>1, <2>1, FrameLength DEF FitsInLine, Pending, Ring!Dist, TypeOK
  <2>2. CASE FitsAround
    <3>1. T + 1 \in 0 .. Capacity /\ mWriteIndex \in 0 .. Capacity - 1
      BY FrameLength DEF TypeOK
    <3>2. (mWriteIndex + (T + 1)) % Capacity
            = IF mWriteIndex + (T + 1) < Capacity THEN mWriteIndex + (T + 1)
                                                  ELSE mWriteIndex + (T + 1) - Capacity
      BY <3>1, AdvanceValue
    <3>3. mWriteIndex + T + 1 = mWriteIndex + (T + 1) BY <3>1, FrameLength
    <3>4. /\ mWriteIndex >= mReadIndex /\ mWriteIndex + T + 1 > Capacity
          /\ (mWriteIndex + (T + 1)) % Capacity < mReadIndex
      BY <1>1, <2>2, <3>1, <3>3, FrameLength DEF FitsAround, FitsInLine, TypeOK
    <3>5. putPc' = "copyAround" BY <2>2 DEF PutBegin
    <3> QED BY <3>1, <3>2, <3>4, <3>5, FrameLength DEF Pending, Ring!Dist, TypeOK
  <2>3. CASE FitsBehind
    <3>1. /\ mWriteIndex < mReadIndex /\ Capacity - Pending = mReadIndex - mWriteIndex
          /\ Pending \in Nat /\ Pending < Capacity
      BY <2>3, FrameLength DEF FitsBehind, Pending, Ring!Dist, TypeOK
    <3>2. mWriteIndex + T < mReadIndex BY <1>1, <2>3 DEF HeaderHasRoom
    <3> QED BY <3>1, <3>2, FrameLength DEF TypeOK
  <2> QED BY <2>1, <2>2, <2>3 DEF PutBegin
<1>5. PutHasRoom' BY <1>1, <1>3, <1>4 DEF PutHasRoom, ring
<1>6. Copied' BY <1>1 DEF Copied
<1>7. Seen' = Seen BY <1>1 DEF Seen, ring, Ring!Dist
<1>8. Snapshot' BY <1>1, <1>3, <1>7 DEF Snapshot, Whole, ring
<1>9. Taken' BY <1>1 DEF Taken, ring
<1> QED BY <1>2, <1>3, <1>5, <1>6, <1>8, <1>9

(* A frame that has room does not leave the array. *)
LEMMA NeverThrows == ASSUME IInv PROVE ~PutThrow
BY FrameLength DEF PutThrow, Throws, IInv, PutHasRoom, TypeOK

LEMMA PutCopyKeeps ==
  ASSUME IInv, PutCopy
  PROVE  IInv'
<1> USE DEF IInv
<1>1. /\ putPc \in {"copy", "copyAround"} /\ offered = T
      /\ putPc' = IF putPc = "copyAround" THEN "flag" ELSE "count"
      /\ mBuffer' = [i \in 0 .. Capacity - 1 |->
           IF Ring!Dist(mWriteIndex, i) < T THEN put + Ring!Dist(mWriteIndex, i)
                                            ELSE mBuffer[i]]
      /\ UNCHANGED <<mWriteIndex, mReadIndex, isNextLine, mTaken, gate, released, offered,
                     takePc, tmpIndex, put, got, frame>>
  BY DEF PutCopy, takeVars, PutHasRoom
<1>2. TypeOK'
  <2>1. mBuffer' \in [0 .. Capacity - 1 -> Int]
    <3>1. \A i \in 0 .. Capacity - 1 : mBuffer[i] \in Int BY DEF TypeOK
    <3>2. put \in Int /\ mWriteIndex \in 0 .. Capacity - 1 BY DEF TypeOK
    <3> HIDE DEF IInv
    <3>3. \A i \in 0 .. Capacity - 1 : Ring!Dist(mWriteIndex, i) \in Int
      BY <3>2, DistRange
    <3>4. \A i \in 0 .. Capacity - 1 : put + Ring!Dist(mWriteIndex, i) \in Int
      BY <3>2, <3>3
    <3> QED BY <1>1, <3>1, <3>4
  <2> QED BY <1>1, <2>1 DEF TypeOK, gate
<1>3. Pending' = Pending /\ Seen' = Seen BY <1>1 DEF Pending, Seen, Ring!Dist
<1>4. Counts' BY <1>1, <1>3 DEF Counts, Whole
<1>5. Contents'
  <2>1. SUFFICES ASSUME NEW i \in 0 .. Capacity - 1, Ring!Dist(mReadIndex, i) < Pending
                 PROVE  mBuffer'[i] = got + Ring!Dist(mReadIndex, i)
    BY <1>1, <1>3 DEF Contents, Ring!Dist
  <2>2. mBuffer[i] = got + Ring!Dist(mReadIndex, i) BY <2>1 DEF Contents
  <2>3. ~(Ring!Dist(mWriteIndex, i) < T)
    <3>1. Pending + T <= Capacity - 1 BY <1>1 DEF PutHasRoom
    <3> QED BY <2>1, <3>1, FrameLength DEF Pending, Ring!Dist, TypeOK
  <2> QED BY <1>1, <2>2, <2>3
<1>6. PutHasRoom' BY <1>1, <1>3 DEF PutHasRoom
<1>7. Copied' BY <1>1 DEF Copied, Ring!Dist
<1>8. Snapshot' BY <1>1, <1>3 DEF Snapshot, Whole
<1>9. Taken' BY <1>1 DEF Taken
<1> QED BY <1>2, <1>4, <1>5, <1>6, <1>7, <1>8, <1>9

(* The flag and the count of puts: nothing the invariant speaks of. *)
LEMMA PutMarksKeep ==
  ASSUME IInv, PutFlag \/ AddCacheIndex
  PROVE  IInv'
<1> USE DEF IInv
<1>1. /\ \/ putPc = "flag" /\ putPc' = "countAround"
         \/ putPc = "count" /\ putPc' = "advance"
         \/ putPc = "countAround" /\ putPc' = "advanceAround"
      /\ UNCHANGED <<mWriteIndex, mReadIndex, mBuffer, mTaken, released, offered, takePc,
                     tmpIndex, put, got, frame>>
  BY DEF PutFlag, AddCacheIndex, takeVars, ring
<1>2. TypeOK'
  <2>1. isNextLine' \in BOOLEAN /\ shouldCache' \in BOOLEAN
    BY DEF PutFlag, AddCacheIndex, TypeOK, ring, gate
  <2>2. cacheIndex' \in 0 .. CACHE_MAX - 1
    BY SizesAssumption DEF PutFlag, AddCacheIndex, TypeOK, gate
  <2> QED BY <1>1, <2>1, <2>2 DEF TypeOK
<1>3. Counts' /\ Contents' /\ Pending' = Pending BY <1>1, RingStays
<1>4. PutHasRoom' BY <1>1, <1>3 DEF PutHasRoom
<1>5. Copied' BY <1>1 DEF Copied, Ring!Dist
<1>6. Seen' = Seen BY <1>1 DEF Seen, Ring!Dist
<1>7. Snapshot' BY <1>1, <1>3, <1>6 DEF Snapshot, Whole
<1>8. Taken' BY <1>1 DEF Taken
<1> QED BY <1>2, <1>3, <1>4, <1>5, <1>7, <1>8

LEMMA PutAdvanceKeeps ==
  ASSUME IInv, PutAdvance
  PROVE  IInv'
<1> USE DEF IInv
<1>1. /\ putPc \in {"advance", "advanceAround"} /\ putPc' = "idle" /\ offered = T
      /\ put' = put + T /\ offered' = 0
      /\ mWriteIndex' = IF putPc = "advance" THEN mWriteIndex + T
                                             ELSE (mWriteIndex + T) % Capacity
      /\ UNCHANGED <<mReadIndex, isNextLine, mBuffer, mTaken, gate, released, takePc,
                     tmpIndex, got, frame>>
  BY DEF PutAdvance, takeVars, PutHasRoom
<1>2. /\ mWriteIndex' = IF mWriteIndex + T < Capacity THEN mWriteIndex + T
                                                      ELSE mWriteIndex + T - Capacity
      /\ mWriteIndex' \in 0 .. Capacity - 1
  <2>1. T \in 0 .. Capacity /\ mWriteIndex \in 0 .. Capacity - 1
    BY FrameLength DEF TypeOK
  <2>2. CASE putPc = "advance"
    <3>1. mWriteIndex + T < Capacity BY <2>2 DEF PutHasRoom
    <3> QED BY <1>1, <2>1, <2>2, <3>1, FrameLength
  <2>3. CASE putPc = "advanceAround" BY <1>1, <2>1, <2>3, AdvanceValue
  <2> QED BY <1>1, <2>2, <2>3
<1>3. TypeOK' BY <1>1, <1>2, FrameLength DEF TypeOK, gate
<1>4. Pending + T <= Capacity - 1 BY <1>1 DEF PutHasRoom
<1>5. Pending \in 0 .. Capacity - 1 BY DistRange DEF Pending, TypeOK
<1>6. Pending' = Pending + T
  <2>1. mReadIndex' = mReadIndex BY <1>1
  <2> QED BY <2>1, <1>2, <1>4, FrameLength DEF Pending, Ring!Dist, TypeOK
<1>7. Counts'
  <2>1. Whole(Pending + T) BY <1>5, WholeMore DEF Counts
  <2>2. Whole(Pending)' BY <1>6, <2>1 DEF Whole
  <2> QED BY <1>1, <1>5, <1>6, <2>2, FrameLength DEF Counts, TypeOK
<1>8. Contents'
  <2>1. SUFFICES ASSUME NEW i \in 0 .. Capacity - 1,
                        Ring!Dist(mReadIndex, i) < Pending + T
                 PROVE  mBuffer[i] = got + Ring!Dist(mReadIndex, i)
    BY <1>1, <1>6 DEF Contents, Ring!Dist
  <2>2. CASE Ring!Dist(mReadIndex, i) < Pending
    BY <2>2 DEF Contents
  <2>3. CASE ~(Ring!Dist(mReadIndex, i) < Pending)
    <3>1. /\ Ring!Dist(mReadIndex, i) = Pending + Ring!Dist(mWriteIndex, i)
          /\ Ring!Dist(mWriteIndex, i) < T
      BY <1>4, <2>1, <2>3, FrameLength DEF Pending, Ring!Dist, TypeOK
    <3>2. mBuffer[i] = put + Ring!Dist(mWriteIndex, i) BY <1>1, <3>1 DEF Copied
    <3>3. Ring!Dist(mWriteIndex, i) \in Int BY DistRange DEF TypeOK
    <3>4. put = got + Pending BY <1>5 DEF Counts, TypeOK
    <3> QED BY <1>5, <3>1, <3>2, <3>3, <3>4 DEF TypeOK
  <2> QED BY <2>2, <2>3
<1>9. PutHasRoom' /\ Copied' BY <1>1 DEF PutHasRoom, Copied
<1>10. Seen' = Seen BY <1>1 DEF Seen, Ring!Dist
<1>11. Snapshot'
  <2>1. Seen \in Int BY DistRange DEF Seen, TypeOK
  <2>2. Seen <= Pending => Seen <= Pending' BY <1>5, <1>6, <2>1, FrameLength
  <2> QED BY <1>1, <1>10, <2>2 DEF Snapshot, Whole
<1>12. Taken' BY <1>1 DEF Taken
<1> QED BY <1>3, <1>7, <1>8, <1>9, <1>11, <1>12

-----------------------------------------------------------------------------
(* Each step of the consumer keeps the invariant. *)

(* What the consumer does to its own place and snapshot concerns the        *)
(* snapshot alone.                                                          *)
LEMMA PlaceMoves ==
  ASSUME IInv, UNCHANGED <<mWriteIndex, mReadIndex, mBuffer, put, got, putPc, offered>>
  PROVE  Counts' /\ Contents' /\ PutHasRoom' /\ Copied' /\ Pending' = Pending
<1>1. Counts' /\ Contents' /\ Pending' = Pending BY RingStays
<1>2. PutHasRoom' BY <1>1 DEF IInv, PutHasRoom
<1>3. Copied' BY DEF IInv, Copied, Ring!Dist
<1> QED BY <1>1, <1>2, <1>3

LEMMA TakeBeginKeeps ==
  ASSUME IInv, TakeBegin
  PROVE  IInv'
<1> USE DEF IInv
<1>1. /\ tmpIndex' = mWriteIndex /\ takePc' = "gate"
      /\ UNCHANGED <<ring, gate, released, putPc, offered, put, got, frame>>
  BY DEF TakeBegin, putVars
<1>2. TypeOK' BY <1>1 DEF TypeOK, ring, gate
<1>3. Counts' /\ Contents' /\ PutHasRoom' /\ Copied' /\ Pending' = Pending
  BY <1>1, PlaceMoves DEF ring
<1>4. Seen' = Pending BY <1>1 DEF Seen, Pending, ring, Ring!Dist
<1>5. Pending \in 0 .. Capacity - 1 BY DistRange DEF Pending, TypeOK
<1>6. Snapshot' BY <1>1, <1>3, <1>4, <1>5 DEF Snapshot, Counts, Whole
<1>7. Taken' BY <1>1 DEF Taken
<1> QED BY <1>2, <1>3, <1>6, <1>7

LEMMA TakeGateKeeps ==
  ASSUME IInv, TakeGate \/ TakeClose
  PROVE  IInv'
<1> USE DEF IInv
<1>1. /\ takePc \in {"gate", "close"} /\ takePc' \in {"idle", "close", "test"}
      /\ UNCHANGED <<ring, cacheIndex, released, putPc, offered, tmpIndex, put, got,
                     frame>>
  BY DEF TakeGate, TakeClose, putVars, gate
<1>2. TypeOK' BY <1>1 DEF TypeOK, ring, gate, TakeGate, TakeClose
<1>3. Counts' /\ Contents' /\ PutHasRoom' /\ Copied' /\ Pending' = Pending
  BY <1>1, PlaceMoves DEF ring
<1>4. Seen' = Seen BY <1>1 DEF Seen, ring, Ring!Dist
<1>5. Snapshot' BY <1>1, <1>3, <1>4 DEF Snapshot, Whole
<1>6. Taken' BY <1>1 DEF Taken
<1> QED BY <1>2, <1>3, <1>5, <1>6

(* The frame that was found is there, whichever of the three ways it was    *)
(* found: some whole frames are at least one.                               *)
LEMMA TakeFoundKeeps ==
  ASSUME IInv, Ring!TakeFound, UNCHANGED gate
  PROVE  IInv'
<1> USE DEF IInv
<1>1. /\ takePc = "test" /\ takePc' \in {"copy", "copyBehind", "copySeam"}
      /\ takePc' = "copy" => mReadIndex + T <= tmpIndex
      /\ mReadIndex # tmpIndex
      /\ UNCHANGED <<ring, gate, released, putPc, offered, tmpIndex, put, got, frame>>
  BY DEF Ring!TakeFound, Ring!Finds, Ring!Ahead, Ring!putVars, ring, T
<1>2. TypeOK' BY <1>1 DEF TypeOK, ring, gate
<1>3. Counts' /\ Contents' /\ PutHasRoom' /\ Copied' /\ Pending' = Pending
  BY <1>1, PlaceMoves DEF ring
<1>4. Seen' = Seen BY <1>1 DEF Seen, ring, Ring!Dist
<1>5. Seen <= Pending /\ Whole(Seen) BY <1>1 DEF Snapshot
<1>6. Seen \in Nat /\ Seen > 0 BY <1>1, FrameLength DEF Seen, Ring!Dist, TypeOK
<1>7. T <= Seen BY <1>5, <1>6, WholeSome
<1>8. Snapshot' BY <1>1, <1>3, <1>4, <1>5, <1>7 DEF Snapshot, Whole, ring
<1>9. Taken' BY <1>1 DEF Taken
<1> QED BY <1>2, <1>3, <1>8, <1>9

LEMMA SliceType ==
  ASSUME TypeOK
  PROVE  Ring!Slice \in [0 .. T - 1 -> Int]
<1>1. SUFFICES ASSUME NEW j \in 0 .. T - 1
               PROVE  mBuffer[Ring!Advance(mReadIndex, j)] \in Int
  BY DEF Ring!Slice, T
<1>2. mReadIndex \in 0 .. Capacity - 1 /\ j \in 0 .. Capacity
  BY FrameLength DEF TypeOK
<1>3. Ring!Advance(mReadIndex, j) \in 0 .. Capacity - 1
  BY <1>2, AdvanceValue
<1> QED BY <1>3 DEF TypeOK

LEMMA TakeNullKeeps ==
  ASSUME IInv, Ring!TakeNull, UNCHANGED gate
  PROVE  IInv'
<1> USE DEF IInv
<1>1. /\ takePc' = "idle" /\ (mTaken' = Ring!Slice \/ mTaken' = mTaken)
      /\ UNCHANGED <<mWriteIndex, mReadIndex, isNextLine, mBuffer, released, putPc,
                     offered, tmpIndex, put, got, frame>>
  BY DEF Ring!TakeNull, Ring!putVars
<1>2. mTaken' \in [0 .. mTakeSize - 1 -> Int]
  BY <1>1, SliceType, FrameLength DEF TypeOK
<1>3. TypeOK' BY <1>1, <1>2 DEF TypeOK, gate
<1>4. Counts' /\ Contents' /\ PutHasRoom' /\ Copied' BY <1>1, PlaceMoves
<1>5. Snapshot' /\ Taken' BY <1>1 DEF Snapshot, Taken
<1> QED BY <1>3, <1>4, <1>5

(* The bytes from the read index on are the next frame, in one piece or     *)
(* around the end of the array.                                             *)
LEMMA SliceIsNext ==
  ASSUME IInv, T <= Pending
  PROVE  Ring!Slice = [j \in 0 .. T - 1 |-> got + j]
<1> USE DEF IInv
<1>1. SUFFICES ASSUME NEW j \in 0 .. T - 1
               PROVE  mBuffer[Ring!Advance(mReadIndex, j)] = got + j
  BY DEF Ring!Slice, T
<1>2. mReadIndex \in 0 .. Capacity - 1 /\ j \in 0 .. Capacity
  BY FrameLength DEF TypeOK
<1> DEFINE i == Ring!Advance(mReadIndex, j)
<1>3. /\ i = IF mReadIndex + j < Capacity THEN mReadIndex + j ELSE mReadIndex + j - Capacity
      /\ i \in 0 .. Capacity - 1
  BY <1>2, AdvanceValue
<1> HIDE DEF i
<1>4. Ring!Dist(mReadIndex, i) = j
  BY <1>2, <1>3, FrameLength DEF Ring!Dist
<1>5. j < Pending
  <2>1. Pending \in 0 .. Capacity - 1 BY DistRange DEF Pending, TypeOK
  <2> QED BY <2>1, FrameLength
<1>6. mBuffer[i] = got + j BY <1>3, <1>4, <1>5 DEF Contents
<1> QED BY <1>6 DEF i

LEMMA TakeCopyKeeps ==
  ASSUME IInv, Ring!TakeCopy, UNCHANGED gate
  PROVE  IInv'
<1> USE DEF IInv
<1>1. /\ takePc \in {"copy", "copyBehind", "copySeam"}
      /\ \/ takePc' = "idle" /\ mTaken' = mTaken
         \/ /\ takePc' = IF takePc = "copy" THEN "advance" ELSE "advanceFar"
            /\ mTaken' = Ring!Slice
      /\ UNCHANGED <<mWriteIndex, mReadIndex, isNextLine, mBuffer, released, putPc,
                     offered, tmpIndex, put, got, frame>>
  BY DEF Ring!TakeCopy, Ring!putVars
<1>2. mTaken' \in [0 .. mTakeSize - 1 -> Int]
  BY <1>1, SliceType, FrameLength DEF TypeOK
<1>3. TypeOK' BY <1>1, <1>2 DEF TypeOK, gate
<1>4. Counts' /\ Contents' /\ PutHasRoom' /\ Copied' /\ Pending' = Pending
  BY <1>1, PlaceMoves
<1>5. Seen' = Seen BY <1>1 DEF Seen, Ring!Dist
<1>6. Snapshot' BY <1>1, <1>4, <1>5 DEF Snapshot, Whole
<1>7. T <= Pending
  <2>1. T <= Seen /\ Seen <= Pending BY <1>1 DEF Snapshot
  <2>2. Seen \in Int /\ Pending \in Int BY DistRange DEF Seen, Pending, TypeOK
  <2> QED BY <2>1, <2>2, FrameLength
<1>8. Taken' BY <1>1, <1>7, SliceIsNext DEF Taken
<1> QED BY <1>3, <1>4, <1>6, <1>8

(* The read index moves past the frame: unwrapped where the frame was ahead *)
(* of it, wrapped otherwise.                                                *)
LEMMA TakeAdvanceKeeps ==
  ASSUME IInv, UNCHANGED gate, TakeAdvance \/ (takePc = "advanceFar" /\ Ring!TakeAdvance)
  PROVE  IInv'
<1> USE DEF IInv
<1>1. /\ takePc \in {"advance", "advanceFar"}
      /\ takePc' = IF takePc = "advance" THEN "idle" ELSE "flag"
      /\ mReadIndex' = IF takePc = "advance" THEN mReadIndex + T
                                             ELSE Ring!Advance(mReadIndex, T)
      /\ got' = got + T /\ frame' = mTaken
      /\ UNCHANGED <<mWriteIndex, isNextLine, mBuffer, mTaken, released, putPc, offered,
                     tmpIndex, put>>
  BY DEF TakeAdvance, Ring!TakeAdvance, putVars, Ring!putVars, T
<1>2. T <= Seen /\ Seen <= Pending BY <1>1 DEF Snapshot
<1>3. Seen \in 0 .. Capacity - 1 /\ Pending \in 0 .. Capacity - 1
  BY DistRange DEF Seen, Pending, TypeOK
<1>4. /\ mReadIndex' = IF mReadIndex + T < Capacity THEN mReadIndex + T
                                                    ELSE mReadIndex + T - Capacity
      /\ mReadIndex' \in 0 .. Capacity - 1
  <2>1. T \in 0 .. Capacity /\ mReadIndex \in 0 .. Capacity - 1
    BY FrameLength DEF TypeOK
  <2>2. CASE takePc = "advance"
    <3>1. mReadIndex + T < Capacity
      BY <2>2, <2>1, FrameLength DEF Snapshot, TypeOK
    <3> QED BY <1>1, <2>1, <2>2, <3>1, FrameLength
  <2>3. CASE takePc = "advanceFar" BY <1>1, <2>1, <2>3, AdvanceValue
  <2> QED BY <1>1, <2>2, <2>3
<1>5. TypeOK' BY <1>1, <1>4, FrameLength DEF TypeOK, gate
<1>6. Pending' = Pending - T
  <2>1. mWriteIndex' = mWriteIndex BY <1>1
  <2>2. T <= Pending BY <1>2, <1>3, FrameLength
  <2> QED BY <1>4, <2>1, <2>2, FrameLength DEF Pending, Ring!Dist, TypeOK
<1>7. Counts'
  <2>1. Pending \in Nat /\ Pending > 0 BY <1>2, <1>3, FrameLength
  <2>2. Whole(Pending - T) BY <2>1, WholeSome DEF Counts
  <2>3. Whole(Pending)' BY <1>6, <2>2 DEF Whole
  <2> QED BY <1>1, <1>3, <1>6, <2>3, FrameLength DEF Counts, TypeOK
<1>8. Contents'
  <2>1. SUFFICES ASSUME NEW i \in 0 .. Capacity - 1,
                        Ring!Dist(mReadIndex', i) < Pending - T
                 PROVE  mBuffer[i] = got + T + Ring!Dist(mReadIndex', i)
    BY <1>1, <1>6 DEF Contents, Ring!Dist
  <2>2. T <= Pending BY <1>2, <1>3, FrameLength
  <2>3. /\ Ring!Dist(mReadIndex, i) = Ring!Dist(mReadIndex', i) + T
        /\ Ring!Dist(mReadIndex, i) < Pending
    BY <1>4, <2>1, <2>2, FrameLength DEF Pending, Ring!Dist, TypeOK
  <2>4. mBuffer[i] = got + Ring!Dist(mReadIndex, i) BY <2>3 DEF Contents
  <2>5. Ring!Dist(mReadIndex', i) \in Int BY <1>4, DistRange
  <2> QED BY <2>3, <2>4, <2>5, FrameLength DEF TypeOK
<1>9. PutHasRoom' BY <1>1, <1>3, <1>6, FrameLength DEF PutHasRoom
<1>10. Copied' BY <1>1 DEF Copied, Ring!Dist
<1>11. Snapshot'
  <2>1. Seen' = Seen - T
    <3>1. tmpIndex' = tmpIndex BY <1>1
    <3> QED BY <1>4, <3>1, <1>2, FrameLength DEF Seen, Ring!Dist, TypeOK
  <2>2. Seen - T <= Pending - T BY <1>2, <1>3, FrameLength
  <2>3. Whole(Seen - T)
    <3>1. Whole(Seen) /\ Seen > 0 BY <1>1, <1>2, <1>3, FrameLength DEF Snapshot
    <3> QED BY <1>3, <3>1, WholeSome
  <2>4. takePc' \in {"idle", "flag"} BY <1>1
  <2> QED BY <1>6, <2>1, <2>2, <2>3, <2>4 DEF Snapshot, Whole
<1>12. Taken' BY <1>1 DEF Taken
<1> QED BY <1>5, <1>7, <1>8, <1>9, <1>10, <1>11, <1>12

LEMMA TakeFlagKeeps ==
  ASSUME IInv, Ring!TakeFlag, UNCHANGED gate
  PROVE  IInv'
<1> USE DEF IInv
<1>1. /\ takePc = "flag" /\ takePc' = "idle" /\ isNextLine' \in BOOLEAN
      /\ UNCHANGED <<mWriteIndex, mReadIndex, mBuffer, mTaken, released, putPc, offered,
                     tmpIndex, put, got, frame>>
  BY DEF Ring!TakeFlag, Ring!putVars, TypeOK
<1>2. TypeOK' BY <1>1 DEF TypeOK, gate
<1>3. Counts' /\ Contents' /\ PutHasRoom' /\ Copied' BY <1>1, PlaceMoves
<1>4. Snapshot' /\ Taken' BY <1>1 DEF Snapshot, Taken
<1> QED BY <1>2, <1>3, <1>4

-----------------------------------------------------------------------------
(* The other steps. *)

LEMMA ClearKeeps ==
  ASSUME IInv, Clear
  PROVE  IInv'
<1> USE DEF IInv
<1>1. /\ mReadIndex' = 0 /\ mWriteIndex' = 0 /\ got' = 0 /\ put' = 0
      /\ takePc' = "idle" /\ putPc' = "idle"
      /\ mBuffer' = [i \in 0 .. Capacity - 1 |-> -1]
      /\ UNCHANGED <<isNextLine, mTaken, gate, released, offered, tmpIndex, frame>>
  BY DEF Clear, Ring!Clear, Ring!putVars, Ring!takeVars, Ring!Stale
<1>2. TypeOK'
  <2>1. mBuffer' \in [0 .. Capacity - 1 -> Int] BY <1>1
  <2>2. 0 \in 0 .. Capacity - 1 BY FrameLength
  <2> QED BY <1>1, <2>1, <2>2 DEF TypeOK, gate
<1>3. Pending' = 0 BY <1>1 DEF Pending, Ring!Dist
<1>4. Counts' BY <1>1, <1>3, WholeZero DEF Counts, Whole
<1>5. Contents'
  <2>1. \A i \in 0 .. Capacity - 1 : Ring!Dist(mReadIndex', i) \in Nat
    BY <1>2, DistRange DEF TypeOK
  <2>2. ASSUME NEW i \in 0 .. Capacity - 1 PROVE ~(Ring!Dist(mReadIndex', i) < 0)
    <3> HIDE DEF IInv
    <3>1. Ring!Dist(mReadIndex', i) \in Nat BY <2>1
    <3> QED BY ONLY <3>1, SMTT(30)
  <2> QED BY <1>3, <2>2 DEF Contents, Ring!Dist
<1>6. PutHasRoom' /\ Copied' /\ Snapshot' /\ Taken'
  BY <1>1 DEF PutHasRoom, Copied, Snapshot, Taken
<1> QED BY <1>2, <1>4, <1>5, <1>6

LEMMA QuietKeeps ==
  ASSUME IInv, Release \/ UNCHANGED vars
  PROVE  IInv'
<1> USE DEF IInv
<1>1. /\ released' \in BOOLEAN
      /\ UNCHANGED <<ring, gate, putPc, offered, takePc, tmpIndex, put, got, frame>>
  BY DEF Release, Ring!Release, vars, putVars, takeVars, Ring!putVars, Ring!takeVars,
         ring, TypeOK
<1>2. TypeOK' BY <1>1 DEF TypeOK, ring, gate
<1>3. Counts' /\ Contents' /\ PutHasRoom' /\ Copied' /\ Pending' = Pending
  BY <1>1, PlaceMoves DEF ring
<1>4. Seen' = Seen BY <1>1 DEF Seen, ring, Ring!Dist
<1>5. Snapshot' BY <1>1, <1>3, <1>4 DEF Snapshot, Whole, ring
<1>6. Taken' BY <1>1 DEF Taken, ring
<1> QED BY <1>2, <1>3, <1>5, <1>6

LEMMA IInvStep == IInv /\ [Next /\ HeaderHasRoom]_vars => IInv'
<1> SUFFICES ASSUME IInv, [Next /\ HeaderHasRoom]_vars PROVE IInv'
  OBVIOUS
<1>1. CASE HeaderHasRoom /\ Producer
  BY <1>1, PutBeginKeeps, NeverThrows, PutCopyKeeps, PutMarksKeep, PutAdvanceKeeps
     DEF Producer
<1>2. CASE Consumer
  <2>1. CASE TakeFrame
    BY <2>1, TakeFoundKeeps, TakeNullKeeps, TakeCopyKeeps, TakeAdvanceKeeps,
       TakeFlagKeeps DEF TakeFrame
  <2> QED BY <1>2, <2>1, TakeBeginKeeps, TakeGateKeeps DEF Consumer
<1> QED BY <1>1, <1>2, OfferKeeps, ClearKeeps, QuietKeeps DEF Next

LEMMA IInvHolds == Spec /\ HeaderFits => []IInv
<1>1. Init => IInv BY IInvInit
<1>2. IInv /\ [Next]_vars /\ [HeaderHasRoom]_vars => IInv' BY IInvStep
<1> QED BY <1>1, <1>2, PTL DEF Spec, HeaderFits

(* Where the rest of the array is short the header always fits: a put       *)
(* behind the reader has, besides the rest, room for a whole frame.         *)
LEMMA ShortRestFits == RestIsShort /\ IInv => HeaderHasRoom
<1> SUFFICES ASSUME RestIsShort, IInv, PutBegin, FitsBehind
             PROVE  mWriteIndex + offered < mReadIndex
  BY DEF HeaderHasRoom
<1> USE DEF IInv
<1>1. offered = T BY DEF PutBegin, TypeOK, T
<1>2. /\ mWriteIndex < mReadIndex /\ Capacity - Pending = mReadIndex - mWriteIndex
      /\ Pending \in Nat /\ Pending < Capacity
  BY FrameLength DEF FitsBehind, Pending, Ring!Dist, TypeOK
<1>3. Capacity - Pending > FrameSize BY <1>1, <1>2, FrameLength DEF FitsBehind, TypeOK
<1>4. Capacity - Pending > T BY <1>2, <1>3, RoomForHeader DEF Counts
<1> QED BY <1>1, <1>2, <1>4, FrameLength DEF TypeOK

-----------------------------------------------------------------------------
(* What follows from the invariant. *)

LEMMA Disjoint == IInv => RegionsDisjoint
<1>1. SUFFICES ASSUME IInv, NEW i \in 0 .. Capacity - 1,
                      putPc \in {"copy", "copyAround"},
                      Ring!Dist(mWriteIndex, i) < offered,
                      takePc \in {"copy", "copyBehind", "copySeam"},
                      Ring!Dist(mReadIndex, i) < T
               PROVE  FALSE
  BY DEF RegionsDisjoint, T
<1>2. Ring!Dist(mWriteIndex, i) < T /\ Pending + T <= Capacity - 1
  BY <1>1 DEF IInv, PutHasRoom
<1>3. T <= Seen /\ Seen <= Pending BY <1>1 DEF IInv, Snapshot
<1>4. Seen \in Int /\ Pending \in Int BY <1>1, DistRange DEF Seen, Pending, IInv, TypeOK
<1>5. T <= Pending BY <1>3, <1>4, FrameLength
<1> QED BY <1>1, <1>2, <1>5, FrameLength DEF Pending, Ring!Dist, IInv, TypeOK

LEMMA Agrees == IInv => Consistent
<1> SUFFICES ASSUME IInv PROVE Consistent
  OBVIOUS
<1> USE DEF IInv
<1>1. Seen \in Int /\ Pending \in Int BY DistRange DEF Seen, Pending, TypeOK
<1>2. Held = Pending BY DEF Held, Counts
<1>3. putPc # "idle" => Held + offered <= Capacity - 1 BY <1>2 DEF PutHasRoom
<1>4. takePc # "idle" => Seen <= Held BY <1>2 DEF Snapshot
<1>5. takePc \in {"copy", "copyBehind", "copySeam", "advance", "advanceFar"} => Held >= T
  BY <1>1, <1>2, FrameLength DEF Snapshot
<1> QED BY <1>2, <1>3, <1>4, <1>5 DEF Consistent, Pending, Seen, T

(* A ring that holds exactly one frame would refuse the next one even empty.*)
MoreThanAFrame == T < Capacity - 1

(* Whatever refuses a frame, the ring has no room for two bytes more. *)
LEMMA RefusedIsFull ==
  ASSUME IInv, Refused
  PROVE  Held + T >= Capacity - 1
<1> USE DEF IInv
<1>1. offered = T BY DEF Refused, TypeOK, T
<1>2. Held = Pending BY DEF Held, Counts
<1>3. CASE mWriteIndex < mReadIndex
  BY <1>1, <1>2, <1>3, FrameLength DEF Refused, FitsBehind, Pending, Ring!Dist, TypeOK
<1>4. CASE mWriteIndex >= mReadIndex
  <2>1. mWriteIndex + T + 1 > Capacity
    BY <1>1, <1>4, FrameLength DEF Refused, FitsInLine, TypeOK
  <2>2. T + 1 \in 0 .. Capacity /\ mWriteIndex \in 0 .. Capacity - 1
    BY FrameLength DEF TypeOK
  <2>3. (mWriteIndex + (T + 1)) % Capacity = mWriteIndex + (T + 1) - Capacity
    <3>1. (mWriteIndex + (T + 1)) % Capacity
            = IF mWriteIndex + (T + 1) < Capacity THEN mWriteIndex + (T + 1)
                                                  ELSE mWriteIndex + (T + 1) - Capacity
      BY <2>2, AdvanceValue
    <3> QED BY <2>1, <2>2, <3>1, FrameLength
  <2>4. mWriteIndex + T + 1 = mWriteIndex + (T + 1) BY <2>2, FrameLength
  <2>5. ~((mWriteIndex + (T + 1)) % Capacity < mReadIndex)
    BY <1>1, <1>4, <2>4 DEF Refused, FitsAround
  <2> QED BY <1>2, <1>4, <2>2, <2>3, <2>5, FrameLength DEF Pending, Ring!Dist, TypeOK
<1> QED BY <1>3, <1>4 DEF TypeOK

LEMMA TwoJams == MoreThanAFrame /\ IInv => NoOtherJam
<1> SUFFICES ASSUME MoreThanAFrame, IInv, Refused, shouldCache \/ ~Poll!Finds
             PROVE  Shut \/ Wedged
  BY DEF NoOtherJam
<1>1. Held + T >= Capacity - 1 BY RefusedIsFull
<1>2. Held = Pending /\ Pending \in 0 .. Capacity - 1
  BY DistRange DEF Held, Pending, Counts, IInv, TypeOK
<1>3. CASE shouldCache
  <2>1. Frames * T <= Capacity - 2 /\ Frames \in Int
    BY FrameLength DEF Frames, T
  <2>2. CACHE_MAX - cacheIndex >= 1 /\ CACHE_MAX - cacheIndex \in Int
    BY SizesAssumption DEF IInv, TypeOK
  <2>3. (CACHE_MAX - cacheIndex) * T >= T BY <2>2, FrameLength
  <2>4. Held + (CACHE_MAX - cacheIndex) * T > Frames * T
    BY <1>1, <1>2, <2>1, <2>2, <2>3, FrameLength
  <2> QED BY <1>3, <2>4 DEF Shut, T
<1>4. CASE ~Poll!Finds
  <2>1. T <= Pending
    <3>1. Pending > 0 BY <1>1, <1>2, FrameLength DEF MoreThanAFrame
    <3> QED BY <1>2, <3>1, WholeSome DEF IInv, Counts
  <2>2. mWriteIndex \in 0 .. Capacity - 1 /\ mReadIndex \in 0 .. Capacity - 1
        /\ mTakeSize = T /\ T \in 1 .. Capacity - 1
    BY FrameLength DEF IInv, TypeOK
  <2>3. mReadIndex # mWriteIndex BY <2>1, <2>2 DEF Pending, Ring!Dist
  <2>4. ~Poll!Ahead /\ ~Poll!Behind /\ ~Poll!Seam BY <1>4, <2>3 DEF Poll!Finds
  <2>5. mWriteIndex < mReadIndex
    BY <2>1, <2>2, <2>3, <2>4 DEF Poll!Ahead, Pending, Ring!Dist
  <2>6. mReadIndex + T < Capacity
    <3>1. T \in 0 .. Capacity BY FrameLength
    <3>2. (mReadIndex + T) % Capacity
            = IF mReadIndex + T < Capacity THEN mReadIndex + T ELSE mReadIndex + T - Capacity
      BY <2>2, <3>1, AdvanceValue
    <3>3. ~((mReadIndex + T) % Capacity <= mWriteIndex)
      BY <2>2, <2>4 DEF Poll!Seam, Poll!Advance
    <3> QED BY <2>1, <2>2, <2>5, <3>2, <3>3, FrameLength DEF Pending, Ring!Dist
  <2>7. ~isNextLine BY <2>2, <2>4, <2>5, <2>6, FrameLength DEF Poll!Behind, Poll!InLine
  <2> QED BY <2>2, <2>5, <2>6, <2>7 DEF Wedged
<1> QED BY <1>3, <1>4

LEMMA StreamInit == Init => Stream!Init
BY DEF Init, Ring!Init, Ring!NoFrame, Ring!Stale, Stream!Init, Stream!NoFrame

(* Every step is a step of the stream or none, the forgotten header or not. *)
LEMMA StreamStep == IInv /\ [Next]_vars => [Stream!Next]_(Stream!vars)
<1> SUFFICES ASSUME IInv, [Next]_vars PROVE [Stream!Next]_(Stream!vars)
  OBVIOUS
<1> USE DEF Stream!vars
<1>1. CASE PutBegin \/ PutCopy \/ PutFlag \/ AddCacheIndex
  BY <1>1 DEF PutBegin, PutCopy, PutFlag, AddCacheIndex
<1>2. CASE PutAdvance
  <2>1. offered = mTakeSize /\ Pending + mTakeSize <= Capacity - 1
    BY <1>2 DEF PutAdvance, IInv, PutHasRoom, T
  <2>2. Pending \in Int /\ mTakeSize \in Nat
    BY DistRange, FrameLength DEF Pending, IInv, TypeOK
  <2>3. Stream!Put(mTakeSize)
    BY <1>2, <2>1, <2>2 DEF PutAdvance, Stream!Put, IInv, Counts, TypeOK
  <2> QED BY <2>3 DEF Stream!Next
<1>3. CASE TakeBegin \/ TakeGate \/ TakeClose
  BY <1>3 DEF TakeBegin, TakeGate, TakeClose
<1>4. CASE Ring!TakeFound \/ Ring!TakeNull \/ Ring!TakeCopy \/ Ring!TakeFlag
  BY <1>4 DEF Ring!TakeFound, Ring!TakeNull, Ring!TakeCopy, Ring!TakeFlag
<1>5. CASE TakeAdvance \/ (takePc = "advanceFar" /\ Ring!TakeAdvance)
  <2>1. /\ takePc \in {"advance", "advanceFar"}
        /\ got' = got + mTakeSize /\ frame' = mTaken /\ put' = put
    BY <1>5 DEF TakeAdvance, Ring!TakeAdvance
  <2>2. T <= Seen /\ Seen <= Pending BY <2>1 DEF IInv, Snapshot
  <2>3. Seen \in Int /\ Pending \in Int
    BY DistRange DEF Seen, Pending, IInv, TypeOK
  <2>4. put - got >= mTakeSize BY <2>2, <2>3, FrameLength DEF IInv, Counts
  <2>5. frame' = [j \in 0 .. mTakeSize - 1 |-> got + j]
    BY <2>1 DEF IInv, Taken, T
  <2>6. Stream!Take BY <2>1, <2>4, <2>5 DEF Stream!Take
  <2> QED BY <2>6 DEF Stream!Next
<1>6. CASE Clear BY <1>6 DEF Clear, Ring!Clear, Stream!Clear, Stream!Next
<1>7. CASE Offer \/ Release BY <1>7 DEF Offer, Release, Ring!Release
<1>8. CASE UNCHANGED vars BY <1>8 DEF vars
<1> QED
  BY <1>1, <1>2, <1>3, <1>4, <1>5, <1>6, <1>7, <1>8, NeverThrows
     DEF Next, Producer, Consumer, TakeFrame

-----------------------------------------------------------------------------
(* Any sizes: as long as no header was forgotten nothing goes wrong.  Each  *)
(* of these is about the beginning of a behaviour up to a put that is too   *)
(* tight, since what follows it can be left out.                            *)

(* The indexes show what was put and not taken, for both sides.             *)
THEOREM ConsistentUntilHeader == Spec /\ HeaderFits => [](TypeOK /\ Consistent)
<1>1. IInv => TypeOK /\ Consistent BY Agrees DEF IInv
<1> QED BY <1>1, IInvHolds, PTL

(* The copies are disjoint, and the ring is a lossless stream of frames.    *)
THEOREM StreamUntilHeader ==
  Spec /\ HeaderFits => []RegionsDisjoint /\ ImplementsStream
<1> QED
  BY Disjoint, StreamInit, StreamStep, IInvHolds, PTL
  DEF Spec, ImplementsStream, Stream!Spec

(* A frame is stuck for one of the two reasons only, whatever the sizes.    *)
THEOREM NoOtherJamUntilHeader ==
  ASSUME MoreThanAFrame
  PROVE  Spec /\ HeaderFits => []NoOtherJam
BY TwoJams, IInvHolds, PTL

-----------------------------------------------------------------------------
(* Sizes with a short rest: the header is never forgotten to any effect. *)

(* Every put behind the reader has room for its header.                     *)
THEOREM HeaderAlwaysFits == ASSUME RestIsShort PROVE Spec => HeaderFits
<1>1. IInv /\ [Next]_vars => IInv' /\ HeaderHasRoom
  BY IInvStep, ShortRestFits
<1> QED BY <1>1, IInvInit, PTL DEF Spec, HeaderFits

(* The fields keep their types: putAll's write behind the reader does not   *)
(* leave the array, and neither index does.                                 *)
THEOREM TypeCorrect == ASSUME RestIsShort PROVE Spec => []TypeOK
BY ConsistentUntilHeader, HeaderAlwaysFits, PTL

(* The application's putAll and the play thread's takeAll never touch the   *)
(* same byte, although the header is forgotten in one of the tests.         *)
THEOREM RegionsDisjointHold == ASSUME RestIsShort PROVE Spec => []RegionsDisjoint
BY StreamUntilHeader, HeaderAlwaysFits, PTL

(* The ring implements the lossless stream of frames, header and audio of   *)
(* the same frame.                                                          *)
THEOREM Refinement == ASSUME RestIsShort PROVE Spec => ImplementsStream
BY StreamUntilHeader, HeaderAlwaysFits, PTL

(* A frame that is refused while the reader finds nothing meets a full ring *)
(* behind a closed gate, or one that has lost its flag.                     *)
THEOREM NoOtherJamHolds ==
  ASSUME RestIsShort, MoreThanAFrame
  PROVE  Spec => []NoOtherJam
BY NoOtherJamUntilHeader, HeaderAlwaysFits, PTL
=============================================================================
