------------------------- MODULE AudioPlayer_proofs -------------------------
(***************************************************************************)
(* Theorems about AudioPlayer, for any number of players: the one native   *)
(* canceller is neither freed nor, short of an abandoned player, rebuilt   *)
(* under the thread that uses it, although init() takes no lock.           *)
(***************************************************************************)
EXTENDS AudioPlayer, TLAPS

(* A record thread of p that still runs was abandoned by release().         *)
Lingers(p) == ~Ended(p) => released[p] /\ abandoned

(* A call under way has what it relies on. *)
CallsBacked ==
  /\ apiPc \in {"initJoin", "initNew"} => inits < MaxInits
  /\ apiPc \in {"build", "handle", "construct"} => inits # 0

(* There is a canceller where there is a handle; it is being rebuilt only   *)
(* inside init().                                                           *)
HandleBacked ==
  /\ handle \/ apiPc = "handle" => canceller # "none"
  /\ canceller = "building" => apiPc = "build"

(* Where init() is about to touch the canceller, and where no player is     *)
(* initialized, only abandoned threads are left.                            *)
OnlyAbandonedRun ==
  ~mHasInit \/ apiPc \in {"initNew", "build", "handle", "construct"}
    => \A p \in Players : Lingers(p)

IInv ==
  /\ TypeOK /\ CallsBacked /\ HandleBacked /\ OnlyAbandonedRun
  /\ ReplacedAreDone /\ NeverFreedUnderUse /\ NeverRebuiltUnderUse

-----------------------------------------------------------------------------
LEMMA InitInv == Init => IInv
<1> SUFFICES ASSUME Init PROVE IInv
  OBVIOUS
<1> USE DEF Init
<1>1. TypeOK
  <2>1. inits \in 0 .. MaxInits /\ mPlayer \in 0 .. inits
    BY MaxInitsAssumption
  <2>2. 0 \in 0 .. ClearFrames
    BY ClearFramesAssumption
  <2> QED BY <2>1, <2>2 DEF TypeOK
<1>2. \A p \in Players : Ended(p) /\ rec[p] # "inside"
  BY DEF Ended
<1>3. ReplacedAreDone /\ NeverFreedUnderUse /\ NeverRebuiltUnderUse /\ OnlyAbandonedRun
  BY <1>2 DEF ReplacedAreDone, NeverFreedUnderUse, NeverRebuiltUnderUse, OnlyAbandonedRun,
              Lingers
<1>4. CallsBacked /\ HandleBacked
  BY DEF CallsBacked, HandleBacked
<1> QED
  BY <1>1, <1>3, <1>4 DEF IInv

LEMMA ApiInv ==
  ASSUME IInv, Begin \/ GoOn
  PROVE  IInv'
<1> USE MaxInitsAssumption, ClearFramesAssumption DEF IInv, TypeOK, CallsBacked, HandleBacked, OnlyAbandonedRun,
        Lingers, ReplacedAreDone, NeverFreedUnderUse, NeverRebuiltUnderUse, Ended, Players,
        facade, players, record, native
<1>1. CASE InitCall
  <2> USE <1>1 DEF InitCall
  <2>1. TypeOK'
    OBVIOUS
  <2>2. CallsBacked' /\ HandleBacked'
    OBVIOUS
  <2>3. OnlyAbandonedRun'
    OBVIOUS
  <2>4. ReplacedAreDone'
    OBVIOUS
  <2>5. NeverFreedUnderUse' /\ NeverRebuiltUnderUse'
    OBVIOUS
  <2> QED BY <2>1, <2>2, <2>3, <2>4, <2>5
<1>2. CASE Start
  BY <1>2, SMTT(30) DEF Start
<1>3. CASE Stop
  BY <1>3, SMTT(30) DEF Stop
<1>4. CASE Release
  <2> USE <1>4 DEF Release
  <2>1. TypeOK'
    OBVIOUS
  <2>2. CallsBacked' /\ HandleBacked'
    OBVIOUS
  <2>3. OnlyAbandonedRun'
    OBVIOUS
  <2>4. ReplacedAreDone'
    OBVIOUS
  <2>5. NeverFreedUnderUse' /\ NeverRebuiltUnderUse'
    OBVIOUS
  <2> QED BY <2>1, <2>2, <2>3, <2>4, <2>5
<1>5. CASE InitJoin
  BY <1>5, SMTT(30) DEF InitJoin, Join
<1>6. CASE InitRefuse
  BY <1>6, SMTT(30) DEF InitRefuse
<1>7. CASE InitNew
  BY <1>7, SMTT(30) DEF InitNew
<1>8. CASE InitNoMemory
  <2> USE <1>8 DEF InitNoMemory
  <2>1. TypeOK'
    <3>1. inits' \in 0 .. MaxInits /\ mPlayer' \in 0 .. inits'
      OBVIOUS
    <3> QED BY <3>1
  <2>2. CallsBacked' /\ HandleBacked'
    OBVIOUS
  <2>3. OnlyAbandonedRun'
    OBVIOUS
  <2>4. ReplacedAreDone'
    OBVIOUS
  <2>5. NeverFreedUnderUse' /\ NeverRebuiltUnderUse'
    OBVIOUS
  <2> QED BY <2>1, <2>2, <2>3, <2>4, <2>5
<1>9. CASE Build
  BY <1>9, SMTT(30) DEF Build
<1>10. CASE SetHandle
  BY <1>10, SMTT(30) DEF SetHandle
<1>11. CASE StopJoin
  BY <1>11, SMTT(30) DEF StopJoin, Join
<1>12. CASE Free
  <2> USE <1>12 DEF Free, MutexFree
  <2>1. TypeOK'
    OBVIOUS
  <2>2. CallsBacked' /\ HandleBacked'
    OBVIOUS
  <2>3. OnlyAbandonedRun'
    OBVIOUS
  <2>4. ReplacedAreDone'
    OBVIOUS
  <2>5. NeverFreedUnderUse' /\ NeverRebuiltUnderUse'
    OBVIOUS
  <2> QED BY <2>1, <2>2, <2>3, <2>4, <2>5
<1>13. CASE Construct
  <2> USE <1>13 DEF Construct
  <2>1. TypeOK'
    OBVIOUS
  <2>2. CallsBacked' /\ HandleBacked'
    OBVIOUS
  <2>3. OnlyAbandonedRun'
    OBVIOUS
  <2>4. ReplacedAreDone'
    OBVIOUS
  <2>5. NeverFreedUnderUse' /\ NeverRebuiltUnderUse'
    OBVIOUS
  <2> QED BY <2>1, <2>2, <2>3, <2>4, <2>5
<1>14. CASE InitThrows
  BY <1>14, SMTT(30) DEF InitThrows
<1> QED
  BY <1>1, <1>2, <1>3, <1>4, <1>5, <1>6, <1>7, <1>8, <1>9, <1>10, <1>11, <1>12, <1>13, <1>14
     DEF Begin, GoOn

LEMMA RecInv ==
  ASSUME IInv, NEW p \in Players, Rec(p) \/ RecWarm(p) \/ RecDrained(p) \/ RecFault(p)
  PROVE  IInv'
<1> USE MaxInitsAssumption, ClearFramesAssumption DEF IInv, TypeOK, CallsBacked, HandleBacked, OnlyAbandonedRun,
        Lingers, ReplacedAreDone, NeverFreedUnderUse, NeverRebuiltUnderUse, Ended, Players,
        facade, players, record, native, RecGoto, RecThrough
<1>1. CASE RecInterrupted(p)
  BY <1>1, SMTT(30) DEF RecInterrupted
<1>2. CASE RecTake(p)
  <2> USE <1>2 DEF RecTake
  <2>1. PICK to \in {"dead", "lock", "clear"} : rec' = [rec EXCEPT ![p] = to]
    OBVIOUS
  <2>2. rec[p] = "take" /\ to # "inside"
    OBVIOUS
  <2>3. UNCHANGED <<facade, players, left, native, apiPc, crashed, abandoned>>
    OBVIOUS
  <2> QED
    BY <2>1, <2>2, <2>3, SMTT(30)
<1>3. CASE RecLock(p)
  BY <1>3, SMTT(30) DEF RecLock
<1>4. CASE RecProcess(p)
  BY <1>4, SMTT(30) DEF RecProcess
<1>8. CASE RecAnnounce(p)
  BY <1>8, SMTT(30) DEF RecAnnounce
<1>9. CASE RecClear(p)
  BY <1>9, SMTT(30) DEF RecClear
<1>10. CASE RecPass(p)
  BY <1>10, SMTT(30) DEF RecPass
<1>11. CASE RecDrained(p)
  BY <1>11, SMTT(30) DEF RecDrained
<1>5. CASE RecCrash(p)
  BY <1>5, SMTT(30) DEF RecCrash
<1>6. CASE RecWarm(p)
  BY <1>6, SMTT(30) DEF RecWarm
<1>7. CASE RecFault(p)
  BY <1>7, SMTT(30) DEF RecFault
<1> QED
  BY <1>1, <1>2, <1>3, <1>4, <1>5, <1>6, <1>7, <1>8, <1>9, <1>10, <1>11 DEF Rec

LEMMA Inductive == Spec => []IInv
<1>1. IInv /\ [Next]_vars => IInv'
  <2>1. CASE Next
    BY <2>1, ApiInv, RecInv DEF Next
  <2>2. CASE UNCHANGED vars
    BY <2>2 DEF IInv, TypeOK, CallsBacked, HandleBacked, OnlyAbandonedRun, Lingers,
                ReplacedAreDone, NeverFreedUnderUse, NeverRebuiltUnderUse, Ended,
                vars, facade, players, record, native
  <2> QED BY <2>1, <2>2
<1> QED
  BY InitInv, <1>1, PTL DEF Spec

-----------------------------------------------------------------------------
(* Every variable keeps its type, and the joins of init() and stop() have a *)
(* player to work on, also after an init() that failed and left mHasInit    *)
(* set without one.                                                         *)
THEOREM TypeCorrect == Spec => []TypeOK
BY Inductive, PTL DEF IInv

(* release() frees the canceller under the mutex only, and no record thread *)
(* enters it without a handle.                                              *)
THEOREM NeverFreedUnderUseHolds == Spec => []NeverFreedUnderUse
BY Inductive, PTL DEF IInv

(* init() replaces the canceller without the mutex, but has joined every    *)
(* record thread first, unless a player was released while it ran.          *)
THEOREM NeverRebuiltUnderUseHolds == Spec => []NeverRebuiltUnderUse
BY Inductive, PTL DEF IInv

(* Threads of a replaced player run only if it was abandoned.               *)
THEOREM ReplacedAreDoneHolds == Spec => []ReplacedAreDone
BY Inductive, PTL DEF IInv
=============================================================================
