--------------------------- MODULE Profile_proofs ---------------------------
(***************************************************************************)
(* Proofs about the mutex of profiles_management.c, for any number of      *)
(* threads, keys, values and deaths.  No step here looks into a file: what *)
(* the calls do to the text is in ProfileText_proofs, and both together    *)
(* are in ProfileSettings_proofs.                                          *)
(***************************************************************************)
EXTENDS Profile, TLAPS

Starting == {"init", "set"}
Outside  == {"idle", "check"}

(* Who is about to initialize the mutex is alone, and nobody is past it. *)
StartsAlone ==
  /\ \A c, d \in Callers : pc[c] \in Starting /\ pc[d] \in Starting => c = d
  /\ \A c, d \in Callers :
       pc[c] \in Starting => ~lock_init /\ pc[d] \in Starting \union Outside
  /\ \A c \in Callers : pc[c] \in {"lock"} \union Inside => lock_init

InsideHolds == \A c \in Callers : pc[c] \in Inside => mutex = c

IInv ==
  /\ TypeOK
  /\ HolderIsInside
  /\ raced \/ (StartsAlone /\ InsideHolds)

LEMMA TypeStep == TypeOK /\ [Next]_vars => TypeOK'
<1> SUFFICES ASSUME TypeOK, [Next]_vars PROVE TypeOK'
  OBVIOUS
<1> USE DEF TypeOK, Inside, Goto, disk, lock, Op
<1>1. ASSUME NEW c \in Callers, NEW r \in Requests, Call(c, r) PROVE TypeOK'
  BY <1>1 DEF Call
<1>2. ASSUME NEW c \in Callers, CheckInit(c) PROVE TypeOK'
  BY <1>2 DEF CheckInit
<1>3. ASSUME NEW c \in Callers, InitMutex(c) PROVE TypeOK'
  BY <1>3 DEF InitMutex
<1>4. ASSUME NEW c \in Callers, SetInit(c) PROVE TypeOK'
  BY <1>4 DEF SetInit
<1>5. ASSUME NEW c \in Callers, Lock(c) PROVE TypeOK'
  BY <1>5 DEF Lock
<1>6. ASSUME NEW c \in Callers, Unlock(c) PROVE TypeOK'
  BY <1>6 DEF Unlock
<1>7. ASSUME NEW c \in Callers, Read(c) PROVE TypeOK'
  BY <1>7 DEF Read
<1>8. ASSUME NEW c \in Callers, Load(c) PROVE TypeOK'
  BY <1>8 DEF Load
<1>9. ASSUME NEW c \in Callers, AppendSection(c) PROVE TypeOK'
  BY <1>9 DEF AppendSection
<1>10. ASSUME NEW c \in Callers, Truncate(c) PROVE TypeOK'
  BY <1>10 DEF Truncate
<1>11. ASSUME NEW c \in Callers, Store(c) PROVE TypeOK'
  BY <1>11 DEF Store
<1>12. ASSUME NEW c \in Callers, Fail(c) PROVE TypeOK'
  BY <1>12 DEF Fail
<1>13. CASE Die
  <2>1. request' \in [Callers -> Requests \union {<<>>}]
    BY <1>13 DEF Die, Fresh
  <2>2. pc' = [c \in Callers |-> "idle"]
    BY <1>13 DEF Die, Fresh
  <2> QED BY <1>13, <2>1, <2>2 DEF Die
<1>14. CASE UNCHANGED vars
  BY <1>14 DEF vars, threads
<1> QED
  BY <1>1, <1>2, <1>3, <1>4, <1>5, <1>6, <1>7, <1>8, <1>9, <1>10, <1>11, <1>12,
     <1>13, <1>14 DEF Next, Goes, Body

(* The types of the proof, without what the calls ask for. *)
Control ==
  /\ lock_init \in BOOLEAN /\ raced \in BOOLEAN
  /\ mutex \in Callers \union {Nobody}
  /\ pc \in [Callers -> {"idle", "check", "init", "set", "lock"} \union Inside]

(* What a step inside changes: where its thread is. *)
Moves(c) ==
  /\ pc[c] \in Inside
  /\ \E to \in Inside : pc' = [pc EXCEPT ![c] = to]
  /\ UNCHANGED <<lock_init, mutex, raced>>

LEMMA BodyMoves ==
  ASSUME NEW c \in Callers, Body(c)
  PROVE  Moves(c)
<1> USE DEF Moves, Goto, Inside, lock
<1>1. CASE Read(c) BY <1>1 DEF Read
<1>2. CASE Load(c) BY <1>2 DEF Load
<1>3. CASE AppendSection(c) BY <1>3 DEF AppendSection
<1>4. CASE Truncate(c) BY <1>4 DEF Truncate
<1>5. CASE Store(c) BY <1>5 DEF Store
<1>6. CASE Fail(c) BY <1>6 DEF Fail
<1> QED BY <1>1, <1>2, <1>3, <1>4, <1>5, <1>6 DEF Body

LEMMA MutexStep == IInv /\ [Next]_vars =>
  HolderIsInside' /\ (raced \/ (StartsAlone /\ InsideHolds))'
<1> DEFINE Goal == /\ HolderIsInside'
                   /\ (raced \/ (StartsAlone /\ InsideHolds))'
<1> SUFFICES ASSUME IInv, [Next]_vars PROVE Goal
  OBVIOUS
<1>0. Control
  BY DEF IInv, TypeOK, Control
<1> USE <1>0, CallersAssumption
    DEF Control, HolderIsInside, StartsAlone, InsideHolds, Inside, Starting,
        Outside, lock, Goto
<1> HIDE DEF IInv
<1>a. /\ HolderIsInside
      /\ raced \/ (StartsAlone /\ InsideHolds)
  BY DEF IInv
<1>1. ASSUME NEW c \in Callers, NEW r \in Requests, Call(c, r) PROVE Goal
  BY <1>a, <1>1 DEF Call
<1>2. ASSUME NEW c \in Callers, CheckInit(c) PROVE Goal
  BY <1>a, <1>2 DEF CheckInit
<1>3. ASSUME NEW c \in Callers, InitMutex(c) PROVE Goal
  BY <1>a, <1>3 DEF InitMutex
<1>4. ASSUME NEW c \in Callers, SetInit(c) PROVE Goal
  BY <1>a, <1>4 DEF SetInit
<1>5. ASSUME NEW c \in Callers, Lock(c) PROVE Goal
  BY <1>a, <1>5 DEF Lock
<1>6. ASSUME NEW c \in Callers, Unlock(c) PROVE Goal
  BY <1>a, <1>6 DEF Unlock
<1>7. ASSUME NEW c \in Callers, Body(c) PROVE Goal
  <2>1. Moves(c)
    BY <1>7, BodyMoves
  <2> QED BY <1>a, <2>1 DEF Moves
<1>8. CASE Die
  BY <1>8 DEF Die, Fresh
<1>9. CASE UNCHANGED vars
  BY <1>a, <1>9 DEF vars, threads
<1> QED
  BY <1>1, <1>2, <1>3, <1>4, <1>5, <1>6, <1>7, <1>8, <1>9 DEF Next, Goes

(* The mutex and its initialization, in every state. *)
LEMMA Invariance == Spec => []IInv
<1>1. ASSUME Init PROVE IInv
  <2>1. /\ pc = [c \in Callers |-> "idle"] /\ request \in [Callers -> Requests \union {<<>>}]
        /\ ~lock_init /\ mutex = Nobody /\ ~raced
    BY <1>1 DEF Init, Fresh
  <2>2. exists \in BOOLEAN /\ lock_init \in BOOLEAN /\ raced \in BOOLEAN
    BY <1>1 DEF Init
  <2>3. TypeOK
    BY <2>1, <2>2 DEF TypeOK
  <2>4. HolderIsInside /\ StartsAlone /\ InsideHolds
    BY <2>1 DEF HolderIsInside, StartsAlone, InsideHolds, Starting, Inside
  <2> QED BY <2>3, <2>4 DEF IInv
<1>2. IInv /\ [Next]_vars => IInv'
  BY TypeStep, MutexStep DEF IInv
<1> QED BY <1>1, <1>2, PTL DEF Spec

(* Types: a call that writes is a write, whatever happens to the process. *)
THEOREM TypeCorrect == Spec => []TypeOK
<1>1. IInv => TypeOK BY DEF IInv
<1> QED BY <1>1, Invariance, PTL

(* No path through read_profile or write_profile keeps the mutex. *)
THEOREM HolderIsInsideHolds == Spec => []HolderIsInside
<1>1. IInv => HolderIsInside BY DEF IInv
<1> QED BY <1>1, Invariance, PTL

(* The lazy initialization in profile_lock is harmless unless two threads   *)
(* are in it at once.                                                       *)
THEOREM OneInsideUnlessRacedHolds == Spec => []OneInsideUnlessRaced
<1>1. IInv => OneInsideUnlessRaced BY DEF IInv, InsideHolds, OneInsideUnlessRaced
<1> QED BY <1>1, Invariance, PTL

=============================================================================
