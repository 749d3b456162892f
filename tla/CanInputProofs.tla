--------------------------- MODULE CanInputProofs ---------------------------
(***************************************************************************)
(* The properties of CanInput, for every row, period and time limit.  Each *)
(* theorem has an inductive invariant of its own, proved over the type     *)
(* invariant.                                                              *)
(***************************************************************************)
EXTENDS CanInput, TLAPS

(* The initial state is well typed. *)
LEMMA InitType == Init => TypeOK
<1> SUFFICES ASSUME Init PROVE TypeOK
  OBVIOUS
<1> USE RowAssumption, TimeAssumption, BoundsAssumption
<1>1. 0 \in Versions /\ Len \in 0..Len /\ Mixed \in Nat
  BY DEF Versions, Mixed
<1>2. BufferTypeOK
  <2>1. msg \in [next : 0..Len, ver : Versions, gap : BOOLEAN]
    BY <1>1 DEF Init
  <2>2. canBuf \in [Slots -> Versions] /\ appBuf \in [Slots -> Versions]
    BY <1>1 DEF Init
  <2>3. clock \in 0..(sendTick - 1) /\ accepted \in 0..Mixed
    BY <1>1 DEF Init
  <2> QED
    BY <2>1, <2>2, <2>3 DEF Init, BufferTypeOK
<1>3. TaskTypeOK
  BY <1>1 DEF Init, TaskTypeOK, Counters
<1>4. SupervisionTypeOK
  BY <1>1 DEF Init, SupervisionTypeOK, Counters
<1> QED
  BY <1>2, <1>3, <1>4 DEF TypeOK

(* The buffers and the boards. *)
LEMMA BufferStep == TypeOK /\ [Next]_vars => BufferTypeOK'
<1> SUFFICES ASSUME TypeOK, [Next]_vars PROVE BufferTypeOK'
  OBVIOUS
<1> USE RowAssumption, TimeAssumption, BoundsAssumption
<1>1. BufferTypeOK /\ TaskTypeOK
  BY DEF TypeOK
<1>2. (msg.ver + 1) % NVersions \in Versions
  BY <1>1 DEF BufferTypeOK, Versions
<1>3. CASE WaitCycle \/ ScanRow \/ LoadCounter \/ StoreCounter \/ JudgeCounter
           \/ UNCHANGED vars
  BY <1>1, <1>3 DEF WaitCycle, ScanRow, LoadCounter, StoreCounter,
     JudgeCounter, vars, bufVars, BufferTypeOK
<1>4. CASE CopyPacket
  <2>1. task.slot \in Slots /\ canBuf[task.slot] \in Versions
    BY <1>1, <1>4 DEF CopyPacket, TaskTypeOK, BufferTypeOK, Slots
  <2> QED
    BY <1>1, <1>4, <2>1 DEF CopyPacket, BufferTypeOK, bufVars
<1>5. CASE ClearUpdate
  BY <1>1, <1>5 DEF ClearUpdate, BufferTypeOK
<1>6. CASE Poll
  <2>1. msg' \in [next : 0..Len, ver : Versions, gap : BOOLEAN]
    BY <1>2, <1>6 DEF Poll
  <2>2. clock' \in 0..(sendTick - 1)
    BY <1>6 DEF Poll
  <2> QED
    BY <1>1, <1>6, <2>1, <2>2 DEF Poll, BufferTypeOK
<1>7. CASE PollNotDue
  <2>1. clock' \in 0..(sendTick - 1)
    BY <1>1, <1>7 DEF PollNotDue, Due, BufferTypeOK
  <2> QED
    BY <1>1, <1>7, <2>1 DEF PollNotDue, BufferTypeOK, bufVars
<1>11. CASE Interrupt \/ HandleUnmatched
  BY <1>1, <1>11 DEF Interrupt, HandleUnmatched, bufVars, BufferTypeOK
<1>8. CASE LosePacket
  <2>1. msg.next + 1 \in 0..Len
    BY <1>1, <1>8 DEF LosePacket, Idle, BufferTypeOK
  <2>2. msg' \in [next : 0..Len, ver : Versions, gap : BOOLEAN]
    BY <1>1, <1>8, <2>1 DEF LosePacket, BufferTypeOK
  <2> QED
    BY <1>1, <1>8, <2>2 DEF LosePacket, BufferTypeOK, bufVars
<1>9. CASE Receive
  <2>1. msg.next \in Slots /\ msg.ver \in Versions /\ msg.ver \in 0..Mixed
    <3>1. msg.next \in 0..Len /\ msg.next # Len /\ msg.ver \in Versions
      BY <1>1, <1>9 DEF Receive, Idle, BufferTypeOK
    <3> QED
      BY <3>1 DEF Slots, Versions, Mixed
  <2>2. msg' \in [next : 0..Len, ver : Versions, gap : BOOLEAN]
    <3>1. msg.next + 1 \in 0..Len
      BY <2>1 DEF Slots
    <3> QED
      BY <1>1, <1>9, <3>1 DEF Receive, BufferTypeOK
  <2>3. canBuf' \in [Slots -> Versions]
    BY <1>1, <1>9, <2>1 DEF Receive, BufferTypeOK, Packet
  <2>4. dataLen' \in Nat
    BY <1>1, <1>9 DEF Receive, BufferTypeOK, Counted
  <2>5. update' \in {0, 1} /\ accepted' \in 0..Mixed
    BY <1>1, <1>9, <2>1 DEF Receive, BufferTypeOK, Mixed
  <2>6. alone' \in BOOLEAN
    BY <1>9 DEF Receive
  <2> QED
    BY <1>1, <1>9, <2>2, <2>3, <2>4, <2>5, <2>6 DEF Receive, BufferTypeOK
<1>10. CASE ReceiveOther
  <2>1. dataLen' \in Nat
    BY <1>1, <1>10 DEF ReceiveOther, BufferTypeOK
  <2>2. alone' \in BOOLEAN
    BY <1>10 DEF ReceiveOther
  <2>3. UNCHANGED <<msg, canBuf, update, accepted, appBuf, clock>>
    BY <1>10 DEF ReceiveOther
  <2> QED
    BY <1>1, <2>1, <2>2, <2>3 DEF BufferTypeOK
<1> QED
  BY <1>3, <1>4, <1>5, <1>6, <1>7, <1>8, <1>9, <1>10, <1>11
     DEF Next, CanRx, CanTask

(* What a counted frame does to the counters. *)
LEMMA CountFrameType ==
  ASSUME TypeOK, CountFrame
  PROVE  /\ cnt' \in [Counters -> Nat] /\ cnt'["board"] = cnt["board"]
         /\ frames' \in 0..CAN_RX_TIME
         /\ UNCHANGED <<lost, silent, overwritten>>
<1> USE TimeAssumption
<1> SupervisionTypeOK
  BY DEF TypeOK
<1> QED
  BY DEF CountFrame, SupervisionTypeOK, Counters

(* What a packet does to the counters and to CanTask's registers. *)
LEMMA SuperviseType ==
  ASSUME TypeOK, NEW port \in {1, 2}, NEW board \in BOOLEAN,
         Supervise(port, board)
  PROVE  TaskTypeOK' /\ SupervisionTypeOK'
<1> USE RowAssumption, TimeAssumption, BoundsAssumption
<1> TaskTypeOK /\ SupervisionTypeOK
  BY DEF TypeOK
<1>1. TaskTypeOK'
  BY DEF Supervise, TaskTypeOK
<1>2. task'.at = task.at /\ task'.src = task.src /\ task'.reg = task.reg
  BY DEF Supervise, TaskTypeOK
<1>3. cnt' \in [Counters -> Nat] /\ cnt'["board"] <= cnt["board"]
  BY DEF Supervise, SupervisionTypeOK, Counters
<1>4. silent' \in [Counters -> 0..CAN_RX_TIME]
  BY DEF Supervise, SupervisionTypeOK
<1>5. frames' \in 0..CAN_RX_TIME
  BY DEF Supervise, SupervisionTypeOK
<1>6. overwritten' \in [Counters -> BOOLEAN]
  BY DEF Supervise, SupervisionTypeOK
<1>7. lost' = lost
  BY DEF Supervise
<1>10. queued' \in 0..MaxQueued
  BY DEF Supervise, SupervisionTypeOK
<1>8. cnt["board"] \in Nat /\ cnt'["board"] \in Nat /\ task.reg \in Nat
  BY <1>3 DEF SupervisionTypeOK, TaskTypeOK, Counters
<1>9. cnt'["board"] <= IF task'.at = "judge" /\ task'.src = "board"
                      THEN task'.reg ELSE CAN_RX_TIME
  BY <1>2, <1>3, <1>8 DEF SupervisionTypeOK
<1> QED
  BY <1>1, <1>2, <1>3, <1>4, <1>5, <1>6, <1>7, <1>9, <1>10
     DEF SupervisionTypeOK

(* Where CanTask is, and what it holds. *)
LEMMA TaskStep == TypeOK /\ [Next]_vars => TaskTypeOK'
<1> SUFFICES ASSUME TypeOK, [Next]_vars PROVE TaskTypeOK'
  OBVIOUS
<1> USE RowAssumption, TimeAssumption, BoundsAssumption
<1>1. BufferTypeOK /\ TaskTypeOK /\ SupervisionTypeOK
  BY DEF TypeOK
<1>2. CASE Interrupt \/ LosePacket \/ HandleUnmatched \/ UNCHANGED vars
  BY <1>1, <1>2 DEF Interrupt, LosePacket, HandleUnmatched, vars, TaskTypeOK
<1>3. CASE WaitCycle \/ ScanRow \/ Poll \/ PollNotDue
  BY <1>1, <1>3 DEF WaitCycle, ScanRow, Poll, PollNotDue, TaskTypeOK
<1>4. CASE CopyPacket
  <2>1. task.slot + 1 \in 0..Len
    BY <1>1, <1>4 DEF CopyPacket, TaskTypeOK
  <2> QED
    BY <1>1, <1>4, <2>1 DEF CopyPacket, TaskTypeOK
<1>9. CASE ClearUpdate
  <2>1. 0 \in 0..Len
    OBVIOUS
  <2> QED
    BY <1>1, <1>9, <2>1 DEF ClearUpdate, TaskTypeOK
<1>5. CASE LoadCounter
  <2>1. task.src \in Counters /\ cnt[task.src] + 1 \in Nat
    BY <1>1 DEF TaskTypeOK, SupervisionTypeOK
  <2> QED
    BY <1>1, <1>5, <2>1 DEF LoadCounter, TaskTypeOK
<1>6. CASE StoreCounter
  BY <1>1, <1>6 DEF StoreCounter, TaskTypeOK
<1>8. CASE JudgeCounter
  <2>1. NextCounter \in [at : {"load", "wait"}, slot : 0..Len, src : Counters,
                          reg : Nat, reset : BOOLEAN]
    <3>1. CASE task.src = "board"
      BY <1>1, <3>1 DEF NextCounter, TaskTypeOK, Counters
    <3>2. CASE task.src # "board"
      BY <1>1, <3>2 DEF NextCounter, TaskTypeOK, Counters
    <3> QED
      BY <3>1, <3>2
  <2> QED
    BY <1>8, <2>1 DEF JudgeCounter, TaskTypeOK
<1>7. CASE Receive \/ ReceiveOther
  BY <1>7, SuperviseType DEF Receive, ReceiveOther
<1> QED
  BY <1>2, <1>3, <1>4, <1>5, <1>6, <1>7, <1>8, <1>9
     DEF Next, CanRx, CanTask

(* The counters, and how far above its limit one may be. *)
LEMMA SupervisionStep == TypeOK /\ [Next]_vars => SupervisionTypeOK'
<1> SUFFICES ASSUME TypeOK, [Next]_vars PROVE SupervisionTypeOK'
  OBVIOUS
<1> USE RowAssumption, TimeAssumption, BoundsAssumption
<1>1. TaskTypeOK /\ SupervisionTypeOK
  BY DEF TypeOK
<1>2. "board" \in Counters /\ task.src \in Counters /\ task.reg \in Nat
  BY <1>1 DEF TaskTypeOK, Counters
<1>3. CASE WaitCycle \/ ScanRow \/ CopyPacket \/ ClearUpdate \/ Poll
           \/ PollNotDue
  <2>1. /\ UNCHANGED supVars
        /\ task.at # "judge" /\ task'.at # "judge"
        /\ task'.src = task.src /\ task'.reg = task.reg
    BY <1>1, <1>3 DEF WaitCycle, ScanRow, CopyPacket, ClearUpdate, Poll,
       PollNotDue, TaskTypeOK
  <2> QED
    BY <1>1, <2>1 DEF SupervisionTypeOK, supVars
<1>4. CASE UNCHANGED <<supVars, task>>
  BY <1>1, <1>4 DEF SupervisionTypeOK, supVars
<1>9. CASE (Interrupt \/ LosePacket) /\ CountFrame
  <2>1. /\ queued' \in {queued, queued + 1}
        /\ queued' > queued => queued < MaxQueued
    <3>1. CASE Interrupt
      BY <1>1, <3>1 DEF Interrupt, SupervisionTypeOK
    <3>2. CASE LosePacket
      BY <1>1, <3>2 DEF LosePacket, SupervisionTypeOK, supVars
    <3> QED
      BY <1>9, <3>1, <3>2
  <2>2. queued' \in 0..MaxQueued /\ task' = task
    <3>1. queued' \in 0..MaxQueued
      BY <1>1, <2>1 DEF SupervisionTypeOK
    <3> QED
      BY <1>9, <3>1 DEF Interrupt, LosePacket
  <2> QED
    BY <1>1, <1>9, <2>2, CountFrameType DEF SupervisionTypeOK
<1>10. CASE HandleUnmatched
  <2>1. queued' \in 0..MaxQueued
    BY <1>1, <1>10 DEF HandleUnmatched, SupervisionTypeOK
  <2> QED
    BY <1>1, <1>10, <2>1 DEF HandleUnmatched, SupervisionTypeOK
<1>5. CASE LoadCounter
  <2>1. /\ task.at # "judge" /\ task'.at # "judge"
        /\ task'.src = task.src /\ task'.reg = cnt[task.src] + 1
    BY <1>1, <1>5 DEF LoadCounter, TaskTypeOK
  <2>2. silent' \in [Counters -> 0..CAN_RX_TIME]
    <3>1. \A t \in 0..CAN_RX_TIME : t < CAN_RX_TIME => t + 1 \in 0..CAN_RX_TIME
      OBVIOUS
    <3> QED
      BY <1>1, <1>2, <1>5, <3>1 DEF LoadCounter, SupervisionTypeOK
  <2>3. cnt["board"] \in Nat /\ cnt["board"] <= CAN_RX_TIME
    BY <1>1, <1>2, <2>1 DEF SupervisionTypeOK
  <2> QED
    BY <1>1, <1>5, <2>1, <2>2, <2>3 DEF LoadCounter, SupervisionTypeOK
<1>6. CASE StoreCounter
  <2>1. /\ task'.at = "judge" /\ task'.src = task.src /\ task'.reg = task.reg
        /\ task.at # "judge"
    BY <1>1, <1>6 DEF StoreCounter, TaskTypeOK
  <2>2. cnt' \in [Counters -> Nat]
    BY <1>1, <1>2, <1>6 DEF StoreCounter, SupervisionTypeOK
  <2>3. cnt'["board"] <= IF task.src = "board" THEN task.reg ELSE CAN_RX_TIME
    BY <1>1, <1>2, <1>6, <2>1 DEF StoreCounter, SupervisionTypeOK
  <2>4. overwritten' \in [Counters -> BOOLEAN]
    BY <1>1, <1>2, <1>6 DEF StoreCounter, SupervisionTypeOK, TaskTypeOK
  <2> QED
    BY <1>1, <1>6, <2>1, <2>2, <2>3, <2>4 DEF StoreCounter, SupervisionTypeOK
<1>7. CASE JudgeCounter
  <2>1. /\ task'.at # "judge" /\ task'.reg = 0
        /\ task.src = "board" => task'.src = "all"
    BY <1>1, <1>7 DEF JudgeCounter, NextCounter, TaskTypeOK
  <2>2. PICK v \in {task.reg, cnt[task.src]} :
          \/ /\ v >= CAN_RX_TIME
             /\ cnt' = [cnt EXCEPT ![task.src] = CAN_RX_TIME]
             /\ lost' = [lost EXCEPT ![task.src] = 1]
             /\ overwritten' = [overwritten EXCEPT ![task.src] =
                                  @ \/ task.reset]
          \/ /\ v < CAN_RX_TIME
             /\ lost' = [lost EXCEPT ![task.src] = 0]
             /\ UNCHANGED <<cnt, overwritten>>
    BY <1>7 DEF JudgeCounter, JudgedSilent
  <2>3. lost' \in [Counters -> {0, 1}]
    BY <1>1, <2>2 DEF SupervisionTypeOK
  <2>4. cnt' \in [Counters -> Nat]
    BY <1>1, <2>2 DEF SupervisionTypeOK
  <2>5. overwritten' \in [Counters -> BOOLEAN]
    BY <1>1, <1>2, <2>2 DEF SupervisionTypeOK, TaskTypeOK
  <2>6. task.at = "judge" /\ UNCHANGED <<queued, silent, frames>>
    BY <1>7 DEF JudgeCounter
  <2>7. cnt'["board"] <= CAN_RX_TIME
    <3>1. cnt["board"] \in Nat
      BY <1>1, <1>2 DEF SupervisionTypeOK
    <3>2. CASE task.src = "board"
      BY <1>1, <1>2, <2>2, <2>6, <3>1, <3>2 DEF SupervisionTypeOK
    <3>3. CASE task.src # "board"
      BY <1>1, <1>2, <2>2, <2>6, <3>1, <3>3 DEF SupervisionTypeOK
    <3> QED
      BY <3>2, <3>3
  <2> QED
    BY <1>1, <2>1, <2>3, <2>4, <2>5, <2>6, <2>7 DEF SupervisionTypeOK
<1>8. CASE Receive \/ ReceiveOther
  BY <1>8, SuperviseType DEF Receive, ReceiveOther
<1> QED
  BY <1>3, <1>4, <1>5, <1>6, <1>7, <1>8, <1>9, <1>10
     DEF Next, CanRx, CanTask, Interrupt, LosePacket, vars

(* Every variable keeps its type; the board's counter never passes its     *)
(* limit by more than the one Bsp_can_fault has just added.                *)
THEOREM Typing == Spec => []TypeOK
<1>1. TypeOK /\ [Next]_vars => TypeOK'
  BY BufferStep, TaskStep, SupervisionStep DEF TypeOK
<1> QED
  BY <1>1, InitType, PTL DEF Spec

-----------------------------------------------------------------------------
(* A counter is never behind the time its source has been silent, nor, if  *)
(* no reset was written over, ahead of it; between the load and the        *)
(* judgement this is said of the register.                                 *)
Ticks(s) == silent[s] + (IF s = "all" THEN frames ELSE 0)
Bounded(n, s) == n <= Ticks(s) \/ Ticks(s) >= CAN_RX_TIME

NotBehind ==
  \A s \in Counters :
    /\ InService(s) => silent[s] <= task.reg
    /\ ~(task.at = "store" /\ task.src = s) => silent[s] <= cnt[s]
    /\ (~InService(s) /\ silent[s] = CAN_RX_TIME) => lost[s] = 1

NotAhead ==
  \A s \in Counters : ~overwritten[s] =>
    /\ (InService(s) /\ ~task.reset) => Bounded(task.reg, s)
    /\ ~(task.at = "store" /\ task.src = s) => Bounded(cnt[s], s)
    /\ (~InService(s) /\ lost[s] = 1 /\ silent[s] > 0) =>
          Ticks(s) >= CAN_RX_TIME

SupInv == NotBehind /\ NotAhead

(* The types the supervision proofs use. *)
LEMMA CounterTypes ==
  ASSUME TypeOK, NEW s \in Counters
  PROVE  /\ cnt[s] \in Nat /\ silent[s] \in 0..CAN_RX_TIME
         /\ frames \in 0..CAN_RX_TIME /\ lost[s] \in {0, 1}
         /\ overwritten[s] \in BOOLEAN
         /\ task.reg \in Nat /\ task.reset \in BOOLEAN /\ task.src \in Counters
         /\ CAN_RX_TIME \in Nat \ {0}
BY TimeAssumption DEF TypeOK, SupervisionTypeOK, TaskTypeOK

(* A packet that resets s sets both counts to zero; any other leaves s as  *)
(* it was.                                                                 *)
LEMMA SuperviseSup ==
  ASSUME TypeOK, SupInv, NEW port \in {1, 2}, NEW board \in BOOLEAN,
         Supervise(port, board), TypeOK'
  PROVE  SupInv'
<1> DEFINE Reset(s) == (s = "all" /\ port = 1) \/ (s = "board" /\ board)
<1>1. ASSUME NEW s \in Counters
      PROVE  /\ cnt'[s] = IF Reset(s) THEN 0 ELSE cnt[s]
             /\ silent'[s] = IF Reset(s) THEN 0 ELSE silent[s]
             /\ overwritten'[s] = (overwritten[s] /\ ~Reset(s))
             /\ Reset(s) /\ InService(s) => task'.reset
  BY DEF Supervise, Resets, TypeOK, TaskTypeOK
<1>2. /\ task'.at = task.at /\ task'.src = task.src /\ task'.reg = task.reg
      /\ ~task'.reset => ~task.reset
      /\ lost' = lost
      /\ frames' = IF port = 1 THEN 0 ELSE frames
  BY DEF Supervise, TypeOK, TaskTypeOK
<1>3. \A s \in Counters : InService(s)' = InService(s)
  BY <1>2 DEF InService
<1> SUFFICES ASSUME NEW s \in Counters
             PROVE  /\ InService(s) => silent'[s] <= task.reg
                    /\ ~(task.at = "store" /\ task.src = s) =>
                          silent'[s] <= cnt'[s]
                    /\ (~InService(s) /\ silent'[s] = CAN_RX_TIME) =>
                          lost[s] = 1
                    /\ ~overwritten'[s] =>
                         /\ (InService(s) /\ ~task'.reset) =>
                               Bounded(task.reg, s)'
                         /\ ~(task.at = "store" /\ task.src = s) =>
                               Bounded(cnt[s], s)'
                         /\ (~InService(s) /\ lost[s] = 1 /\ silent'[s] > 0) =>
                               Ticks(s)' >= CAN_RX_TIME
  BY <1>2, <1>3 DEF SupInv, NotBehind, NotAhead, Bounded, Ticks
<1>4. /\ cnt[s] \in Nat /\ silent[s] \in 0..CAN_RX_TIME
      /\ frames \in 0..CAN_RX_TIME
      /\ task.reg \in Nat /\ CAN_RX_TIME \in Nat \ {0}
  BY CounterTypes
<1>5. CASE Reset(s)
  <2>1. cnt'[s] = 0 /\ silent'[s] = 0
    BY <1>1, <1>5
  <2>2. InService(s) => task'.reset
    BY <1>1, <1>5
  <2>3. frames' \in Nat
    BY <1>2, <1>4
  <2>4. silent'[s] + frames' \in Nat
    <3>1. ASSUME NEW i, NEW j \in Nat, i = 0 PROVE i + j \in Nat
      BY <3>1
    <3> HIDE DEF Reset
    <3> QED
      BY <2>1, <2>3, <3>1
  <2>5. Ticks(s)' >= 0
    BY <2>1, <2>4 DEF Ticks
  <2>6. Bounded(cnt[s], s)'
    BY <2>1, <2>5 DEF Bounded
  <2> QED
    BY <1>1, <1>4, <1>5, <2>1, <2>2, <2>6
<1>6. CASE ~Reset(s)
  <2>1. /\ silent'[s] = silent[s] /\ overwritten'[s] = overwritten[s]
        /\ cnt'[s] = cnt[s]
    BY <1>1, <1>6 DEF TypeOK, SupervisionTypeOK
  <2>2. Ticks(s)' = Ticks(s)
    BY <1>2, <1>6, <2>1 DEF Ticks
  <2>3. NotBehind /\ NotAhead
    BY DEF SupInv
  <2> QED
    BY <1>2, <2>1, <2>2, <2>3 DEF NotBehind, NotAhead, Bounded
<1> QED
  BY <1>5, <1>6

(* A counted frame raises CanCnt and what bounds it alike. *)
LEMMA CountFrameSup ==
  ASSUME TypeOK, TypeOK', SupInv, CountFrame, task' = task
  PROVE  SupInv'
<1> NotBehind /\ NotAhead
  BY DEF SupInv
<1>1. /\ UNCHANGED <<lost, silent, overwritten>>
      /\ \A s \in Counters : InService(s)' = InService(s)
  BY DEF CountFrame, InService
<1>2. ASSUME NEW s \in Counters
      PROVE  /\ cnt[s] <= cnt'[s]
             /\ Ticks(s) >= CAN_RX_TIME => Ticks(s)' >= CAN_RX_TIME
             /\ Bounded(task.reg, s) => Bounded(task.reg, s)'
             /\ Bounded(cnt[s], s) => Bounded(cnt[s], s)'
  <2>1. /\ cnt[s] \in Nat /\ silent[s] \in 0..CAN_RX_TIME
        /\ frames \in 0..CAN_RX_TIME /\ task.reg \in Nat
        /\ CAN_RX_TIME \in Nat \ {0}
    BY CounterTypes
  <2>2. /\ silent'[s] = silent[s]
        /\ cnt'[s] = IF s = "all" THEN cnt[s] + 1 ELSE cnt[s]
        /\ frames' = IF frames < CAN_RX_TIME THEN frames + 1 ELSE frames
    BY DEF CountFrame, TypeOK, SupervisionTypeOK
  <2>3. \/ Ticks(s)' >= CAN_RX_TIME /\ Ticks(s)' >= Ticks(s)
        \/ Ticks(s)' = Ticks(s) + (cnt'[s] - cnt[s])
    BY <2>1, <2>2 DEF Ticks
  <2>4. Ticks(s) \in Nat /\ Ticks(s)' \in Nat /\ cnt'[s] \in Nat
    BY <2>1, <2>2 DEF Ticks
  <2> QED
    BY <2>1, <2>2, <2>3, <2>4 DEF Bounded
<1>3. NotBehind'
  <2> SUFFICES ASSUME NEW s \in Counters
               PROVE  /\ InService(s) => silent[s] <= task.reg
                      /\ ~(task.at = "store" /\ task.src = s) =>
                            silent[s] <= cnt'[s]
                      /\ (~InService(s) /\ silent[s] = CAN_RX_TIME) =>
                            lost[s] = 1
    BY <1>1 DEF NotBehind
  <2>1. cnt[s] \in Nat /\ cnt'[s] \in Nat /\ silent[s] \in Nat
    BY CounterTypes DEF TypeOK, SupervisionTypeOK
  <2> QED
    BY <1>2, <2>1 DEF NotBehind
<1>4. NotAhead'
  BY <1>1, <1>2 DEF NotAhead
<1> QED
  BY <1>3, <1>4 DEF SupInv

(* One step of CanTask on the counter in service, and every other step. *)
LEMMA SupStep == TypeOK /\ TypeOK' /\ SupInv /\ [Next]_vars => SupInv'
<1> SUFFICES ASSUME TypeOK, TypeOK', SupInv, [Next]_vars PROVE SupInv'
  OBVIOUS
<1> NotBehind /\ NotAhead
  BY DEF SupInv
<1>1. CASE WaitCycle \/ ScanRow \/ CopyPacket \/ ClearUpdate \/ Poll
           \/ PollNotDue
  <2>1. /\ UNCHANGED supVars
        /\ task.at \notin {"store", "judge"} /\ task'.at \notin {"store", "judge"}
    BY <1>1 DEF WaitCycle, ScanRow, CopyPacket, ClearUpdate, Poll, PollNotDue,
       TypeOK, TaskTypeOK
  <2>2. \A s \in Counters : ~InService(s) /\ ~InService(s)'
    BY <2>1 DEF InService
  <2>3. NotBehind'
    BY <2>1, <2>2 DEF NotBehind, supVars
  <2>4. NotAhead'
    BY <2>1, <2>2 DEF NotAhead, Bounded, Ticks, supVars
  <2> QED
    BY <2>3, <2>4 DEF SupInv
<1>2. CASE HandleUnmatched \/ UNCHANGED <<supVars, task>>
  <2>1. UNCHANGED <<cnt, lost, silent, frames, overwritten, task>>
    BY <1>2 DEF HandleUnmatched, supVars
  <2>2. \A s \in Counters : InService(s)' = InService(s)
    BY <2>1 DEF InService
  <2>3. NotBehind'
    BY <2>1, <2>2 DEF NotBehind
  <2>4. NotAhead'
    BY <2>1, <2>2 DEF NotAhead, Bounded, Ticks
  <2> QED
    BY <2>3, <2>4 DEF SupInv
<1>7. CASE (Interrupt \/ LosePacket) /\ CountFrame
  BY <1>7, CountFrameSup DEF Interrupt, LosePacket
<1>3. CASE LoadCounter
  <2>1. /\ task.at = "load" /\ task'.at = "store" /\ task'.src = task.src
        /\ task'.reg = cnt[task.src] + 1
        /\ UNCHANGED <<cnt, lost, frames, overwritten>>
    BY <1>3 DEF LoadCounter, TypeOK, TaskTypeOK
  <2>2. ASSUME NEW s \in Counters
        PROVE  /\ ~InService(s)
               /\ InService(s)' <=> s = task.src
               /\ s # task.src => silent'[s] = silent[s]
               /\ s = task.src => silent'[s] = IF silent[s] < CAN_RX_TIME
                                               THEN silent[s] + 1 ELSE silent[s]
    BY <1>3, <2>1 DEF LoadCounter, InService, TypeOK, SupervisionTypeOK
  <2>3. NotBehind'
    <3> SUFFICES ASSUME NEW s \in Counters
                 PROVE  /\ s = task.src => silent'[s] <= cnt[s] + 1
                        /\ s # task.src => /\ silent'[s] <= cnt[s]
                                           /\ silent'[s] = CAN_RX_TIME =>
                                                lost[s] = 1
      BY <2>1, <2>2 DEF NotBehind
    <3> QED
      BY <2>1, <2>2, CounterTypes DEF NotBehind
  <2>4. NotAhead'
    <3> SUFFICES ASSUME NEW s \in Counters, ~overwritten[s]
                 PROVE  /\ s = task.src => Bounded(cnt[s] + 1, s)'
                        /\ s # task.src => /\ Bounded(cnt[s], s)'
                                           /\ (lost[s] = 1 /\ silent'[s] > 0) =>
                                                Ticks(s)' >= CAN_RX_TIME
      BY <2>1, <2>2 DEF NotAhead, Bounded, Ticks
    <3>1. Bounded(cnt[s], s)
      BY <2>1 DEF NotAhead
    <3>2. CASE s = task.src
      <4>1. silent[s] < CAN_RX_TIME => Ticks(s)' = Ticks(s) + 1
        BY <2>1, <2>2, <3>2, CounterTypes DEF Ticks
      <4>2. silent[s] >= CAN_RX_TIME => Ticks(s)' >= CAN_RX_TIME
        BY <2>1, <2>2, <3>2, CounterTypes DEF Ticks
      <4> QED
        BY <2>1, <3>1, <3>2, <4>1, <4>2, CounterTypes DEF Bounded, Ticks
    <3>3. CASE s # task.src
      BY <2>1, <2>2, <3>1, <3>3 DEF NotAhead, Bounded, Ticks
    <3> QED
      BY <3>2, <3>3
  <2> QED
    BY <2>3, <2>4 DEF SupInv
<1>4. CASE StoreCounter
  <2>1. /\ task.at = "store" /\ task'.at = "judge" /\ task'.src = task.src
        /\ task'.reg = task.reg /\ task'.reset = FALSE
        /\ UNCHANGED <<lost, silent, frames>>
    BY <1>4 DEF StoreCounter, TypeOK, TaskTypeOK
  <2>2. ASSUME NEW s \in Counters
        PROVE  /\ InService(s) <=> s = task.src
               /\ InService(s)' <=> s = task.src
               /\ cnt'[s] = IF s = task.src THEN task.reg ELSE cnt[s]
               /\ ~overwritten'[s] =>
                    ~overwritten[s] /\ (s = task.src => ~task.reset)
    BY <1>4, <2>1 DEF StoreCounter, InService, TypeOK, SupervisionTypeOK
  <2>3. NotBehind'
    BY <2>1, <2>2 DEF NotBehind
  <2>4. NotAhead'
    BY <2>1, <2>2 DEF NotAhead, Bounded, Ticks
  <2> QED
    BY <2>3, <2>4 DEF SupInv
<1>5. CASE JudgeCounter
  <2>1. /\ task.at = "judge" /\ task'.at \notin {"store", "judge"}
        /\ UNCHANGED <<silent, frames>>
    BY <1>5 DEF JudgeCounter, NextCounter, TypeOK, TaskTypeOK
  <2>2. PICK v \in {task.reg, cnt[task.src]} :
          \/ /\ v >= CAN_RX_TIME
             /\ cnt' = [cnt EXCEPT ![task.src] = CAN_RX_TIME]
             /\ lost' = [lost EXCEPT ![task.src] = 1]
             /\ overwritten' = [overwritten EXCEPT ![task.src] =
                                  @ \/ task.reset]
          \/ /\ v < CAN_RX_TIME
             /\ lost' = [lost EXCEPT ![task.src] = 0]
             /\ UNCHANGED <<cnt, overwritten>>
    BY <1>5 DEF JudgeCounter, JudgedSilent
  <2>3. ASSUME NEW s \in Counters
        PROVE  /\ InService(s) <=> s = task.src
               /\ ~InService(s)'
               /\ s # task.src => /\ cnt'[s] = cnt[s] /\ lost'[s] = lost[s]
                                  /\ overwritten'[s] = overwritten[s]
    BY <2>1, <2>2 DEF InService, TypeOK, SupervisionTypeOK
  <2>4. LET s == task.src
        IN  \/ /\ v >= CAN_RX_TIME /\ cnt'[s] = CAN_RX_TIME /\ lost'[s] = 1
               /\ ~overwritten'[s] => ~overwritten[s] /\ ~task.reset
            \/ /\ v < CAN_RX_TIME /\ cnt'[s] = cnt[s] /\ lost'[s] = 0
               /\ overwritten'[s] = overwritten[s]
    BY <2>2, CounterTypes DEF TypeOK, SupervisionTypeOK, TaskTypeOK
  <2>5. NotBehind'
    <3> SUFFICES ASSUME NEW s \in Counters
                 PROVE  /\ silent[s] <= cnt'[s]
                        /\ silent[s] = CAN_RX_TIME => lost'[s] = 1
      BY <2>1, <2>3 DEF NotBehind
    <3>1. CASE s = task.src
      <4>1. silent[s] <= v /\ silent[s] <= cnt[s] /\ v \in Nat
        BY <2>1, <2>3, <3>1, CounterTypes DEF NotBehind
      <4> QED
        BY <2>4, <3>1, <4>1, CounterTypes
    <3>2. CASE s # task.src
      BY <2>1, <2>3, <3>2 DEF NotBehind
    <3> QED
      BY <3>1, <3>2
  <2>6. NotAhead'
    <3> SUFFICES ASSUME NEW s \in Counters, ~overwritten'[s]
                 PROVE  /\ Bounded(cnt'[s], s)
                        /\ (lost'[s] = 1 /\ silent[s] > 0) =>
                              Ticks(s) >= CAN_RX_TIME
      BY <2>1, <2>3 DEF NotAhead, Bounded, Ticks
    <3>1. CASE s = task.src
      <4>1. ~overwritten[s] => Bounded(cnt[s], s)
        BY <2>1, <2>3, <3>1 DEF NotAhead
      <4>2. ~overwritten[s] /\ ~task.reset => Bounded(v, s)
        BY <2>1, <2>3, <3>1, <4>1 DEF NotAhead
      <4>3. Ticks(s) \in Nat /\ v \in Nat
        BY <3>1, CounterTypes DEF Ticks
      <4> QED
        BY <2>4, <3>1, <4>1, <4>2, <4>3, CounterTypes DEF Bounded
    <3>2. CASE s # task.src
      BY <2>1, <2>3, <3>2 DEF NotAhead, Bounded, Ticks
    <3> QED
      BY <3>1, <3>2
  <2> QED
    BY <2>5, <2>6 DEF SupInv
<1>6. CASE Receive \/ ReceiveOther
  BY <1>6, RowAssumption, SuperviseSup DEF Receive, ReceiveOther
<1> QED
  BY <1>1, <1>2, <1>3, <1>4, <1>5, <1>6, <1>7
     DEF Next, CanRx, CanTask, Interrupt, LosePacket, vars

(* At the start nothing is counted yet. *)
LEMMA InitSup == Init => SupInv
<1> SUFFICES ASSUME Init PROVE SupInv
  OBVIOUS
<1>1. \A s \in Counters : ~InService(s) /\ cnt[s] = 0 /\ silent[s] = 0
  BY DEF Init, InService
<1>2. frames = 0 /\ CAN_RX_TIME # 0
  BY TimeAssumption DEF Init
<1> QED
  BY <1>1, <1>2 DEF SupInv, NotBehind, NotAhead, Bounded, Ticks

(* The strengthening of the two supervision invariants always holds. *)
THEOREM Supervised == Spec => []SupInv
<1>1. TypeOK /\ TypeOK' /\ SupInv /\ [Next]_vars => SupInv'
  BY SupStep
<1> QED
  BY <1>1, InitSup, Typing, PTL DEF Spec

(* A source that has been silent for CAN_RX_TIME cycles is reported lost   *)
(* (canTask.cc:88-104), for every limit and whatever CanRx preempts.       *)
THEOREM SilenceIsReported == Spec => []SilentReported
<1>1. SupInv => SilentReported
  BY DEF SupInv, NotBehind, SilentReported
<1> QED
  BY <1>1, Supervised, PTL

(* No source is reported lost early, counting for CanFault the frames the  *)
(* interrupt added to CanCnt (canLinker.cc:157), unless CanTask wrote over *)
(* a reset (canTask.cc:88 and 108 against canApp.cc 306-334), for every    *)
(* limit, any number of frames and any queue.                              *)
THEOREM LossIsAccounted == Spec => []NoEarlyLoss
<1>1. SupInv => NoEarlyLoss
  BY DEF SupInv, NotAhead, NoEarlyLoss, Ticks
<1> QED
  BY <1>1, Supervised, PTL

-----------------------------------------------------------------------------
(* While a message waits to be copied its board has nothing more to send,  *)
(* so what CanTask copies stays what was accepted; and a board is polled   *)
(* only when nothing waits.                                                *)
Prefix == ~msg.gap => \A i \in Slots : i < msg.next => canBuf[i] = msg.ver

Counting ==
  /\ msg.next = 0 => (~msg.gap /\ ~alone)
  /\ (alone /\ ~Idle) => /\ dataLen <= msg.next
                          /\ (dataLen = msg.next <=> ~msg.gap)

Waiting ==
  update = 1 =>
    /\ Idle
    /\ accepted # Mixed => \A i \in Slots : canBuf[i] = accepted

Copying ==
  /\ task.at = "copy" => update = 1
  /\ (task.at = "copy" /\ accepted # Mixed) =>
       \A i \in Slots : i < task.slot => appBuf[i] = accepted
  /\ task.at # "copy" => task.slot = 0
  /\ (Due /\ task.at \in {"scan", "copy", "push"}) => Idle
  /\ (Due /\ task.at = "push") => update = 0

BufInv == Prefix /\ Counting /\ Waiting /\ Copying /\ AppIsAccepted

(* The types the buffer proofs use. *)
LEMMA BufferTypes ==
  ASSUME TypeOK
  PROVE  /\ msg.next \in 0..Len /\ msg.ver \in Versions /\ msg.gap \in BOOLEAN
         /\ msg = [next |-> msg.next, ver |-> msg.ver, gap |-> msg.gap]
         /\ update \in {0, 1} /\ dataLen \in Nat /\ alone \in BOOLEAN
         /\ task.slot \in 0..Len /\ accepted \in 0..Mixed
         /\ Len \in Nat \ {0} /\ Slots = 0..(Len - 1)
         /\ canBuf \in [Slots -> Versions] /\ appBuf \in [Slots -> Versions]
BY RowAssumption DEF TypeOK, BufferTypeOK, TaskTypeOK, Slots

(* A packet of the row: the tail is accepted only if the count is right,   *)
(* and the buffer is whole if none was missing.                            *)
LEMMA ReceiveBuf ==
  ASSUME TypeOK, BufInv, Receive
  PROVE  BufInv'
<1> Prefix /\ Counting /\ Waiting /\ Copying /\ AppIsAccepted
  BY DEF BufInv
<1>1. /\ ~Idle /\ update = 0 /\ task.at # "copy"
      /\ msg.next \in Slots
  BY BufferTypes DEF Receive, Waiting, Copying, Idle
<1>2. /\ msg'.next = msg.next + 1 /\ msg'.ver = msg.ver /\ msg'.gap = msg.gap
      /\ appBuf' = appBuf /\ clock' = clock
      /\ task'.at = task.at /\ task'.slot = task.slot
  BY BufferTypes DEF Receive, Supervise, TypeOK, TaskTypeOK
<1>3. /\ canBuf'[msg.next] = msg.ver
      /\ \A i \in Slots : i # msg.next => canBuf'[i] = canBuf[i]
  BY <1>1, BufferTypes DEF Receive, Packet
<1>4. Prefix'
  BY <1>1, <1>2, <1>3, BufferTypes DEF Prefix
<1>5. Counting'
  <2>1. CASE msg.next = 0
    <3>1. ~msg.gap
      BY <2>1 DEF Counting
    <3>2. Idle' \/ dataLen' = 1
      BY <1>1, <1>2, <2>1, BufferTypes
         DEF Receive, Counted, Packet, Tail, Idle
    <3> QED
      BY <1>1, <1>2, <2>1, <3>1, <3>2, BufferTypes DEF Counting
  <2>2. CASE msg.next # 0
    <3>1. alone' = alone
      BY <2>2, BufferTypes DEF Receive, Packet
    <3>2. Idle' \/ dataLen' = dataLen + 1
      BY <1>1, <1>2, <2>2, BufferTypes
         DEF Receive, Counted, Packet, Tail, Idle
    <3> QED
      BY <1>1, <1>2, <2>2, <3>1, <3>2, BufferTypes DEF Counting
  <2> QED
    BY <2>1, <2>2
<1>6. CASE Accepts
  <2>1. update' = 1 /\ Idle'
    BY <1>1, <1>2, <1>6, BufferTypes DEF Receive, Accepts, Tail, Packet, Idle
  <2>2. accepted' # Mixed => \A i \in Slots : canBuf'[i] = accepted'
    BY <1>6 DEF Receive
  <2>3. Waiting' /\ AppIsAccepted'
    BY <2>1, <2>2 DEF Waiting, AppIsAccepted
  <2>4. Due' = Due
    BY <1>2 DEF Due
  <2>5. Copying'
    BY <1>1, <1>2, <2>1, <2>4 DEF Copying
  <2> QED
    BY <1>4, <1>5, <2>3, <2>5 DEF BufInv
<1>7. CASE ~Accepts
  <2>1. update' = update /\ accepted' = accepted
    BY <1>7 DEF Receive
  <2>2. Waiting' /\ AppIsAccepted'
    BY <1>1, <1>2, <2>1 DEF Waiting, AppIsAccepted
  <2>4. Due' = Due
    BY <1>2 DEF Due
  <2>5. Copying'
    BY <1>1, <1>2, <2>1, <2>4 DEF Copying
  <2> QED
    BY <1>4, <1>5, <2>2, <2>5 DEF BufInv
<1> QED
  BY <1>6, <1>7

(* Every step keeps the double buffer's invariant. *)
LEMMA BufStep == TypeOK /\ BufInv /\ [Next]_vars => BufInv'
<1> SUFFICES ASSUME TypeOK, BufInv, [Next]_vars PROVE BufInv'
  OBVIOUS
<1> Prefix /\ Counting /\ Waiting /\ Copying /\ AppIsAccepted
  BY DEF BufInv
<1>1. CASE WaitCycle \/ ScanRow \/ LoadCounter \/ StoreCounter \/ JudgeCounter
           \/ Interrupt \/ HandleUnmatched \/ UNCHANGED vars
  <2>1. UNCHANGED <<msg, bufVars, appBuf, clock>>
    BY <1>1 DEF WaitCycle, ScanRow, LoadCounter, StoreCounter, JudgeCounter,
       Interrupt, HandleUnmatched, vars
  <2>2. Prefix' /\ Counting' /\ Waiting' /\ AppIsAccepted' /\ Due' = Due
        /\ Idle' = Idle /\ update' = update
    BY <2>1 DEF bufVars, Prefix, Counting, Waiting, AppIsAccepted, Idle, Due
  <2>3. Copying'
    <3>1. CASE WaitCycle
      <4>1. task'.at = "scan" /\ task'.slot = task.slot /\ (Due => Idle)
            /\ task.at = "wait"
        BY <3>1 DEF WaitCycle, TypeOK, TaskTypeOK
      <4> QED
        BY <2>2, <4>1 DEF Copying
    <3>2. CASE ScanRow
      <4>1. task'.at = (IF update = 1 THEN "copy" ELSE "push")
            /\ task'.slot = task.slot /\ task.at = "scan"
        BY <3>2 DEF ScanRow, TypeOK, TaskTypeOK
      <4>2. task.slot = 0 /\ update \in {0, 1}
        BY <4>1, BufferTypes DEF Copying
      <4> QED
        BY <2>2, <4>1, <4>2, BufferTypes DEF Copying
    <3>3. CASE LoadCounter \/ StoreCounter \/ JudgeCounter
      <4>1. /\ task.at \notin {"scan", "copy", "push"}
            /\ task'.at \notin {"scan", "copy", "push"} /\ task'.slot = task.slot
        BY <3>3 DEF LoadCounter, StoreCounter, JudgeCounter, NextCounter,
           TypeOK, TaskTypeOK
      <4> QED
        BY <2>2, <4>1 DEF Copying
    <3>4. CASE Interrupt \/ HandleUnmatched \/ UNCHANGED vars
      <4>1. task' = task
        BY <3>4 DEF Interrupt, HandleUnmatched, vars
      <4> QED
        BY <2>1, <2>2, <4>1 DEF Copying, bufVars
    <3> QED
      BY <1>1, <3>1, <3>2, <3>3, <3>4
  <2> QED
    BY <2>2, <2>3 DEF BufInv
<1>2. CASE CopyPacket
  <2>1. UNCHANGED <<msg, bufVars, clock>> /\ update = 1
    BY <1>2 DEF CopyPacket, Copying
  <2>2. Prefix' /\ Counting' /\ Waiting' /\ AppIsAccepted'
    BY <2>1 DEF bufVars, Prefix, Counting, Waiting, AppIsAccepted, Idle
  <2>3. /\ task.at = "copy" /\ task'.at = "copy" /\ task'.slot = task.slot + 1
        /\ task.slot \in Slots
    BY <1>2, BufferTypes DEF CopyPacket, TypeOK, TaskTypeOK
  <2>4. /\ appBuf'[task.slot] = canBuf[task.slot]
        /\ \A i \in Slots : i # task.slot => appBuf'[i] = appBuf[i]
    BY <1>2, <2>3, BufferTypes DEF CopyPacket
  <2>5. accepted # Mixed => \A i \in Slots : i < task.slot + 1 =>
                              appBuf'[i] = accepted
    BY <2>1, <2>3, <2>4, BufferTypes DEF Waiting, Copying
  <2>6. Due' = Due /\ Idle' = Idle
    BY <2>1 DEF Due, Idle
  <2>7. Copying'
    BY <2>1, <2>3, <2>5, <2>6 DEF Copying, bufVars
  <2> QED
    BY <2>2, <2>7 DEF BufInv
<1>3. CASE ClearUpdate
  <2>1. /\ task.at = "copy" /\ task.slot = Len /\ update' = 0
        /\ task'.at = "push" /\ task'.slot = 0
        /\ UNCHANGED <<msg, canBuf, dataLen, accepted, alone, appBuf, clock>>
    BY <1>3 DEF ClearUpdate, TypeOK, TaskTypeOK
  <2>2. accepted # Mixed => \A i \in Slots : appBuf[i] = accepted
    BY <2>1, BufferTypes DEF Copying
  <2>3. Prefix' /\ Counting' /\ Waiting' /\ AppIsAccepted'
    BY <2>1, <2>2 DEF Prefix, Counting, Waiting, AppIsAccepted, Idle
  <2>4. Due' = Due /\ Idle' = Idle
    BY <2>1 DEF Due, Idle
  <2>5. Copying'
    BY <2>1, <2>4 DEF Copying
  <2> QED
    BY <2>3, <2>5 DEF BufInv
<1>4. CASE Poll
  <2>1. /\ task.at = "push" /\ Due /\ update = 0 /\ alone' = FALSE
        /\ msg'.next = 0 /\ msg'.gap = FALSE
        /\ task'.at = "load" /\ task'.slot = task.slot
        /\ UNCHANGED <<canBuf, update, dataLen, accepted, appBuf>>
    BY <1>4 DEF Poll, Copying, TypeOK, TaskTypeOK
  <2>2. Prefix' /\ Counting'
    BY <2>1, BufferTypes DEF Prefix, Counting
  <2>3. Waiting' /\ AppIsAccepted' /\ Copying'
    BY <2>1 DEF Waiting, AppIsAccepted, Copying
  <2> QED
    BY <2>2, <2>3 DEF BufInv
<1>5. CASE PollNotDue
  <2>1. /\ UNCHANGED <<msg, bufVars, appBuf>>
        /\ task.at = "push" /\ task'.at = "load" /\ task'.slot = task.slot
    BY <1>5 DEF PollNotDue, TypeOK, TaskTypeOK
  <2>2. Prefix' /\ Counting' /\ Waiting' /\ AppIsAccepted'
    BY <2>1 DEF bufVars, Prefix, Counting, Waiting, AppIsAccepted, Idle
  <2>3. Copying'
    BY <2>1 DEF Copying
  <2> QED
    BY <2>2, <2>3 DEF BufInv
<1>6. CASE LosePacket
  <2>1. /\ ~Idle /\ msg'.next = msg.next + 1 /\ msg'.gap = TRUE
        /\ UNCHANGED <<bufVars, appBuf, clock, task>>
    BY <1>6, BufferTypes DEF LosePacket
  <2>2. update = 0
    BY <2>1, BufferTypes DEF Waiting
  <2>3. Prefix'
    BY <2>1 DEF Prefix
  <2>4. Counting'
    <3>1. alone => dataLen <= msg.next
      BY <2>1 DEF Counting
    <3>2. alone' = alone /\ dataLen' = dataLen
      BY <2>1 DEF bufVars
    <3>3. msg'.next # 0 /\ (alone => dataLen < msg'.next)
      BY <2>1, <3>1, BufferTypes
    <3> QED
      BY <2>1, <3>2, <3>3, BufferTypes DEF Counting
  <2>5. Waiting' /\ AppIsAccepted'
    BY <2>1, <2>2 DEF Waiting, AppIsAccepted, bufVars
  <2>6. Due' = Due
    BY <2>1 DEF Due
  <2>7. Copying'
    BY <2>1, <2>2, <2>6 DEF Copying, bufVars
  <2> QED
    BY <2>3, <2>4, <2>5, <2>7 DEF BufInv
<1>7. CASE Receive
  BY <1>7, ReceiveBuf
<1>8. CASE ReceiveOther
  <2>1. /\ UNCHANGED <<msg, canBuf, update, accepted, appBuf, clock>>
        /\ alone' = FALSE
    BY <1>8 DEF ReceiveOther
  <2>2. task'.at = task.at /\ task'.slot = task.slot
    BY <1>8 DEF ReceiveOther, Supervise, TypeOK, TaskTypeOK
  <2>3. Prefix' /\ Counting' /\ Waiting' /\ AppIsAccepted'
    BY <2>1 DEF Prefix, Counting, Waiting, AppIsAccepted, Idle
  <2>4. Due' = Due /\ Idle' = Idle
    BY <2>1 DEF Due, Idle
  <2>5. Copying'
    BY <2>1, <2>2, <2>4 DEF Copying
  <2> QED
    BY <2>3, <2>5 DEF BufInv
<1> QED
  BY <1>1, <1>2, <1>3, <1>4, <1>5, <1>6, <1>7, <1>8
     DEF Next, CanRx, CanTask

(* At the start both buffers hold the same. *)
LEMMA InitBuf == Init => BufInv
<1> SUFFICES ASSUME Init PROVE BufInv
  OBVIOUS
<1>1. /\ msg.next = Len /\ msg.ver = 0 /\ ~msg.gap /\ ~alone
      /\ update = 0 /\ accepted = 0 /\ task.at = "wait" /\ task.slot = 0
      /\ \A i \in Slots : canBuf[i] = 0 /\ appBuf[i] = 0
  BY DEF Init
<1> QED
  BY <1>1, RowAssumption DEF BufInv, Prefix, Counting, Waiting, Copying,
     AppIsAccepted, Idle

(* The strengthening of AppIsAccepted always holds. *)
THEOREM Buffered == Spec => []BufInv
<1>1. TypeOK /\ BufInv /\ [Next]_vars => BufInv'
  BY BufStep
<1> QED
  BY <1>1, InitBuf, Typing, PTL DEF Spec

(* What the Logic thread reads is the last message accepted, whole, for    *)
(* messages of any length and any preemption of CycleMsgUpdate_data        *)
(* (canApp.cc:384-388).                                                    *)
THEOREM AppHoldsAccepted == Spec => []AppIsAccepted
<1>1. BufInv => AppIsAccepted
  BY DEF BufInv
<1> QED
  BY <1>1, Buffered, PTL

(* The length check of MsgRx_Deal (canApp.cc:102-116) accepts a message    *)
(* that came alone if and only if it is complete, and never mixes one that *)
(* is complete.                                                            *)
THEOREM AcceptanceIsWhole == Spec => AcceptedWhole
<1>1. TypeOK /\ BufInv /\ [Next]_vars =>
        [(Receive /\ Tail) =>
           /\ (Packet = 0 \/ alone) => (Accepts <=> ~msg.gap)
           /\ (Accepts /\ ~msg.gap) => accepted' # Mixed]_vars
  <2> SUFFICES ASSUME TypeOK, BufInv, Receive, Tail
               PROVE  /\ (Packet = 0 \/ alone) => (Accepts <=> ~msg.gap)
                      /\ (Accepts /\ ~msg.gap) => accepted' # Mixed
    OBVIOUS
  <2>1. /\ ~Idle /\ msg.next = Len - 1 /\ Counting /\ Prefix
        /\ Accepts <=> Counted = Len
    BY DEF Receive, Tail, Packet, BufInv, Accepts
  <2>2. (Packet = 0 \/ alone) => (Accepts <=> ~msg.gap)
    <3>1. CASE msg.next = 0
      BY <2>1, <3>1, BufferTypes DEF Counting, Counted, Packet
    <3>2. CASE msg.next # 0
      BY <2>1, <3>2, BufferTypes DEF Counting, Counted, Packet
    <3> QED
      BY <3>1, <3>2
  <2>3. ASSUME Accepts, ~msg.gap PROVE accepted' # Mixed
    <3>1. /\ canBuf'[msg.next] = msg.ver /\ msg.next \in Slots
          /\ \A i \in Slots : i # msg.next => canBuf'[i] = canBuf[i]
      BY <2>1, BufferTypes DEF Receive, Packet
    <3>2. \A i \in Slots : canBuf'[i] = msg.ver
      BY <2>1, <2>3, <3>1, BufferTypes DEF Prefix
    <3>3. accepted' = msg.ver
      BY <2>3, <3>2 DEF Receive
    <3> QED
      BY <3>3, BufferTypes, BoundsAssumption DEF Versions, Mixed
  <2> QED
    BY <2>2, <2>3
<1> QED
  BY <1>1, Typing, Buffered, PTL DEF Spec, AcceptedWhole
=============================================================================
