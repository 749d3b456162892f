------------------------------- MODULE CanTx -------------------------------
(***************************************************************************)
(* The transmit path of CAN1/CAN2: the thread CanTask pushes frames into   *)
(* canTxQueue and the thread CanTx moves them to the controllers' mail     *)
(* boxes (can/canTask.cc, CanApp_Tx_Task).  The two threads have the same  *)
(* priority and time slices of 10 and 15 ticks, so either may be suspended *)
(* between any two steps below; a step is either inside one interrupt lock *)
(* or touches one shared word.                                             *)
(***************************************************************************)
EXTENDS CanQueue

CONSTANTS
  MaxResend, (* the 3 in "resendCnt < 3"                                  *)
  MaxSem     (* bound: no push starts while the semaphore is this high    *)

ASSUME MaxResendAssumption == MaxResend \in Nat
ASSUME MaxSemAssumption == MaxSem \in Nat

VARIABLES
  pushPc,    (* where CanTask is in TxQueue::Push_Msg *)
  txPc,      (* where CanTx is in CanApp_Tx_Task      *)
  resendCnt  (* failed attempts on the current frame  *)

vars == <<queueVars, pushPc, txPc, resendCnt>>

Init ==
  /\ QueueInit
  /\ pushPc = "idle"
  /\ txPc = "take"
  /\ resendCnt = 0

-----------------------------------------------------------------------------
(* CanTask in Push_Msg *)

PushMsg(f) ==
  /\ pushPc = "idle"
  /\ can_OPsem < MaxSem
  /\ FillBlock(f)
  /\ pushPc' = "pop_Q"
  /\ UNCHANGED <<ringVars, Register, FifoRamPtr, can_OPsem, buffRamPtr,
                 delivered, backlog, inService, txPc, resendCnt>>

PopQ ==
  /\ pushPc = "pop_Q"
  /\ StoreEntry(DataFIFO[FifoRamPtr])
  /\ pushPc' = "release"
  /\ UNCHANGED <<QOut, Register, poolVars, can_OPsem, buffRamPtr, delivered,
                 inService, overrun, txPc, resendCnt>>

(* pop_Q on a full queue: interrupts are enabled again BEFORE the register *)
(* is set.                                                                 *)
PopQFull ==
  /\ pushPc = "pop_Q"
  /\ QEntries >= QSize
  /\ pushPc' = "setFull"
  /\ UNCHANGED <<queueVars, txPc, resendCnt>>

SetFull ==
  /\ pushPc = "setFull"
  /\ Register' = FIFO_FULL_MASK
  /\ pushPc' = "release"
  /\ UNCHANGED <<ringVars, poolVars, can_OPsem, buffRamPtr, delivered,
                 backlog, inService, overrun, txPc, resendCnt>>

Release ==
  /\ pushPc = "release"
  /\ NextBlock
  /\ pushPc' = "idle"
  /\ UNCHANGED <<ringVars, Register, DataFIFO, buffRamPtr, delivered,
                 backlog, inService, overrun, txPc, resendCnt>>

-----------------------------------------------------------------------------
(* CanTx *)

TakeSem ==
  /\ txPc = "take"
  /\ can_OPsem > 0
  /\ can_OPsem' = can_OPsem - 1
  /\ txPc' = "push_Q"
  /\ UNCHANGED <<ringVars, poolVars, Register, buffRamPtr, delivered,
                 backlog, inService, overrun, pushPc, resendCnt>>

PushQ ==
  /\ txPc = "push_Q"
  /\ RemoveEntry
  /\ txPc' = "clear"
  /\ UNCHANGED <<QIn, QueueRam, poolVars, Register, can_OPsem, delivered,
                 overrun, pushPc, resendCnt>>

PushQEmpty ==
  /\ txPc = "push_Q"
  /\ FindEmpty
  /\ txPc' = "take"
  /\ UNCHANGED <<ringVars, poolVars, Register, can_OPsem, delivered,
                 backlog, inService, pushPc, resendCnt>>

(* Mutation: the register is never cleared. *)
ClearRegNever ==
  /\ txPc = "clear"
  /\ txPc' = "send"
  /\ UNCHANGED <<queueVars, pushPc, resendCnt>>

ClearReg ==
  /\ txPc = "clear"
  /\ Register' = FIFO_EMPTY_MASK
  /\ txPc' = "send"
  /\ UNCHANGED <<ringVars, poolVars, can_OPsem, buffRamPtr, delivered,
                 backlog, inService, overrun, pushPc, resendCnt>>

(* Mutation: a frame sent is sent again because mailFull is left set. *)
SentTwice ==
  /\ txPc = "send"
  /\ delivered' = DataFIFO[buffRamPtr]
  /\ inService' = NoFrame
  /\ resendCnt' = 0
  /\ UNCHANGED <<ringVars, poolVars, Register, can_OPsem, buffRamPtr,
                 backlog, overrun, pushPc, txPc>>

(* CAN_Transmit found a mail box: the block, as it is now, goes out. *)
Sent ==
  /\ txPc = "send"
  /\ delivered' = DataFIFO[buffRamPtr]
  /\ inService' = NoFrame
  /\ resendCnt' = 0
  /\ txPc' = "push_Q"
  /\ UNCHANGED <<ringVars, poolVars, Register, can_OPsem, buffRamPtr,
                 backlog, overrun, pushPc>>

(* No mail box: sleep one tick and try again. *)
Resend ==
  /\ txPc = "send"
  /\ resendCnt < MaxResend
  /\ resendCnt' = resendCnt + 1
  /\ UNCHANGED <<queueVars, pushPc, txPc>>

(* No mail box on the last attempt: the frame is given up. *)
GiveUp ==
  /\ txPc = "send"
  /\ resendCnt >= MaxResend
  /\ inService' = NoFrame
  /\ resendCnt' = 0
  /\ txPc' = "push_Q"
  /\ UNCHANGED <<ringVars, poolVars, Register, can_OPsem, buffRamPtr,
                 delivered, backlog, overrun, pushPc>>

-----------------------------------------------------------------------------
CanTask == (\E f \in Frames : PushMsg(f)) \/ PopQ \/ PopQFull \/ SetFull \/ Release
CanTxThread == TakeSem \/ PushQ \/ PushQEmpty \/ ClearReg \/ Sent \/ Resend \/ GiveUp

Next == CanTask \/ CanTxThread

Spec == Init /\ [][Next]_vars

(* CanTask only ever blocks outside Push_Msg and the scheduler shares the  *)
(* processor between the two equal-priority threads by time slice, so each *)
(* of them finishes what it has begun.                                     *)
FairSpec ==
  Spec /\ WF_vars(CanTxThread) /\ WF_vars(PopQ \/ PopQFull \/ SetFull \/ Release)

-----------------------------------------------------------------------------
TypeOK ==
  /\ QueueTypeOK
  /\ pushPc \in {"idle", "pop_Q", "setFull", "release"}
  /\ txPc \in {"take", "push_Q", "clear", "send"}
  /\ resendCnt \in 0 .. MaxResend

(* No lost wakeup: a consumer about to block on the semaphore with the     *)
(* count at 0 leaves no frame behind, unless the producer is still on its  *)
(* way to rt_sem_release (canTask.cc 273, canTxQueue.cc 58).               *)
NoLostWakeup ==
  (txPc = "take" /\ can_OPsem = 0 /\ pushPc # "release") => QEntries = 0

(* The frame being sent, and resent after each one-tick sleep, stays what  *)
(* was accepted: CanTask does not reuse the block while CanTx holds it     *)
(* (canTask.cc 188-212), as long as no push meets QSize - 1 entries.       *)
InServiceIntact ==
  (txPc \in {"clear", "send"} /\ ~overrun) => DataFIFO[buffRamPtr] = inService

(* A full queue does not stay refused while there is something to send:    *)
(* the next dequeue clears the register (canTask.cc 182-184).              *)
FullClears ==
  (Register = FIFO_FULL_MASK /\ QEntries > 0) ~> (Register = FIFO_EMPTY_MASK)

(* pop_Q declares the queue full, "队列已满，置位寄存器"                    *)
(* (canTxQueue.cc 78), only once it holds QSize entries, and pushes an     *)
(* accepted block number into the queue, "压入队列" (82): whatever it has  *)
(* accepted is in the queue until it is dequeued.                          *)
AcceptedFramesKept ==
  \A k \in 0 .. QEntries - 1 : DataFIFO[QueueRam[Word(k)]] = backlog[k + 1]

(* The register says FULL because "队列已满", the queue is full             *)
(* (canTxQueue.cc 78); both threads at rest over an empty queue that still *)
(* says FULL would refuse every further frame for good.                    *)
NotLockedOut ==
  ~ /\ Register = FIFO_FULL_MASK
    /\ QEntries = 0
    /\ pushPc = "idle"
    /\ txPc = "take" /\ can_OPsem = 0

(* The queue is the channel its users rely on: outside an overrun frames   *)
(* leave in the order and with the contents of Push_Msg, and an overrun    *)
(* ends when the queue has been drained.                                   *)
Channel == INSTANCE FrameChannel WITH Capacity <- QSize - 1
ImplementsChannel == Channel!Spec
=============================================================================
