------------------------------- MODULE CanRx -------------------------------
(***************************************************************************)
(* The receive path: CAN1_RX0_IRQ and CAN2_RX0_IRQ (can/Bsp_can.c) push    *)
(* the received frame into canRxQueue and the thread CanRx drains it       *)
(* (can/canTask.cc, CanApp_Rx_Task).  The two interrupts have the same     *)
(* preemption priority, so Push_Msg runs whole with respect to the other   *)
(* interrupt and to every thread: the producer is one atomic step, which   *)
(* may come between any two steps of CanRx.                                *)
(***************************************************************************)
EXTENDS CanQueue

CONSTANTS
  MaxSem     (* bound: no interrupt comes while the semaphore is this high *)

ASSUME MaxSemAssumption == MaxSem \in Nat

VARIABLES
  rxPc       (* where CanRx is in CanApp_Rx_Task *)

vars == <<queueVars, rxPc>>

Init ==
  /\ QueueInit
  /\ rxPc = "take"

-----------------------------------------------------------------------------
(* RxQueue::Push_Msg in the interrupt. *)

RxIsr(f) ==
  /\ can_OPsem < MaxSem
  /\ FillBlock(f)
  /\ StoreEntry(f)
  /\ NextBlock
  /\ UNCHANGED <<QOut, Register, buffRamPtr, delivered, inService, rxPc>>

RxIsrFull(f) ==
  /\ can_OPsem < MaxSem
  /\ FillBlock(f)
  /\ QEntries >= QSize
  /\ Register' = FIFO_FULL_MASK
  /\ NextBlock
  /\ UNCHANGED <<ringVars, buffRamPtr, delivered, backlog, inService, rxPc>>

-----------------------------------------------------------------------------
(* CanRx *)

TakeSem ==
  /\ rxPc = "take"
  /\ can_OPsem > 0
  /\ can_OPsem' = can_OPsem - 1
  /\ rxPc' = "push_Q"
  /\ UNCHANGED <<ringVars, poolVars, Register, buffRamPtr, delivered,
                 backlog, inService, overrun>>

PushQ ==
  /\ rxPc = "push_Q"
  /\ RemoveEntry
  /\ rxPc' = "process"
  /\ UNCHANGED <<QIn, QueueRam, poolVars, Register, can_OPsem, delivered,
                 overrun>>

(* Mutation: the block at the fill pointer is processed. *)
ProcessNewest ==
  /\ rxPc = "process"
  /\ delivered' = DataFIFO[FifoRamPtr]
  /\ inService' = NoFrame
  /\ rxPc' = "push_Q"
  /\ UNCHANGED <<ringVars, poolVars, Register, can_OPsem, buffRamPtr,
                 backlog, overrun>>

(* _App_Can_Rx works on the block in place. *)
Process ==
  /\ rxPc = "process"
  /\ delivered' = DataFIFO[buffRamPtr]
  /\ inService' = NoFrame
  /\ rxPc' = "push_Q"
  /\ UNCHANGED <<ringVars, poolVars, Register, can_OPsem, buffRamPtr,
                 backlog, overrun>>

PushQEmpty ==
  /\ rxPc = "push_Q"
  /\ FindEmpty
  /\ rxPc' = "clear"
  /\ UNCHANGED <<ringVars, poolVars, Register, can_OPsem, delivered,
                 backlog, inService>>

(* Mutation: the drained queue leaves the register alone. *)
ClearRegNever ==
  /\ rxPc = "clear"
  /\ rxPc' = "take"
  /\ UNCHANGED queueVars

(* The register is cleared after push_Q has enabled interrupts again. *)
ClearReg ==
  /\ rxPc = "clear"
  /\ Register' = FIFO_EMPTY_MASK
  /\ rxPc' = "take"
  /\ UNCHANGED <<ringVars, poolVars, can_OPsem, buffRamPtr, delivered,
                 backlog, inService, overrun>>

-----------------------------------------------------------------------------
Isr == \E f \in Frames : RxIsr(f) \/ RxIsrFull(f)
CanRxThread == TakeSem \/ PushQ \/ Process \/ PushQEmpty \/ ClearReg

Next == Isr \/ CanRxThread

Spec == Init /\ [][Next]_vars

(* CanRx has the highest priority of all threads (6), so it runs whenever  *)
(* it can and no interrupt is being served.                                *)
FairSpec == Spec /\ WF_vars(CanRxThread)

-----------------------------------------------------------------------------
TypeOK ==
  /\ QueueTypeOK
  /\ rxPc \in {"take", "push_Q", "process", "clear"}

(* No lost wakeup: CanRx blocks on the semaphore only over an empty queue, *)
(* except that a frame may have come in just before it cleared the         *)
(* register, and that frame has left a count on the semaphore              *)
(* (canTask.cc 146-149 and 239).                                           *)
NoLostWakeup ==
  (rxPc \in {"take", "clear"} /\ can_OPsem = 0) => QEntries = 0

(* While the register refuses the interrupts' frames, CanRx is on its way  *)
(* to clear it: a FULL set between push_Q's "nothing left" and             *)
(* SetFifoReg(FIFO_EMPTY_MASK), or at any other point, never shuts the     *)
(* receive path for good.                                                  *)
FullIsServed ==
  Register = FIFO_FULL_MASK => (rxPc # "take" \/ can_OPsem > 0)

(* The frame MsgRx_Manage works on is not overwritten by the interrupt, as *)
(* long as no push meets QSize - 1 entries.                                *)
InServiceIntact ==
  (rxPc = "process" /\ ~overrun) => DataFIFO[buffRamPtr] = inService

(* Reception resumes after every overflow. *)
FullClears == Register = FIFO_FULL_MASK ~> Register = FIFO_EMPTY_MASK

(* The receive queue is the channel MsgRx_Manage relies on. *)
Channel == INSTANCE FrameChannel WITH Capacity <- QSize - 1
ImplementsChannel == Channel!Spec
=============================================================================
