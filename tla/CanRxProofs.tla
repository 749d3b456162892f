---------------------------- MODULE CanRxProofs ----------------------------
(***************************************************************************)
(* Proofs about CanRx, for every queue size, set of frames and bound.  The *)
(* producer is one atomic step here, so that the invariants need no cases  *)
(* for a push under way; the consumer keeps its block while it processes.  *)
(***************************************************************************)
EXTENDS CanRx, SequenceTheorems, TLAPS

(* TypeOK is not inductive alone: push_Q takes the head of the backlog. *)
RxTypeInv ==
  /\ TypeOK
  /\ Len(backlog) = QEntries
  /\ rxPc = "process" => buffRamPtr \in Blocks

(* The initial state satisfies the strengthened type invariant. *)
LEMMA InitRxType == Init => RxTypeInv
<1> SUFFICES ASSUME Init PROVE RxTypeInv
  OBVIOUS
<1> USE QSizeAssumption DEF Init, QueueInit, QStart, Blocks
<1>1. /\ QueueRam \in [Blocks -> Blocks] /\ FifoRamPtr \in Blocks
      /\ DataFIFO \in [Blocks -> Frames \cup {NoFrame}]
  OBVIOUS
<1>2. backlog \in Seq(Frames) /\ Len(backlog) = 0
  OBVIOUS
<1>3. QIn \in 0 .. QSize - 2 /\ QOut \in 0 .. QSize - 2 /\ QEntries \in 0 .. QSize
  OBVIOUS
<1>4. QED
  BY <1>1, <1>2, <1>3
     DEF RxTypeInv, TypeOK, QueueTypeOK, FIFO_EMPTY_MASK, FIFO_FULL_MASK

(* The interrupt's step keeps the types. *)
LEMMA IsrType == ASSUME RxTypeInv, Isr PROVE RxTypeInv'
<1> USE QSizeAssumption DEF RxTypeInv, TypeOK, QueueTypeOK, Blocks, QStart,
        QEnd, FIFO_EMPTY_MASK, FIFO_FULL_MASK, ringVars
<1>1. ASSUME NEW f \in Frames, RxIsr(f) PROVE RxTypeInv'
  <2>1. /\ backlog' = Append(backlog, f) /\ QEntries' = QEntries + 1
        /\ QEntries < QSize
        /\ UNCHANGED <<QOut, Register, buffRamPtr, delivered, inService, rxPc>>
    BY <1>1 DEF RxIsr, StoreEntry
  <2>2. backlog' \in Seq(Frames) /\ Len(backlog') = QEntries'
    BY <2>1
  <2>3. QIn' \in 0 .. QSize - 2 /\ QueueRam' \in [Blocks -> Blocks]
    BY <1>1 DEF RxIsr, StoreEntry, Wrap
  <2>4. /\ FifoRamPtr' \in Blocks /\ can_OPsem' \in Nat
        /\ DataFIFO' \in [Blocks -> Frames \cup {NoFrame}]
        /\ overrun' \in BOOLEAN
    BY <1>1 DEF RxIsr, FillBlock, NextBlock
  <2>5. QEntries' \in 0 .. QSize
    BY <2>1
  <2>6. QueueTypeOK'
    BY <2>1, <2>2, <2>3, <2>4, <2>5
  <2>7. QED
    BY <2>1, <2>2, <2>6
<1>2. ASSUME NEW f \in Frames, RxIsrFull(f) PROVE RxTypeInv'
  BY <1>2 DEF RxIsrFull, FillBlock, NextBlock
<1>3. QED
  BY <1>1, <1>2 DEF Isr

(* CanRx's steps keep the types. *)
LEMMA CanRxThreadType == ASSUME RxTypeInv, CanRxThread PROVE RxTypeInv'
<1> USE QSizeAssumption
    DEF RxTypeInv, TypeOK, QueueTypeOK, Blocks, QStart, QEnd,
        FIFO_EMPTY_MASK, FIFO_FULL_MASK, ringVars, poolVars
<1>1. CASE TakeSem
  BY <1>1 DEF TakeSem
<1>2. CASE PushQ
  <2>1. backlog # <<>>
    BY <1>2 DEF PushQ, RemoveEntry
  <2>2. /\ Head(backlog) \in Frames
        /\ Tail(backlog) \in Seq(Frames)
        /\ Len(Tail(backlog)) = QEntries - 1
    BY <2>1, HeadTailProperties
  <2>3. QOut' \in 0 .. QSize - 2 /\ buffRamPtr' \in Blocks
    BY <1>2 DEF PushQ, RemoveEntry, Wrap
  <2>4. /\ QEntries' = QEntries - 1 /\ QEntries' \in 0 .. QSize
        /\ inService' = Head(backlog) /\ backlog' = Tail(backlog)
    BY <1>2 DEF PushQ, RemoveEntry
  <2>5. /\ UNCHANGED <<QIn, QueueRam, poolVars, Register, can_OPsem,
                       delivered, overrun>>
        /\ rxPc' = "process"
    BY <1>2 DEF PushQ
  <2>6. QED
    BY <2>2, <2>3, <2>4, <2>5
<1>3. CASE Process
  BY <1>3 DEF Process
<1>4. CASE PushQEmpty
  BY <1>4 DEF PushQEmpty, FindEmpty
<1>5. CASE ClearReg
  BY <1>5 DEF ClearReg
<1>6. QED
  BY <1>1, <1>2, <1>3, <1>4, <1>5 DEF CanRxThread

(* Every step keeps it. *)
LEMMA RxTypeInductive == RxTypeInv /\ [Next]_vars => RxTypeInv'
<1> SUFFICES ASSUME RxTypeInv, [Next]_vars PROVE RxTypeInv'
  OBVIOUS
<1>1. CASE UNCHANGED vars
  BY <1>1 DEF vars, queueVars, RxTypeInv, TypeOK, QueueTypeOK, Blocks
<1>2. QED
  BY <1>1, IsrType, CanRxThreadType DEF Next

(* It holds in every reachable state. *)
LEMMA RxTypeAlways == Spec => []RxTypeInv
<1>1. QED
  BY InitRxType, RxTypeInductive, PTL DEF Spec

(* Every variable keeps its type: the ring indices stay inside the ring    *)
(* and QEntries never exceeds QSize, wherever the interrupts come          *)
(* (canRxQueue.cc 29-146).                                                 *)
THEOREM RxTypeCorrect == Spec => []TypeOK
<1>1. RxTypeInv => TypeOK
  BY DEF RxTypeInv
<1>2. QED
  BY <1>1, RxTypeAlways, PTL

-----------------------------------------------------------------------------
(* CanRx never blocks on the semaphore over a queued frame, though one     *)
(* count may stand for many frames (canTask.cc 131-150 and 239).           *)
THEOREM RxNoLostWakeup == Spec => []NoLostWakeup
<1>1. Init => NoLostWakeup
  BY DEF Init, QueueInit, NoLostWakeup
<1>2. RxTypeInv /\ NoLostWakeup /\ [Next]_vars => NoLostWakeup'
  <2> SUFFICES ASSUME RxTypeInv, NoLostWakeup, [Next]_vars PROVE NoLostWakeup'
    OBVIOUS
  <2>1. can_OPsem \in Nat
    BY DEF RxTypeInv, TypeOK, QueueTypeOK
  <2>2. CASE Isr
    <3>1. can_OPsem' = can_OPsem + 1
      BY <2>2 DEF Isr, RxIsr, RxIsrFull, NextBlock
    <3>2. QED
      BY <2>1, <3>1 DEF NoLostWakeup
  <2>3. CASE CanRxThread
    BY <2>1, <2>3
       DEF CanRxThread, TakeSem, PushQ, Process, PushQEmpty, FindEmpty,
           ClearReg, ringVars, NoLostWakeup
  <2>4. CASE UNCHANGED vars
    BY <2>4 DEF vars, queueVars, NoLostWakeup
  <2>5. QED
    BY <2>2, <2>3, <2>4 DEF Next
<1>3. QED
  BY <1>1, <1>2, RxTypeAlways, PTL DEF Spec

(* A register that refuses frames is about to be cleared, wherever the     *)
(* interrupt set it (canTask.cc 146-149, canRxQueue.cc 79-87).             *)
THEOREM RxFullIsServed == Spec => []FullIsServed
<1>1. Init => FullIsServed
  BY DEF Init, QueueInit, FullIsServed, FIFO_EMPTY_MASK, FIFO_FULL_MASK
<1>2. RxTypeInv /\ FullIsServed /\ [Next]_vars => FullIsServed'
  <2> SUFFICES ASSUME RxTypeInv, FullIsServed, [Next]_vars PROVE FullIsServed'
    OBVIOUS
  <2>1. can_OPsem \in Nat
    BY DEF RxTypeInv, TypeOK, QueueTypeOK
  <2>2. CASE Isr
    <3>1. can_OPsem' = can_OPsem + 1
      BY <2>2 DEF Isr, RxIsr, RxIsrFull, NextBlock
    <3>2. QED
      BY <2>1, <3>1 DEF FullIsServed
  <2>3. CASE CanRxThread
    BY <2>1, <2>3
       DEF CanRxThread, TakeSem, PushQ, Process, PushQEmpty, FindEmpty,
           ClearReg, ringVars, FullIsServed, FIFO_EMPTY_MASK, FIFO_FULL_MASK
  <2>4. CASE UNCHANGED vars
    BY <2>4 DEF vars, queueVars, FullIsServed
  <2>5. QED
    BY <2>2, <2>3, <2>4 DEF Next
<1>3. QED
  BY <1>1, <1>2, RxTypeAlways, PTL DEF Spec

-----------------------------------------------------------------------------
(* The inductive invariant behind order and contents.  Outside an overrun  *)
(* the queued blocks are consecutive in the pool and end at the newest     *)
(* one, and the block CanRx holds is the one before them; an interrupt     *)
(* writes the block after the newest.                                      *)
Newest == IF FifoRamPtr = 0 THEN QSize - 1 ELSE FifoRamPtr - 1

(* The block d steps before block n in the pool. *)
Back(n, d) == IF n >= d THEN n - d ELSE n - d + QSize

BlocksInOrder ==
  ~overrun => \A k \in 0 .. QEntries - 1 :
                QueueRam[Word(k)] = Back(Newest, QEntries - 1 - k)

HeldBeforeThem ==
  (~overrun /\ rxPc = "process") => buffRamPtr = Back(Newest, QEntries)

NotOverfull == ~overrun => QEntries <= QSize - 1

ServiceFlag == (inService = NoFrame) <=> (rxPc # "process")

RxOrderInv ==
  /\ RingConsistent
  /\ NotOverfull
  /\ BlocksInOrder
  /\ HeldBeforeThem
  /\ BacklogIntact
  /\ InServiceIntact
  /\ ServiceFlag

(* A block counted back from the newest one is not the block that the next *)
(* interrupt fills.                                                        *)
LEMMA BackMissesFill ==
  ASSUME RxTypeInv, NEW d \in 0 .. QSize - 2
  PROVE  Back(Newest, d) # FifoRamPtr /\ Back(Newest, d) \in Blocks
  BY QSizeAssumption DEF RxTypeInv, TypeOK, QueueTypeOK, Back, Newest, Blocks

(* The words of distinct entries of a ring that is not overfilled differ. *)
LEMMA WordsDiffer ==
  ASSUME RxTypeInv, NEW j \in 0 .. QEnd - 1, NEW k \in 0 .. QEnd - 1, j # k
  PROVE  Word(j) # Word(k)
  BY QSizeAssumption DEF RxTypeInv, TypeOK, QueueTypeOK, Word, QEnd

(* Every entry, in an overfilled ring too, is in a word of QueueRam. *)
LEMMA WordOfAny ==
  ASSUME RxTypeInv, NEW k \in 0 .. QEnd
  PROVE  Word(k) \in Blocks
  BY QSizeAssumption DEF RxTypeInv, TypeOK, QueueTypeOK, Word, QEnd, Blocks

(* The word the interrupt writes is the one after the youngest entry. *)
LEMMA NextWord ==
  ASSUME RxTypeInv, RingConsistent, QEntries <= QEnd
  PROVE  QIn = Word(QEntries)
  BY QSizeAssumption
  DEF RxTypeInv, TypeOK, QueueTypeOK, Word, QEnd, RingConsistent

(* The empty queue is in order. *)
LEMMA InitRxOrder == Init => RxOrderInv
<1> SUFFICES ASSUME Init PROVE RxOrderInv
  OBVIOUS
<1> USE QSizeAssumption DEF Init, QueueInit
<1>1. RingConsistent
  BY DEF RingConsistent, QStart
<1>2. NotOverfull /\ ServiceFlag
  BY DEF NotOverfull, ServiceFlag
<1>3. BlocksInOrder /\ BacklogIntact
  BY DEF BlocksInOrder, BacklogIntact
<1>4. HeldBeforeThem /\ InServiceIntact
  BY DEF HeldBeforeThem, InServiceIntact
<1>5. QED
  BY <1>1, <1>2, <1>3, <1>4 DEF RxOrderInv

(* An accepted frame outside an overrun is written into a block that is    *)
(* neither queued nor held, and its number into a free word.               *)
LEMMA RxIsrOrder ==
  ASSUME RxTypeInv, RxOrderInv, NEW f \in Frames, RxIsr(f)
  PROVE  RxOrderInv'
<1> USE QSizeAssumption DEF RxOrderInv
<1>1. /\ UNCHANGED <<QOut, buffRamPtr, inService, rxPc>>
      /\ QEntries < QSize /\ QEntries' = QEntries + 1
      /\ QueueRam' = [QueueRam EXCEPT ![QIn] = FifoRamPtr]
      /\ QIn' = Wrap(QIn + 1)
      /\ backlog' = Append(backlog, f)
      /\ DataFIFO' = [DataFIFO EXCEPT ![FifoRamPtr] = f]
      /\ overrun' = (overrun \/ QEntries >= QSize - 1)
      /\ FifoRamPtr' = IF FifoRamPtr + 1 >= QSize THEN 0 ELSE FifoRamPtr + 1
  BY DEF RxIsr, FillBlock, StoreEntry, NextBlock
<1>2. /\ QEntries \in Nat /\ QIn \in 0 .. QSize - 2 /\ QOut \in 0 .. QSize - 2
      /\ FifoRamPtr \in Blocks /\ QueueRam \in [Blocks -> Blocks]
      /\ DataFIFO \in [Blocks -> Frames \cup {NoFrame}]
      /\ backlog \in Seq(Frames) /\ Len(backlog) = QEntries
  BY DEF RxTypeInv, TypeOK, QueueTypeOK
<1>3. /\ Len(backlog') = QEntries'
      /\ backlog'[QEntries + 1] = f
      /\ \A i \in 1 .. QEntries : backlog'[i] = backlog[i]
  BY <1>1, <1>2
<1>4. RingConsistent'
  BY <1>1, <1>2, <1>3 DEF RingConsistent, Wrap, QEnd, QStart
<1>5. ~overrun' => ~overrun /\ QEntries <= QSize - 2
  <2>1. ~overrun' => ~overrun /\ ~(QEntries >= QSize - 1)
    BY <1>1, Zenon
  <2>2. ~(QEntries >= QSize - 1) => QEntries <= QSize - 2
    BY <1>2
  <2>3. QED
    BY <2>1, <2>2
<1>6. NotOverfull' /\ ServiceFlag'
  BY <1>1, <1>2, <1>5 DEF NotOverfull, ServiceFlag
<1>7. \A k : Word(k)' = Word(k)
  BY <1>1 DEF Word, QEnd
<1>8. /\ Newest' = FifoRamPtr
      /\ \A d \in 0 .. QSize - 2 : Back(Newest', d + 1) = Back(Newest, d)
      /\ Back(Newest', 0) = FifoRamPtr
  <2>1. Newest' = FifoRamPtr
    BY <1>1, <1>2 DEF Newest, Blocks
  <2>2. Newest \in Blocks /\ FifoRamPtr = IF Newest = QSize - 1 THEN 0 ELSE Newest + 1
    BY <1>2 DEF Newest, Blocks
  <2>3. QED
    BY <1>2, <2>1, <2>2 DEF Back, Blocks
<1>9. ASSUME ~overrun'
      PROVE  /\ QueueRam'[Word(QEntries)] = FifoRamPtr
             /\ \A k \in 0 .. QEntries - 1 : QueueRam'[Word(k)] = QueueRam[Word(k)]
  <2>1. QIn = Word(QEntries) /\ QIn \in Blocks /\ QEntries \in 0 .. QEnd - 1
    BY <1>2, <1>5, <1>9, NextWord DEF QEnd, Blocks
  <2>2. ASSUME NEW k \in 0 .. QEntries - 1
        PROVE  Word(k) # QIn /\ Word(k) \in Blocks
    <3>1. k \in 0 .. QEnd - 1 /\ k # QEntries /\ k \in 0 .. QEnd
      BY <2>1 DEF QEnd
    <3>2. QED
      BY <2>1, <3>1, WordsDiffer, WordOfAny
  <2>3. QED
    BY <1>1, <1>2, <2>1, <2>2
<1>10. BlocksInOrder'
  <2> SUFFICES ASSUME ~overrun', NEW k \in 0 .. QEntries
               PROVE  QueueRam'[Word(k)] = Back(Newest', QEntries - k)
    BY <1>1, <1>2, <1>7 DEF BlocksInOrder
  <2>1. CASE k = QEntries
    BY <1>2, <1>8, <1>9, <2>1
  <2>2. CASE k # QEntries
    <3>1. k \in 0 .. QEntries - 1 /\ QEntries - 1 - k \in 0 .. QSize - 2
      BY <1>2, <1>5, <2>2
    <3>2. QueueRam'[Word(k)] = Back(Newest, QEntries - 1 - k)
      BY <1>5, <1>9, <3>1 DEF BlocksInOrder
    <3>3. Back(Newest', (QEntries - 1 - k) + 1) = Back(Newest, QEntries - 1 - k)
      BY <1>8, <3>1
    <3>4. (QEntries - 1 - k) + 1 = QEntries - k
      BY <1>2, <3>1
    <3>5. QED
      BY <3>2, <3>3, <3>4
  <2>3. QED
    BY <2>1, <2>2
<1>11. HeldBeforeThem'
  <2> SUFFICES ASSUME ~overrun', rxPc = "process"
               PROVE  buffRamPtr = Back(Newest', QEntries + 1)
    BY <1>1 DEF HeldBeforeThem
  <2>1. QEntries \in 0 .. QSize - 2
    BY <1>2, <1>5
  <2>2. QED
    BY <1>5, <1>8, <2>1 DEF HeldBeforeThem
<1>12. ASSUME ~overrun', NEW k \in 0 .. QEntries - 1
       PROVE  QueueRam[Word(k)] # FifoRamPtr /\ QueueRam[Word(k)] \in Blocks
  <2>1. QueueRam[Word(k)] = Back(Newest, QEntries - 1 - k)
    BY <1>5, <1>12 DEF BlocksInOrder
  <2>2. QEntries - 1 - k \in 0 .. QSize - 2
    BY <1>2, <1>5, <1>12
  <2>3. QED
    BY <2>1, <2>2, BackMissesFill
<1>13. BacklogIntact'
  <2> SUFFICES ASSUME ~overrun', NEW k \in 0 .. QEntries
               PROVE  DataFIFO'[QueueRam'[Word(k)]] = backlog'[k + 1]
    BY <1>1, <1>2, <1>7 DEF BacklogIntact
  <2>1. CASE k = QEntries
    BY <1>1, <1>2, <1>3, <1>9, <2>1
  <2>2. CASE k # QEntries
    <3>1. k \in 0 .. QEntries - 1 /\ k + 1 \in 1 .. QEntries
      BY <1>2, <2>2
    <3>2. DataFIFO'[QueueRam[Word(k)]] = DataFIFO[QueueRam[Word(k)]]
      BY <1>1, <1>2, <1>12, <3>1
    <3>3. QED
      BY <1>3, <1>5, <1>9, <3>1, <3>2 DEF BacklogIntact
  <2>3. QED
    BY <2>1, <2>2
<1>14. InServiceIntact'
  <2> SUFFICES ASSUME ~overrun', rxPc = "process"
               PROVE  DataFIFO'[buffRamPtr] = inService
    BY <1>1 DEF InServiceIntact
  <2>1. buffRamPtr = Back(Newest, QEntries) /\ QEntries \in 0 .. QSize - 2
    BY <1>2, <1>5 DEF HeldBeforeThem
  <2>2. buffRamPtr # FifoRamPtr /\ buffRamPtr \in Blocks
    BY <2>1, BackMissesFill
  <2>3. QED
    BY <1>1, <1>2, <1>5, <2>2 DEF InServiceIntact
<1>15. QED
  BY <1>4, <1>6, <1>10, <1>11, <1>13, <1>14

(* A refused frame means an overrun: nothing is promised of contents. *)
LEMMA RxIsrFullOrder ==
  ASSUME RxTypeInv, RxOrderInv, NEW f \in Frames, RxIsrFull(f)
  PROVE  RxOrderInv'
<1> USE QSizeAssumption DEF RxOrderInv
<1>1. /\ UNCHANGED <<QIn, QOut, QEntries, backlog, inService, rxPc>>
      /\ overrun' = (overrun \/ QEntries >= QSize - 1)
      /\ QEntries >= QSize
  BY DEF RxIsrFull, FillBlock, ringVars
<1>2. overrun' = TRUE
  <2>1. QEntries >= QSize - 1
    BY <1>1 DEF RxTypeInv, TypeOK, QueueTypeOK
  <2>2. QED
    BY <1>1, <2>1
<1>3. RingConsistent' /\ ServiceFlag'
  BY <1>1 DEF RingConsistent, ServiceFlag, QEnd
<1>4. QED
  BY <1>2, <1>3
     DEF NotOverfull, BlocksInOrder, HeldBeforeThem, BacklogIntact,
         InServiceIntact

(* CanRx's dequeue takes the oldest entry; what was entry k + 1 becomes    *)
(* entry k.                                                                *)
LEMMA PushQOrder ==
  ASSUME RxTypeInv, RxOrderInv, PushQ
  PROVE  RxOrderInv'
<1> USE QSizeAssumption DEF RxOrderInv
<1>1. /\ UNCHANGED <<QIn, QueueRam, FifoRamPtr, DataFIFO, overrun>>
      /\ rxPc = "push_Q" /\ rxPc' = "process"
      /\ QEntries # 0 /\ QEntries' = QEntries - 1
      /\ buffRamPtr' = QueueRam[QOut] /\ QOut' = Wrap(QOut + 1)
      /\ inService' = Head(backlog) /\ backlog' = Tail(backlog)
  BY DEF PushQ, RemoveEntry, poolVars
<1>2. /\ QEntries \in Nat \ {0} /\ QIn \in 0 .. QSize - 2 /\ QOut \in 0 .. QSize - 2
      /\ backlog \in Seq(Frames) /\ Len(backlog) = QEntries /\ backlog # <<>>
  BY <1>1 DEF RxTypeInv, TypeOK, QueueTypeOK
<1>3. /\ Len(backlog') = QEntries' /\ inService' = backlog[1]
      /\ \A i \in 1 .. QEntries - 1 : backlog'[i] = backlog[i + 1]
      /\ backlog[1] \in Frames
  BY <1>1, <1>2, HeadTailProperties
<1>4. RingConsistent'
  BY <1>1, <1>2, <1>3 DEF RingConsistent, Wrap, QEnd, QStart
<1>5. ~overrun => QEntries <= QSize - 1
  BY <1>1, <1>2 DEF NotOverfull
<1>6. NotOverfull' /\ ServiceFlag'
  BY <1>1, <1>2, <1>3, <1>5, NoFrameAssumption DEF NotOverfull, ServiceFlag
<1>7. /\ \A k \in 0 .. QSize - 3 : Word(k)' = Word(k + 1)
      /\ Word(0) = QOut
  BY <1>1, <1>2 DEF Word, QEnd, Wrap, QStart
<1>8. Newest' = Newest
  BY <1>1 DEF Newest
<1>9. ASSUME ~overrun, NEW k \in 0 .. QEntries - 2
      PROVE  /\ k + 1 \in 0 .. QEntries - 1
             /\ Word(k)' = Word(k + 1)
             /\ backlog'[k + 1] = backlog[(k + 1) + 1]
             /\ (QEntries - 1) - 1 - k = QEntries - 1 - (k + 1)
  BY <1>2, <1>3, <1>5, <1>7, <1>9
<1>10. BlocksInOrder'
  <2> SUFFICES ASSUME ~overrun, NEW k \in 0 .. QEntries - 2
               PROVE  QueueRam[Word(k)'] = Back(Newest, (QEntries - 1) - 1 - k)
    BY <1>1, <1>2, <1>8 DEF BlocksInOrder
  <2>1. QED
    BY <1>9 DEF BlocksInOrder
<1>11. HeldBeforeThem'
  <2> SUFFICES ASSUME ~overrun
               PROVE  QueueRam[QOut] = Back(Newest, QEntries - 1)
    BY <1>1, <1>8 DEF HeldBeforeThem
  <2>1. 0 \in 0 .. QEntries - 1 /\ QEntries - 1 - 0 = QEntries - 1
    BY <1>2
  <2>2. QED
    BY <1>7, <2>1 DEF BlocksInOrder
<1>12. BacklogIntact'
  <2> SUFFICES ASSUME ~overrun, NEW k \in 0 .. QEntries - 2
               PROVE  DataFIFO[QueueRam[Word(k)']] = backlog'[k + 1]
    BY <1>1, <1>2 DEF BacklogIntact
  <2>1. QED
    BY <1>9 DEF BacklogIntact
<1>13. InServiceIntact'
  <2> SUFFICES ASSUME ~overrun
               PROVE  DataFIFO[QueueRam[QOut]] = backlog[1]
    BY <1>1, <1>3 DEF InServiceIntact
  <2>1. 0 \in 0 .. QEntries - 1 /\ 0 + 1 = 1
    BY <1>2
  <2>2. QED
    BY <1>7, <2>1 DEF BacklogIntact
<1>14. QED
  BY <1>4, <1>6, <1>10, <1>11, <1>12, <1>13

(* The other steps of CanRx do not touch the queue. *)
LEMMA CanRxRestOrder ==
  ASSUME RxTypeInv, RxOrderInv, TakeSem \/ Process \/ PushQEmpty \/ ClearReg
  PROVE  RxOrderInv'
<1> USE QSizeAssumption DEF RxOrderInv
<1>1. /\ UNCHANGED <<QIn, QOut, QEntries, QueueRam, FifoRamPtr, DataFIFO,
                    backlog>>
      /\ \A k : Word(k)' = Word(k)
      /\ Newest' = Newest
  BY DEF TakeSem, Process, PushQEmpty, FindEmpty, ClearReg, ringVars, poolVars,
         Word, QEnd, Newest
<1>2. RingConsistent'
  BY <1>1 DEF RingConsistent, QEnd
<1>3. rxPc' # "process"
  BY DEF TakeSem, Process, PushQEmpty, ClearReg
<1>4. ServiceFlag'
  BY DEF TakeSem, Process, PushQEmpty, ClearReg, ServiceFlag
<1>5. HeldBeforeThem' /\ InServiceIntact'
  BY <1>3 DEF HeldBeforeThem, InServiceIntact
<1>6. CASE PushQEmpty
  <2>1. QEntries = 0
    BY <1>6 DEF PushQEmpty, FindEmpty
  <2>2. NotOverfull' /\ BlocksInOrder' /\ BacklogIntact'
    BY <1>1, <2>1 DEF NotOverfull, BlocksInOrder, BacklogIntact
  <2>3. QED
    BY <1>2, <1>4, <1>5, <2>2
<1>7. CASE ~PushQEmpty
  <2>1. UNCHANGED overrun
    BY <1>7 DEF TakeSem, Process, ClearReg
  <2>2. NotOverfull' /\ BlocksInOrder' /\ BacklogIntact'
    BY <1>1, <2>1 DEF NotOverfull, BlocksInOrder, BacklogIntact
  <2>3. QED
    BY <1>2, <1>4, <1>5, <2>2
<1>8. QED
  BY <1>6, <1>7

(* Every step keeps the order of the queue. *)
LEMMA RxOrderInductive == RxTypeInv /\ RxOrderInv /\ [Next]_vars => RxOrderInv'
<1> SUFFICES ASSUME RxTypeInv, RxOrderInv, [Next]_vars PROVE RxOrderInv'
  OBVIOUS
<1>1. CASE Isr
  BY <1>1, RxIsrOrder, RxIsrFullOrder DEF Isr
<1>2. CASE CanRxThread
  BY <1>2, PushQOrder, CanRxRestOrder DEF CanRxThread
<1>3. CASE UNCHANGED vars
  <2>1. Newest' = Newest /\ \A k : Word(k)' = Word(k)
    BY <1>3 DEF vars, queueVars, Newest, Word, QEnd
  <2>2. QED
    BY <1>3, <2>1
       DEF vars, queueVars, RxOrderInv, RingConsistent, NotOverfull, QEnd,
           BlocksInOrder, HeldBeforeThem, BacklogIntact, InServiceIntact,
           ServiceFlag
<1>4. QED
  BY <1>1, <1>2, <1>3 DEF Next

(* The order holds in every reachable state. *)
LEMMA RxOrderAlways == Spec => []RxOrderInv
<1>1. QED
  BY InitRxOrder, RxOrderInductive, RxTypeAlways, PTL DEF Spec

(* The count and the two ring indices agree in every state, overrun or not *)
(* (canRxQueue.cc 66-146).                                                 *)
THEOREM RxRingConsistent == Spec => []RingConsistent
<1>1. RxOrderInv => RingConsistent
  BY DEF RxOrderInv
<1>2. QED
  BY <1>1, RxOrderAlways, PTL

(* Outside an overrun the queue holds what the interrupts accepted, in     *)
(* order, for every queue size.                                            *)
THEOREM RxBacklogIntact == Spec => []BacklogIntact
<1>1. RxOrderInv => BacklogIntact
  BY DEF RxOrderInv
<1>2. QED
  BY <1>1, RxOrderAlways, PTL

(* The interrupts do not write over the frame MsgRx_Manage works on, as    *)
(* long as none of them meets QSize - 1 entries (canTask.cc 135-145).      *)
THEOREM RxInServiceIntact == Spec => []InServiceIntact
<1>1. RxOrderInv => InServiceIntact
  BY DEF RxOrderInv
<1>2. QED
  BY <1>1, RxOrderAlways, PTL

-----------------------------------------------------------------------------
(* Even in an overrun every queued number, and the one CanRx holds, names  *)
(* a block that has been filled.                                           *)
RxFilledInv ==
  /\ \A k \in 0 .. QEntries - 1 : DataFIFO[QueueRam[Word(k)]] \in Frames
  /\ rxPc = "process" => DataFIFO[buffRamPtr] \in Frames

(* A frame written anywhere leaves every filled block filled. *)
LEMMA IsrFills ==
  ASSUME RxTypeInv, RxFilledInv, NEW f \in Frames, FillBlock(f),
         UNCHANGED <<QOut, buffRamPtr, rxPc>>
  PROVE  /\ DataFIFO'[FifoRamPtr] = f
         /\ \A b \in Blocks : DataFIFO[b] \in Frames => DataFIFO'[b] \in Frames
         /\ \A k \in 0 .. QEntries - 1 : DataFIFO'[QueueRam[Word(k)]] \in Frames
         /\ (rxPc' = "process" => DataFIFO'[buffRamPtr'] \in Frames)
<1>1. /\ DataFIFO \in [Blocks -> Frames \cup {NoFrame}] /\ FifoRamPtr \in Blocks
      /\ QueueRam \in [Blocks -> Blocks] /\ QEntries \in 0 .. QSize
      /\ (rxPc = "process" => buffRamPtr \in Blocks)
  BY DEF RxTypeInv, TypeOK, QueueTypeOK
<1>2. DataFIFO' = [DataFIFO EXCEPT ![FifoRamPtr] = f]
  BY DEF FillBlock
<1>3. /\ DataFIFO'[FifoRamPtr] = f
      /\ \A b \in Blocks : DataFIFO[b] \in Frames => DataFIFO'[b] \in Frames
  BY <1>1, <1>2
<1>4. \A k \in 0 .. QEntries - 1 : Word(k) \in Blocks
  BY <1>1, WordOfAny, QSizeAssumption DEF QEnd
<1>5. QED
  BY <1>1, <1>3, <1>4 DEF RxFilledInv

(* No step puts an unfilled block in the queue. *)
LEMMA RxFilledInductive ==
  RxTypeInv /\ RingConsistent /\ RxFilledInv /\ [Next]_vars => RxFilledInv'
<1> SUFFICES ASSUME RxTypeInv, RingConsistent, RxFilledInv, [Next]_vars
             PROVE  RxFilledInv'
  OBVIOUS
<1> USE QSizeAssumption
<1>1. /\ QEntries \in 0 .. QSize /\ QIn \in 0 .. QSize - 2 /\ QOut \in 0 .. QSize - 2
      /\ FifoRamPtr \in Blocks /\ QueueRam \in [Blocks -> Blocks]
  BY DEF RxTypeInv, TypeOK, QueueTypeOK
<1>2. ASSUME NEW f \in Frames, RxIsr(f) PROVE RxFilledInv'
  <2>1. /\ FillBlock(f) /\ UNCHANGED <<QOut, buffRamPtr, rxPc>>
        /\ QEntries < QSize /\ QEntries' = QEntries + 1
        /\ QueueRam' = [QueueRam EXCEPT ![QIn] = FifoRamPtr]
    BY <1>2 DEF RxIsr, StoreEntry
  <2>2. /\ DataFIFO'[FifoRamPtr] = f
        /\ \A k \in 0 .. QEntries - 1 : DataFIFO'[QueueRam[Word(k)]] \in Frames
        /\ (rxPc' = "process" => DataFIFO'[buffRamPtr'] \in Frames)
    BY <2>1, IsrFills
  <2>3. QIn = Word(QEntries) /\ \A k : Word(k)' = Word(k)
    BY <1>1, <2>1, NextWord DEF Word, QEnd
  <2>4. ASSUME NEW k \in 0 .. QEntries
        PROVE  DataFIFO'[QueueRam'[Word(k)]] \in Frames
    <3>1. Word(k) \in Blocks
      BY <1>1, <2>1, WordOfAny DEF QEnd
    <3>2. CASE Word(k) = QIn
      BY <1>1, <2>1, <2>2, <3>1, <3>2
    <3>3. CASE Word(k) # QIn
      <4>1. k \in 0 .. QEntries - 1
        BY <1>1, <2>3, <3>3
      <4>2. QED
        BY <1>1, <2>1, <2>2, <3>1, <3>3, <4>1
    <3>4. QED
      BY <3>2, <3>3
  <2>5. QED
    BY <1>1, <2>1, <2>2, <2>3, <2>4 DEF RxFilledInv
<1>3. ASSUME NEW f \in Frames, RxIsrFull(f) PROVE RxFilledInv'
  <2>1. /\ FillBlock(f) /\ UNCHANGED <<QOut, QEntries, QueueRam, buffRamPtr, rxPc>>
        /\ \A k : Word(k)' = Word(k)
    BY <1>3 DEF RxIsrFull, ringVars, Word, QEnd
  <2>2. QED
    BY <2>1, IsrFills DEF RxFilledInv
<1>4. CASE PushQ
  <2>1. /\ UNCHANGED <<QueueRam, DataFIFO>>
        /\ QEntries # 0 /\ QEntries' = QEntries - 1
        /\ buffRamPtr' = QueueRam[QOut] /\ QOut' = Wrap(QOut + 1)
    BY <1>4 DEF PushQ, RemoveEntry, poolVars
  <2>2. Word(0) = QOut /\ 0 \in 0 .. QEntries - 1
    BY <1>1, <2>1 DEF Word, QEnd
  <2>3. ASSUME NEW k \in 0 .. QEntries - 2
        PROVE  Word(k)' = Word(k + 1) /\ k + 1 \in 0 .. QEntries - 1
    BY <1>1, <2>1 DEF Word, QEnd, Wrap, QStart
  <2>4. QED
    BY <1>1, <2>1, <2>2, <2>3 DEF RxFilledInv
<1>5. CASE TakeSem \/ Process \/ PushQEmpty \/ ClearReg \/ UNCHANGED vars
  <2>1. /\ UNCHANGED <<QOut, QEntries, QueueRam, DataFIFO>>
        /\ \A k : Word(k)' = Word(k)
    BY <1>5 DEF TakeSem, Process, PushQEmpty, FindEmpty, ClearReg, vars,
                queueVars, ringVars, poolVars, Word, QEnd
  <2>2. rxPc' = "process" => rxPc = "process" /\ UNCHANGED buffRamPtr
    BY <1>5 DEF TakeSem, Process, PushQEmpty, ClearReg, vars, queueVars
  <2>3. QED
    BY <2>1, <2>2 DEF RxFilledInv
<1>6. QED
  BY <1>2, <1>3, <1>4, <1>5 DEF Next, Isr, CanRxThread

(* No unfilled block is ever queued or held. *)
LEMMA RxFilledAlways == Spec => []RxFilledInv
<1>1. Init => RxFilledInv
  BY DEF Init, QueueInit, RxFilledInv
<1>2. QED
  BY <1>1, RxFilledInductive, RxTypeAlways, RxRingConsistent, PTL DEF Spec

-----------------------------------------------------------------------------
(* Refinement: each interrupt and each step of CanRx is a step of the      *)
(* channel or leaves its four variables alone.                             *)
LEMMA RxStepRefines ==
  RxTypeInv /\ RxOrderInv /\ RxFilledInv /\ [Next]_vars
    => [Channel!Next]_(Channel!vars)
<1> SUFFICES ASSUME RxTypeInv, RxOrderInv, RxFilledInv, [Next]_vars
             PROVE  [Channel!Next]_(Channel!vars)
  OBVIOUS
<1> USE DEF Channel!Next, Channel!vars
<1>1. /\ QEntries \in Nat /\ backlog \in Seq(Frames) /\ Len(backlog) = QEntries
      /\ overrun \in BOOLEAN /\ inService \in Frames \cup {NoFrame}
  BY DEF RxTypeInv, TypeOK, QueueTypeOK
<1>2. ASSUME NEW f \in Frames, RxIsr(f) PROVE [Channel!Next]_(Channel!vars)
  <2>1. /\ backlog' = Append(backlog, f)
        /\ UNCHANGED <<inService, delivered>>
        /\ overrun' = (overrun \/ Len(backlog) >= QSize - 1)
    BY <1>1, <1>2 DEF RxIsr, FillBlock, StoreEntry
  <2>2. Channel!Accept(f)
    BY <2>1 DEF Channel!Accept, Channel!Overfull
  <2>3. QED
    BY <2>2
<1>3. ASSUME NEW f \in Frames, RxIsrFull(f) PROVE [Channel!Next]_(Channel!vars)
  <2>1. /\ UNCHANGED <<backlog, inService, delivered>>
        /\ overrun' = (overrun \/ QEntries >= QSize - 1)
        /\ QEntries >= QSize
    BY <1>3 DEF RxIsrFull, FillBlock
  <2>2. QEntries >= QSize - 1
    BY <1>1, <2>1, QSizeAssumption
  <2>3. Len(backlog) >= QSize - 1 /\ overrun' = TRUE
    BY <1>1, <2>1, <2>2
  <2>4. Channel!Overrun
    BY <2>1, <2>3 DEF Channel!Overrun, Channel!Overfull
  <2>5. QED
    BY <2>4
<1>4. CASE TakeSem \/ ClearReg
  BY <1>4 DEF TakeSem, ClearReg
<1>5. CASE PushQ
  <2>1. inService = NoFrame
    BY <1>5 DEF RxOrderInv, ServiceFlag, PushQ
  <2>2. backlog # <<>>
    BY <1>1, <1>5 DEF PushQ, RemoveEntry
  <2>3. Channel!Take
    BY <1>5, <2>1, <2>2 DEF Channel!Take, PushQ, RemoveEntry
  <2>4. QED
    BY <2>3
<1>6. CASE Process
  <2>1. /\ inService # NoFrame /\ inService' = NoFrame
        /\ delivered' = DataFIFO[buffRamPtr]
        /\ UNCHANGED <<backlog, overrun>>
    BY <1>6 DEF Process, RxOrderInv, ServiceFlag
  <2>2. DataFIFO[buffRamPtr] \in Frames
    BY <1>6 DEF RxFilledInv, Process
  <2>3. ~overrun => delivered' = inService
    BY <1>6, <2>1 DEF RxOrderInv, InServiceIntact, Process
  <2>4. Channel!Deliver
    BY <2>1, <2>2, <2>3 DEF Channel!Deliver
  <2>5. QED
    BY <2>4
<1>7. CASE PushQEmpty
  <2>1. inService = NoFrame
    BY <1>7 DEF RxOrderInv, ServiceFlag, PushQEmpty
  <2>2. backlog = <<>>
    BY <1>1, <1>7, EmptySeq DEF PushQEmpty, FindEmpty
  <2>3. Channel!Recover
    BY <1>7, <2>1, <2>2 DEF Channel!Recover, PushQEmpty, FindEmpty
  <2>4. QED
    BY <2>3
<1>8. CASE UNCHANGED vars
  BY <1>8 DEF vars, queueVars
<1>9. QED
  BY <1>2, <1>3, <1>4, <1>5, <1>6, <1>7, <1>8 DEF Next, Isr, CanRxThread

(* The receive queue implements the FIFO channel with Capacity QSize - 1,  *)
(* wherever the interrupts come in CanRx's loop.                           *)
THEOREM RxImplementsChannel == Spec => ImplementsChannel
<1>1. Init => Channel!Init
  BY DEF Init, QueueInit, Channel!Init
<1>2. QED
  BY <1>1, RxStepRefines, RxTypeAlways, RxOrderAlways, RxFilledAlways, PTL
     DEF Spec, ImplementsChannel, Channel!Spec
=============================================================================
