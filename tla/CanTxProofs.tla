---------------------------- MODULE CanTxProofs ----------------------------
(***************************************************************************)
(* Proofs about CanTx, for every queue size, set of frames and bound.      *)
(***************************************************************************)
EXTENDS CanTx, SequenceTheorems, TLAPS

(* TypeOK is not inductive alone: pop_Q appends the frame it finds in the  *)
(* block just filled, and push_Q takes the head of the backlog.            *)
TxTypeInv ==
  /\ TypeOK
  /\ Len(backlog) = QEntries
  /\ pushPc = "pop_Q" => DataFIFO[FifoRamPtr] \in Frames
  /\ txPc \in {"clear", "send"} => buffRamPtr \in Blocks

(* The initial state satisfies the strengthened type invariant. *)
LEMMA InitTxType == Init => TxTypeInv
<1> SUFFICES ASSUME Init PROVE TxTypeInv
  OBVIOUS
<1> USE QSizeAssumption DEF Init, QueueInit, QStart, Blocks
<1>1. QueueRam \in [Blocks -> Blocks] /\ FifoRamPtr \in Blocks
  OBVIOUS
<1>2. DataFIFO \in [Blocks -> Frames \cup {NoFrame}]
  OBVIOUS
<1>3. backlog \in Seq(Frames) /\ Len(backlog) = 0
  OBVIOUS
<1>4. QIn \in 0 .. QSize - 2 /\ QOut \in 0 .. QSize - 2 /\ QEntries \in 0 .. QSize
  OBVIOUS
<1>5. QueueTypeOK
  BY <1>1, <1>2, <1>3, <1>4 DEF QueueTypeOK, FIFO_EMPTY_MASK, FIFO_FULL_MASK
<1>6. QED
  BY <1>3, <1>5, MaxResendAssumption DEF TxTypeInv, TypeOK

(* CanTask's steps keep the types. *)
LEMMA CanTaskType == ASSUME TxTypeInv, CanTask PROVE TxTypeInv'
<1> USE QSizeAssumption DEF TxTypeInv, TypeOK, QueueTypeOK, Blocks, QStart,
        QEnd, FIFO_EMPTY_MASK, FIFO_FULL_MASK, ringVars, poolVars, queueVars
<1>1. ASSUME NEW f \in Frames, PushMsg(f) PROVE TxTypeInv'
  BY <1>1 DEF PushMsg, FillBlock
<1>2. CASE PopQ
  <2> DEFINE f == DataFIFO[FifoRamPtr]
  <2>1. f \in Frames /\ backlog' = Append(backlog, f)
    BY <1>2 DEF PopQ, StoreEntry
  <2>2. backlog' \in Seq(Frames) /\ Len(backlog') = QEntries + 1
    BY <2>1
  <2>3. QIn' \in 0 .. QSize - 2
    BY <1>2 DEF PopQ, StoreEntry, Wrap
  <2>4. QueueRam' \in [Blocks -> Blocks] /\ QEntries' \in 0 .. QSize
    BY <1>2 DEF PopQ, StoreEntry
  <2>5. QEntries' = QEntries + 1
    BY <1>2 DEF PopQ, StoreEntry
  <2>6. /\ UNCHANGED <<QOut, Register, poolVars, can_OPsem, buffRamPtr,
                       delivered, inService, overrun, txPc, resendCnt>>
        /\ pushPc' = "release"
    BY <1>2 DEF PopQ
  <2>7. QED
    BY <2>2, <2>3, <2>4, <2>5, <2>6
<1>3. CASE PopQFull
  BY <1>3 DEF PopQFull
<1>4. CASE SetFull
  BY <1>4 DEF SetFull
<1>5. CASE Release
  BY <1>5 DEF Release, NextBlock
<1>6. QED
  BY <1>1, <1>2, <1>3, <1>4, <1>5 DEF CanTask

(* CanTx's steps keep the types. *)
LEMMA CanTxThreadType == ASSUME TxTypeInv, CanTxThread PROVE TxTypeInv'
<1> USE QSizeAssumption, MaxResendAssumption
    DEF TxTypeInv, TypeOK, QueueTypeOK, Blocks, QStart, QEnd,
        FIFO_EMPTY_MASK, FIFO_FULL_MASK, ringVars, poolVars, queueVars
<1>1. CASE TakeSem
  BY <1>1 DEF TakeSem
<1>2. CASE PushQ
  <2>1. backlog # <<>>
    BY <1>2 DEF PushQ, RemoveEntry
  <2>2. /\ Head(backlog) \in Frames
        /\ Tail(backlog) \in Seq(Frames)
        /\ Len(Tail(backlog)) = QEntries - 1
    BY <2>1, HeadTailProperties
  <2>3. QOut' \in 0 .. QSize - 2
    BY <1>2 DEF PushQ, RemoveEntry, Wrap
  <2>4. buffRamPtr' \in Blocks
    BY <1>2 DEF PushQ, RemoveEntry
  <2>5. /\ QEntries' = QEntries - 1 /\ QEntries' \in 0 .. QSize
        /\ inService' = Head(backlog) /\ backlog' = Tail(backlog)
    BY <1>2 DEF PushQ, RemoveEntry
  <2>6. /\ UNCHANGED <<QIn, QueueRam, poolVars, Register, can_OPsem,
                       delivered, overrun, pushPc, resendCnt>>
        /\ txPc' = "clear"
    BY <1>2 DEF PushQ
  <2>7. QED
    BY <2>2, <2>3, <2>4, <2>5, <2>6
<1>3. CASE PushQEmpty
  BY <1>3 DEF PushQEmpty, FindEmpty
<1>4. CASE ClearReg
  BY <1>4 DEF ClearReg
<1>5. CASE Sent
  BY <1>5 DEF Sent
<1>6. CASE Resend
  BY <1>6 DEF Resend
<1>7. CASE GiveUp
  BY <1>7 DEF GiveUp
<1>8. QED
  BY <1>1, <1>2, <1>3, <1>4, <1>5, <1>6, <1>7 DEF CanTxThread

(* Every step keeps it. *)
LEMMA TxTypeInductive == TxTypeInv /\ [Next]_vars => TxTypeInv'
<1> SUFFICES ASSUME TxTypeInv, [Next]_vars PROVE TxTypeInv'
  OBVIOUS
<1>1. CASE CanTask
  BY <1>1, CanTaskType
<1>2. CASE CanTxThread
  BY <1>2, CanTxThreadType
<1>3. CASE UNCHANGED vars
  BY <1>3 DEF vars, queueVars, TxTypeInv, TypeOK, QueueTypeOK, Blocks
<1>4. QED
  BY <1>1, <1>2, <1>3 DEF Next

(* It holds in every reachable state. *)
LEMMA TxTypeAlways == Spec => []TxTypeInv
<1>1. QED
  BY InitTxType, TxTypeInductive, PTL DEF Spec

(* Every variable keeps its type: in particular the ring indices never     *)
(* leave the QSize - 1 words of the ring and QEntries never exceeds QSize, *)
(* whatever the interleaving (canTxQueue.cc 62-140).                       *)
THEOREM TxTypeCorrect == Spec => []TypeOK
<1>1. TxTypeInv => TypeOK
  BY DEF TxTypeInv
<1>2. QED
  BY <1>1, TxTypeAlways, PTL

-----------------------------------------------------------------------------
(* The inductive invariant behind order and contents.  Outside an overrun  *)
(* the queued blocks are consecutive in the pool and end at the newest     *)
(* one, and the block CanTx holds is the one before them; a push writes    *)
(* the block after the newest, so it needs a pool of more than QEntries +  *)
(* 1 blocks to miss them all.                                              *)
Newest == IF pushPc = "release" THEN FifoRamPtr
          ELSE IF FifoRamPtr = 0 THEN QSize - 1 ELSE FifoRamPtr - 1

(* The block d steps before block n in the pool. *)
Back(n, d) == IF n >= d THEN n - d ELSE n - d + QSize

BlocksInOrder ==
  ~overrun => \A k \in 0 .. QEntries - 1 :
                QueueRam[Word(k)] = Back(Newest, QEntries - 1 - k)

HeldBeforeThem ==
  (~overrun /\ txPc \in {"clear", "send"}) => buffRamPtr = Back(Newest, QEntries)

RoomForPush ==
  ~overrun => /\ QEntries <= QSize - 1
              /\ pushPc = "pop_Q" => QEntries <= QSize - 2
              /\ pushPc = "setFull" => QEntries = 0 /\ txPc \in {"take", "push_Q"}

ServiceFlag == (inService = NoFrame) <=> txPc \in {"take", "push_Q"}

TxOrderInv ==
  /\ RingConsistent
  /\ RoomForPush
  /\ BlocksInOrder
  /\ HeldBeforeThem
  /\ BacklogIntact
  /\ InServiceIntact
  /\ ServiceFlag

-----------------------------------------------------------------------------
(* Outside Push_Msg's last part, a block counted back from the newest one  *)
(* is not the block the next push fills.                                   *)
LEMMA BackMissesFill ==
  ASSUME TxTypeInv, pushPc # "release", NEW d \in 0 .. QSize - 2
  PROVE  Back(Newest, d) # FifoRamPtr /\ Back(Newest, d) \in Blocks
  BY QSizeAssumption DEF TxTypeInv, TypeOK, QueueTypeOK, Back, Newest, Blocks

(* The words of distinct entries of a ring that is not overfilled differ.  *)
LEMMA WordsDiffer ==
  ASSUME TxTypeInv, NEW j \in 0 .. QEnd - 1, NEW k \in 0 .. QEnd - 1, j # k
  PROVE  Word(j) # Word(k)
  BY QSizeAssumption DEF TxTypeInv, TypeOK, QueueTypeOK, Word, QEnd

(* Entries of a ring that is not overfilled are in words of QueueRam. *)
LEMMA WordInRing ==
  ASSUME TxTypeInv, NEW k \in 0 .. QEnd - 1
  PROVE  Word(k) \in Blocks
  BY QSizeAssumption DEF TxTypeInv, TypeOK, QueueTypeOK, Word, QEnd, Blocks

(* The word pop_Q writes is the one after the youngest entry. *)
LEMMA NextWord ==
  ASSUME TxTypeInv, RingConsistent, QEntries <= QEnd - 1
  PROVE  QIn = Word(QEntries)
  BY QSizeAssumption
  DEF TxTypeInv, TypeOK, QueueTypeOK, Word, QEnd, RingConsistent

(* The empty queue is in order. *)
LEMMA InitTxOrder == Init => TxOrderInv
<1> SUFFICES ASSUME Init PROVE TxOrderInv
  OBVIOUS
<1> USE QSizeAssumption DEF Init, QueueInit
<1>1. RingConsistent
  BY DEF RingConsistent, QStart
<1>2. RoomForPush /\ ServiceFlag
  BY DEF RoomForPush, ServiceFlag
<1>3. BlocksInOrder /\ BacklogIntact
  BY DEF BlocksInOrder, BacklogIntact
<1>4. HeldBeforeThem /\ InServiceIntact
  BY DEF HeldBeforeThem, InServiceIntact
<1>5. QED
  BY <1>1, <1>2, <1>3, <1>4 DEF TxOrderInv

(* A push outside an overrun writes a block that is neither queued nor     *)
(* held.                                                                   *)
LEMMA PushMsgOrder ==
  ASSUME TxTypeInv, TxOrderInv, NEW f \in Frames, PushMsg(f)
  PROVE  TxOrderInv'
<1> USE QSizeAssumption DEF TxOrderInv
<1>1. /\ UNCHANGED <<QIn, QOut, QEntries, QueueRam, Register, FifoRamPtr,
                    buffRamPtr, backlog, inService, txPc>>
      /\ pushPc = "idle" /\ pushPc' = "pop_Q"
      /\ DataFIFO' = [DataFIFO EXCEPT ![FifoRamPtr] = f]
      /\ overrun' = (overrun \/ QEntries >= QSize - 1)
  BY DEF PushMsg, FillBlock, ringVars
<1>2. QEntries \in Nat /\ DataFIFO \in [Blocks -> Frames \cup {NoFrame}]
  BY DEF TxTypeInv, TypeOK, QueueTypeOK
<1>3. RingConsistent' /\ ServiceFlag'
  BY <1>1 DEF RingConsistent, ServiceFlag, QEnd
<1>4. ~overrun' => ~overrun /\ QEntries <= QSize - 2
  <2>1. ~overrun' => ~overrun /\ ~(QEntries >= QSize - 1)
    BY <1>1, Zenon
  <2>2. ~(QEntries >= QSize - 1) => QEntries <= QSize - 2
    BY <1>2
  <2>3. QED
    BY <2>1, <2>2
<1>5. RoomForPush'
  BY <1>1, <1>2, <1>4 DEF RoomForPush
<1>6. Newest' = Newest
  BY <1>1 DEF Newest
<1>7. \A k : Word(k)' = Word(k)
  BY <1>1 DEF Word, QEnd
<1>8. BlocksInOrder'
  BY <1>1, <1>2, <1>4, <1>6, <1>7 DEF BlocksInOrder
<1>9. HeldBeforeThem'
  BY <1>1, <1>2, <1>4, <1>6 DEF HeldBeforeThem
<1>10. BacklogIntact'
  <2> SUFFICES ASSUME ~overrun', NEW k \in 0 .. QEntries - 1
               PROVE  DataFIFO'[QueueRam[Word(k)]] = backlog[k + 1]
    BY <1>1, <1>7 DEF BacklogIntact
  <2>1. QueueRam[Word(k)] = Back(Newest, QEntries - 1 - k)
    BY <1>4 DEF BlocksInOrder
  <2>2. QEntries - 1 - k \in 0 .. QSize - 2
    BY <1>2, <1>4
  <2>3. QueueRam[Word(k)] # FifoRamPtr /\ QueueRam[Word(k)] \in Blocks
    BY <1>1, <2>1, <2>2, BackMissesFill
  <2>4. DataFIFO'[QueueRam[Word(k)]] = DataFIFO[QueueRam[Word(k)]]
    BY <1>1, <1>2, <2>3
  <2>5. QED
    BY <1>4, <2>4 DEF BacklogIntact
<1>11. InServiceIntact'
  <2> SUFFICES ASSUME ~overrun', txPc \in {"clear", "send"}
               PROVE  DataFIFO'[buffRamPtr] = inService
    BY <1>1 DEF InServiceIntact
  <2>1. buffRamPtr = Back(Newest, QEntries) /\ QEntries \in 0 .. QSize - 2
    BY <1>2, <1>4 DEF HeldBeforeThem
  <2>2. buffRamPtr # FifoRamPtr /\ buffRamPtr \in Blocks
    BY <1>1, <2>1, BackMissesFill
  <2>3. QED
    BY <1>1, <1>2, <1>4, <2>2 DEF InServiceIntact
<1>12. QED
  BY <1>3, <1>5, <1>8, <1>9, <1>10, <1>11

(* An accepted entry goes to the word after the youngest and names the     *)
(* block just filled.                                                      *)
LEMMA PopQOrder ==
  ASSUME TxTypeInv, TxOrderInv, PopQ
  PROVE  TxOrderInv'
<1> USE QSizeAssumption DEF TxOrderInv
<1>1. /\ UNCHANGED <<QOut, Register, FifoRamPtr, DataFIFO, buffRamPtr,
                    inService, overrun, txPc>>
      /\ pushPc = "pop_Q" /\ pushPc' = "release"
      /\ QEntries < QSize /\ QEntries' = QEntries + 1
      /\ QueueRam' = [QueueRam EXCEPT ![QIn] = FifoRamPtr]
      /\ QIn' = Wrap(QIn + 1)
      /\ backlog' = Append(backlog, DataFIFO[FifoRamPtr])
  BY DEF PopQ, StoreEntry, poolVars
<1>2. /\ QEntries \in Nat /\ QIn \in 0 .. QSize - 2 /\ QOut \in 0 .. QSize - 2
      /\ FifoRamPtr \in Blocks /\ QueueRam \in [Blocks -> Blocks]
      /\ DataFIFO[FifoRamPtr] \in Frames
      /\ backlog \in Seq(Frames) /\ Len(backlog) = QEntries
  BY <1>1 DEF TxTypeInv, TypeOK, QueueTypeOK
<1>3. /\ Len(backlog') = QEntries'
      /\ backlog'[QEntries + 1] = DataFIFO[FifoRamPtr]
      /\ \A i \in 1 .. QEntries : backlog'[i] = backlog[i]
  BY <1>1, <1>2
<1>4. RingConsistent'
  BY <1>1, <1>2, <1>3 DEF RingConsistent, Wrap, QEnd, QStart
<1>5. ~overrun => QEntries <= QSize - 2
  BY <1>1 DEF RoomForPush
<1>6. RoomForPush' /\ ServiceFlag'
  BY <1>1, <1>2, <1>5 DEF RoomForPush, ServiceFlag
<1>7. \A k : Word(k)' = Word(k)
  BY <1>1 DEF Word, QEnd
<1>8. /\ \A d \in 0 .. QSize - 2 : Back(Newest', d + 1) = Back(Newest, d)
      /\ Back(Newest', 0) = FifoRamPtr
  BY <1>1, <1>2 DEF Back, Newest, Blocks
<1>9. ASSUME ~overrun
      PROVE  /\ QueueRam'[Word(QEntries)] = FifoRamPtr
             /\ \A k \in 0 .. QEntries - 1 : QueueRam'[Word(k)] = QueueRam[Word(k)]
  <2>1. QIn = Word(QEntries) /\ QIn \in Blocks /\ QEntries \in 0 .. QEnd - 1
    BY <1>2, <1>5, <1>9, NextWord DEF QEnd, Blocks
  <2>2. ASSUME NEW k \in 0 .. QEntries - 1
        PROVE  Word(k) # QIn /\ Word(k) \in Blocks
    <3>1. k \in 0 .. QEnd - 1 /\ k # QEntries
      BY <2>1 DEF QEnd
    <3>2. QED
      BY <2>1, <3>1, WordsDiffer, WordInRing
  <2>3. QED
    BY <1>1, <1>2, <2>1, <2>2
<1>10. BlocksInOrder'
  <2> SUFFICES ASSUME ~overrun, NEW k \in 0 .. QEntries
               PROVE  QueueRam'[Word(k)] = Back(Newest', QEntries - k)
    BY <1>1, <1>2, <1>7 DEF BlocksInOrder
  <2>1. CASE k = QEntries
    BY <1>2, <1>8, <1>9, <2>1
  <2>2. CASE k # QEntries
    <3>1. k \in 0 .. QEntries - 1 /\ QEntries - 1 - k \in 0 .. QSize - 2
      BY <1>2, <1>5, <2>2
    <3>2. QueueRam'[Word(k)] = Back(Newest, QEntries - 1 - k)
      BY <1>9, <3>1 DEF BlocksInOrder
    <3>3. Back(Newest', (QEntries - 1 - k) + 1) = Back(Newest, QEntries - 1 - k)
      BY <1>8, <3>1
    <3>4. (QEntries - 1 - k) + 1 = QEntries - k
      BY <1>2, <3>1
    <3>5. QED
      BY <3>2, <3>3, <3>4
  <2>3. QED
    BY <2>1, <2>2
<1>11. HeldBeforeThem'
  <2> SUFFICES ASSUME ~overrun, txPc \in {"clear", "send"}
               PROVE  buffRamPtr = Back(Newest', QEntries + 1)
    BY <1>1 DEF HeldBeforeThem
  <2>1. QEntries \in 0 .. QSize - 2
    BY <1>2, <1>5
  <2>2. QED
    BY <1>8, <2>1 DEF HeldBeforeThem
<1>12. BacklogIntact'
  <2> SUFFICES ASSUME ~overrun, NEW k \in 0 .. QEntries
               PROVE  DataFIFO[QueueRam'[Word(k)]] = backlog'[k + 1]
    BY <1>1, <1>2, <1>7 DEF BacklogIntact
  <2>1. CASE k = QEntries
    BY <1>3, <1>9, <2>1
  <2>2. CASE k # QEntries
    <3>1. k \in 0 .. QEntries - 1 /\ k + 1 \in 1 .. QEntries
      BY <1>2, <2>2
    <3>2. QED
      BY <1>3, <1>9, <3>1 DEF BacklogIntact
  <2>3. QED
    BY <2>1, <2>2
<1>13. InServiceIntact'
  BY <1>1 DEF InServiceIntact
<1>14. QED
  BY <1>4, <1>6, <1>10, <1>11, <1>12, <1>13

(* What CanTask does after pop_Q leaves queue and blocks alone. *)
LEMMA PushTailOrder ==
  ASSUME TxTypeInv, TxOrderInv, PopQFull \/ SetFull \/ Release
  PROVE  TxOrderInv'
<1> USE QSizeAssumption DEF TxOrderInv
<1>1. /\ UNCHANGED <<QIn, QOut, QEntries, QueueRam, DataFIFO, buffRamPtr,
                    backlog, inService, overrun, txPc>>
      /\ \A k : Word(k)' = Word(k)
  BY DEF PopQFull, SetFull, Release, NextBlock, queueVars, ringVars, poolVars,
         Word, QEnd
<1>2. QEntries \in Nat /\ FifoRamPtr \in Blocks
  BY DEF TxTypeInv, TypeOK, QueueTypeOK
<1>3. RingConsistent' /\ BacklogIntact' /\ InServiceIntact' /\ ServiceFlag'
  BY <1>1 DEF RingConsistent, BacklogIntact, InServiceIntact, ServiceFlag, QEnd
<1>4. CASE PopQFull
  <2>1. pushPc' = "setFull" /\ pushPc = "pop_Q" /\ FifoRamPtr' = FifoRamPtr
    BY <1>4 DEF PopQFull, queueVars
  <2>2. overrun
    BY <1>2, <1>4 DEF RoomForPush, PopQFull
  <2>3. QED
    BY <1>1, <1>3, <2>1, <2>2 DEF RoomForPush, BlocksInOrder, HeldBeforeThem
<1>5. CASE SetFull
  <2>1. pushPc = "setFull" /\ pushPc' = "release"
    BY <1>5 DEF SetFull
  <2>2. ~overrun => QEntries = 0 /\ txPc \in {"take", "push_Q"}
    BY <2>1 DEF RoomForPush
  <2>3. QED
    BY <1>1, <1>3, <2>1, <2>2 DEF RoomForPush, BlocksInOrder, HeldBeforeThem
<1>6. CASE Release
  <2>1. /\ pushPc = "release" /\ pushPc' = "idle"
        /\ FifoRamPtr' = IF FifoRamPtr + 1 >= QSize THEN 0 ELSE FifoRamPtr + 1
    BY <1>6 DEF Release, NextBlock
  <2>2. Newest' = Newest
    BY <1>2, <2>1 DEF Newest, Blocks
  <2>3. QED
    BY <1>1, <1>2, <1>3, <2>1, <2>2
       DEF RoomForPush, BlocksInOrder, HeldBeforeThem
<1>7. QED
  BY <1>4, <1>5, <1>6

(* CanTx's dequeue takes the oldest entry; what was entry k + 1 becomes    *)
(* entry k.                                                                *)
LEMMA PushQOrder ==
  ASSUME TxTypeInv, TxOrderInv, PushQ
  PROVE  TxOrderInv'
<1> USE QSizeAssumption DEF TxOrderInv
<1>1. /\ UNCHANGED <<QIn, QueueRam, FifoRamPtr, DataFIFO, overrun, pushPc>>
      /\ txPc = "push_Q" /\ txPc' = "clear"
      /\ QEntries # 0 /\ QEntries' = QEntries - 1
      /\ buffRamPtr' = QueueRam[QOut] /\ QOut' = Wrap(QOut + 1)
      /\ inService' = Head(backlog) /\ backlog' = Tail(backlog)
  BY DEF PushQ, RemoveEntry, poolVars
<1>2. /\ QEntries \in Nat \ {0} /\ QIn \in 0 .. QSize - 2 /\ QOut \in 0 .. QSize - 2
      /\ backlog \in Seq(Frames) /\ Len(backlog) = QEntries /\ backlog # <<>>
  BY <1>1 DEF TxTypeInv, TypeOK, QueueTypeOK
<1>3. /\ Len(backlog') = QEntries' /\ inService' = backlog[1]
      /\ \A i \in 1 .. QEntries - 1 : backlog'[i] = backlog[i + 1]
      /\ backlog[1] \in Frames
  BY <1>1, <1>2, HeadTailProperties
<1>4. RingConsistent'
  BY <1>1, <1>2, <1>3 DEF RingConsistent, Wrap, QEnd, QStart
<1>5. /\ ~overrun => QEntries <= QSize - 1
      /\ ~overrun => pushPc # "setFull"
  BY <1>1, <1>2 DEF RoomForPush
<1>6. RoomForPush' /\ ServiceFlag'
  BY <1>1, <1>2, <1>3, <1>5, NoFrameAssumption DEF RoomForPush, ServiceFlag
<1>7. /\ \A k \in 0 .. QSize - 3 : Word(k)' = Word(k + 1)
      /\ Word(0) = QOut
  BY <1>1, <1>2 DEF Word, QEnd, Wrap, QStart
<1>8. Newest' = Newest
  BY <1>1 DEF Newest
<1>9. ASSUME ~overrun, NEW k \in 0 .. QEntries - 2
      PROVE  /\ k + 1 \in 0 .. QEntries - 1
             /\ Word(k)' = Word(k + 1)
             /\ backlog'[k + 1] = backlog[(k + 1) + 1]
             /\ (QEntries - 1) - 1 - k = QEntries - 1 - (k + 1)
  BY <1>2, <1>3, <1>5, <1>7, <1>9
<1>10. BlocksInOrder'
  <2> SUFFICES ASSUME ~overrun, NEW k \in 0 .. QEntries - 2
               PROVE  QueueRam[Word(k)'] = Back(Newest, (QEntries - 1) - 1 - k)
    BY <1>1, <1>2, <1>8 DEF BlocksInOrder
  <2>1. QED
    BY <1>9 DEF BlocksInOrder
<1>11. HeldBeforeThem'
  <2> SUFFICES ASSUME ~overrun
               PROVE  QueueRam[QOut] = Back(Newest, QEntries - 1)
    BY <1>1, <1>8 DEF HeldBeforeThem
  <2>1. 0 \in 0 .. QEntries - 1 /\ QEntries - 1 - 0 = QEntries - 1
    BY <1>2
  <2>2. QED
    BY <1>7, <2>1 DEF BlocksInOrder
<1>12. BacklogIntact'
  <2> SUFFICES ASSUME ~overrun, NEW k \in 0 .. QEntries - 2
               PROVE  DataFIFO[QueueRam[Word(k)']] = backlog'[k + 1]
    BY <1>1, <1>2 DEF BacklogIntact
  <2>1. QED
    BY <1>9 DEF BacklogIntact
<1>13. InServiceIntact'
  <2> SUFFICES ASSUME ~overrun
               PROVE  DataFIFO[QueueRam[QOut]] = backlog[1]
    BY <1>1, <1>3 DEF InServiceIntact
  <2>1. 0 \in 0 .. QEntries - 1 /\ 0 + 1 = 1
    BY <1>2
  <2>2. QED
    BY <1>7, <2>1 DEF BacklogIntact
<1>14. QED
  BY <1>4, <1>6, <1>10, <1>11, <1>12, <1>13

(* The other steps of CanTx do not touch the queue. *)
LEMMA CanTxRestOrder ==
  ASSUME TxTypeInv, TxOrderInv,
         TakeSem \/ PushQEmpty \/ ClearReg \/ Sent \/ Resend \/ GiveUp
  PROVE  TxOrderInv'
<1> USE QSizeAssumption DEF TxOrderInv
<1>1. /\ UNCHANGED <<QIn, QOut, QEntries, QueueRam, FifoRamPtr, DataFIFO,
                    backlog, pushPc>>
      /\ \A k : Word(k)' = Word(k)
      /\ Newest' = Newest
  BY DEF TakeSem, PushQEmpty, FindEmpty, ClearReg, Sent, Resend, GiveUp,
         queueVars, ringVars, poolVars, Word, QEnd, Newest
<1>2. RingConsistent'
  BY <1>1 DEF RingConsistent, QEnd
<1>3. CASE PushQEmpty
  <2>1. QEntries = 0 /\ txPc = "push_Q" /\ txPc' = "take" /\ inService' = inService
    BY <1>3 DEF PushQEmpty, FindEmpty
  <2>2. RoomForPush' /\ ServiceFlag'
    BY <1>1, <2>1 DEF RoomForPush, ServiceFlag
  <2>3. BlocksInOrder' /\ BacklogIntact'
    BY <1>1, <2>1 DEF BlocksInOrder, BacklogIntact
  <2>4. HeldBeforeThem' /\ InServiceIntact'
    BY <2>1 DEF HeldBeforeThem, InServiceIntact
  <2>5. QED
    BY <1>2, <2>2, <2>3, <2>4
<1>4. CASE ~PushQEmpty
  <2>1. UNCHANGED overrun
    BY <1>4 DEF TakeSem, ClearReg, Sent, Resend, GiveUp, queueVars
  <2>2. /\ txPc' \in {"clear", "send"} => /\ txPc \in {"clear", "send"}
                                         /\ UNCHANGED <<buffRamPtr, inService>>
        /\ txPc \in {"take", "push_Q"} => txPc' \in {"take", "push_Q"}
    BY <1>4 DEF TakeSem, ClearReg, Sent, Resend, GiveUp, queueVars
  <2>3. ServiceFlag'
    BY <1>4 DEF TakeSem, ClearReg, Sent, Resend, GiveUp, queueVars, ServiceFlag
  <2>4. RoomForPush' /\ BlocksInOrder' /\ BacklogIntact'
    BY <1>1, <2>1, <2>2 DEF RoomForPush, BlocksInOrder, BacklogIntact
  <2>5. HeldBeforeThem' /\ InServiceIntact'
    BY <1>1, <2>1, <2>2 DEF HeldBeforeThem, InServiceIntact
  <2>6. QED
    BY <1>2, <2>3, <2>4, <2>5
<1>5. QED
  BY <1>3, <1>4

(* Every step keeps the order of the queue. *)
LEMMA TxOrderInductive == TxTypeInv /\ TxOrderInv /\ [Next]_vars => TxOrderInv'
<1> SUFFICES ASSUME TxTypeInv, TxOrderInv, [Next]_vars PROVE TxOrderInv'
  OBVIOUS
<1>1. CASE CanTask
  BY <1>1, PushMsgOrder, PopQOrder, PushTailOrder DEF CanTask
<1>2. CASE CanTxThread
  BY <1>2, PushQOrder, CanTxRestOrder DEF CanTxThread
<1>3. CASE UNCHANGED vars
  <2>1. Newest' = Newest /\ \A k : Word(k)' = Word(k)
    BY <1>3 DEF vars, queueVars, Newest, Word, QEnd
  <2>2. QED
    BY <1>3, <2>1
       DEF vars, queueVars, TxOrderInv, RingConsistent, RoomForPush, QEnd,
           BlocksInOrder, HeldBeforeThem, BacklogIntact, InServiceIntact,
           ServiceFlag
<1>4. QED
  BY <1>1, <1>2, <1>3 DEF Next

(* The order holds in every reachable state. *)
LEMMA TxOrderAlways == Spec => []TxOrderInv
<1>1. QED
  BY InitTxOrder, TxOrderInductive, TxTypeAlways, PTL DEF Spec

(* The count and the two ring indices agree in every state, overrun or not *)
(* (canTxQueue.cc 83-89, 129-135).                                         *)
THEOREM TxRingConsistent == Spec => []RingConsistent
<1>1. TxOrderInv => RingConsistent
  BY DEF TxOrderInv
<1>2. QED
  BY <1>1, TxOrderAlways, PTL

(* As long as no push meets QSize - 1 entries, the queue holds what was    *)
(* accepted, in order, for every queue size and every interleaving of      *)
(* CanTask and CanTx; and again so once an overrun has been drained.       *)
THEOREM TxBacklogIntact == Spec => []BacklogIntact
<1>1. TxOrderInv => BacklogIntact
  BY DEF TxOrderInv
<1>2. QED
  BY <1>1, TxOrderAlways, PTL

(* Nor is the frame under (re)transmission overwritten while CanTx sleeps  *)
(* between attempts (canTask.cc 188-212).                                  *)
THEOREM TxInServiceIntact == Spec => []InServiceIntact
<1>1. TxOrderInv => InServiceIntact
  BY DEF TxOrderInv
<1>2. QED
  BY <1>1, TxOrderAlways, PTL

(* CanTx never sleeps on the semaphore over a queued frame (canTask.cc     *)
(* 273, canTxQueue.cc 58).                                                 *)
THEOREM TxNoLostWakeup == Spec => []NoLostWakeup
<1>1. Init => NoLostWakeup
  BY DEF Init, QueueInit, NoLostWakeup
<1>2. TxTypeInv /\ NoLostWakeup /\ [Next]_vars => NoLostWakeup'
  <2> SUFFICES ASSUME TxTypeInv, NoLostWakeup, [Next]_vars PROVE NoLostWakeup'
    OBVIOUS
  <2>1. can_OPsem \in Nat
    BY DEF TxTypeInv, TypeOK, QueueTypeOK
  <2>2. CASE CanTask
    BY <2>1, <2>2
       DEF CanTask, PushMsg, FillBlock, PopQ, StoreEntry, PopQFull, SetFull,
           Release, NextBlock, queueVars, ringVars, NoLostWakeup
  <2>3. CASE CanTxThread
    BY <2>1, <2>3
       DEF CanTxThread, TakeSem, PushQ, RemoveEntry, PushQEmpty, FindEmpty,
           ClearReg, Sent, Resend, GiveUp, queueVars, ringVars, NoLostWakeup
  <2>4. CASE UNCHANGED vars
    BY <2>4 DEF vars, queueVars, NoLostWakeup
  <2>5. QED
    BY <2>2, <2>3, <2>4 DEF Next
<1>3. QED
  BY <1>1, <1>2, TxTypeAlways, PTL DEF Spec

-----------------------------------------------------------------------------
(* Even in an overrun every queued number, and the one CanTx holds, names  *)
(* a block that has been filled: garbage never goes out, only the wrong    *)
(* frame.                                                                  *)
TxFilledInv ==
  /\ \A k \in 0 .. QEntries - 1 : DataFIFO[QueueRam[Word(k)]] \in Frames
  /\ txPc \in {"clear", "send"} => DataFIFO[buffRamPtr] \in Frames

(* Every entry, in an overfilled ring too, is in a word of QueueRam. *)
LEMMA WordOfAny ==
  ASSUME TxTypeInv, NEW k \in 0 .. QEnd
  PROVE  Word(k) \in Blocks
  BY QSizeAssumption DEF TxTypeInv, TypeOK, QueueTypeOK, Word, QEnd, Blocks

(* No step puts an unfilled block in the queue. *)
LEMMA TxFilledInductive ==
  TxTypeInv /\ RingConsistent /\ TxFilledInv /\ [Next]_vars => TxFilledInv'
<1> SUFFICES ASSUME TxTypeInv, RingConsistent, TxFilledInv, [Next]_vars
             PROVE  TxFilledInv'
  OBVIOUS
<1> USE QSizeAssumption DEF TxFilledInv
<1>1. /\ QEntries \in 0 .. QSize /\ QIn \in 0 .. QSize - 2 /\ QOut \in 0 .. QSize - 2
      /\ FifoRamPtr \in Blocks /\ QueueRam \in [Blocks -> Blocks]
      /\ DataFIFO \in [Blocks -> Frames \cup {NoFrame}]
      /\ txPc \in {"clear", "send"} => buffRamPtr \in Blocks
  BY DEF TxTypeInv, TypeOK, QueueTypeOK
<1>2. ASSUME NEW k \in 0 .. QEntries - 1
      PROVE  Word(k) \in Blocks /\ QueueRam[Word(k)] \in Blocks
  BY <1>1, WordOfAny DEF QEnd
<1>3. ASSUME NEW f \in Frames, PushMsg(f) PROVE TxFilledInv'
  <2>1. /\ UNCHANGED <<QOut, QEntries, QueueRam, buffRamPtr, txPc>>
        /\ \A k : Word(k)' = Word(k)
        /\ DataFIFO' = [DataFIFO EXCEPT ![FifoRamPtr] = f]
    BY <1>3 DEF PushMsg, FillBlock, ringVars, Word, QEnd
  <2>2. \A b \in Blocks : DataFIFO[b] \in Frames => DataFIFO'[b] \in Frames
    BY <1>1, <2>1
  <2>3. QED
    BY <1>1, <1>2, <2>1, <2>2
<1>4. CASE PopQ
  <2>1. /\ UNCHANGED <<QOut, DataFIFO, buffRamPtr, txPc>>
        /\ \A k : Word(k)' = Word(k)
        /\ QEntries < QSize /\ QEntries' = QEntries + 1
        /\ QueueRam' = [QueueRam EXCEPT ![QIn] = FifoRamPtr]
        /\ DataFIFO[FifoRamPtr] \in Frames
    BY <1>4 DEF PopQ, StoreEntry, poolVars, Word, QEnd, TxTypeInv
  <2>2. QIn = Word(QEntries)
    BY <1>1, <2>1 DEF RingConsistent, Word, QEnd
  <2>3. ASSUME NEW k \in 0 .. QEntries
        PROVE  DataFIFO[QueueRam'[Word(k)]] \in Frames
    <3>1. Word(k) \in Blocks
      BY <1>1, <2>1, WordOfAny DEF QEnd
    <3>2. CASE Word(k) = QIn
      BY <1>1, <2>1, <3>1, <3>2
    <3>3. CASE Word(k) # QIn
      BY <1>1, <2>1, <2>2, <3>1, <3>3
    <3>4. QED
      BY <3>2, <3>3
  <2>4. QED
    BY <1>1, <2>1, <2>3
<1>5. CASE PushQ
  <2>1. /\ UNCHANGED <<QueueRam, DataFIFO>>
        /\ QEntries # 0 /\ QEntries' = QEntries - 1
        /\ buffRamPtr' = QueueRam[QOut] /\ QOut' = Wrap(QOut + 1)
    BY <1>5 DEF PushQ, RemoveEntry, poolVars
  <2>2. Word(0) = QOut /\ 0 \in 0 .. QEntries - 1
    BY <1>1, <2>1 DEF Word, QEnd
  <2>3. ASSUME NEW k \in 0 .. QEntries - 2
        PROVE  Word(k)' = Word(k + 1) /\ k + 1 \in 0 .. QEntries - 1
    BY <1>1, <2>1 DEF Word, QEnd, Wrap, QStart
  <2>4. QED
    BY <1>1, <2>1, <2>2, <2>3
<1>6. CASE PopQFull \/ SetFull \/ Release \/ TakeSem \/ PushQEmpty \/ ClearReg
           \/ Sent \/ Resend \/ GiveUp \/ UNCHANGED vars
  <2>1. /\ UNCHANGED <<QOut, QEntries, QueueRam, DataFIFO>>
        /\ \A k : Word(k)' = Word(k)
    BY <1>6 DEF PopQFull, SetFull, Release, NextBlock, TakeSem, PushQEmpty,
                FindEmpty, ClearReg, Sent, Resend, GiveUp, vars, queueVars,
                ringVars, poolVars, Word, QEnd
  <2>2. txPc' \in {"clear", "send"} =>
          txPc \in {"clear", "send"} /\ UNCHANGED buffRamPtr
    BY <1>6 DEF PopQFull, SetFull, Release, NextBlock, TakeSem, PushQEmpty,
                ClearReg, Sent, Resend, GiveUp, vars, queueVars
  <2>3. QED
    BY <2>1, <2>2
<1>7. QED
  BY <1>3, <1>4, <1>5, <1>6 DEF Next, CanTask, CanTxThread

(* No unfilled block is ever queued or held. *)
LEMMA TxFilledAlways == Spec => []TxFilledInv
<1>1. Init => TxFilledInv
  BY DEF Init, QueueInit, TxFilledInv
<1>2. QED
  BY <1>1, TxFilledInductive, TxTypeAlways, TxRingConsistent, PTL DEF Spec

-----------------------------------------------------------------------------
(* Refinement: each step of the two threads is a step of the channel or    *)
(* leaves its four variables alone.                                        *)
LEMMA TxStepRefines ==
  TxTypeInv /\ TxOrderInv /\ TxFilledInv /\ [Next]_vars
    => [Channel!Next]_(Channel!vars)
<1> SUFFICES ASSUME TxTypeInv, TxOrderInv, TxFilledInv, [Next]_vars
             PROVE  [Channel!Next]_(Channel!vars)
  OBVIOUS
<1> USE DEF Channel!Next, Channel!vars
<1>1. /\ QEntries \in Nat /\ backlog \in Seq(Frames) /\ Len(backlog) = QEntries
      /\ DataFIFO \in [Blocks -> Frames \cup {NoFrame}]
      /\ overrun \in BOOLEAN /\ inService \in Frames \cup {NoFrame}
  BY DEF TxTypeInv, TypeOK, QueueTypeOK
<1>2. ASSUME NEW f \in Frames, PushMsg(f) PROVE [Channel!Next]_(Channel!vars)
  <2>1. /\ UNCHANGED <<backlog, inService, delivered>>
        /\ overrun' = (overrun \/ QEntries >= QSize - 1)
    BY <1>2 DEF PushMsg, FillBlock
  <2>2. CASE overrun \/ QEntries >= QSize - 1
    <3>1. overrun' = TRUE
      BY <2>1, <2>2
    <3>2. overrun \/ Len(backlog) >= QSize - 1
      BY <1>1, <2>2
    <3>3. Channel!Overrun
      BY <2>1, <3>1, <3>2 DEF Channel!Overrun, Channel!Overfull
    <3>4. QED
      BY <3>3
  <2>3. CASE ~(overrun \/ QEntries >= QSize - 1)
    <3>1. overrun' = overrun
      BY <1>1, <2>1, <2>3
    <3>2. QED
      BY <2>1, <3>1
  <2>4. QED
    BY <2>2, <2>3
<1>3. CASE PopQ
  <2>1. /\ backlog' = Append(backlog, DataFIFO[FifoRamPtr])
        /\ DataFIFO[FifoRamPtr] \in Frames
        /\ UNCHANGED <<inService, delivered, overrun>>
    BY <1>3 DEF PopQ, StoreEntry, TxTypeInv
  <2>2. ~overrun => QEntries <= QSize - 2
    BY <1>3 DEF TxOrderInv, RoomForPush, PopQ
  <2>3. overrun = (overrun \/ Len(backlog) >= QSize - 1)
    BY <1>1, <2>2, QSizeAssumption
  <2>4. Channel!Accept(DataFIFO[FifoRamPtr])
    BY <2>1, <2>3 DEF Channel!Accept, Channel!Overfull
  <2>5. QED
    BY <2>1, <2>4
<1>4. CASE PopQFull \/ SetFull \/ Release \/ TakeSem \/ ClearReg \/ Resend
  BY <1>4 DEF PopQFull, SetFull, Release, TakeSem, ClearReg, Resend, queueVars
<1>5. CASE PushQ
  <2>1. inService = NoFrame
    BY <1>5 DEF TxOrderInv, ServiceFlag, PushQ
  <2>2. backlog # <<>>
    BY <1>1, <1>5 DEF PushQ, RemoveEntry
  <2>3. Channel!Take
    BY <1>5, <2>1, <2>2 DEF Channel!Take, PushQ, RemoveEntry
  <2>4. QED
    BY <2>3
<1>6. CASE PushQEmpty
  <2>1. inService = NoFrame
    BY <1>6 DEF TxOrderInv, ServiceFlag, PushQEmpty
  <2>2. backlog = <<>>
    BY <1>1, <1>6, EmptySeq DEF PushQEmpty, FindEmpty
  <2>3. Channel!Recover
    BY <1>6, <2>1, <2>2 DEF Channel!Recover, PushQEmpty, FindEmpty
  <2>4. QED
    BY <2>3
<1>7. CASE Sent
  <2>1. /\ inService # NoFrame /\ inService' = NoFrame
        /\ delivered' = DataFIFO[buffRamPtr]
        /\ UNCHANGED <<backlog, overrun>>
    BY <1>7 DEF Sent, TxOrderInv, ServiceFlag
  <2>2. DataFIFO[buffRamPtr] \in Frames
    BY <1>7 DEF TxFilledInv, Sent
  <2>3. ~overrun => delivered' = inService
    BY <1>7, <2>1 DEF TxOrderInv, InServiceIntact, Sent
  <2>4. Channel!Deliver
    BY <2>1, <2>2, <2>3 DEF Channel!Deliver
  <2>5. QED
    BY <2>4
<1>8. CASE GiveUp
  <2>1. Channel!Abandon
    BY <1>8 DEF GiveUp, Channel!Abandon, TxOrderInv, ServiceFlag
  <2>2. QED
    BY <2>1
<1>9. CASE UNCHANGED vars
  BY <1>9 DEF vars, queueVars
<1>10. QED
  BY <1>2, <1>3, <1>4, <1>5, <1>6, <1>7, <1>8, <1>9
     DEF Next, CanTask, CanTxThread

(* The transmit queue implements the FIFO channel with Capacity QSize - 1, *)
(* for every queue size, number of retries and interleaving.               *)
THEOREM TxImplementsChannel == Spec => ImplementsChannel
<1>1. Init => Channel!Init
  BY DEF Init, QueueInit, Channel!Init
<1>2. QED
  BY <1>1, TxStepRefines, TxTypeAlways, TxOrderAlways, TxFilledAlways, PTL
     DEF Spec, ImplementsChannel, Channel!Spec
=============================================================================
