------------------------------ MODULE CanQueue ------------------------------
(***************************************************************************)
(* The software queue of can/canTxQueue.cc; can/canRxQueue.cc is the same  *)
(* code with another element type.  A ring of block numbers, QueueRam,     *)
(* sits beside a pool of frame blocks, DataFIFO.  Push_Msg fills the next  *)
(* block of the pool and enqueues its number; the consumer dequeues a      *)
(* number and works on the block in place.  The code calls its enqueue     *)
(* pop_Q and its dequeue push_Q.                                           *)
(*                                                                         *)
(* The ring wraps at QEnd = &QueueRam[size - 1], so it has size - 1 usable *)
(* words, while pop_Q accepts up to QSize = size entries.                  *)
(*                                                                         *)
(* QEntriesMax, a high-water mark nobody reads, is left out.  backlog,     *)
(* inService and overrun are history variables: what was accepted and not  *)
(* yet dequeued, what the consumer should be working on, and whether a     *)
(* push has met QSize - 1 or more entries since the queue was last empty.  *)
(***************************************************************************)
EXTENDS Naturals, Sequences

CONSTANTS
  QSize,      (* canTxQueueSize = canRxQueueSize = 20 in the build *)
  Frames,     (* the frames pushed                                 *)
  NoFrame,    (* contents of a block never filled                  *)
  QUEUE_NULL  (* what push_Q returns when there is nothing         *)

ASSUME QSizeAssumption == QSize \in Nat /\ QSize >= 2
ASSUME NoFrameAssumption == NoFrame \notin Frames
ASSUME NullAssumption == QUEUE_NULL \notin Nat

VARIABLES
  QIn, QOut,   (* next word to write, next word to read     *)
  QEntries,    (* number of entries                         *)
  QueueRam,    (* the ring: block numbers                   *)
  Register,    (* FIFO_EMPTY_MASK or FIFO_FULL_MASK         *)
  FifoRamPtr,  (* next block of the pool to fill            *)
  DataFIFO,    (* the pool of blocks                        *)
  can_OPsem,   (* the semaphore the consumer waits on       *)
  buffRamPtr,  (* the block the consumer dequeued last      *)
  delivered,   (* the last frame the consumer passed on     *)
  backlog, inService, overrun

ringVars  == <<QIn, QOut, QEntries, QueueRam>>
poolVars  == <<FifoRamPtr, DataFIFO>>
queueVars == <<QIn, QOut, QEntries, QueueRam, Register, FifoRamPtr, DataFIFO,
               can_OPsem, buffRamPtr, delivered, backlog, inService, overrun>>

FIFO_EMPTY_MASK == 0
FIFO_FULL_MASK  == 1

QStart == 0
QEnd   == QSize - 1
Blocks == 0 .. QSize - 1

(* Mutation: the ring wraps one word late. *)
WrapLate(i) == IF i > QEnd THEN QStart ELSE i

Wrap(i) == IF i = QEnd THEN QStart ELSE i

(* QueueInit, and the semaphore's initial value 1. *)
QueueInit ==
  /\ QIn = QStart
  /\ QOut = QStart
  /\ QEntries = 0
  /\ QueueRam = [i \in Blocks |-> 0]
  /\ Register = FIFO_EMPTY_MASK
  /\ FifoRamPtr = 0
  /\ DataFIFO = [b \in Blocks |-> NoFrame]
  /\ can_OPsem = 1
  /\ buffRamPtr = QUEUE_NULL
  /\ delivered = NoFrame
  /\ backlog = <<>>
  /\ inService = NoFrame
  /\ overrun = FALSE

(* First part of Push_Msg: refused while the register says FULL, otherwise *)
(* the frame is written into the next block of the pool.                   *)
FillBlock(f) ==
  /\ Register # FIFO_FULL_MASK
  /\ DataFIFO' = [DataFIFO EXCEPT ![FifoRamPtr] = f]
  /\ overrun' = (overrun \/ QEntries >= QSize - 1)

(* Mutation: pop_Q does not look for room. *)
StoreEntryUnguarded(f) ==
  /\ QueueRam' = [QueueRam EXCEPT ![QIn] = FifoRamPtr]
  /\ QIn' = Wrap(QIn + 1)
  /\ QEntries' = QEntries + 1
  /\ backlog' = Append(backlog, f)

(* Mutation: the write pointer is moved before the word is written. *)
StoreEntryPreIncrement(f) ==
  /\ QEntries < QSize
  /\ QueueRam' = [QueueRam EXCEPT ![Wrap(QIn + 1)] = FifoRamPtr]
  /\ QIn' = Wrap(QIn + 1)
  /\ QEntries' = QEntries + 1
  /\ backlog' = Append(backlog, f)

(* pop_Q, the accepting branch. *)
StoreEntry(f) ==
  /\ QEntries < QSize
  /\ QueueRam' = [QueueRam EXCEPT ![QIn] = FifoRamPtr]
  /\ QIn' = Wrap(QIn + 1)
  /\ QEntries' = QEntries + 1
  /\ backlog' = Append(backlog, f)

(* Mutation: the pool is used as if it were as long as the ring. *)
NextBlockShortPool ==
  /\ FifoRamPtr' = IF FifoRamPtr + 1 >= QEnd THEN 0 ELSE FifoRamPtr + 1
  /\ can_OPsem' = can_OPsem + 1

(* Mutation: the semaphore is not released. *)
NextBlockNoRelease ==
  /\ FifoRamPtr' = IF FifoRamPtr + 1 >= QSize THEN 0 ELSE FifoRamPtr + 1
  /\ UNCHANGED can_OPsem

(* Last part of Push_Msg: the pool pointer moves on whether or not pop_Q   *)
(* accepted, and the semaphore is released either way.                     *)
NextBlock ==
  /\ FifoRamPtr' = IF FifoRamPtr + 1 >= QSize THEN 0 ELSE FifoRamPtr + 1
  /\ can_OPsem' = can_OPsem + 1

(* push_Q, with an entry to return. *)
RemoveEntry ==
  /\ QEntries # 0
  /\ buffRamPtr' = QueueRam[QOut]
  /\ QOut' = Wrap(QOut + 1)
  /\ QEntries' = QEntries - 1
  /\ inService' = Head(backlog)
  /\ backlog' = Tail(backlog)

(* push_Q on an empty queue. *)
FindEmpty ==
  /\ QEntries = 0
  /\ buffRamPtr' = QUEUE_NULL
  /\ overrun' = FALSE

-----------------------------------------------------------------------------
QueueTypeOK ==
  /\ QIn \in 0 .. QSize - 2
  /\ QOut \in 0 .. QSize - 2
  /\ QEntries \in 0 .. QSize
  /\ QueueRam \in [Blocks -> Blocks]
  /\ Register \in {FIFO_EMPTY_MASK, FIFO_FULL_MASK}
  /\ FifoRamPtr \in Blocks
  /\ DataFIFO \in [Blocks -> Frames \cup {NoFrame}]
  /\ can_OPsem \in Nat
  /\ buffRamPtr \in Blocks \cup {QUEUE_NULL}
  /\ delivered \in Frames \cup {NoFrame}
  /\ backlog \in Seq(Frames)
  /\ inService \in Frames \cup {NoFrame}
  /\ overrun \in BOOLEAN

(* The word that holds the k-th oldest entry, counting from 0. *)
Word(k) == IF QOut + k < QEnd THEN QOut + k ELSE QOut + k - QEnd

(* The entry count and the two ring indices never disagree: QIn is QEntries *)
(* words ahead of QOut in the ring of QSize - 1 words, even after the ring  *)
(* has been overfilled.                                                     *)
RingConsistent ==
  /\ Len(backlog) = QEntries
  /\ \/ QIn = QOut + QEntries
     \/ QIn + QEnd = QOut + QEntries
     \/ QIn + 2 * QEnd = QOut + QEntries

(* Outside an overrun the queue still holds exactly the frames that were   *)
(* accepted, in their order: no word of the ring was overwritten and no    *)
(* block of the pool was reused while its number was queued.               *)
BacklogIntact ==
  ~overrun => \A k \in 0 .. QEntries - 1 :
                DataFIFO[QueueRam[Word(k)]] = backlog[k + 1]
=============================================================================
