------------------------------ MODULE CanInput ------------------------------
(***************************************************************************)
(* What becomes of a received frame: MsgRx_Manage and MsgRx_Deal           *)
(* (can/canApp.cc) put the packets of a message together in CanBuffData,   *)
(* the cycle of CanTask copies complete messages to AppBuffData, polls the *)
(* boards and counts how long each source has been silent (Bsp_can_fault,  *)
(* can/canTask.cc).                                                        *)
(*                                                                         *)
(* One row of _std_msg_table is followed.  The packets of the other rows   *)
(* are kept for what they share with it: DataLen, CanCnt and, if they come *)
(* from the same board, its counter; the frames that match no row, which   *)
(* the filter lets pass if they are for this node, for the count in        *)
(* CanCnt.                                                                 *)
(*                                                                         *)
(* The interrupt counts every frame and puts it into the receive queue or, *)
(* if that is full, drops it.  The thread CanRx (priority 6) handles the   *)
(* queued frames one after the other, each whole with respect to CanTask   *)
(* (priority 8), which runs when none is left.  What the queue itself does *)
(* is in CanRx: here it is the number of frames in it.                     *)
(***************************************************************************)
EXTENDS Integers

CONSTANTS
  Len,           \* packets in a message of the row (len / 8)
  Port,          \* the controller the row is received on
  sendTick,      \* cycles between two polls of the row's board
  CAN_RX_TIME,   \* cycles without a packet until a source is lost (200)
  NVersions,     \* bound: messages are told apart modulo this
  MaxDataLen,    \* bound: packets of other rows are counted up to here
  MaxQueued,     \* bound: frames in the receive queue (the build has 19)
  MaxCanCnt      \* bound: no frame comes while CanCnt is this high

Versions == 0..(NVersions - 1)
Mixed == NVersions
Slots == 0..(Len - 1)

ASSUME RowAssumption ==
  /\ Len \in Nat \ {0} /\ sendTick \in Nat \ {0} /\ Port \in {1, 2}
ASSUME TimeAssumption == CAN_RX_TIME \in Nat \ {0}
ASSUME BoundsAssumption ==
  /\ NVersions \in Nat \ {0} /\ MaxDataLen \in Nat
  /\ MaxQueued \in Nat \ {0} /\ MaxCanCnt \in Nat

(* CanFltCnt of the row's board, and CanCnt, which every frame counts up and
   every packet of a row of port 1 resets. *)
Counters == {"board", "all"}

VARIABLES
  msg,         \* the message the board is sending
  canBuf,      \* CanBuffData: the version each packet's bytes are of
  appBuf,      \* AppBuffData
  update,      \* the row's update flag
  dataLen,     \* DataLen of MsgRx_Deal, one for all rows, in packets
  clock,       \* clock of the row's poll, which counts up to sendTick
  queued,      \* frames in the receive queue
  cnt,         \* CanFltCnt and CanCnt
  lost,        \* the inverted bit of CanStateWord, and CanFault
  task,        \* where CanTask is, and its local state
  accepted,    \* history: version of the last message accepted
  alone,       \* history: the message's first packet was handled, and only
               \* its packets since
  silent,      \* history: judgements since the last packet that resets
  frames,      \* history: frames received since CanRx last reset CanCnt
  overwritten  \* history: CanTask wrote over the last reset

bufVars == <<canBuf, update, dataLen, accepted, alone>>
supVars == <<queued, cnt, lost, silent, frames, overwritten>>
vars == <<msg, bufVars, appBuf, clock, supVars, task>>

Idle == msg.next = Len

BufferTypeOK ==
  /\ msg \in [next : 0..Len, ver : Versions, gap : BOOLEAN]
  /\ canBuf \in [Slots -> Versions]
  /\ appBuf \in [Slots -> Versions]
  /\ update \in {0, 1}
  /\ dataLen \in Nat
  /\ clock \in 0..(sendTick - 1)
  /\ accepted \in 0..Mixed
  /\ alone \in BOOLEAN

TaskTypeOK ==
  task \in [at : {"wait", "scan", "copy", "push", "load", "store", "judge"},
            slot : 0..Len, src : Counters, reg : Nat, reset : BOOLEAN]

(* The board's counter is above its limit only until it is judged, and then
   it is what CanTask has in its register. *)
SupervisionTypeOK ==
  /\ queued \in 0..MaxQueued
  /\ cnt \in [Counters -> Nat]
  /\ cnt["board"] <= IF task.at = "judge" /\ task.src = "board"
                     THEN task.reg ELSE CAN_RX_TIME
  /\ task.src = "board" => task.reg <= CAN_RX_TIME + 1
  /\ lost \in [Counters -> {0, 1}]
  /\ silent \in [Counters -> 0..CAN_RX_TIME]
  /\ frames \in 0..CAN_RX_TIME
  /\ overwritten \in [Counters -> BOOLEAN]

TypeOK == BufferTypeOK /\ TaskTypeOK /\ SupervisionTypeOK

(* The buffers and counters are zero at the start.  The constructor of
   CanApp raises the bits of the first four boards. *)
Init ==
  /\ msg = [next |-> Len, ver |-> 0, gap |-> FALSE]
  /\ canBuf = [i \in Slots |-> 0]
  /\ appBuf = canBuf
  /\ update = 0
  /\ dataLen = 0
  /\ clock = 0
  /\ queued = 0
  /\ cnt = [s \in Counters |-> 0]
  /\ \E b \in {0, 1} : lost = [s \in Counters |-> IF s = "all" THEN 0 ELSE b]
  /\ task = [at |-> "wait", slot |-> 0, src |-> "board", reg |-> 0,
             reset |-> FALSE]
  /\ accepted = 0
  /\ alone = FALSE
  /\ silent = cnt
  /\ frames = 0
  /\ overwritten = [s \in Counters |-> FALSE]

-----------------------------------------------------------------------------
(* can_Rx_Push_Msg in the interrupt: every frame is counted, whether or not
   the queue takes it. *)
CountFrame ==
  /\ cnt["all"] < MaxCanCnt
  /\ cnt' = [cnt EXCEPT !["all"] = @ + 1]
  /\ frames' = IF frames < CAN_RX_TIME THEN frames + 1 ELSE frames
  /\ UNCHANGED <<lost, silent, overwritten>>

Interrupt ==
  /\ CountFrame
  /\ \/ queued < MaxQueued /\ queued' = queued + 1
     \/ UNCHANGED queued
  /\ UNCHANGED <<msg, bufVars, appBuf, clock, task>>

(* A packet of the row is not sent or is spoilt on the bus, or it is received
   and the full queue drops it. *)
LosePacket ==
  /\ ~Idle
  /\ msg' = [msg EXCEPT !.next = @ + 1, !.gap = TRUE]
  /\ \/ UNCHANGED supVars
     \/ CountFrame /\ UNCHANGED queued
  /\ UNCHANGED <<bufVars, appBuf, clock, task>>

InService(s) == task.at \in {"store", "judge"} /\ task.src = s

(* Mutation: what CanTask finds saturated is not reset. *)
ResetsUnlessLost(port, board) ==
  {s \in Counters : /\ lost[s] = 0
                    /\ (s = "all" /\ port = 1) \/ (s = "board" /\ board)}

(* What MsgRx_Manage resets for a frame that matches a row. *)
Resets(port, board) ==
  {s \in Counters : (s = "all" /\ port = 1) \/ (s = "board" /\ board)}

Supervise(port, board) ==
  LET rs == Resets(port, board)
      Heard(s) == (s = "all" /\ port = 1) \/ (s = "board" /\ board)
  IN  /\ queued > 0
      /\ queued' = queued - 1
      /\ cnt' = [s \in Counters |-> IF s \in rs THEN 0 ELSE cnt[s]]
      /\ silent' = [s \in Counters |-> IF Heard(s) THEN 0 ELSE silent[s]]
      /\ frames' = IF port = 1 THEN 0 ELSE frames
      /\ overwritten' = [s \in Counters |-> overwritten[s] /\ ~Heard(s)]
      /\ task' = [task EXCEPT !.reset = @ \/ \E s \in rs : InService(s)]
      /\ UNCHANGED lost

(* No row matches: nothing is reset. *)
HandleUnmatched ==
  /\ queued > 0
  /\ queued' = queued - 1
  /\ UNCHANGED <<msg, bufVars, appBuf, clock, cnt, lost, silent, frames,
                 overwritten, task>>

-----------------------------------------------------------------------------
(* MsgRx_Deal for the next packet of the row. *)

Packet == msg.next
Tail == Packet = Len - 1

(* Mutation: the first packet does not start the count again. *)
CountedOn == dataLen + 1

Counted == IF Packet = 0 THEN 1 ELSE dataLen + 1
Accepts == Tail /\ Counted = Len

Receive ==
  /\ ~Idle
  /\ msg' = [msg EXCEPT !.next = @ + 1]
  /\ canBuf' = [canBuf EXCEPT ![Packet] = msg.ver]
  /\ dataLen' = IF Tail THEN 0 ELSE Counted
  /\ alone' = (Packet = 0 \/ alone)
  /\ IF Accepts
     THEN /\ update' = 1
          /\ accepted' = IF \A i \in Slots : canBuf'[i] = msg.ver
                         THEN msg.ver ELSE Mixed
     ELSE UNCHANGED <<update, accepted>>
  /\ Supervise(Port, TRUE)
  /\ UNCHANGED <<appBuf, clock>>

(* A packet of another row: its first, one in the middle, its last.  Port 2
   has one row only. *)
ReceiveOther ==
  /\ \/ dataLen' = 1
     \/ dataLen < MaxDataLen /\ dataLen' = dataLen + 1
     \/ dataLen' = 0
  /\ alone' = FALSE
  /\ \/ Supervise(1, FALSE)
     \/ Port = 1 /\ Supervise(1, TRUE)
     \/ Port = 1 /\ Supervise(2, FALSE)
  /\ UNCHANGED <<msg, canBuf, update, accepted, appBuf, clock>>

-----------------------------------------------------------------------------
(* The cycle of CanTask.  A board has sent its answer, or what it sends of
   it, before the cycle that polls it again starts. *)
Due == clock + 1 >= sendTick

WaitCycle ==
  /\ task.at = "wait"
  /\ Due => Idle
  /\ task' = [task EXCEPT !.at = "scan"]
  /\ UNCHANGED <<msg, bufVars, appBuf, clock, supVars>>

(* CycleMsgUpdate_data; memcpy goes packet by packet here. *)
ScanRow ==
  /\ task.at = "scan"
  /\ task' = [task EXCEPT !.at = IF update = 1 THEN "copy" ELSE "push"]
  /\ UNCHANGED <<msg, bufVars, appBuf, clock, supVars>>

CopyPacket ==
  /\ task.at = "copy"
  /\ task.slot < Len
  /\ appBuf' = [appBuf EXCEPT ![task.slot] = canBuf[task.slot]]
  /\ task' = [task EXCEPT !.slot = @ + 1]
  /\ UNCHANGED <<msg, bufVars, clock, supVars>>

(* Mutation: the flag is lowered with one packet still to be copied. *)
ClearUpdateEarly ==
  /\ task.at = "copy"
  /\ task.slot = Len - 1
  /\ update' = 0
  /\ task' = [task EXCEPT !.at = "push", !.slot = 0]
  /\ UNCHANGED <<msg, canBuf, dataLen, accepted, alone, appBuf, clock,
                 supVars>>

ClearUpdate ==
  /\ task.at = "copy"
  /\ task.slot = Len
  /\ update' = 0
  /\ task' = [task EXCEPT !.at = "push", !.slot = 0]
  /\ UNCHANGED <<msg, canBuf, dataLen, accepted, alone, appBuf, clock,
                 supVars>>

(* CycleMsgPush: the poll goes out when its clock has reached sendTick. *)
Poll ==
  /\ task.at = "push"
  /\ Due
  /\ clock' = 0
  /\ msg' = [next |-> 0, ver |-> (msg.ver + 1) % NVersions, gap |-> FALSE]
  /\ alone' = FALSE
  /\ task' = [task EXCEPT !.at = "load"]
  /\ UNCHANGED <<canBuf, update, dataLen, accepted, appBuf, supVars>>

PollNotDue ==
  /\ task.at = "push"
  /\ ~Due
  /\ clock' = clock + 1
  /\ task' = [task EXCEPT !.at = "load"]
  /\ UNCHANGED <<msg, bufVars, appBuf, supVars>>

(* Bsp_can_fault, for the board and then for CanCnt: load the counter, store
   it counted up, judge it.  The compiler may judge what it holds in the
   register or what is in memory by then. *)
LoadCounter ==
  /\ task.at = "load"
  /\ task' = [task EXCEPT !.at = "store", !.reg = cnt[task.src] + 1]
  /\ silent' = [silent EXCEPT ![task.src] =
                  IF @ < CAN_RX_TIME THEN @ + 1 ELSE @]
  /\ UNCHANGED <<msg, bufVars, appBuf, clock, queued, cnt, lost, frames,
                 overwritten>>

StoreCounter ==
  /\ task.at = "store"
  /\ cnt' = [cnt EXCEPT ![task.src] = task.reg]
  /\ overwritten' = [overwritten EXCEPT ![task.src] = @ \/ task.reset]
  /\ task' = [task EXCEPT !.at = "judge", !.reset = FALSE]
  /\ UNCHANGED <<msg, bufVars, appBuf, clock, queued, lost, silent, frames>>

(* The ports first, then CanCnt. *)
NextCounter ==
  IF task.src = "board"
  THEN [task EXCEPT !.at = "load", !.src = "all", !.reg = 0, !.reset = FALSE]
  ELSE [task EXCEPT !.at = "wait", !.src = "board", !.reg = 0,
                    !.reset = FALSE]

(* Mutation: a counter that has reached the limit starts again. *)
SilentWraps(s) ==
  /\ cnt' = [cnt EXCEPT ![s] = 0]
  /\ lost' = [lost EXCEPT ![s] = 1]

(* Mutation: the counter goes on counting. *)
SilentUncapped(s) ==
  /\ lost' = [lost EXCEPT ![s] = 1]
  /\ UNCHANGED cnt

JudgedSilent(s) ==
  /\ cnt' = [cnt EXCEPT ![s] = CAN_RX_TIME]
  /\ lost' = [lost EXCEPT ![s] = 1]

JudgeCounter ==
  /\ task.at = "judge"
  /\ LET s == task.src
     IN  \E v \in {task.reg, cnt[s]} :
           \/ /\ v >= CAN_RX_TIME
              /\ JudgedSilent(s)
              /\ overwritten' = [overwritten EXCEPT ![s] = @ \/ task.reset]
           \/ /\ v < CAN_RX_TIME
              /\ lost' = [lost EXCEPT ![s] = 0]
              /\ UNCHANGED <<cnt, overwritten>>
  /\ task' = NextCounter
  /\ UNCHANGED <<msg, bufVars, appBuf, clock, queued, silent, frames>>

-----------------------------------------------------------------------------
CanRx == Receive \/ ReceiveOther \/ HandleUnmatched

(* CanRx preempts CanTask as long as frames are queued. *)
CanTask ==
  /\ queued = 0
  /\ \/ WaitCycle \/ ScanRow \/ CopyPacket \/ ClearUpdate \/ Poll \/ PollNotDue
     \/ LoadCounter \/ StoreCounter \/ JudgeCounter

Next == Interrupt \/ LosePacket \/ CanRx \/ CanTask

Spec == Init /\ [][Next]_vars

-----------------------------------------------------------------------------
(* "The frame length is right, update the data" (canApp.cc:108): a message *)
(* whose packets came one after the other with nothing between them is     *)
(* accepted if and only if none of them is missing, and one that came      *)
(* complete is never accepted mixed with an older one, whatever came       *)
(* between its packets.                                                    *)
AcceptedWhole ==
  [][(Receive /\ Tail) =>
       /\ (Packet = 0 \/ alone) => (Accepts <=> ~msg.gap)
       /\ (Accepts /\ ~msg.gap) => accepted' # Mixed]_vars

(* What the Logic thread reads is the last message accepted, all of it:    *)
(* CanRx may preempt CycleMsgUpdate_data between the packets it copies and *)
(* before it lowers the flag, and still no message is torn or forgotten,   *)
(* since the board is polled only after the copy.                          *)
AppIsAccepted ==
  (update = 0 /\ accepted # Mixed) => \A i \in Slots : appBuf[i] = accepted

(* A source of which no packet has been handled for CAN_RX_TIME cycles is  *)
(* reported lost (canTask.cc 88-118), whichever resets the interrupted     *)
(* increments wrote over and however many frames of others were counted    *)
(* meanwhile.                                                              *)
SilentReported ==
  \A s \in Counters :
    (silent[s] = CAN_RX_TIME /\ ~InService(s)) => lost[s] = 1

(* No source is reported lost before its time, unless CanTask wrote over   *)
(* the reset of its last packet: a board only after CAN_RX_TIME cycles in  *)
(* which CanRx handled no packet of its rows, and CanFault only when the   *)
(* cycles since the last packet of any row of port 1, together with the    *)
(* frames received since, make up CAN_RX_TIME.  The interrupt counts in    *)
(* CanCnt what it receives (canLinker.cc:157), so CanFault does not mean   *)
(* that nothing is received: frames dropped by a full queue, frames that   *)
(* match no row and frames of port 2 bring it nearer.                      *)
NoEarlyLoss ==
  \A s \in Counters :
    (lost[s] = 1 /\ silent[s] > 0 /\ ~InService(s) /\ ~overwritten[s]) =>
      silent[s] + (IF s = "all" THEN frames ELSE 0) >= CAN_RX_TIME
=============================================================================
