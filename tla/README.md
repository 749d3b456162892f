# SC04 monitor: models and proofs

The SC04 monitor board (监控板) supervises a charging cabinet: an STM32F4 under
RT-Thread that commands up to five DCDC charger boards (C1..C5) over CAN1, talks
to an analog board over CAN2, drives the cabinet's contactors, serves a touch
screen as a Modbus slave, and keeps parameters and records in an AT45 flash.
This directory holds TLA+ models of its core logic, TLC configurations that check
them, and proofs checked by TLAPS. Source paths below are relative to
`src/MDK/bsp/stm32f40x/` unless they start with `src/`.

## 1. Inventory

### Scheduling

`drivers/Bsp_systimer.c` is a 1 ms interrupt. Every 5 ms it releases the analog
and digital input thread and sets the CAN cycle event, every 10 ms it releases the
Logic thread. A smaller number is a higher priority.

| thread | prio. | code | released by |
|---|---|---|---|
| CanRx | 6 | `can/canTask.cc` `Bsp_can_rx_task` | semaphore of the receive queue |
| CanTx | 8 | `Bsp_can_tx_task` | semaphore of the transmit queue |
| CanTask | 8 | `Bsp_can_task` | cycle and trigger events |
| init | 10 | `UserApp/thread_x_run.cc` | runs once, then waits for a reset request |
| AdIo | 10 | `AdIo/AdIo_task.cc` | tick, 5 ms |
| Logic | 12 | `UserApp/logicTask.cc` | tick, 10 ms |
| MBSlave, mbtask | 15 | `src/MDK/components/net/freemodbus-v1.6.0/port/` | serial events, 10 ms delay |
| fst | 18 | `flash/flash_storage_at45dbxx.c` | mail box |
| PC master | 20 | `pcmaster/` | serial events, tick |

Everything is exchanged through global structures (`MB_LGA`, `can.AppBuf`, `HMI`,
`FAULT`), with interrupt locks inside the two CAN queues only.

### Components

| component | state | operations | what makes it correct |
|---|---|---|---|
| CAN queues (`can/canTxQueue.cc`, `canRxQueue.cc`) | ring of block numbers, pool of blocks, entry count, FULL register, semaphore | `Push_Msg`, `pop_Q` (enqueues), `push_Q` (dequeues), the CanTx and CanRx loops | frames come out once, unaltered and in order; no frame waits over a blocked consumer; a refusal for want of room ends |
| System mode machine (`UserApp/appMonitor.cc`) | state, output mode, precharge steps and flag, two delays, contactors | `ChargeModeManage`, `System_Output`, once a tick | mains close after a precharge, never open under load by a stop; a lasting trip opens everything; the cabinet powers up |
| DCDC board machines (`UserApp/appModule.cc`) | state, output mode, two delays and the command, per board | `ModuleManage`, `OutputManage`, once a tick and board | an automatic start is a settled one; a board stops with its cabinet and with its own fault |
| CAN application layer (`can/canApp.cc`, `canLinker.cc`) | table of frame types, per type a CAN buffer, an application buffer, an update flag | cyclic and triggered sending, packet reassembly | a message is taken whole, and what the application reads is the last one taken |
| link supervision (`can/canTask.cc` 80-119) | six port counters, state word, one counter of cycles and frames | once per cycle event; each received frame | a source that is not heard is reported in time, and none before what is counted makes up the limit |
| HMI commands (freemodbus `port/user_mb_app.c`, `UserApp/logicApp.cc`) | register image, address flags | write register, `HmiInputUpdate` | what is in force is what was written last; a flag is served |
| parameters (`UserApp/logicApp.cc` 456-622) | parameters in force, read back and requested; flags | `ParManage`, `sys_par_write`, `sys_par_read` | a new set is sent, confirmed and stored |
| fault manager (`UserApp/app_Fault.cc`) | marks, confirm and release counters, fault words | `FaultAnalyse`, `fault_Run` | a fault is raised when its mark has lasted, and falls when it has been gone long enough |
| flash storage (`flash/flash_storage_at45dbxx.c`) | region map, newest page and id, mail box | write, read back, scan after a restart | the newest intact record is found after any restart |
| digital and analog inputs (`AdIo/`) | filter counters and buffers | every 5 ms | a level counts when it has lasted |
| PC master, start-up, RTC, CRC, vendored kernel and stacks | | | not modelled, see section 7 |

How they interact: an inbound frame goes interrupt → receive queue → CanRx →
reassembly → application buffer (CanTask) → `MB_LGA` (Logic); a command goes Logic
→ application buffer → charge frame (CanTask) → transmit queue → CanTx. Each arrow
is a hand-over between two contexts. The Logic thread runs, in this order: digital
and analog input copies, HMI command, CAN input copy, monitor update, faults, the
system mode machine, the five board machines, parameters, output copies.

What is hard here: the hand-overs (queue code between two interrupt locks, flags
raised before their data, double buffers without a lock), long-lived state that
some path forgets to reset (delays, `PreFinsh`, mode requests), commands in flight
while the cabinet changes state, and restarts of the flash. `PROJECT.json`
"hazards" lists each with its line, the properties that catch it, or why none does
yet.

## 2. Modules

| module | what it is |
|---|---|
| `FrameChannel` | abstract specification: a first-in first-out channel of frames with one frame in service, which promises nothing of contents during an overrun |
| `CanQueue` | the queue's state and its locked sections, shared by both directions |
| `CanTx` | CanTask's `Push_Msg` against the CanTx loop, and the refinement of `FrameChannel` |
| `CanRx` | the receive interrupts' `Push_Msg` against the CanRx loop, and the same refinement |
| `SysMode` | the system mode machine, one Logic iteration per step, with a free verdict on the faults |
| `FaultRun` | the fault manager's part of an iteration |
| `Cabinet` | composition: `FaultRun` decides `sFault`, `SysMode` obeys it, in one iteration |
| `CbModule` | the board machines with the CAN loop they close |
| `CanInput` | one row of the table of messages: reassembly, double buffer, poll, link supervision |
| `HmiCommands` | every writable address: mbslave's flag and copy against the Logic pass, parameters included |
| `FlashStorage` | the ring of records with its catalog, through power losses and failing pages |
| `ParStore` | the life of the heap block in which parameters are posted to the flash thread |
| `MC*` | values and symmetric sets for TLC |
| `CanTxProofs`, `CanRxProofs`, `SysModeProofs`, `CabinetProofs`, `CbModuleProofs`, `CanInputProofs`, `HmiProofs`, `FlashProofs` | theorems |

**CAN queues.** `FillBlock`, `StoreEntry`, `NextBlock`, `RemoveEntry`, `FindEmpty`
are the code between `rt_hw_interrupt_disable` and `enable`, or a single word
written outside it; the `pc` variables of `CanTx` (`pushPc`, `txPc`) and of `CanRx`
(`rxPc`) are the places between them. CanTask and CanTx have the same priority and
are time-sliced, so either may be suspended at any of these places. On the receive
side the producer is an interrupt: `RxIsr` is one step, at any place of the CanRx
loop. `buffRamPtr` is the block the consumer holds; it stays in the pool while
CanTx sleeps between retries, and nothing marks it as in use. `backlog`,
`inService`, `delivered`, `overrun` are history variables and at the same time the
refinement mapping to `FrameChannel`.

**System mode.** A step copies the inputs (the key, the severe fault, the bus
flag, who is charging: chosen freely in `SysMode`; in `Cabinet` the severe fault is the
fault manager's), takes at most one HMI command, and runs the
switch of `ChargeModeManage` (one disjunct per transition) and that of
`System_Output` (one per output mode). `held` and `loaded` are history: how long
the precharge has been held, and whether the counters were ever loaded.

**Fault manager.** `FaultAnalyse` chooses the marks: most follow a comparison that
may go either way in any pass; the output voltage sensors' (`Sensor`) are lowered
only while their board charges, the overcurrents' (`OverCurrent`) are touched only
while `busVoltOK`. `fault_Run` is the loop over all faults; its confirm and release
times are constants, in ticks. `since` is history. `FaultRcdFlg`, `count` and
`sysInfoRecord` are left out: they end in `wFaultFlg`, which nothing reads.
`CabinetTick` keeps the order of the iteration: inputs, faults, mode machine.

**Board machines.** `LogicTick` runs every board's `ModuleManage` and
`OutputManage` and hands the commands to the application buffer. `PushFrame`
(the charge frame), `BoardObeys` and `BoardChanges` (the board, external),
`StatusArrives` (the status message) may happen at any time in between. The
frame is kept as the latest value sent; a lost frame is a `PushFrame` that has
not happened yet. `standby`, the cabinet's state, is an input here. `last` and
`rested` are history.

**Reception.** The unit is a packet of eight bytes (every `len` of the table is a
multiple of eight, and the boards send full frames). `Interrupt` is
`can_Rx_Push_Msg`: it counts every frame in `CanCnt`, whether the receive queue takes
it or drops it. CanRx (priority 6) preempts CanTask (8) as long as frames are queued
and handles each in one step: a packet of the row (`Receive`), of another row
(`ReceiveOther`), or a frame that matches no row (`HandleUnmatched`), which the filter
lets pass because it looks at the sink only. What a packet resets (`Resets`) depends
on its port: `CanCnt` falls for rows of port 1 only, and nothing falls for a frame
that matches none. The queue is the number of frames in it; its ring is `CanRx`.
CanTask goes word by word where it shares state: packets copied one by one (`CopyPacket`), the
flag lowered after them (`ClearUpdate`), a counter loaded, stored and judged in
three steps (`LoadCounter`, `StoreCounter`, `JudgeCounter`). Whether the judgement
reads the register or memory is left to the compiler by the source and is a free
choice. A board's answer is over before the cycle that polls it again
(`WaitCycle`), an assumption on the boards and the bus. It is made for rows polled cyclically; the rows that are also asked for by
`SendCan` and the analog board's, which are sent unasked, are outside this
assumption, and `AppIsAccepted` is not claimed for them. `canBuf` keeps, for each
packet, which message its bytes are of, so that a mixed message shows (`Mixed`).

**Touch screen.** mbslave (priority 15) raises an address's flag and then copies
the field, a block of parameters or a charge command in two words; Logic (12) preempts it anywhere and
is never preempted by it, so that a pass is one step: `LogicPass` is
`HmiInputUpdate`, then `ParManage` and `UserRecord`. A read of a command address
takes the same path as a write in the code, and is the same action. `boardPara`
and `appPara` close the loop over CAN: `Set_Par` may be lost, a board reports at
any time. `acted` is the field of a command as the pass that served it found it;
what the command then does (nothing for `ADDR_RESTORE`, `Reboot` for `ADDR_RESTART`,
nothing for words the charge commands' switches do not list) is not told apart. `sizeof` quirks are kept: the boards' blocks are compared four bytes
beyond their end (`SameBehind`).

**Flash.** Two regions, the catalog and the parameters, one page per record.
`ScanPage` is one iteration of `scan_flash`, a write is a sequence of tries whose
verifying read overwrites the buffer (`wr.tmp`), `PowerLoss` may come at any step and
leaves a page that was being written as it was, erased, torn or done. `kept` is the
set of blocks that the next boot may legitimately read. Two things of the boot are
taken as given: its reads do not fail, and the test that the restored map has the
layout of the build (`flash_storage_at45dbxx.c:350`) succeeds.

**Parameter block.** `Malloc`, `Free` and `FreeFails` are single steps, the heap
being locked by its semaphore. Logic does not wait inside `sys_par_write`, so fst,
of lower priority, runs before it or after it (`Fst`); other threads use the heap
at any time.

## 3. Runs

| run | bounds | states | shows |
|---|---|---|---|
| `can_tx` | 4 words, 2 frames, 1 retry, semaphore ≤ 4 | 455 025 | ring, wakeup, order and content, refinement; FULL over a backlog is opened again |
| `can_rx` | 4 words, 2 frames, semaphore ≤ 7 | 250 316 | the same for the interrupt side; reception resumes after every overflow |
| `sysmode` | delays of 3 and 2 ticks, 1 board, 1 output contactor, 1 fault with confirm time 1 and release time 2 | 35 563 | nine promises on contactors, modes and faults, two of them liveness |
| `cb` | 1 board, delays of 2 and 1 ticks | 8 425 | automatic start, and the end of every command under way |
| `hmi` | 1 command, 1 board, the clock, 2 values, 3 requests | 119 712 | what is in force at rest is what was written, but for three named exceptions; flags are served unless blocked |
| `flash` | rings of 3 and 4 pages, `FORWARD` 3, ids to 5, 1 failed write in a ring, 3 tries | 6 546 915 | every boot finds the newest intact record, and what was stored last is what it reads |
| `can_input` | messages of 2 packets, polled every second cycle, limit of 2 cycles, 1 queued frame, no interrupt once `CanCnt` is 3 | 2 153 140 | messages taken whole, the application buffer, every loss reported in time and none before what it counts |
| `can_tx_lockout`, `can_tx_overfill`, `sysmode_restart`, `cb_stopped`, `par_store` | | | the findings of section 6 |

Why the bounds are enough. The queue's constants matter only through "one less
than the count" (three usable words of four; the build has 19 of 20), so four
words show fill, overfill, wrap of the ring and of the pool at different times,
and drain; two frames tell order and content apart. `MaxSem`, which caps pushes that run
ahead of the consumer's takes, is high enough for every branch to be taken, the
refusals included. The mode machine compares its counters with zero only, so 3 and 2 ticks
have a first, a middle and a last one and are told apart; the boards enter it only
through "someone is charging", the output contactors through "all of them at
once". The fault of the run is one whose mark a charging board lowers, the more
restricted kind; a confirm time of one and a release time of two are enough for a
mark to flicker within either, and the debouncing itself is proved for all times
(section 5). The boards are independent but for the fault of board 1.

`HmiCommands` needs one address of each kind, since the kinds differ by branch and
the addresses of a kind only by their place in the order of the flags; three
requests let one address be written while another's copy is under way and again
after it was served. `FlashStorage`'s ids bound the number of writes: five writes
wrap both rings, and the second failure falls into the ring after the first. A page
or a verifying read may fail whenever fewer than `MaxFaults` of the ids still in the
ring are missing (`FaultPossible`), so that `MaxFaults` bounds the failures of one
ring and not those of a life. `FORWARD` and the rings larger than `MaxFaults` plus
one are needed and stated as assumptions (`ScanAssumption`, `SizesAssumption`): with
either one smaller TLC finds a boot that stops before the newest record or writes
over it. The build has `FORWARD` 8 and rings of 32, so six failures in the last 32
writes are tolerated. `CanInput`'s other rows share `DataLen`
and the counters only, so their packets are counted and not kept; `MaxDataLen` caps
how far they count ahead. `MaxCanCnt` is above the limit, so that frames also arrive
once `CanCnt` is saturated. One queued frame is enough: CanTask waits for an empty
queue, so all that a longer queue adds is that several frames are counted before the
first of them resets, and dropped ones do that here. A limit of two cycles has a first
and a last one, with an increment, a reset and a judgement at each. The proofs need
none of these bounds.

`CHECK_DEADLOCK FALSE` stands in the transmit runs: with `MaxSem` reached and the
register FULL over an empty queue nothing more happens, which is finding 1.

## 4. Fairness

- `CanTx`: weak fairness of the CanTx loop, and of the push once begun. Both are
  threads of priority 8 with time slices; above them only CanRx runs, and it blocks.
  Nothing obliges CanTask to push.
- `CanRx`: weak fairness of the CanRx loop, the highest-priority thread; it is
  continuously ready when it has a semaphore count. Interrupts are not fair.
- `Cabinet`: weak fairness of the tick; the timer releases Logic every 10 ms and
  every thread above it blocks between its releases.
- `CbModule`: weak fairness of the tick, of the cyclic charge frame, of the status
  message and of the board's obedience. The last two assume a working link and
  board: `StopsUnlessManual` promises nothing when the link is lost.
- `HmiCommands`: weak fairness of the Logic pass, released by the tick, and of
  mbslave inside `RegAddressGet`, which never blocks there and gets the time Logic
  leaves. Nothing obliges the screen or the boards to do anything.
- `CanInput`, `FlashStorage`, `ParStore`: none; their properties are safety.

## 5. Proofs

The theorems hold for every value of the constants that the named assumptions
admit (queue of two or more words, any frames, any retry count; any delays, boards,
contactors, faults and times; any set of boards; messages of any length, any period
and limit; any number of commands, boards, requests and values; rings of any size
above the failures of one ring).

- **`CanTxProofs`**. `TypeOK` is not inductive: `pop_Q` appends the frame of the
  block just filled and `push_Q` takes the head of the backlog, so `TxTypeInv` adds
  that the block is filled, that backlog and entry count agree, and that CanTx
  holds a block where it works on one. `TxOrderInv` is the strengthening for the
  rest. Blocks are taken from the pool round robin and nothing marks one as in use,
  so the queue is correct only while the queued block numbers are the ones just
  behind `FifoRamPtr`, in order, and the one in service is behind them; then
  neither is the block being filled. This holds outside an overrun and is what
  `BlocksInOrder`, `HeldBeforeThem` and `RoomForPush` say. From it follow
  `TxRingConsistent`, `TxBacklogIntact`, `TxInServiceIntact`; `TxNoLostWakeup` has
  an argument of its own; with `TxFilledInv` (no queued block is unfilled, even in
  an overrun) each step maps to a step of `FrameChannel` or a stutter:
  `TxImplementsChannel`.
- **`CanRxProofs`**. The same argument for the receive side, where filling, storing
  and moving on are one step of the interrupt: `RxTypeInv` (types, and that a filled
  block is held where CanRx works on one), `RxOrderInv` (the queued blocks are the ones
  just behind `FifoRamPtr`, the one in service behind them, and their number leaves
  a free word), `RxFilledInv` for the refinement. `RxFullIsServed` has its own: a FULL
  register implies that CanRx is in its loop or has a count left.
- **`SysModeProofs`**. `IInv` is `TypeOK`, `DelayBudget`, `ModesAgree`,
  `MainsInOrder` and `NoOutputInChargeMode`: the promises on the contactors
  need the others, since what standby finds closed is what precharge left. `DelayBudget` (held plus remaining ticks cover the delay)
  is what makes "no main before its delay" inductive. The proof goes by output
  mode: `PrechargeOutput`, `StandbyOutput`, and one lemma for the rest.
- **`CabinetProofs`**. `CabinetIsSysMode`: every behaviour of the composition is one of
  `SysMode`, so that the theorems above hold with the fault manager in the loop.
  `Debounced` is not inductive, because the code keeps two counters and not the time a
  mark has lasted; `CountersTell` relates them (a marked fault that is not raised has
  counted exactly its passes; a raised fault whose mark is gone has left of its
  release time what has not passed), and with it each pass over a fault is a case
  distinction on mark and fault.
- **`CbModuleProofs`**. `DelayAccount` (ticks at rest plus remaining ticks cover
  the start time) with `TypeOK` is inductive, and gives `ArrivalWaits`.
- **`CanInputProofs`**. `BufInv` follows a message through its phases: the packets
  that arrived are in the buffer (`Prefix`), what `dataLen` says of them while they
  come alone (`Counting`), nothing new arrives while a complete message waits or is
  copied (`Waiting`, `Copying`). `SupInv` bounds a counter from below and above by
  the silence it stands for: `NotBehind` needs no assumption on lost resets, since
  a reset written over only makes a counter larger, and so do the interrupt's frames;
  `NotAhead` excepts `overwritten`, and adds for `CanCnt` the frames counted since
  its last reset (`CountFrameSup`: a frame raises the counter and what bounds it alike).
  `LossIsAccounted` is therefore exact: it does not say that a lost link is silent.
- **`HmiProofs`**. `StaleOnlyFirst` is inductive over `TypeOK`: a pass whose lowest flag
  is the cabinet's parameters looks at the same block twice, any other pass that
  accepts nothing leaves `MB_WrPara` alone. `Followed` is not: a board's flag is
  still up between Set_Par and Read_Par, and what was sent then must be remembered to be what
  the screen wrote (`Sent`); `FollowedInv` is `Followed` kind by kind with `Sent`.
- **`FlashProofs`**. `TypeOK` needs that a boot restores from an intact catalog page
  (`RestoresGoodPage`), since what is read there becomes `storage_maps`, and that a
  scan that goes on has pages left (`ScanHasPages`). `FlashOneRecordPerId`: no two
  intact records of a region have the same id, so that comparing ids finds one newest
  record. `PlacedInv` is the strengthening: the id of a record fixes its page
  (`AtId`), in the flash, in RAM, in the maps a catalog record holds and in those
  being written; a boot that falls back to an older record falls back in page and
  id together.

  `RestartFindsNewest` rests on `RingInv`, which sees the ring by ids. `Settled`: in a
  region nobody writes, at most `MaxFaults` of the newest ids are missing.
  `BeingWritten`: while record m is written the same holds of the ids before m, with
  room for m itself once the buffer is spoilt, since every later try writes the
  spoilt buffer. That the write takes the page of the oldest id and of no other is
  the lemma `WriteKeeps`; that no more ids are missing afterwards although the
  newest may now be older is `WriteOver`, an injection of the new holes into the old.
  `ScanInv` follows a boot: a scan will still meet the newest record because it has
  more pages left to go over than there are holes before it, and one more for the
  page it started from, which is itself older. `CatalogInv` makes the start legal:
  no catalog record is ahead of the parameters, so the newest is met going forward.
  `KeepsLastStored` adds `KeptInv`: the newest block, not counting the one under way, is
  in `kept`. Its theorem has the hypothesis `MAX_RETRY_TIMES > 1` (the build has 3): with
  one try, a verifying read that fails after the page was written right leaves the
  new block behind as stored, though its write is reported as failed.

Every safety property of a passing run is the statement of a theorem. Model-checked
only are `FullClears`, `TripsOpen`, `RecoversFromTrip`, `StopsUnlessManual` and
`FlagsServed`: liveness under fairness, outside the prover's reach. `DelayBudget` of
`SysMode` is proved and not among a run's properties; it is part of the inductive
invariant.

## 6. Findings

Each of these is a run that ends in a counterexample.

1. `can_tx_lockout`: `pop_Q` writes the FULL register after it has enabled
   interrupts again. If CanTx drains the queue in between, the register stays FULL
   over an empty queue and no further frame is accepted (`can/canTxQueue.cc:79`).
   The receive side writes it inside the interrupt and does not have this.
2. `can_tx_overfill`: the ring has one word less than the count allows; the last
   entry accepted overwrites the oldest (`can/canTxQueue.cc:170`). The receive queue
   has the same ring.
3. `sysmode_restart`: `PreFinsh` is never cleared, so that only the first start
   after boot precharges (`UserApp/appMonitor.cc:255`).
4. `cb_stopped`: a board whose mode is MANUAL is started in every other tick in a
   cabinet that is not in standby (`UserApp/appModule.cc:41`).
5. `par_store`: `sys_par_write` posts the address of a heap block to the flash
   thread and frees the block at once; the flash thread frees it a second time
   (`UserApp/logicApp.cc:600`, `flash/flash_storage_at45dbxx.c:225`). `rt_free`'s
   assertion that the block is in use fails while the heap's semaphore is held, or,
   if another thread has allocated the block by then, the record gets foreign
   contents and that thread loses its block.

Met while modelling and visible in the modules, without a run of their own:

- with the key on at boot and the bus up, both mains close in the first tick, the
  delay counters being zero until some tick loads them; `MainsWaitForPrecharge`
  exempts that start (`loaded`);
- `busVoltOK` is assigned by no statement of the firmware, so that
  `RecoversFromTrip` has to assume it, and the marks of the overcurrents never change;
- a wake-up command leaves the mode request at SLEEP, and the machine alternates
  between STOP and SLEEP until the next charge command; the premise of
  `RecoversFromTrip` has the charge command;
- a charge that ended at constant voltage is started again in the next tick: its
  start delay is still expired and `chargeComplet` is never set; `ArrivalWaits`
  speaks of arrivals only;
- outside IDLE all boards look at the fault of board 1 (`UserApp/appModule.cc:54`);
- `AdFault` is assigned `(~CanStateWord) & 0x0020` and has one bit: it is always 0
  (`can/canTask.cc:107`). `FaultAnalyse` writes its result over that of `CanFault`, into
  the same mark (`UserApp/app_Fault.cc:40-57`), so that the warning WN_CAN_MxCx is
  never raised;
- the confirm and release tables have 51 entries for 66 faults and the rows of the
  severe faults begin at entry 27 instead of 32 (`UserApp/app_Fault.cc:12-33`): many
  faults have another's times, the last fifteen none;
- the mark of an output voltage sensor is lowered only while its board charges,
  and the fault stops the boards, so that an automatic cabinet does not leave
  that trip by itself (`UserApp/app_Fault.cc:486-538`);
- the comment of `Bsp_can_fault` says that the link is judged lost when no CAN data has
  been received continuously (`can/canTask.cc:84`), but `CanCnt` goes up with every
  cycle and with every frame received (`can/canLinker.cc:157`), and falls only when a
  packet of a row of port 1 is handled: frames that match no row, that the full
  queue drops, or that come on port 2 make `CanFault` come earlier, not later. A
  board's own bit does not count frames;
- an incomplete message can be accepted with an old packet in it when another row's
  packet makes up the count in `DataLen` (`Mixed` in `CanInput`);
- a parameter block that says what is in force already keeps its flag up and blocks
  the flags behind it (`Blocked` in `HmiCommands`, `UserApp/logicApp.cc:473`);
- the three ways in which a write of the screen is not followed are the cases that
  `slipped` collects in `HmiCommands`.

## 7. What is left

Open, in the order in which they would add most:

1. the composition of `Cabinet` with `CbModule` (`standby` from the one, `Charging`
   from the other): a trip ends with the boards stopped and then every contactor
   open, in closed loop, and the sensor fault of section 6 as a property;
2. the composition of the CAN queues with `CanInput` and `CbModule`;
3. the level filter of the digital inputs and the dividers of the tick.

Not modelled:

- the digital and analog filters (`AdIo/`), the tick's dividers
  (`drivers/Bsp_systimer.c`): what they deliver is a free choice in the models;
- `sysInfoRecord` and the records for display, which nothing reads;
- the read registers and the link supervision of the Modbus slave, and the setting of
  the clock;
- reading older records of the flash, which no caller does, and the SPI driver;
- the PC master link: it writes any memory, which no invariant survives;
- register initialisation and SPI/CAN/UART register I/O, RTC, CRC and PT100 tables;
- the vendored RT-Thread kernel, freemodbus core and ST libraries, modelled only as
  the application uses them (semaphores, interrupt locks, the heap's calls);
- the files outside the build (`Record/`, most of `rs485/`, `UserApp/appCharge.cc`,
  `drivers/own_flash.c`);
- reception before the queues are initialised (`can/canTask.cc:347`).

Most of the repository's lines are the kernel, the stacks and the chip's libraries of
this list; the application's own logic is what the modules cover.
