------------------------------- MODULE SysMode -------------------------------
(***************************************************************************)
(* System_Mode: the cabinet's state machine (UserApp/appMonitor.cc), run   *)
(* once per iteration of the Logic thread (UserApp/logicTask.cc).          *)
(*                                                                         *)
(* One step is one whole iteration: the inputs are copied into MB_LGA, the *)
(* HMI's command is taken, ChargeModeManage picks the state from the state *)
(* of the previous iteration and the new inputs, System_Output drives the  *)
(* contactors from the new output mode.  The thread is the only writer of  *)
(* these variables, so nothing interleaves inside the iteration.           *)
(*                                                                         *)
(* MB_IO_OUT is the set of contactors whose bit is set (closed); the 60 s  *)
(* and 500 ms delays are the constants D1 and D2, in ticks.                *)
(***************************************************************************)
EXTENDS Integers

CONSTANTS
  Boards,          \* the DCDC charger boards (C1..C5)
  OutCons,         \* their output contactors (outCon1N..outCon5N)
  D1,              \* PRE_CHARGE_DELAY1
  D2,              \* PRE_CHARGE_DELAY2
  DevTestCmds,     \* the contactor sets the HMI asks for in device test
  BusVoltOKInputs  \* the values busVoltOK is given

Mains == {"mainCon1", "mainCon2"}
Contactors == Mains \cup {"preCon"} \cup OutCons

ASSUME OutConsAssumption == OutCons \cap (Mains \cup {"preCon"}) = {}
ASSUME DelayAssumption == D1 \in Nat /\ D2 \in Nat
ASSUME DevTestAssumption == DevTestCmds \subseteq SUBSET Contactors
ASSUME BusVoltAssumption == BusVoltOKInputs \subseteq BOOLEAN

VARIABLES
  SystemState,     \* System_Mode::SystemState
  SystemOutput,    \* System_Mode::SystemOutput
  preSteps,        \* {1 : PreChargeStep1} \cup {2 : PreChargeStep2}
  PreFinsh,        \* System_Mode::PreFinsh
  PreDelayCnt,     \* System_Mode::PreDelayCnt
  PreDelay2Cnt,    \* System_Mode::PreDelay2Cnt
  SysModeSet,      \* MB_SYS_INFO.SysModeSet
  SleepCmd,        \* CtrCmd.SleepCmd
  DevTestCmd,      \* CtrCmd.DevTestCmd, as the set of its contactors
  cabinetEnN,      \* MB_IO_IN.cabinetEnN, the start/stop key
  sFault,          \* MB_SYS_INFO.sFault
  busVoltOK,       \* MB_SYS_INFO.busVoltOK
  Charging,        \* the boards whose cbN_SYS.input.Charging is set
  MB_IO_OUT,       \* the contactors driven closed
  held,            \* history: ticks of the current unbroken precharge
  loaded           \* history: some tick since boot was not a precharge

mode == <<SystemState, SystemOutput, preSteps, PreFinsh>>
delays == <<PreDelayCnt, PreDelay2Cnt>>
hmi == <<SysModeSet, SleepCmd, DevTestCmd>>
inputs == <<cabinetEnN, sFault, busVoltOK, Charging>>
history == <<held, loaded>>
vars == <<mode, delays, hmi, inputs, MB_IO_OUT, history>>

States == {"STOP", "PRECHARGE", "STANDBY", "FAULT", "TEST", "SLEEP"}
HeldMax == D1 + D2 + 2     \* held saturates here: no property looks further

TypeOK ==
  /\ SystemState \in States
  /\ SystemOutput \in States
  /\ preSteps \subseteq {1, 2}
  /\ PreFinsh \in BOOLEAN
  /\ PreDelayCnt \in 0..D1
  /\ PreDelay2Cnt \in 0..D2
  /\ SysModeSet \in {"CHARGE", "DEVICE_TEST", "SLEEP"}
  /\ SleepCmd \in {"NONE", "IN_SLEEP", "OUT_SLEEP"}
  /\ DevTestCmd \subseteq Contactors
  /\ cabinetEnN \in BOOLEAN
  /\ sFault \in BOOLEAN
  /\ busVoltOK \in BOOLEAN
  /\ Charging \subseteq Boards
  /\ MB_IO_OUT \subseteq Contactors
  /\ held \in 0..HeldMax
  /\ loaded \in BOOLEAN

(***************************************************************************)
(* Boot.  Every object involved is a global: all of it is zero except the  *)
(* two fields the constructor sets, so both delay counters start expired.  *)
(***************************************************************************)
Init ==
  /\ SystemState = "STOP"
  /\ SystemOutput = "STOP"
  /\ preSteps = {}
  /\ PreFinsh = FALSE
  /\ PreDelayCnt = 0
  /\ PreDelay2Cnt = 0
  /\ SysModeSet = "CHARGE"
  /\ SleepCmd = "NONE"
  /\ DevTestCmd = {}
  /\ cabinetEnN = FALSE
  /\ sFault = FALSE
  /\ busVoltOK = FALSE
  /\ Charging = {}
  /\ MB_IO_OUT = {}
  /\ held = 0
  /\ loaded = FALSE

-----------------------------------------------------------------------------
(***************************************************************************)
(* The inputs of an iteration, which DigitalInputUpdate, CanInputUpdate    *)
(* and MonitorUpdate leave in MB_LGA, and the verdict of FaultManage on    *)
(* them: what they may be is the plant's choice.                           *)
(***************************************************************************)
ReadInputs ==
  /\ cabinetEnN' \in BOOLEAN
  /\ busVoltOK' \in BusVoltOKInputs
  /\ Charging' \in SUBSET Boards

(* The three HMI commands that reach this machine, or none of them. *)
ChargeCmdTaken == /\ SysModeSet' = "CHARGE"
                  /\ UNCHANGED <<SleepCmd, DevTestCmd>>
DevTestTaken   == /\ SysModeSet' = "DEVICE_TEST"
                  /\ DevTestCmd' \in DevTestCmds
                  /\ UNCHANGED SleepCmd
SleepTaken     == /\ SysModeSet' = "SLEEP"
                  /\ SleepCmd' \in {"NONE", "IN_SLEEP", "OUT_SLEEP"}
                  /\ UNCHANGED DevTestCmd

HmiInputUpdate == ChargeCmdTaken \/ DevTestTaken \/ SleepTaken \/ UNCHANGED hmi

-----------------------------------------------------------------------------
(***************************************************************************)
(* ChargeModeManage: the switch over the state, one disjunct per           *)
(* transition.  The first tests of STOP, PRECHARGE, STANDBY and FAULT are  *)
(* the same (sleep, then device test), which SysModeSet' tells apart.      *)
(***************************************************************************)
Go(s) == SystemState' = s /\ SystemOutput' = s

(* In TEST the sleep request sets the state alone: the output stays TEST
   for one more tick. *)
FallAsleep ==
  /\ SystemState # "SLEEP" /\ SysModeSet' = "SLEEP"
  /\ SystemState' = "SLEEP"
  /\ SystemOutput' = IF SystemState = "TEST" THEN SystemOutput ELSE "SLEEP"

StartTest == SystemState # "SLEEP" /\ SysModeSet' = "DEVICE_TEST" /\ Go("TEST")
LeaveTest == SystemState = "TEST" /\ SysModeSet' = "CHARGE" /\ Go("STOP")
StayAsleep == SystemState = "SLEEP" /\ SleepCmd' = "IN_SLEEP" /\ Go("SLEEP")
WakeUp == SystemState = "SLEEP" /\ SleepCmd' # "IN_SLEEP" /\ Go("STOP")

Serving(states) == SystemState \in states /\ SysModeSet' = "CHARGE"

Trip == Serving({"STOP", "PRECHARGE", "STANDBY", "FAULT"}) /\ sFault' /\ Go("FAULT")
ClearFault == Serving({"FAULT"}) /\ ~sFault' /\ Go("STOP")

(* Mutant: the key stops the state and not the output. *)
KeyOffStateOnly == /\ Serving({"STOP", "PRECHARGE", "STANDBY"})
                   /\ ~sFault' /\ ~cabinetEnN'
                   /\ SystemState' = "STOP" /\ UNCHANGED SystemOutput

KeyOff == /\ Serving({"STOP", "PRECHARGE", "STANDBY"})
          /\ ~sFault' /\ ~cabinetEnN'
          /\ Go("STOP")

KeyOn(states) == Serving(states) /\ ~sFault' /\ cabinetEnN'

StartPrecharge == KeyOn({"STOP"}) /\ Go("PRECHARGE")
KeepPrecharging == KeyOn({"PRECHARGE"}) /\ ~PreFinsh /\ Go("PRECHARGE")
EnterStandby == KeyOn({"PRECHARGE"}) /\ PreFinsh /\ Go("STANDBY")
KeepStandby == KeyOn({"STANDBY"}) /\ Go("STANDBY")

ChargeModeManage ==
  \/ FallAsleep \/ StartTest \/ LeaveTest \/ StayAsleep \/ WakeUp
  \/ Trip \/ ClearFault \/ KeyOff
  \/ StartPrecharge \/ KeepPrecharging \/ EnterStandby \/ KeepStandby

-----------------------------------------------------------------------------
(***************************************************************************)
(* System_Output: drive the contactors from the new output mode.           *)
(***************************************************************************)
Reload == PreDelayCnt' = D1 /\ PreDelay2Cnt' = D2

(* KeyOff also clears the two step flags, unless it only stays in STOP. *)
ClearedSteps ==
  IF SystemState \in {"PRECHARGE", "STANDBY"} /\ SystemState' = "STOP"
  THEN {} ELSE preSteps

NotPrecharging == /\ Reload
                  /\ preSteps' = ClearedSteps
                  /\ UNCHANGED PreFinsh

(* Mutant: the contactors drop without asking whether a board charges. *)
OpenAtOnce == /\ MB_IO_OUT' = {}
              /\ NotPrecharging

(* Mutant: a trip that leaves the contactors to the next stop. *)
OpenOnStopOnly ==
  /\ MB_IO_OUT' = IF Charging' = {} /\ SystemOutput' = "STOP" THEN {} ELSE MB_IO_OUT
  /\ NotPrecharging

(* StopCal and FaultCal. *)
OpenWhenIdle == /\ MB_IO_OUT' = IF Charging' = {} THEN {} ELSE MB_IO_OUT
                /\ NotPrecharging

StandbyCal == /\ MB_IO_OUT' = (MB_IO_OUT \ {"preCon"}) \cup Mains
              /\ NotPrecharging

DevTestCal == MB_IO_OUT' = DevTestCmd' /\ NotPrecharging
SleepCal == UNCHANGED MB_IO_OUT /\ NotPrecharging

(* Mutant: the countdown runs one tick too far. *)
WaitDelay1TooLong ==
  /\ PreDelayCnt >= 0
  /\ PreDelayCnt' = PreDelayCnt - 1
  /\ MB_IO_OUT' = {"preCon"}
  /\ preSteps' = preSteps \cup {1}
  /\ UNCHANGED <<PreDelay2Cnt, PreFinsh>>

(* Mutant: precharge leaves the output contactors as they were. *)
WaitDelay1KeepsOutputs ==
  /\ PreDelayCnt > 0
  /\ PreDelayCnt' = PreDelayCnt - 1
  /\ MB_IO_OUT' = (MB_IO_OUT \ Mains) \cup {"preCon"}
  /\ preSteps' = preSteps \cup {1}
  /\ UNCHANGED <<PreDelay2Cnt, PreFinsh>>

(* PreChargeCal, first delay running: the precharge contactor alone. *)
WaitDelay1 ==
  /\ PreDelayCnt > 0
  /\ PreDelayCnt' = PreDelayCnt - 1
  /\ MB_IO_OUT' = {"preCon"}
  /\ preSteps' = preSteps \cup {1}
  /\ UNCHANGED <<PreDelay2Cnt, PreFinsh>>

(* First delay over, the bus not up: wait for it. *)
WaitBus ==
  /\ PreDelayCnt = 0 /\ ~busVoltOK'
  /\ MB_IO_OUT' = {"preCon"}
  /\ preSteps' = {1, 2}
  /\ UNCHANGED <<delays, PreFinsh>>

(* The first main contactor beside the precharge one, second delay running. *)
WaitDelay2 ==
  /\ PreDelayCnt = 0 /\ busVoltOK' /\ PreDelay2Cnt > 0
  /\ PreDelay2Cnt' = PreDelay2Cnt - 1
  /\ MB_IO_OUT' = {"preCon", "mainCon1"}
  /\ preSteps' = {1, 2}
  /\ UNCHANGED <<PreDelayCnt, PreFinsh>>

(* Mutant: the precharge contactor stays closed beside the mains. *)
FinishKeepsPreCon ==
  /\ PreDelayCnt = 0 /\ busVoltOK' /\ PreDelay2Cnt = 0
  /\ MB_IO_OUT' = Mains \cup {"preCon"}
  /\ PreFinsh' = TRUE
  /\ preSteps' = {1, 2}
  /\ Reload

(* Both mains closed, the precharge contactor released, counters reloaded. *)
FinishPrecharge ==
  /\ PreDelayCnt = 0 /\ busVoltOK' /\ PreDelay2Cnt = 0
  /\ MB_IO_OUT' = Mains
  /\ PreFinsh' = TRUE
  /\ preSteps' = {1, 2}
  /\ Reload

(* Mutant: the branch on the first delay is forgotten. *)
PreChargeNoWait ==
  \/ ~busVoltOK' /\ MB_IO_OUT' = {"preCon"} /\ preSteps' = {1, 2}
       /\ UNCHANGED <<delays, PreFinsh>>
  \/ busVoltOK' /\ MB_IO_OUT' = Mains /\ PreFinsh' = TRUE
       /\ preSteps' = {1, 2} /\ Reload

PreChargeCal == WaitDelay1 \/ WaitBus \/ WaitDelay2 \/ FinishPrecharge

System_Output ==
  \/ SystemOutput' \in {"STOP", "FAULT"} /\ OpenWhenIdle
  \/ SystemOutput' = "PRECHARGE" /\ PreChargeCal
  \/ SystemOutput' = "STANDBY" /\ StandbyCal
  \/ SystemOutput' = "TEST" /\ DevTestCal
  \/ SystemOutput' = "SLEEP" /\ SleepCal

(* History only: nothing above reads it. *)
Record ==
  IF SystemOutput' = "PRECHARGE"
  THEN /\ held' = IF held < HeldMax THEN held + 1 ELSE held
       /\ UNCHANGED loaded
  ELSE held' = 0 /\ loaded' = TRUE

LogicTick ==
  /\ ReadInputs
  /\ sFault' \in BOOLEAN
  /\ HmiInputUpdate
  /\ ChargeModeManage
  /\ System_Output
  /\ Record

Next == LogicTick
Spec == Init /\ [][Next]_vars

-----------------------------------------------------------------------------
(* The cabinet is in charge mode: neither stopped nor in test or asleep. *)
InChargeMode == SystemState \in {"PRECHARGE", "STANDBY"}

(* A step that leaves a main contactor closed in charge mode comes behind a
   precharge: either one had completed before the step, or the present one has
   held the precharge contactor for all of the first delay and, for the second
   main contactor, all of the second.  The one exception is a precharge that
   starts in the very first tick after boot, with the counters still zero. *)
MainsWaitForPrecharge ==
  [][InChargeMode' /\ loaded /\ ~PreFinsh =>
       /\ "mainCon1" \in MB_IO_OUT' => held' > D1
       /\ "mainCon2" \in MB_IO_OUT' => held' > D1 + D2]_vars

(* Nothing but the device test closes an output contactor, and the set it left
   closed never survives into charge mode, whatever path led there: the boards
   are never put on the line by this state machine. *)
NoOutputInChargeMode == InChargeMode => MB_IO_OUT \cap OutCons = {}

(* The two mains and the precharge contactor in charge mode: the second main
   never without the first, and never in parallel with the precharge one. *)
MainsInOrder ==
  InChargeMode /\ "mainCon2" \in MB_IO_OUT =>
    "mainCon1" \in MB_IO_OUT /\ "preCon" \notin MB_IO_OUT

(* A main contactor that is closed while a board reports charging is not opened
   under that load by a stop, a trip, a sleep or a standby: only starting again
   (PreChargeCal opens both mains) or the device test does it. *)
KeptUnderLoad ==
  [][Charging' # {} /\ ~(Mains \cap MB_IO_OUT \subseteq MB_IO_OUT')
       => SystemOutput' \in {"PRECHARGE", "TEST"}]_vars

(* The state and the output mode of the last tick agree, but for the tick in
   which the device test falls asleep; and standby was reached by a precharge. *)
ModesAgree ==
  /\ SystemOutput = SystemState \/ (SystemState = "SLEEP" /\ SystemOutput = "TEST")
  /\ SystemState = "STANDBY" => PreFinsh
  /\ SystemOutput # "PRECHARGE" => held = 0

(* The delays: while no precharge has completed since the counters were
   loaded, what has been held and what is left make up the whole delay. *)
DelayBudget ==
  loaded /\ ~PreFinsh =>
    /\ held + PreDelayCnt >= D1
    /\ held + PreDelayCnt + PreDelay2Cnt >= D1 + D2
    /\ PreDelayCnt > 0 => PreDelay2Cnt = D2

ServedAndAwake == SysModeSet = "CHARGE" /\ SleepCmd # "IN_SLEEP"

(* A severe fault that stays ends with every contactor open once the boards
   have stopped charging, from whatever state and output it found. *)
TripsOpen ==
  <>[](ServedAndAwake /\ sFault /\ Charging = {}) => <>[](MB_IO_OUT = {})

-----------------------------------------------------------------------------
(* What a comment of the source says and the code does not do. *)

(* appMonitor.cc:76, "precharge done" leads to standby: every start precharges,
   not the first one alone.  PreFinsh is never cleared. *)
EveryStartPrecharges ==
  [][loaded /\ SystemState = "PRECHARGE" /\ SystemState' = "STANDBY"
       => held > D1 + D2]_vars
=============================================================================
