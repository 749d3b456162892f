---------------------------- MODULE SysModeProofs ----------------------------
(***************************************************************************)
(* The safety of System_Mode for every pair of delays, any set of boards,  *)
(* of output contactors and of device tests.                               *)
(*                                                                         *)
(* MainsWaitForPrecharge speaks of steps and rests on what is true before  *)
(* them: on the counters (DelayBudget: what was held and what is left make *)
(* up the delay), on the way into standby (ModesAgree), and on the types.  *)
(***************************************************************************)
EXTENDS SysMode, TLAPS

IInv ==
  /\ TypeOK
  /\ ModesAgree
  /\ DelayBudget
  /\ NoOutputInChargeMode
  /\ MainsInOrder

(* What MainsWaitForPrecharge asks of one step. *)
MainsWait ==
  InChargeMode' /\ loaded /\ ~PreFinsh =>
    /\ "mainCon1" \in MB_IO_OUT' => held' > D1
    /\ "mainCon2" \in MB_IO_OUT' => held' > D1 + D2

(* What a transition of ChargeModeManage may do to the state and the output:
   they stay in their types and agree, standby is entered from a finished
   precharge alone. *)
LEMMA ModeStep ==
  ASSUME TypeOK, ModesAgree, ChargeModeManage
  PROVE  /\ SystemState' \in States /\ SystemOutput' \in States
         /\ \/ SystemOutput' = SystemState'
            \/ SystemState' = "SLEEP" /\ SystemOutput' = "TEST"
         /\ SystemState' = "STANDBY" =>
              SystemState \in {"PRECHARGE", "STANDBY"} /\ PreFinsh
<1>1. SystemState \in States /\ SystemOutput \in States BY DEF TypeOK
<1>2. CASE FallAsleep BY <1>1, <1>2 DEF FallAsleep, ModesAgree, States
<1>3. CASE StartTest \/ LeaveTest \/ StayAsleep \/ WakeUp
  BY <1>3 DEF StartTest, LeaveTest, StayAsleep, WakeUp, Go, States
<1>4. CASE Trip \/ ClearFault \/ KeyOff
  BY <1>4 DEF Trip, ClearFault, KeyOff, Go, States
<1>5. CASE StartPrecharge \/ KeepPrecharging
  BY <1>5 DEF StartPrecharge, KeepPrecharging, Go, States
<1>6. CASE EnterStandby BY <1>6 DEF EnterStandby, KeyOn, Serving, Go, States
<1>7. CASE KeepStandby
  BY <1>7 DEF KeepStandby, KeyOn, Serving, Go, States, ModesAgree
<1> QED BY <1>2, <1>3, <1>4, <1>5, <1>6, <1>7 DEF ChargeModeManage

(* The contactor sets and the step sets the outputs assign are well typed. *)
LEMMA TypeStep ==
  ASSUME TypeOK, ModesAgree, LogicTick
  PROVE  TypeOK'
<1> USE DelayAssumption, DevTestAssumption, BusVoltAssumption
<1>1. SystemState' \in States /\ SystemOutput' \in States
  BY ModeStep DEF LogicTick
<1>2. /\ SysModeSet' \in {"CHARGE", "DEVICE_TEST", "SLEEP"}
      /\ SleepCmd' \in {"NONE", "IN_SLEEP", "OUT_SLEEP"}
      /\ DevTestCmd' \subseteq Contactors
  BY DEF TypeOK, LogicTick, HmiInputUpdate, ChargeCmdTaken, DevTestTaken,
         SleepTaken, hmi
<1>3. /\ cabinetEnN' \in BOOLEAN /\ sFault' \in BOOLEAN
      /\ busVoltOK' \in BOOLEAN /\ Charging' \subseteq Boards
  BY DEF LogicTick, ReadInputs
<1>4. held' \in 0..HeldMax /\ loaded' \in BOOLEAN
  <2>1. held \in 0..HeldMax /\ loaded \in BOOLEAN /\ HeldMax \in Nat
    BY DEF TypeOK, HeldMax
  <2>2. CASE SystemOutput' = "PRECHARGE"
    <3>1. /\ held' = IF held < HeldMax THEN held + 1 ELSE held
          /\ loaded' = loaded
      BY <2>2 DEF LogicTick, Record
    <3>2. held' \in 0..HeldMax BY <2>1, <3>1
    <3> QED BY <2>1, <3>1, <3>2
  <2>3. CASE SystemOutput' # "PRECHARGE"
    BY <2>1, <2>3 DEF LogicTick, Record
  <2> QED BY <2>2, <2>3
<1>5. ASSUME NotPrecharging
      PROVE  /\ preSteps' \subseteq {1, 2} /\ PreFinsh' \in BOOLEAN
             /\ PreDelayCnt' \in 0..D1 /\ PreDelay2Cnt' \in 0..D2
  <2>1. /\ PreDelayCnt' = D1 /\ PreDelay2Cnt' = D2
        /\ preSteps' \in {{}, preSteps} /\ PreFinsh' = PreFinsh
    BY <1>5 DEF NotPrecharging, Reload, ClearedSteps
  <2>2. preSteps' \subseteq {1, 2} BY <2>1 DEF TypeOK
  <2>3. PreFinsh' \in BOOLEAN BY <2>1 DEF TypeOK
  <2>4. PreDelayCnt' \in 0..D1 /\ PreDelay2Cnt' \in 0..D2 BY <2>1
  <2> QED BY <2>2, <2>3, <2>4
<1>6. /\ preSteps' \subseteq {1, 2} /\ PreFinsh' \in BOOLEAN
      /\ PreDelayCnt' \in 0..D1 /\ PreDelay2Cnt' \in 0..D2
      /\ MB_IO_OUT' \subseteq Contactors
  <2>1. CASE OpenWhenIdle BY <1>5, <2>1 DEF OpenWhenIdle, TypeOK
  <2>2. CASE StandbyCal
    BY <1>5, <2>2 DEF StandbyCal, TypeOK, Contactors, Mains
  <2>3. CASE DevTestCal BY <1>2, <1>5, <2>3 DEF DevTestCal
  <2>4. CASE SleepCal BY <1>5, <2>4 DEF SleepCal, TypeOK
  <2>5. CASE WaitDelay1 BY <2>5 DEF WaitDelay1, TypeOK, Contactors
  <2>6. CASE WaitBus BY <2>6 DEF WaitBus, TypeOK, Contactors, delays
  <2>7. CASE WaitDelay2
    BY <2>7 DEF WaitDelay2, TypeOK, Contactors, Mains
  <2>8. CASE FinishPrecharge
    BY <2>8 DEF FinishPrecharge, Reload, TypeOK, Contactors, Mains
  <2> QED BY <2>1, <2>2, <2>3, <2>4, <2>5, <2>6, <2>7, <2>8
          DEF LogicTick, System_Output, PreChargeCal
<1> QED BY <1>1, <1>2, <1>3, <1>4, <1>6 DEF TypeOK

(* A tick whose output is not a precharge starts the budget afresh. *)
LEMMA OtherOutput ==
  ASSUME IInv, LogicTick, NotPrecharging, SystemOutput' # "PRECHARGE"
  PROVE  ModesAgree' /\ DelayBudget'
<1> USE DelayAssumption
<1>1. held' = 0 /\ PreDelayCnt' = D1 /\ PreDelay2Cnt' = D2 /\ PreFinsh' = PreFinsh
  BY DEF LogicTick, Record, NotPrecharging, Reload
<1>2. /\ \/ SystemOutput' = SystemState'
         \/ SystemState' = "SLEEP" /\ SystemOutput' = "TEST"
      /\ SystemState' = "STANDBY" => PreFinsh
  BY ModeStep DEF IInv, LogicTick
<1> QED BY <1>1, <1>2 DEF ModesAgree, DelayBudget

(* A precharging tick spends one tick of the budget, or waits with it spent. *)
LEMMA PrechargeOutput ==
  ASSUME IInv, LogicTick, PreChargeCal, SystemOutput' = "PRECHARGE"
  PROVE  /\ ModesAgree' /\ DelayBudget'
         /\ NoOutputInChargeMode' /\ MainsInOrder'
         /\ MainsWait
<1> USE DelayAssumption, OutConsAssumption
<1>1. SystemState' = "PRECHARGE" /\ ModesAgree'
  BY ModeStep DEF IInv, LogicTick, ModesAgree
<1>2. /\ held' = IF held < HeldMax THEN held + 1 ELSE held
      /\ loaded' = loaded
  BY DEF LogicTick, Record
<1>3. /\ held \in Nat /\ held <= HeldMax /\ HeldMax = D1 + D2 + 2
      /\ PreDelayCnt \in Nat /\ PreDelayCnt <= D1
      /\ PreDelay2Cnt \in Nat /\ PreDelay2Cnt <= D2
      /\ DelayBudget
  BY DEF IInv, TypeOK, HeldMax
<1>4. CASE WaitDelay1
  <2>1. MB_IO_OUT' = {"preCon"} BY <1>4 DEF WaitDelay1
  <2>2. DelayBudget'
    BY <1>2, <1>3, <1>4 DEF WaitDelay1, DelayBudget
  <2> QED BY <1>1, <2>1, <2>2
      DEF MainsWait, NoOutputInChargeMode, MainsInOrder, Mains
<1>5. CASE WaitBus
  <2>1. MB_IO_OUT' = {"preCon"} BY <1>5 DEF WaitBus
  <2>2. DelayBudget'
    BY <1>2, <1>3, <1>5 DEF WaitBus, DelayBudget, delays
  <2> QED BY <1>1, <2>1, <2>2
      DEF MainsWait, NoOutputInChargeMode, MainsInOrder, Mains
<1>6. CASE WaitDelay2
  <2>1. MB_IO_OUT' = {"preCon", "mainCon1"} BY <1>6 DEF WaitDelay2
  <2>2. DelayBudget'
    BY <1>2, <1>3, <1>6 DEF WaitDelay2, DelayBudget
  <2>3. loaded /\ ~PreFinsh => held' > D1
    BY <1>2, <1>3, <1>6 DEF WaitDelay2, DelayBudget
  <2> QED BY <1>1, <2>1, <2>2, <2>3
      DEF MainsWait, NoOutputInChargeMode, MainsInOrder, Mains
<1>7. CASE FinishPrecharge
  <2>1. MB_IO_OUT' = Mains /\ PreFinsh' = TRUE BY <1>7 DEF FinishPrecharge
  <2>2. loaded /\ ~PreFinsh => held' > D1 + D2 /\ held' > D1
    BY <1>2, <1>3, <1>7 DEF FinishPrecharge, DelayBudget
  <2> QED BY <1>1, <2>1, <2>2
      DEF MainsWait, NoOutputInChargeMode, MainsInOrder, Mains,
          DelayBudget
<1> QED BY <1>4, <1>5, <1>6, <1>7 DEF PreChargeCal

(* Standby inherits the output contactors of the precharge before it. *)
LEMMA StandbyOutput ==
  ASSUME IInv, LogicTick, StandbyCal, SystemOutput' = "STANDBY"
  PROVE  MainsWait /\ NoOutputInChargeMode' /\ MainsInOrder'
<1> USE OutConsAssumption
<1>1. SystemState' = "STANDBY" BY ModeStep DEF IInv, LogicTick
<1>2. SystemState \in {"PRECHARGE", "STANDBY"} /\ PreFinsh
  BY <1>1, ModeStep DEF IInv, LogicTick
<1>3. /\ PreFinsh' = PreFinsh
      /\ MB_IO_OUT' = (MB_IO_OUT \ {"preCon"}) \cup Mains
  BY DEF StandbyCal, NotPrecharging
<1>4. MB_IO_OUT \cap OutCons = {}
  BY <1>2 DEF IInv, NoOutputInChargeMode, InChargeMode
<1> QED BY <1>2, <1>3, <1>4
    DEF MainsWait, NoOutputInChargeMode, MainsInOrder, Mains

LEMMA InvInit == Init => IInv
<1> USE DelayAssumption
<1> SUFFICES ASSUME Init PROVE IInv OBVIOUS
<1>1. TypeOK
  <2>1. /\ PreDelayCnt \in 0..D1 /\ PreDelay2Cnt \in 0..D2
        /\ held \in 0..HeldMax
    BY DEF Init, HeldMax
  <2>2. /\ PreFinsh \in BOOLEAN /\ cabinetEnN \in BOOLEAN
        /\ sFault \in BOOLEAN /\ busVoltOK \in BOOLEAN /\ loaded \in BOOLEAN
    BY DEF Init
  <2> QED BY <2>1, <2>2 DEF Init, TypeOK, States
<1>2. ModesAgree /\ DelayBudget BY DEF Init, ModesAgree, DelayBudget
<1>3. ~InChargeMode BY DEF Init, InChargeMode
<1> QED BY <1>1, <1>2, <1>3
    DEF IInv, NoOutputInChargeMode, MainsInOrder

LEMMA InvNext == IInv /\ [Next]_vars => IInv'
<1> SUFFICES ASSUME IInv, [Next]_vars PROVE IInv' OBVIOUS
<1>1. CASE LogicTick
  <2>1. TypeOK' BY <1>1, TypeStep DEF IInv
  <2>2. ASSUME NotPrecharging, SystemOutput' \notin {"PRECHARGE", "STANDBY"}
        PROVE  IInv'
    <3>1. ModesAgree' /\ DelayBudget' BY <1>1, <2>2, OtherOutput
    <3>2. ~InChargeMode' BY <2>2, <3>1 DEF ModesAgree, InChargeMode
    <3> QED BY <2>1, <3>1, <3>2
        DEF IInv, NoOutputInChargeMode, MainsInOrder
  <2>3. CASE SystemOutput' \in {"STOP", "FAULT"} /\ OpenWhenIdle
    BY <2>2, <2>3 DEF OpenWhenIdle
  <2>4. CASE SystemOutput' = "TEST" /\ DevTestCal BY <2>2, <2>4 DEF DevTestCal
  <2>5. CASE SystemOutput' = "SLEEP" /\ SleepCal BY <2>2, <2>5 DEF SleepCal
  <2>6. CASE SystemOutput' = "PRECHARGE" /\ PreChargeCal
    BY <1>1, <2>1, <2>6, PrechargeOutput DEF IInv
  <2>7. CASE SystemOutput' = "STANDBY" /\ StandbyCal
    <3>1. ModesAgree' /\ DelayBudget'
      BY <1>1, <2>7, OtherOutput DEF StandbyCal
    <3> QED BY <1>1, <2>1, <2>7, <3>1, StandbyOutput DEF IInv
  <2> QED BY <1>1, <2>3, <2>4, <2>5, <2>6, <2>7 DEF LogicTick, System_Output
<1>2. CASE UNCHANGED vars
  BY <1>2 DEF IInv, TypeOK, ModesAgree, DelayBudget,
     NoOutputInChargeMode, MainsInOrder, InChargeMode, vars, mode, delays, hmi,
     inputs, history
<1> QED BY <1>1, <1>2 DEF Next

(* The inductive invariant holds in every reachable state. *)
THEOREM SysModeInvariant == Spec => []IInv
BY InvInit, InvNext, PTL DEF Spec

(* The state, the counters and the contactor set never leave their types. *)
THEOREM SysModeTypeCorrect == Spec => []TypeOK
<1>1. IInv => TypeOK BY DEF IInv
<1> QED BY <1>1, SysModeInvariant, PTL

(* State and output mode agree but for falling asleep out of a test, and
   standby is behind a precharge (appMonitor.cc, ChargeModeManage). *)
THEOREM SysModeModesAgree == Spec => []ModesAgree
<1>1. IInv => ModesAgree BY DEF IInv
<1> QED BY <1>1, SysModeInvariant, PTL

(* What a precharge has been held and what its counters have left make up the
   whole delay, for delays of any length (appMonitor.cc, PreChargeCal). *)
THEOREM SysModeDelayBudget == Spec => []DelayBudget
<1>1. IInv => DelayBudget BY DEF IInv
<1> QED BY <1>1, SysModeInvariant, PTL

(* No main contactor closes in charge mode before the whole delay has been
   held, until a first precharge has completed; a boot into precharge apart. *)
THEOREM SysModeMainsWait == Spec => MainsWaitForPrecharge
<1>1. IInv /\ [Next]_vars =>
        [InChargeMode' /\ loaded /\ ~PreFinsh =>
           /\ "mainCon1" \in MB_IO_OUT' => held' > D1
           /\ "mainCon2" \in MB_IO_OUT' => held' > D1 + D2]_vars
  <2> SUFFICES ASSUME IInv, LogicTick, InChargeMode' PROVE MainsWait
    BY DEF Next, MainsWait
  <2>1. SystemOutput' = SystemState'
    BY ModeStep DEF IInv, LogicTick, InChargeMode
  <2>2. CASE SystemOutput' = "PRECHARGE" /\ PreChargeCal
    BY <2>2, PrechargeOutput
  <2>3. CASE SystemOutput' = "STANDBY" /\ StandbyCal
    BY <2>3, StandbyOutput
  <2> QED BY <2>1, <2>2, <2>3 DEF LogicTick, System_Output, InChargeMode
<1> QED BY <1>1, SysModeInvariant, PTL DEF Spec, MainsWaitForPrecharge

(* No output contactor is closed in charge mode. *)
THEOREM SysModeNoOutput == Spec => []NoOutputInChargeMode
<1>1. IInv => NoOutputInChargeMode BY DEF IInv
<1> QED BY <1>1, SysModeInvariant, PTL

(* The second main is never closed without the first or beside the precharge
   contactor in charge mode. *)
THEOREM SysModeMainsInOrder == Spec => []MainsInOrder
<1>1. IInv => MainsInOrder BY DEF IInv
<1> QED BY <1>1, SysModeInvariant, PTL

(* A stop, a trip, a sleep or standby never opens a main contactor under load. *)
THEOREM SysModeKeptUnderLoad == Spec => KeptUnderLoad
<1>1. [Next]_vars =>
        [Charging' # {} /\ ~(Mains \cap MB_IO_OUT \subseteq MB_IO_OUT')
           => SystemOutput' \in {"PRECHARGE", "TEST"}]_vars
  <2> SUFFICES ASSUME LogicTick, Charging' # {},
                      SystemOutput' \notin {"PRECHARGE", "TEST"}
               PROVE  Mains \cap MB_IO_OUT \subseteq MB_IO_OUT'
    BY DEF Next
  <2>1. CASE OpenWhenIdle BY <2>1 DEF OpenWhenIdle
  <2>2. CASE StandbyCal BY <2>2 DEF StandbyCal, Mains
  <2>3. CASE SleepCal BY <2>3 DEF SleepCal
  <2> QED BY <2>1, <2>2, <2>3 DEF LogicTick, System_Output
<1> QED BY <1>1, PTL DEF Spec, KeptUnderLoad
=============================================================================
