------------------------------ MODULE CbModule ------------------------------
(***************************************************************************)
(* CbMode: the state machines of the DCDC charger boards                   *)
(* (UserApp/appModule.cc), run by DcDcManage once per Logic iteration,     *)
(* with the loop they close over CAN: the command a tick decides reaches   *)
(* the board frames later, and what the board does comes back in a status  *)
(* frame that the next tick copies in.                                     *)
(*                                                                         *)
(* Of a board the model keeps what the status word tells CbMode: whether   *)
(* it charges, whether it is at constant voltage, whether it has failed.   *)
(* Of the cabinet's state machine it keeps whether it is in STANDBY.       *)
(***************************************************************************)
EXTENDS Integers

CONSTANTS
  Modules,         \* the charger boards C1..C5
  Cb1,             \* the board behind MB_LGA.cb1_SYS
  START_T,         \* CHARGE_START_T, ticks
  FLOAT_T,         \* CHARGE_FLOAT_T, ticks
  ModeCmds         \* the charge modes the HMI asks for

ChargeModes == {"NONE", "AUTO", "MANUAL", "STANDBY"}

ASSUME Cb1Assumption == Cb1 \in Modules
ASSUME TimesAssumption == START_T \in Nat /\ FLOAT_T \in Nat
ASSUME ModeCmdsAssumption == ModeCmds \subseteq ChargeModes

VARIABLES
  State,           \* CbMode::State
  OutputMode,      \* CbMode::OutputMode
  startDelay,      \* CbMode::startDelay
  floatDelay,      \* CbMode::floatDelay
  CMD,             \* MB_LGA.ModueN_ChargeCmd.CMD
  Charge_Mode_Set, \* cbN_SYS.input.Charge_Mode_Set
  Instation,       \* cbN_SYS.input.Instation
  input,           \* cbN_SYS.input: Charging, floatChargeN, Fault
  standby,         \* SysMode.SystemState = SYS_STATE_STANDBY
  appCmd,          \* can.AppBuf.CbNChargeCmd.CMD
  frame,           \* the last charge frame pushed for the board
  status,          \* can.AppBuf.CbNStatus
  board,           \* the board itself
  rested,          \* history: see Record
  last             \* history: see Record

control == <<State, OutputMode, startDelay, floatDelay, CMD>>
plant == <<board, status, frame>>
history == <<rested, last>>
vars == <<control, Charge_Mode_Set, Instation, input, standby, appCmd, plant,
          history>>

States == {"IDLE", "MANUAL", "AUTO", "FAULT"}
Outputs == States \cup {"STANDY"}
Flags == [Charging : BOOLEAN, floatChargeN : BOOLEAN, Fault : BOOLEAN]
AtRest == [Charging |-> FALSE, floatChargeN |-> FALSE, Fault |-> FALSE]
RestMax == START_T + 1     \* rested saturates here

TypeOK ==
  /\ State \in [Modules -> States]
  /\ OutputMode \in [Modules -> Outputs]
  /\ startDelay \in [Modules -> 0..START_T]
  /\ floatDelay \in [Modules -> 0..FLOAT_T]
  /\ CMD \in [Modules -> {0, 1}]
  /\ Charge_Mode_Set \in [Modules -> ChargeModes]
  /\ Instation \in [Modules -> BOOLEAN]
  /\ input \in [Modules -> Flags]
  /\ standby \in BOOLEAN
  /\ appCmd \in [Modules -> {0, 1}]
  /\ frame \in [Modules -> {0, 1}]
  /\ status \in [Modules -> Flags]
  /\ board \in [Modules -> Flags]
  /\ rested \in [Modules -> 0..RestMax]
  /\ last \in [Modules -> {"boot", "empty", "charge"}]

(* Globals again: the constructor sets the state and the output, the delays
   start at zero. *)
Init ==
  /\ State = [m \in Modules |-> "IDLE"]
  /\ OutputMode = [m \in Modules |-> "IDLE"]
  /\ startDelay = [m \in Modules |-> 0]
  /\ floatDelay = [m \in Modules |-> 0]
  /\ CMD = [m \in Modules |-> 0]
  /\ Charge_Mode_Set = [m \in Modules |-> "NONE"]
  /\ Instation = [m \in Modules |-> FALSE]
  /\ input = [m \in Modules |-> AtRest]
  /\ standby = FALSE
  /\ appCmd = [m \in Modules |-> 0]
  /\ frame = [m \in Modules |-> 0]
  /\ status = [m \in Modules |-> AtRest]
  /\ board = [m \in Modules |-> AtRest]
  /\ rested = [m \in Modules |-> 0]
  /\ last = [m \in Modules |-> "boot"]

-----------------------------------------------------------------------------
(***************************************************************************)
(* The inputs of the tick: HmiInputUpdate sets the mode of at most one     *)
(* board, CanInputUpdate and MonitorUpdate copy the last status in.        *)
(***************************************************************************)
HmiInputUpdate ==
  \/ UNCHANGED Charge_Mode_Set
  \/ \E m \in Modules, c \in ModeCmds :
       Charge_Mode_Set' = [Charge_Mode_Set EXCEPT ![m] = c]

MonitorUpdate ==
  /\ input' = status
  /\ Instation' \in [Modules -> BOOLEAN]
  /\ standby' \in BOOLEAN

-----------------------------------------------------------------------------
(***************************************************************************)
(* CbMode::ModuleManage for board m.  IDLE asks for the board's own fault, *)
(* the other three states for the fault of board 1.                        *)
(***************************************************************************)
Asked(m) == Charge_Mode_Set'[m]
Commanded(m) == Asked(m) \in {"AUTO", "MANUAL"}

FromIdle(m) ==
  IF input'[m].Fault THEN "FAULT"
  ELSE IF Commanded(m) THEN Asked(m) ELSE "IDLE"

(* Mutant: a cabinet that leaves standby does not send its boards to IDLE. *)
FromChargingAlways(m) ==
  IF input'[Cb1].Fault THEN "FAULT"
  ELSE IF Commanded(m) THEN Asked(m) ELSE State[m]

FromCharging(m) ==
  IF input'[Cb1].Fault THEN "FAULT"
  ELSE IF ~standby' THEN "IDLE"
  ELSE IF Commanded(m) THEN Asked(m) ELSE State[m]

FromFault(m) == IF input'[Cb1].Fault THEN "FAULT" ELSE "IDLE"

NextState(m) == CASE State[m] = "IDLE"  -> FromIdle(m)
                  [] State[m] = "FAULT" -> FromFault(m)
                  [] OTHER              -> FromCharging(m)

(* Only a board that was in MANUAL already can be asked to stand by in it. *)
NextOutput(m) ==
  IF State[m] = "MANUAL" /\ NextState(m) = "MANUAL" /\ Asked(m) = "STANDBY"
  THEN "STANDY" ELSE NextState(m)

ModuleManage ==
  /\ State' = [m \in Modules |-> NextState(m)]
  /\ OutputMode' = [m \in Modules |-> NextOutput(m)]

-----------------------------------------------------------------------------
(***************************************************************************)
(* CbMode::OutputManage for board m: the new command and delays.           *)
(* output.chargeComplet, which CB_Auto_Cal tests, is never set.            *)
(***************************************************************************)
On(m) == input'[m].Charging

(* CB_Idle_Cal, CB_Fault_Cal: a stop only for a board that reports charging. *)
ParkedCMD(m) == IF On(m) THEN 0 ELSE CMD[m]

(* CB_Auto_Cal, a vehicle in station. *)
StartDue(m) == ~On(m) /\ startDelay[m] = 0
FloatDue(m) == On(m) /\ input'[m].floatChargeN /\ floatDelay[m] = 0

AutoCMD(m) == CASE ~Instation'[m] -> 0
                [] Instation'[m] /\ StartDue(m) -> 1
                [] Instation'[m] /\ FloatDue(m) -> 0
                [] OTHER -> CMD[m]

NextCMD(m) == CASE OutputMode'[m] = "MANUAL" -> 1
                [] OutputMode'[m] = "STANDY" -> 0
                [] OutputMode'[m] = "AUTO"   -> AutoCMD(m)
                [] OTHER                     -> ParkedCMD(m)

Parked(m) == OutputMode'[m] \in {"IDLE", "FAULT", "STANDY"}
Vacant(m) == OutputMode'[m] = "AUTO" /\ ~Instation'[m]

(* Mutant: the delays are not reloaded when the vehicle has left. *)
ReloadedOnlyParked(m) == Parked(m) \/ (OutputMode'[m] = "MANUAL" /\ On(m))

(* Both delays are reloaded outside AUTO, but for the tick in which MANUAL
   starts a board, and in AUTO when no vehicle is in station. *)
Reloaded(m) == Parked(m) \/ Vacant(m) \/ (OutputMode'[m] = "MANUAL" /\ On(m))

(* Mutant: a counter that is over goes on counting. *)
DecrementUnguarded(n) == n - 1

Decrement(n) == IF n > 0 THEN n - 1 ELSE 0
Counting(m) == OutputMode'[m] = "AUTO" /\ Instation'[m]

NextStartDelay(m) ==
  IF Reloaded(m) THEN START_T
  ELSE IF Counting(m) /\ ~On(m) THEN Decrement(startDelay[m]) ELSE startDelay[m]

NextFloatDelay(m) ==
  IF Reloaded(m) THEN FLOAT_T
  ELSE IF Counting(m) /\ On(m) /\ input'[m].floatChargeN
  THEN Decrement(floatDelay[m]) ELSE floatDelay[m]

OutputManage ==
  /\ CMD' = [m \in Modules |-> NextCMD(m)]
  /\ startDelay' = [m \in Modules |-> NextStartDelay(m)]
  /\ floatDelay' = [m \in Modules |-> NextFloatDelay(m)]

(* History only: what the board was last seen doing (not yet parked or vacant
   since boot, parked or vacant, charging), and for how many ticks of AUTO with a
   vehicle it has been at rest since. *)
Record ==
  /\ last' = [m \in Modules |->
       IF Parked(m) \/ Vacant(m) THEN "empty"
       ELSE IF On(m) /\ last[m] = "empty" THEN "charge" ELSE last[m]]
  /\ rested' = [m \in Modules |->
       IF Parked(m) \/ Vacant(m) \/ On(m) THEN 0
       ELSE IF Counting(m) /\ rested[m] < RestMax THEN rested[m] + 1 ELSE rested[m]]

(* One Logic iteration, up to CanOutputUpdate, which hands the command to CAN. *)
LogicTick ==
  /\ MonitorUpdate
  /\ HmiInputUpdate
  /\ ModuleManage
  /\ OutputManage
  /\ appCmd' = CMD'
  /\ Record
  /\ UNCHANGED plant

-----------------------------------------------------------------------------
(***************************************************************************)
(* The loop over CAN.  The charge frame is sent every 50 ms whatever the   *)
(* state (CycleMsgUpdate_data, CycleMsgPush), and at once on SendCan; both *)
(* carry what AppBuf held.  The board obeys the frame it receives; it may  *)
(* also fail, recover, stop by itself or reach constant voltage.           *)
(***************************************************************************)
PushFrame(m) ==
  /\ frame' = [frame EXCEPT ![m] = appCmd[m]]
  /\ UNCHANGED <<control, Charge_Mode_Set, Instation, input, standby, appCmd,
                 status, board, history>>

BoardObeys(m) ==
  /\ board[m].Charging # (frame[m] = 1)
  /\ frame[m] = 1 => ~board[m].Fault
  /\ board' = [board EXCEPT ![m] =
       [Charging |-> frame[m] = 1, floatChargeN |-> FALSE, Fault |-> @.Fault]]
  /\ UNCHANGED <<control, Charge_Mode_Set, Instation, input, standby, appCmd,
                 status, frame, history>>

BoardChanges(m) ==
  /\ \E f \in {[AtRest EXCEPT !.Fault = TRUE],
               [board[m] EXCEPT !.Fault = FALSE],
               [board[m] EXCEPT !.floatChargeN = board[m].Charging]} :
       board' = [board EXCEPT ![m] = f]
  /\ UNCHANGED <<control, Charge_Mode_Set, Instation, input, standby, appCmd,
                 status, frame, history>>

(* A complete status message of board m (MsgRx_Deal, CycleMsgUpdate_data). *)
StatusArrives(m) ==
  /\ status' = [status EXCEPT ![m] = board[m]]
  /\ UNCHANGED <<control, Charge_Mode_Set, Instation, input, standby, appCmd,
                 frame, board, history>>

Next == \/ LogicTick
        \/ \E m \in Modules :
             PushFrame(m) \/ BoardObeys(m) \/ BoardChanges(m) \/ StatusArrives(m)

Spec == Init /\ [][Next]_vars

(* The Logic thread is released every 10 ms, the charge frame and the poll of
   the status are sent by the cycle event for ever, and a board on a working
   link obeys and answers. *)
Fairness == /\ WF_vars(LogicTick)
            /\ \A m \in Modules : /\ WF_vars(PushFrame(m))
                                  /\ WF_vars(BoardObeys(m))
                                  /\ WF_vars(StatusArrives(m))
FairSpec == Spec /\ Fairness

-----------------------------------------------------------------------------
AutoStart(m) == OutputMode'[m] = "AUTO" /\ CMD[m] = 0 /\ CMD'[m] = 1

(* The first automatic start after a board was parked, or after a vehicle has
   come in, follows START_T ticks in which the vehicle stood there and the board
   was at rest: a vehicle passing through, or a flickering output voltage, does
   not start a charge. *)
ArrivalWaits ==
  [][\A m \in Modules : 
       AutoStart(m) /\ last[m] = "empty" => rested[m] >= START_T]_vars

(* What was waited and what is left make up the start delay. *)
DelayAccount ==
  \A m \in Modules : last[m] = "empty" => rested[m] + startDelay[m] >= START_T

Idle == \A m \in Modules : ~board[m].Charging

Healthy == \A m \in Modules : ~board[m].Fault

(* A cabinet that leaves standby for good, its boards working and not commanded
   in manual mode, ends with no board charging, whatever start commands, status
   frames and charge frames were under way. *)
StopsUnlessManual ==
  <>[](~standby /\ Healthy /\ \A m \in Modules : Charge_Mode_Set[m] # "MANUAL")
    => <>[]Idle

-----------------------------------------------------------------------------
(* What the comments of the source say and the code does not do. *)

(* appMonitor.cc:375, "stopped": a cabinet out of standby for good ends with no
   board charging.  A board whose mode is MANUAL goes from IDLE back to MANUAL in
   every other tick, without a look at the cabinet's state, and is told to
   charge. *)
StoppedStopsCharging == <>[](~standby /\ Healthy) => <>[]Idle
=============================================================================
