------------------------------ MODULE FaultRun ------------------------------
(***************************************************************************)
(* The fault manager (UserApp/app_Fault.cc), run once per iteration of the *)
(* Logic thread: FaultAnalyse marks the faults whose cause is present,     *)
(* fault_Run confirms and releases them.  A fault is raised when its mark  *)
(* has lasted its confirm time, and falls when it has been gone for its    *)
(* release time.                                                           *)
(*                                                                         *)
(* The severe faults are those of the words 2 to 4 of FaultAry; the others *)
(* are warnings.  The times are in ticks of 10 ms.  What sysInfoRecord     *)
(* makes of FaultRcdFlg ends in wFaultFlg, which nothing reads, and is     *)
(* left out.                                                               *)
(***************************************************************************)
EXTENDS Integers

CONSTANTS
  Faults,       \* WN_CAN_MxCx..FT_OUT5_OFF_FAIL
  Severe,       \* FT_IN_FUSE1..FT_OUT5_OFF_FAIL
  Sensor,       \* FT_OUT1_U_FAIL..FT_OUT5_U_FAIL
  OverCurrent,  \* FT_L1_I_OVER, FT_L2_I_OVER
  SensorBoard,  \* the board of each Sensor fault
  ConTime,      \* ConTime_default * 100
  DisTime       \* DisTime_default * 100

ASSUME FaultsAssumption ==
  /\ Severe \subseteq Faults
  /\ Sensor \subseteq Severe /\ OverCurrent \subseteq Severe
ASSUME TimesAssumption == ConTime \in [Faults -> Nat] /\ DisTime \in [Faults -> Nat]

VARIABLES
  FaultMask,     \* the faults marked FAULT_MASK
  FaultConTime,  \* passes a mark has lasted
  FaultDisTime,  \* passes left before a raised fault falls
  FaultAry,      \* the faults raised
  since          \* history: passes the mark has been as it is, up to Far

faultVars == <<FaultMask, FaultConTime, FaultDisTime, FaultAry, since>>

(* since saturates here: no property looks further. *)
Far(f) == IF ConTime[f] > DisTime[f] THEN ConTime[f] + 1 ELSE DisTime[f] + 1

FaultTypeOK ==
  /\ FaultMask \subseteq Faults
  /\ FaultAry \subseteq Faults
  /\ FaultConTime \in [Faults -> Nat]
  /\ FaultDisTime \in [Faults -> Nat]
  /\ since \in [Faults -> Nat]
  /\ \A f \in Faults : /\ FaultConTime[f] <= ConTime[f]
                       /\ FaultDisTime[f] <= DisTime[f]
                       /\ since[f] <= Far(f)

FaultInit ==
  /\ FaultMask = {}
  /\ FaultConTime = [f \in Faults |-> 0]
  /\ FaultDisTime = [f \in Faults |-> 0]
  /\ FaultAry = {}
  /\ since = [f \in Faults |-> 0]

(***************************************************************************)
(* FaultAnalyse.  Most marks follow a comparison that may go either way in *)
(* any pass.                                                               *)
(***************************************************************************)

(* The mark of an output voltage sensor is lowered only while its board
   charges, at a plausible voltage. *)
SensorMarks(Charging) ==
  \A f \in Sensor : f \in FaultMask \ FaultMask' => SensorBoard[f] \in Charging

(* That of an overcurrent is touched only while busVoltOK. *)
OverCurrentMarks(busVoltOK) ==
  \A f \in OverCurrent : ~busVoltOK => (f \in FaultMask' <=> f \in FaultMask)

FaultAnalyse(Charging, busVoltOK) ==
  /\ FaultMask' \in SUBSET Faults
  /\ SensorMarks(Charging)
  /\ OverCurrentMarks(busVoltOK)

(***************************************************************************)
(* fault_Run: the loop treats every fault on its own.                      *)
(***************************************************************************)
Raises(f) == f \in FaultMask' /\ FaultConTime[f] >= ConTime[f]

(* Mutation: a mark that comes back does not reload the release time. *)
CountReleaseOnce ==
  FaultDisTime' = [f \in Faults |->
    CASE f \in FaultMask' /\ f \notin FaultAry -> DisTime[f]
      [] f \notin FaultMask' /\ f \in FaultAry /\ FaultDisTime[f] > 0
           -> FaultDisTime[f] - 1
      [] OTHER -> FaultDisTime[f]]

(* Mutation: the release time is reloaded in every pass. *)
CountReleaseNever == FaultDisTime' = DisTime

CountRelease ==
  FaultDisTime' = [f \in Faults |->
    CASE f \in FaultMask' -> DisTime[f]
      [] f \notin FaultMask' /\ f \in FaultAry /\ FaultDisTime[f] > 0
           -> FaultDisTime[f] - 1
      [] OTHER -> FaultDisTime[f]]

CountConfirm ==
  FaultConTime' = [f \in Faults |->
    CASE f \notin FaultMask' -> 0
      [] f \in FaultMask' /\ f \notin FaultAry /\ ~Raises(f) -> FaultConTime[f] + 1
      [] OTHER -> FaultConTime[f]]

fault_Run ==
  /\ FaultAry' = {f \in Faults :
                    \/ f \in FaultAry /\ (f \in FaultMask' \/ FaultDisTime[f] > 0)
                    \/ f \notin FaultAry /\ Raises(f)}
  /\ CountConfirm
  /\ CountRelease

(* History only. *)
CountPasses ==
  since' = [f \in Faults |->
    IF f \in FaultMask' <=> f \in FaultMask
    THEN IF since[f] < Far(f) THEN since[f] + 1 ELSE since[f]
    ELSE 1]

FaultManage(Charging, busVoltOK) ==
  /\ FaultAnalyse(Charging, busVoltOK)
  /\ fault_Run
  /\ CountPasses

sFaultNow == FaultAry \cap Severe # {}

-----------------------------------------------------------------------------
(* A fault is raised in the pass in which its mark has lasted its confirm  *)
(* time without a gap, and falls in the pass in which it has been gone for *)
(* its release time without a gap: not before, not later, however the mark *)
(* flickers in between (app_Fault.cc 638-674).                             *)
LastsLong(f) == f \in FaultMask /\ since[f] > ConTime[f]
GoneLong(f) == f \notin FaultMask /\ since[f] > DisTime[f]

Debounced ==
  [][\A f \in Faults :
       f \in FaultAry' <=> (IF f \in FaultAry THEN ~GoneLong(f)' ELSE LastsLong(f)')
    ]_faultVars
=============================================================================
