------------------------------ MODULE Cabinet ------------------------------
(***************************************************************************)
(* The fault manager and the mode machine in one iteration of the Logic    *)
(* thread (UserApp/logicTask.cc): FaultManage looks at the inputs that the *)
(* iteration has copied, and leaves its verdict in sFault for the mode     *)
(* machine.                                                                *)
(***************************************************************************)
EXTENDS SysMode, FaultRun

cabinetVars == <<vars, faultVars>>

CabinetInit == Init /\ FaultInit

CabinetTick ==
  /\ ReadInputs
  /\ FaultManage(Charging', busVoltOK')
  /\ sFault' = sFaultNow'
  /\ LogicTick

CabinetSpec == CabinetInit /\ [][CabinetTick]_cabinetVars

(* The 10 ms tick releases the Logic thread for ever (Bsp_systimer.c), and no
   thread above its priority runs without blocking. *)
FairCabinetSpec == CabinetSpec /\ WF_cabinetVars(CabinetTick)

-----------------------------------------------------------------------------
(* Once the marks of the severe faults are gone, the key is on and the bus *)
(* up, a tripped cabinet releases its faults and powers up by itself,      *)
(* whatever it tripped from (app_Fault.cc 660-684, appMonitor.cc 127-151). *)
RecoversFromTrip ==
  <>[](ServedAndAwake /\ cabinetEnN /\ busVoltOK /\ FaultMask \cap Severe = {})
    => <>[](SystemState = "STANDBY" /\ Mains \subseteq MB_IO_OUT)
=============================================================================
