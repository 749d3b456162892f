--------------------------- MODULE CbModuleProofs ---------------------------
(***************************************************************************)
(* The automatic start of the charger boards, for any number of boards and *)
(* any delays: the invariant is the account of the start delay, which      *)
(* needs the types of the two counters it adds.                            *)
(***************************************************************************)
EXTENDS CbModule, TLAPS

IInv == TypeOK /\ DelayAccount

(* ModuleManage keeps the state and the output of every board in their types. *)
LEMMA ManageType ==
  ASSUME TypeOK, Charge_Mode_Set' \in [Modules -> ChargeModes], ModuleManage
  PROVE  State' \in [Modules -> States] /\ OutputMode' \in [Modules -> Outputs]
<1>1. ASSUME NEW m \in Modules PROVE NextState(m) \in States
  BY <1>1 DEF TypeOK, NextState, FromIdle, FromFault, FromCharging, Commanded,
              Asked, States
<1>2. ASSUME NEW m \in Modules PROVE NextOutput(m) \in Outputs
  BY <1>1, <1>2 DEF NextOutput, Outputs
<1> QED BY <1>1, <1>2 DEF ModuleManage

(* OutputManage keeps the command and the delays in theirs. *)
LEMMA OutputType ==
  ASSUME TypeOK, OutputManage
  PROVE  /\ CMD' \in [Modules -> {0, 1}]
         /\ startDelay' \in [Modules -> 0..START_T]
         /\ floatDelay' \in [Modules -> 0..FLOAT_T]
<1> USE TimesAssumption
<1>1. ASSUME NEW m \in Modules PROVE NextCMD(m) \in {0, 1}
  BY <1>1 DEF TypeOK, NextCMD, AutoCMD, ParkedCMD
<1>2. ASSUME NEW m \in Modules PROVE NextStartDelay(m) \in 0..START_T
  BY <1>2 DEF TypeOK, NextStartDelay, Decrement
<1>3. ASSUME NEW m \in Modules PROVE NextFloatDelay(m) \in 0..FLOAT_T
  BY <1>3 DEF TypeOK, NextFloatDelay, Decrement
<1> QED BY <1>1, <1>2, <1>3 DEF OutputManage

(* The histories stay in their types. *)
LEMMA RecordType ==
  ASSUME TypeOK, Record
  PROVE  /\ rested' \in [Modules -> 0..RestMax]
         /\ last' \in [Modules -> {"boot", "empty", "charge"}]
<1> USE TimesAssumption
<1>1. rested' \in [Modules -> 0..RestMax]
  <2>1. ASSUME NEW m \in Modules, NEW r \in 0..RestMax
        PROVE  0 \in 0..RestMax /\ (r < RestMax => r + 1 \in 0..RestMax)
    BY DEF RestMax
  <2> QED BY <2>1 DEF TypeOK, Record
<1>2. last' \in [Modules -> {"boot", "empty", "charge"}]
  BY DEF TypeOK, Record
<1> QED BY <1>1, <1>2

LEMMA TypeStep == TypeOK /\ [Next]_vars => TypeOK'
<1> SUFFICES ASSUME TypeOK, [Next]_vars PROVE TypeOK' OBVIOUS
<1>1. CASE LogicTick
  <2>1. Charge_Mode_Set' \in [Modules -> ChargeModes]
    BY <1>1, ModeCmdsAssumption DEF TypeOK, LogicTick, HmiInputUpdate
  <2>2. /\ input' \in [Modules -> Flags] /\ standby' \in BOOLEAN
        /\ Instation' \in [Modules -> BOOLEAN]
    BY <1>1 DEF TypeOK, LogicTick, MonitorUpdate
  <2>3. State' \in [Modules -> States] /\ OutputMode' \in [Modules -> Outputs]
    BY <1>1, <2>1, ManageType DEF LogicTick
  <2>4. /\ CMD' \in [Modules -> {0, 1}]
        /\ startDelay' \in [Modules -> 0..START_T]
        /\ floatDelay' \in [Modules -> 0..FLOAT_T]
    BY <1>1, OutputType DEF LogicTick
  <2>5. /\ rested' \in [Modules -> 0..RestMax]
        /\ last' \in [Modules -> {"boot", "empty", "charge"}]
    BY <1>1, RecordType DEF LogicTick
  <2>6. appCmd' = CMD' /\ UNCHANGED plant BY <1>1 DEF LogicTick
  <2> QED BY <2>1, <2>2, <2>3, <2>4, <2>5, <2>6 DEF TypeOK, plant
<1>2. ASSUME NEW m \in Modules, PushFrame(m) PROVE TypeOK'
  BY <1>2 DEF TypeOK, PushFrame, control, history
<1>3. ASSUME NEW m \in Modules, BoardObeys(m) PROVE TypeOK'
  <2>1. board[m] \in Flags BY DEF TypeOK
  <2>2. [Charging |-> frame[m] = 1, floatChargeN |-> FALSE,
         Fault |-> board[m].Fault] \in Flags
    BY <2>1 DEF Flags
  <2>3. board' \in [Modules -> Flags]
    BY <1>3, <2>2 DEF TypeOK, BoardObeys
  <2> QED BY <1>3, <2>3 DEF TypeOK, BoardObeys, control, history
<1>4. ASSUME NEW m \in Modules, BoardChanges(m) PROVE TypeOK'
  <2>1. board[m] \in Flags BY DEF TypeOK
  <2>2. /\ [AtRest EXCEPT !.Fault = TRUE] \in Flags
        /\ [board[m] EXCEPT !.Fault = FALSE] \in Flags
        /\ [board[m] EXCEPT !.floatChargeN = board[m].Charging] \in Flags
    BY <2>1 DEF Flags, AtRest
  <2>3. board' \in [Modules -> Flags]
    <3>1. PICK f \in {[AtRest EXCEPT !.Fault = TRUE],
                      [board[m] EXCEPT !.Fault = FALSE],
                      [board[m] EXCEPT !.floatChargeN = board[m].Charging]} :
            board' = [board EXCEPT ![m] = f]
      BY <1>4 DEF BoardChanges
    <3>2. f \in Flags BY <2>2, <3>1
    <3> QED BY <3>1, <3>2 DEF TypeOK
  <2> QED BY <1>4, <2>3 DEF TypeOK, BoardChanges, control, history
<1>5. ASSUME NEW m \in Modules, StatusArrives(m) PROVE TypeOK'
  BY <1>5 DEF TypeOK, StatusArrives, control, history
<1>6. CASE UNCHANGED vars
  BY <1>6 DEF TypeOK, vars, control, plant, history
<1> QED BY <1>1, <1>2, <1>3, <1>4, <1>5, <1>6 DEF Next

(* One tick of one board: what it spends of the delay it adds to the rest, and
   a reload sets the account up anew. *)
LEMMA AccountTick ==
  ASSUME TypeOK, DelayAccount, LogicTick, NEW m \in Modules, last'[m] = "empty"
  PROVE  rested'[m] + startDelay'[m] >= START_T
<1> USE TimesAssumption
<1>1. startDelay'[m] = NextStartDelay(m)
  BY DEF LogicTick, OutputManage
<1>2. /\ rested[m] \in 0..RestMax /\ startDelay[m] \in 0..START_T
      /\ RestMax = START_T + 1
  BY DEF TypeOK, RestMax
<1>3. CASE Parked(m) \/ Vacant(m)
  <2>1. rested'[m] = 0 BY <1>3 DEF LogicTick, Record
  <2>2. startDelay'[m] = START_T BY <1>1, <1>3 DEF NextStartDelay, Reloaded
  <2> QED BY <2>1, <2>2
<1>4. CASE ~(Parked(m) \/ Vacant(m))
  <2>1. last[m] = "empty" /\ ~On(m) BY <1>4 DEF LogicTick, Record
  <2>2. rested[m] + startDelay[m] >= START_T BY <2>1 DEF DelayAccount
  <2>3. ~Reloaded(m) BY <1>4, <2>1 DEF Reloaded
  <2>4. CASE Counting(m)
    <3>1. rested'[m] = IF rested[m] < RestMax THEN rested[m] + 1 ELSE rested[m]
      BY <1>4, <2>1, <2>4 DEF LogicTick, Record
    <3>2. startDelay'[m] = Decrement(startDelay[m])
      BY <1>1, <2>1, <2>3, <2>4 DEF NextStartDelay
    <3> QED BY <1>2, <2>2, <3>1, <3>2 DEF Decrement
  <2>5. CASE ~Counting(m)
    <3>1. rested'[m] = rested[m] BY <1>4, <2>1, <2>5 DEF LogicTick, Record
    <3>2. startDelay'[m] = startDelay[m]
      BY <1>1, <2>3, <2>5 DEF NextStartDelay
    <3> QED BY <2>2, <3>1, <3>2
  <2> QED BY <2>4, <2>5
<1> QED BY <1>3, <1>4

LEMMA InvNext == IInv /\ [Next]_vars => IInv'
<1> SUFFICES ASSUME IInv, [Next]_vars PROVE DelayAccount'
  BY TypeStep DEF IInv
<1>1. CASE LogicTick BY <1>1, AccountTick DEF IInv, DelayAccount
<1>2. CASE UNCHANGED <<startDelay, history>>
  BY <1>2 DEF IInv, DelayAccount, history
<1>3. ASSUME NEW m \in Modules,
             PushFrame(m) \/ BoardObeys(m) \/ BoardChanges(m) \/ StatusArrives(m)
      PROVE  UNCHANGED <<startDelay, history>>
  BY <1>3 DEF PushFrame, BoardObeys, BoardChanges, StatusArrives, control
<1>4. CASE UNCHANGED vars BY <1>2, <1>4 DEF vars, control
<1> QED BY <1>1, <1>2, <1>3, <1>4 DEF Next

LEMMA InvInit == Init => IInv
<1> SUFFICES ASSUME Init PROVE IInv OBVIOUS
<1> USE TimesAssumption
<1>1. DelayAccount BY DEF Init, DelayAccount
<1>2. /\ startDelay \in [Modules -> 0..START_T]
      /\ floatDelay \in [Modules -> 0..FLOAT_T]
      /\ rested \in [Modules -> 0..RestMax]
  BY DEF Init, RestMax
<1>3. AtRest \in Flags BY DEF AtRest, Flags
<1>4. /\ State \in [Modules -> States] /\ OutputMode \in [Modules -> Outputs]
      /\ Charge_Mode_Set \in [Modules -> ChargeModes]
  BY DEF Init, States, Outputs, ChargeModes
<1>5. /\ CMD \in [Modules -> {0, 1}] /\ appCmd \in [Modules -> {0, 1}]
      /\ frame \in [Modules -> {0, 1}]
  BY DEF Init
<1>6. /\ input \in [Modules -> Flags] /\ status \in [Modules -> Flags]
      /\ board \in [Modules -> Flags]
  BY <1>3 DEF Init
<1>7. /\ Instation \in [Modules -> BOOLEAN] /\ standby \in BOOLEAN
      /\ last \in [Modules -> {"boot", "empty", "charge"}]
  BY DEF Init
<1> QED BY <1>1, <1>2, <1>4, <1>5, <1>6, <1>7 DEF IInv, TypeOK

(* Types and account hold in every reachable state. *)
THEOREM CbInvariant == Spec => []IInv
BY InvInit, InvNext, PTL DEF Spec

(* Every counter, command and flag of every board stays in its type. *)
THEOREM CbTypeCorrect == Spec => []TypeOK
<1>1. IInv => TypeOK BY DEF IInv
<1> QED BY <1>1, CbInvariant, PTL

(* The account of the start delay. *)
THEOREM CbDelayAccount == Spec => []DelayAccount
<1>1. IInv => DelayAccount BY DEF IInv
<1> QED BY <1>1, CbInvariant, PTL

(* The first automatic start after a vehicle has come in or a board was parked
   follows the whole start delay. *)
THEOREM CbArrivalWaits == Spec => ArrivalWaits
<1>1. IInv /\ [Next]_vars =>
        [\A m \in Modules :
           AutoStart(m) /\ last[m] = "empty" => rested[m] >= START_T]_vars
  <2> SUFFICES ASSUME IInv, [Next]_vars, NEW m \in Modules, AutoStart(m),
                      last[m] = "empty"
               PROVE  rested[m] >= START_T
    OBVIOUS
  <2>1. CMD'[m] # CMD[m] BY DEF AutoStart
  <2>2. LogicTick
    BY <2>1 DEF Next, PushFrame, BoardObeys, BoardChanges, StatusArrives,
       control, vars
  <2>3. CMD'[m] = AutoCMD(m)
    BY <2>2 DEF AutoStart, LogicTick, OutputManage, NextCMD
  <2>4. startDelay[m] = 0
    BY <2>3 DEF AutoStart, AutoCMD, StartDue
  <2>5. rested[m] + startDelay[m] >= START_T BY DEF IInv, DelayAccount
  <2> QED BY <2>4, <2>5, TimesAssumption DEF IInv, TypeOK, RestMax
<1> QED BY <1>1, CbInvariant, PTL DEF Spec, ArrivalWaits
=============================================================================
