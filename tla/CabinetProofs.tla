--------------------------- MODULE CabinetProofs ---------------------------
(***************************************************************************)
(* Proofs about Cabinet, for any faults and any confirm and release times. *)
(***************************************************************************)
EXTENDS Cabinet, TLAPS

(***************************************************************************)
(* Every behaviour of the cabinet is one of the mode machine, whose fault  *)
(* input is free: what SysModeProofs proves holds with the fault manager   *)
(* in the loop (logicTask.cc 79-88).                                       *)
(***************************************************************************)
THEOREM CabinetIsSysMode == CabinetSpec => Spec
<1>1. CabinetInit => Init
  BY DEF CabinetInit
<1>2. [CabinetTick]_cabinetVars => [Next]_vars
  BY DEF CabinetTick, Next, cabinetVars
<1> QED
  BY <1>1, <1>2, PTL DEF CabinetSpec, Spec

-----------------------------------------------------------------------------
(***************************************************************************)
(* Debounced is not inductive: the code keeps counters, not the lengths of *)
(* what the counters stand for.  CountersTell says how the one is read off *)
(* the other.                                                              *)
(***************************************************************************)
Tells(f) ==
  /\ f \in FaultMask => FaultDisTime[f] = DisTime[f]
  /\ f \notin FaultMask => FaultConTime[f] = 0
  /\ (f \in FaultMask /\ f \notin FaultAry)
        => (FaultConTime[f] = since[f] /\ since[f] <= ConTime[f])
  /\ (f \notin FaultMask /\ f \in FaultAry)
        => (FaultDisTime[f] = DisTime[f] - since[f] /\ since[f] <= DisTime[f])

CountersTell == FaultTypeOK /\ \A f \in Faults : Tells(f)

(* One pass over one fault, as a function of its mark and its counters. *)
LEMMA OneFault ==
  ASSUME FaultTypeOK, fault_Run, CountPasses, FaultMask' \subseteq Faults,
         NEW f \in Faults
  PROVE  /\ ConTime[f] \in Nat /\ DisTime[f] \in Nat /\ Far(f) \in Nat
         /\ ConTime[f] < Far(f) /\ DisTime[f] < Far(f)
         /\ FaultConTime[f] \in Nat /\ FaultDisTime[f] \in Nat /\ since[f] \in Nat
         /\ FaultConTime[f] <= ConTime[f] /\ FaultDisTime[f] <= DisTime[f]
         /\ since[f] <= Far(f)
         /\ FaultConTime'[f] = (CASE f \notin FaultMask' -> 0
              [] f \in FaultMask' /\ f \notin FaultAry /\ ~Raises(f)
                   -> FaultConTime[f] + 1
              [] OTHER -> FaultConTime[f])
         /\ FaultDisTime'[f] = (CASE f \in FaultMask' -> DisTime[f]
              [] f \notin FaultMask' /\ f \in FaultAry /\ FaultDisTime[f] > 0
                   -> FaultDisTime[f] - 1
              [] OTHER -> FaultDisTime[f])
         /\ since'[f] = IF f \in FaultMask' <=> f \in FaultMask
                        THEN IF since[f] < Far(f) THEN since[f] + 1 ELSE since[f]
                        ELSE 1
         /\ f \in FaultAry' <=>
              \/ f \in FaultAry /\ (f \in FaultMask' \/ FaultDisTime[f] > 0)
              \/ f \notin FaultAry /\ Raises(f)
<1>1. /\ ConTime[f] \in Nat /\ DisTime[f] \in Nat /\ Far(f) \in Nat
      /\ ConTime[f] < Far(f) /\ DisTime[f] < Far(f)
  BY TimesAssumption DEF Far
<1>2. /\ FaultConTime[f] \in Nat /\ FaultDisTime[f] \in Nat /\ since[f] \in Nat
      /\ FaultConTime[f] <= ConTime[f] /\ FaultDisTime[f] <= DisTime[f]
      /\ since[f] <= Far(f)
  BY DEF FaultTypeOK
<1>3. FaultConTime'[f] = CASE f \notin FaultMask' -> 0
              [] f \in FaultMask' /\ f \notin FaultAry /\ ~Raises(f)
                   -> FaultConTime[f] + 1
              [] OTHER -> FaultConTime[f]
  BY DEF fault_Run, CountConfirm
<1>4. FaultDisTime'[f] = CASE f \in FaultMask' -> DisTime[f]
              [] f \notin FaultMask' /\ f \in FaultAry /\ FaultDisTime[f] > 0
                   -> FaultDisTime[f] - 1
              [] OTHER -> FaultDisTime[f]
  BY DEF fault_Run, CountRelease
<1>5. since'[f] = IF f \in FaultMask' <=> f \in FaultMask
                  THEN IF since[f] < Far(f) THEN since[f] + 1 ELSE since[f]
                  ELSE 1
  BY DEF CountPasses
<1>6. f \in FaultAry' <=>
         \/ f \in FaultAry /\ (f \in FaultMask' \/ FaultDisTime[f] > 0)
         \/ f \notin FaultAry /\ Raises(f)
  BY DEF fault_Run
<1> QED
  BY <1>1, <1>2, <1>3, <1>4, <1>5, <1>6

(* A pass keeps what the counters tell of each fault. *)
LEMMA TellsPass ==
  ASSUME FaultTypeOK, fault_Run, CountPasses, FaultMask' \subseteq Faults,
         NEW f \in Faults, Tells(f)
  PROVE  /\ Tells(f)'
         /\ f \in FaultAry' <=> (IF f \in FaultAry THEN ~GoneLong(f)'
                                                  ELSE LastsLong(f)')
<1>1. CASE f \in FaultMask' /\ f \in FaultAry
  BY <1>1, OneFault DEF Tells, GoneLong
<1>2. CASE f \in FaultMask' /\ f \notin FaultAry
  BY <1>2, OneFault DEF Tells, Raises, LastsLong
<1>3. CASE f \notin FaultMask' /\ f \in FaultAry
  BY <1>3, OneFault DEF Tells, GoneLong, Raises
<1>4. CASE f \notin FaultMask' /\ f \notin FaultAry
  BY <1>4, OneFault DEF Tells, LastsLong, Raises
<1> QED
  BY <1>1, <1>2, <1>3, <1>4

(* A pass keeps the counters in their ranges. *)
LEMMA TypePass ==
  ASSUME CountersTell, fault_Run, CountPasses, FaultMask' \subseteq Faults
  PROVE  FaultTypeOK'
<1>1. FaultTypeOK /\ \A f \in Faults : Tells(f)
  BY DEF CountersTell
<1>2. \A f \in Faults : /\ FaultConTime'[f] \in 0..ConTime[f]
                        /\ FaultDisTime'[f] \in 0..DisTime[f]
                        /\ since'[f] \in 0..Far(f)
  <2> TAKE f \in Faults
  <2>1. FaultConTime'[f] \in 0..ConTime[f]
    BY <1>1, OneFault DEF Raises
  <2>2. FaultDisTime'[f] \in 0..DisTime[f]
    BY <1>1, OneFault
  <2>3. since'[f] \in 0..Far(f)
    BY <1>1, OneFault
  <2> QED
    BY <2>1, <2>2, <2>3
<1>3. \A f \in Faults : ConTime[f] \in Nat /\ DisTime[f] \in Nat /\ Far(f) \in Nat
  BY <1>1, OneFault
<1>4. /\ FaultConTime' = [f \in Faults |-> FaultConTime'[f]]
      /\ FaultDisTime' = [f \in Faults |-> FaultDisTime'[f]]
      /\ since' = [f \in Faults |-> since'[f]]
  BY DEF fault_Run, CountConfirm, CountRelease, CountPasses
<1>5. /\ FaultConTime' \in [Faults -> Nat] /\ FaultDisTime' \in [Faults -> Nat]
      /\ since' \in [Faults -> Nat]
  BY <1>2, <1>3, <1>4
<1>6. FaultAry' \subseteq Faults
  BY DEF fault_Run
<1>7. \A f \in Faults : /\ FaultConTime'[f] <= ConTime[f]
                        /\ FaultDisTime'[f] <= DisTime[f]
                        /\ since'[f] <= Far(f)
  BY <1>2, <1>3
<1> QED
  BY <1>5, <1>6, <1>7 DEF FaultTypeOK, Far

(* What a step of the cabinet does to the faults. *)
LEMMA TickIsPass ==
  CabinetTick => fault_Run /\ CountPasses /\ FaultMask' \subseteq Faults
  BY DEF CabinetTick, FaultManage, FaultAnalyse

(* The counters always tell how long the marks have been as they are. *)
LEMMA CountersInvariant == CabinetSpec => []CountersTell
<1>1. CabinetInit => CountersTell
  <2> SUFFICES ASSUME CabinetInit PROVE CountersTell
    OBVIOUS
  <2>1. \A f \in Faults : ConTime[f] \in Nat /\ DisTime[f] \in Nat /\ Far(f) \in Nat
    BY TimesAssumption DEF Far
  <2>2. FaultTypeOK
    BY <2>1 DEF CabinetInit, FaultInit, FaultTypeOK
  <2>3. \A f \in Faults : Tells(f)
    BY <2>1 DEF CabinetInit, FaultInit, Tells
  <2> QED
    BY <2>2, <2>3 DEF CountersTell
<1>2. CountersTell /\ [CabinetTick]_cabinetVars => CountersTell'
  <2> SUFFICES ASSUME CountersTell, [CabinetTick]_cabinetVars
               PROVE  CountersTell'
    OBVIOUS
  <2>1. CASE CabinetTick
    <3>1. \A f \in Faults : Tells(f)'
      BY <2>1, TickIsPass, TellsPass DEF CountersTell
    <3> QED
      BY <2>1, <3>1, TickIsPass, TypePass DEF CountersTell
  <2>2. CASE UNCHANGED faultVars
    BY <2>2 DEF faultVars, CountersTell, FaultTypeOK, Tells, Far
  <2> QED
    BY <2>1, <2>2 DEF cabinetVars
<1> QED
  BY <1>1, <1>2, PTL DEF CabinetSpec

(* The confirm and release counters stay within the tables' times          *)
(* (app_Fault.cc:642-649).                                                 *)
THEOREM FaultTyping == CabinetSpec => []FaultTypeOK
  BY CountersInvariant, PTL DEF CountersTell

(* A fault is raised and falls exactly when its mark has lasted, or has    *)
(* been gone, for its own time without a gap (app_Fault.cc:638-674).       *)
THEOREM FaultsDebounced == CabinetSpec => Debounced
<1>1. CountersTell /\ [CabinetTick]_cabinetVars =>
        [\A f \in Faults :
           f \in FaultAry' <=> (IF f \in FaultAry THEN ~GoneLong(f)'
                                                 ELSE LastsLong(f)')]_faultVars
  <2> SUFFICES ASSUME CountersTell, CabinetTick, NEW f \in Faults
               PROVE  f \in FaultAry' <=> (IF f \in FaultAry THEN ~GoneLong(f)'
                                                            ELSE LastsLong(f)')
    BY DEF cabinetVars
  <2> QED
    BY TickIsPass, TellsPass DEF CountersTell
<1> QED
  BY <1>1, CountersInvariant, PTL DEF CabinetSpec, Debounced
=============================================================================
