----------------------------- MODULE HmiProofs -----------------------------
(***************************************************************************)
(* Proofs about HmiCommands, for any number of commands, boards and        *)
(* requests and any values.                                                *)
(***************************************************************************)
EXTENDS HmiCommands, TLAPS

(* The addresses fall into four ranges, in this order. *)
LEMMA AddrParts ==
  /\ Addr = Commands \cup {MbPara} \cup CbPara \cup {Rtc}
  /\ ParaAddr \subseteq Addr /\ Rtc \in Addr
  /\ MbPara \notin Commands /\ MbPara \notin CbPara /\ MbPara # Rtc
  /\ Rtc \notin Commands /\ Rtc \notin CbPara
  /\ Commands \cap CbPara = {}
  /\ \A b \in CbPara : MbPara < b
  BY CountsAssumption DEF Addr, Commands, MbPara, CbPara, Rtc, ParaAddr

(* Whole blocks are blocks. *)
LEMMA WholeIsBlock == \A v \in Values : Whole(v) \in Block
  BY DEF Whole, Block

(* Power-up is well typed. *)
LEMMA InitType == Init => TypeOK
<1> SUFFICES ASSUME Init PROVE TypeOK
  OBVIOUS
<1>1. Zero \in Values /\ Whole(Zero) \in Block /\ Rtc \in Addr
  BY ValuesAssumption, WholeIsBlock, AddrParts
<1>2. mb \in [pc : {"idle", "raised", "half"}, addr : Addr, val : Values]
  BY <1>1 DEF Init
<1>3. boardPara \in [CbPara -> Block]
  BY WholeIsBlock DEF Init
<1>4. /\ flag \in [Addr -> BOOLEAN] /\ hmi \in [Addr -> Block]
      /\ acted \in [Commands -> Block]
      /\ {wrPara, rdPara, mbParaNow} \subseteq Block
      /\ {rParFlag, accepted} \subseteq BOOLEAN
  BY <1>1 DEF Init
<1>5. /\ cnt \in [CbPara -> 0..1] /\ WPara \in [CbPara -> Block]
      /\ setPara \in [CbPara -> Block] /\ update \in [CbPara -> BOOLEAN]
      /\ appPara \in [CbPara -> Block]
  BY <1>1 DEF Init
<1>6. frames \in 0..MaxFrames /\ slipped \subseteq Addr
  BY FramesAssumption DEF Init
<1> QED
  BY <1>2, <1>3, <1>4, <1>5, <1>6 DEF TypeOK

(* The screen's requests and mbslave's copies keep the types. *)
LEMMA ScreenType == ASSUME TypeOK, Screen \/ MbSlave PROVE TypeOK'
<1>1. /\ flag \in [Addr -> BOOLEAN] /\ hmi \in [Addr -> Block]
      /\ mb \in [pc : {"idle", "raised", "half"}, addr : Addr, val : Values]
      /\ frames \in 0..MaxFrames /\ slipped \subseteq Addr
  BY DEF TypeOK
<1>2. /\ UNCHANGED <<acted, cabinet, logicCb, update, boardPara, appPara>>
  BY DEF Screen, Request, MbSlave, CopyCommand, CopyHead, CopyTail, CopyEnds
<1>3. mb' \in [pc : {"idle", "raised", "half"}, addr : Addr, val : Values]
  <2>1. ASSUME NEW a \in Addr, NEW v \in Values, Request(a, v)
        PROVE  mb' \in [pc : {"idle", "raised", "half"}, addr : Addr, val : Values]
    BY <2>1 DEF Request
  <2>2. CASE MbSlave
    BY <1>1, <2>2 DEF MbSlave, CopyCommand, CopyHead, CopyTail, CopyEnds
  <2> QED
    BY <2>1, <2>2 DEF Screen
<1>4. hmi' \in [Addr -> Block]
  <2>1. CASE Screen
    BY <1>1, <2>1 DEF Screen, Request
  <2>2. CASE CopyCommand
    BY <1>1, <2>2 DEF CopyCommand, Whole, Block
  <2>3. CASE CopyHead
    BY <1>1, <2>3 DEF CopyHead, Block
  <2>4. CASE CopyTail
    BY <1>1, <2>4 DEF CopyTail, Block
  <2> QED
    BY <2>1, <2>2, <2>3, <2>4 DEF MbSlave
<1>5. flag' \in [Addr -> BOOLEAN] /\ slipped' \subseteq Addr /\ frames' \in 0..MaxFrames
  <2>1. CASE Screen
    BY <1>1, <2>1, FramesAssumption DEF Screen, Request
  <2>2. CASE MbSlave
    BY <1>1, <2>2 DEF MbSlave, CopyCommand, CopyHead, CopyTail, CopyEnds
  <2> QED
    BY <2>1, <2>2
<1> QED
  BY <1>2, <1>3, <1>4, <1>5 DEF TypeOK, cabinet, logicCb

(* What a pass of Logic leaves alone, and what it may do to the rest. *)
LEMMA PassTypes ==
  ASSUME TypeOK, LogicPass
  PROVE  /\ flag' \in [Addr -> BOOLEAN] /\ acted' \in [Commands -> Block]
         /\ slipped \subseteq slipped' /\ slipped' \subseteq Addr
         /\ {wrPara', rdPara', mbParaNow'} \subseteq Block
         /\ {rParFlag', accepted'} \subseteq BOOLEAN
<1>1. /\ hmi \in [Addr -> Block] /\ flag \in [Addr -> BOOLEAN]
      /\ acted \in [Commands -> Block] /\ slipped \subseteq Addr
      /\ {wrPara, rdPara, mbParaNow} \subseteq Block
      /\ {rParFlag, accepted} \subseteq BOOLEAN
  BY DEF TypeOK
<1>2. /\ WrParaNow \in Block /\ MbPara \in Addr /\ Commands \subseteq Addr
      /\ \A r \in Readable : r \in Block
  BY <1>1, AddrParts, ValuesAssumption, WholeIsBlock DEF WrParaNow, Readable
<1>3. acted' \in [Commands -> Block]
  BY <1>1, <1>2 DEF LogicPass, HmiInputUpdate
<1>4. ASSUME UserRecord, UNCHANGED rdPara
      PROVE  /\ slipped \subseteq slipped' /\ slipped' \subseteq Addr
             /\ {wrPara', rdPara', mbParaNow'} \subseteq Block
             /\ {rParFlag', accepted'} \subseteq BOOLEAN
  BY <1>1, <1>2, <1>4 DEF UserRecord
<1>5. ASSUME NEW S, Lower(S) PROVE flag' \in [Addr -> BOOLEAN]
  BY <1>1, <1>5 DEF Lower, Left
<1>6. CASE AcceptMbPara
  BY <1>1, <1>2, <1>3, <1>5, <1>6 DEF AcceptMbPara
<1>7. ASSUME NEW b \in CbPara, SendSetPar(b) \/ SendReadPar(b)
      PROVE  UserRecord /\ UNCHANGED rdPara /\ (Lower({}) \/ Lower({b}))
  BY <1>7 DEF SendSetPar, SendReadPar
<1>8. CASE NothingNew
  BY <1>3, <1>4, <1>5, <1>8 DEF NothingNew
<1> QED
  BY <1>3, <1>4, <1>5, <1>6, <1>7, <1>8 DEF LogicPass, ParManage

(* A pass of Logic keeps the types. *)
LEMMA PassType == ASSUME TypeOK, LogicPass PROVE TypeOK'
<1>1. /\ hmi \in [Addr -> Block] /\ cnt \in [CbPara -> 0..1]
      /\ WPara \in [CbPara -> Block] /\ setPara \in [CbPara -> Block]
      /\ update \in [CbPara -> BOOLEAN] /\ CbPara \subseteq Addr
  BY AddrParts DEF TypeOK
<1>2. UNCHANGED <<mb, hmi, boardPara, appPara, frames>>
  BY DEF LogicPass
<1>3. /\ cnt' \in [CbPara -> 0..1] /\ WPara' \in [CbPara -> Block]
      /\ setPara' \in [CbPara -> Block] /\ update' \in [CbPara -> BOOLEAN]
  <2>1. CASE AcceptMbPara \/ NothingNew
    BY <1>1, <2>1 DEF AcceptMbPara, NothingNew, logicCb
  <2>2. ASSUME NEW b \in CbPara, SendSetPar(b)
        PROVE  /\ cnt' \in [CbPara -> 0..1] /\ WPara' \in [CbPara -> Block]
               /\ setPara' \in [CbPara -> Block] /\ update' \in [CbPara -> BOOLEAN]
    BY <1>1, <2>2 DEF SendSetPar
  <2>3. ASSUME NEW b \in CbPara, SendReadPar(b)
        PROVE  /\ cnt' \in [CbPara -> 0..1] /\ WPara' \in [CbPara -> Block]
               /\ setPara' \in [CbPara -> Block] /\ update' \in [CbPara -> BOOLEAN]
    BY <1>1, <2>3 DEF SendReadPar
  <2> QED
    BY <2>1, <2>2, <2>3 DEF LogicPass, ParManage
<1> QED
  BY <1>2, <1>3, PassTypes DEF TypeOK

(* CanTask and the boards keep the types. *)
LEMMA BoardsType == ASSUME TypeOK, Boards PROVE TypeOK'
<1>1. /\ UNCHANGED others
      /\ boardPara' \in [CbPara -> Block] /\ appPara' \in [CbPara -> Block]
      /\ update' \in [CbPara -> BOOLEAN]
  <2>1. ASSUME NEW b \in CbPara, PushSetPar(b)
        PROVE  /\ UNCHANGED others
               /\ boardPara' \in [CbPara -> Block] /\ appPara' \in [CbPara -> Block]
               /\ update' \in [CbPara -> BOOLEAN]
    BY <2>1 DEF TypeOK, PushSetPar
  <2>2. ASSUME NEW b \in CbPara, Report(b)
        PROVE  /\ UNCHANGED others
               /\ boardPara' \in [CbPara -> Block] /\ appPara' \in [CbPara -> Block]
               /\ update' \in [CbPara -> BOOLEAN]
    BY <2>2 DEF TypeOK, Report
  <2> QED
    BY <2>1, <2>2 DEF Boards
<1> QED
  BY <1>1 DEF TypeOK, others, screen, cabinet, logicCb

(* Every variable keeps its type: in particular ParManage's static counters *)
(* never pass 1 (logicApp.cc:490-499).                                     *)
THEOREM Typing == Spec => []TypeOK
<1>1. TypeOK /\ [Next]_vars => TypeOK'
  <2> SUFFICES ASSUME TypeOK, [Next]_vars PROVE TypeOK'
    OBVIOUS
  <2>1. CASE UNCHANGED vars
    BY <2>1 DEF TypeOK, vars, screen, cabinet, logicCb
  <2> QED
    BY <2>1, ScreenType, PassType, BoardsType DEF Next
<1> QED
  BY <1>1, InitType, PTL DEF Spec

-----------------------------------------------------------------------------
(***************************************************************************)
(* The two scans of a pass: HmiInputUpdate looks at the lowest flag of     *)
(* all, ParManage at the lowest parameter flag that it left.               *)
(***************************************************************************)

(* What a pass lowers: the command it carries out, the clock, and S. *)
LEMMA Lowered ==
  ASSUME TypeOK, NEW S, Lower(S), NEW a \in Addr
  PROVE  flag'[a] <=> (flag[a] /\ a \notin HmiTaken /\ a \notin S)
  BY DEF Lower, Left, TypeOK

(* The cabinet's flag, when up, is the one that ParManage looks at. *)
LEMMA MbParaFirst ==
  ASSUME TypeOK
  PROVE  /\ flag[MbPara] => ParLow(MbPara)
         /\ \A b \in CbPara : ParLow(b) => ~flag[MbPara]
         /\ \A a \in ParaAddr : a \notin HmiTaken
<1>1. \A a \in ParaAddr : a \notin HmiTaken
  BY AddrParts DEF ParaAddr, HmiTaken
<1>2. \A x \in ParaAddr : ~(x < MbPara)
  BY CountsAssumption DEF ParaAddr, MbPara, CbPara
<1> QED
  BY <1>1, <1>2, AddrParts DEF ParLow, Left, ParaAddr

(* The two places that hold the cabinet's new block agree when a pass that *)
(* accepts nothing ends.                                                   *)
LEMMA PassStale ==
  ASSUME TypeOK, StaleOnlyFirst, LogicPass
  PROVE  StaleOnlyFirst'
<1>1. CASE AcceptMbPara
  BY <1>1 DEF AcceptMbPara, StaleOnlyFirst
<1>2. ASSUME NEW b \in CbPara, SendSetPar(b) \/ SendReadPar(b)
      PROVE  StaleOnlyFirst'
  <2>1. ~flag[MbPara] /\ UserRecord /\ UNCHANGED rdPara
    BY <1>2, MbParaFirst DEF SendSetPar, SendReadPar
  <2>2. WrParaNow = wrPara
    BY <2>1 DEF WrParaNow, HmiLow
  <2> QED
    BY <2>1, <2>2 DEF UserRecord, StaleOnlyFirst
<1>3. CASE NothingNew
  <2>1. UserRecord /\ UNCHANGED rdPara
    BY <1>3 DEF NothingNew
  <2>2. MbPara \in HmiLow => WrParaNow = rdPara
    BY <1>3, MbParaFirst DEF NothingNew, ParaUnchanged, ParaAddr, HmiLow
  <2>3. MbPara \notin HmiLow => WrParaNow = wrPara
    BY DEF WrParaNow
  <2> QED
    BY <2>1, <2>2, <2>3 DEF UserRecord, StaleOnlyFirst
<1> QED
  BY <1>1, <1>2, <1>3 DEF LogicPass, ParManage

(* Once a block has been accepted, no pass takes an older block for a new  *)
(* one (logicApp.cc:274-277 and 473-477).                                  *)
THEOREM StaleFirst == Spec => []StaleOnlyFirst
<1>1. Init => StaleOnlyFirst
  BY DEF Init, StaleOnlyFirst
<1>2. TypeOK /\ StaleOnlyFirst /\ [Next]_vars => StaleOnlyFirst'
  <2> SUFFICES ASSUME TypeOK, StaleOnlyFirst, [Next]_vars
               PROVE  StaleOnlyFirst'
    OBVIOUS
  <2>1. CASE UNCHANGED cabinet
    BY <2>1 DEF cabinet, StaleOnlyFirst
  <2>2. ~LogicPass => UNCHANGED cabinet
    BY DEF Next, vars, Screen, Request, MbSlave, CopyCommand, CopyHead,
           CopyTail, CopyEnds, Boards, PushSetPar, Report, others
  <2> QED
    BY <2>1, <2>2, PassStale
<1> QED
  BY <1>1, <1>2, Typing, PTL DEF Spec

-----------------------------------------------------------------------------
(***************************************************************************)
(* Followed.  The boards need a strengthening: between Set_Par and         *)
(* Read_Par the flag is still up, and what was sent must be remembered to  *)
(* be what the screen wrote.                                               *)
(***************************************************************************)
Copying(a) == mb.pc # "idle" /\ mb.addr = a
Sent(b) == (cnt[b] = 1 /\ ~Copying(b) /\ b \notin slipped) => setPara[b] = hmi[b]
Rest(a) == ~flag[a] /\ ~Copying(a) /\ a \notin slipped

FollowedInv ==
  /\ \A c \in Commands : Rest(c) => acted[c] = hmi[c]
  /\ Rest(MbPara) => mbParaNow = hmi[MbPara]
  /\ \A b \in CbPara : (Rest(b) => setPara[b] = hmi[b]) /\ Sent(b)

(* The invariant is Followed, kind of address by kind of address. *)
LEMMA FollowedParts == FollowedInv => Followed
<1> SUFFICES ASSUME FollowedInv, NEW a \in Addr \ {Rtc}, Rest(a)
             PROVE  InForce(a) = hmi[a]
  BY DEF Followed, Rest, Copying
<1>1. CASE a \in Commands
  BY <1>1 DEF FollowedInv, InForce
<1>2. CASE a = MbPara
  <2>1. InForce(a) = mbParaNow
    BY <1>2, AddrParts DEF InForce
  <2> QED
    BY <1>2, <2>1 DEF FollowedInv
<1>3. CASE a \in CbPara
  <2>1. a \notin Commands /\ a # MbPara
    BY <1>3, AddrParts
  <2>2. InForce(a) = setPara[a]
    BY <2>1 DEF InForce
  <2> QED
    BY <1>3, <2>2 DEF FollowedInv
<1> QED
  BY <1>1, <1>2, <1>3, AddrParts

(* Nothing but the screen is written at power-up. *)
LEMMA FollowedInit == Init => FollowedInv
<1> SUFFICES ASSUME Init PROVE FollowedInv
  OBVIOUS
<1>1. \A a \in Addr : hmi[a] = Whole(Zero)
  BY DEF Init
<1>2. (\A c \in Commands : acted[c] = Whole(Zero)) /\ mbParaNow = Whole(Zero)
  BY DEF Init
<1>3. \A b \in CbPara : setPara[b] = Whole(Zero)
  BY DEF Init
<1>4. Commands \subseteq Addr /\ CbPara \subseteq Addr /\ MbPara \in Addr
  BY AddrParts
<1> QED
  BY <1>1, <1>2, <1>3, <1>4 DEF FollowedInv, Sent

(* A request takes its address out of rest; a copy that ends with the flag *)
(* down, or after Set_Par, is noted in slipped.                            *)
LEMMA FollowedScreen ==
  ASSUME TypeOK, FollowedInv, Screen \/ MbSlave
  PROVE  FollowedInv'
<1>1. UNCHANGED <<acted, cabinet, logicCb>>
  BY DEF Screen, Request, MbSlave, CopyCommand, CopyHead, CopyTail, CopyEnds
<1>2. \A a \in Addr : Rest(a)' => (Rest(a) /\ hmi'[a] = hmi[a])
  <2>1. ASSUME NEW x \in Addr, NEW v \in Values, Request(x, v), NEW a \in Addr
        PROVE  Rest(a)' => (Rest(a) /\ hmi'[a] = hmi[a])
    BY <2>1 DEF Request, Rest, Copying, TypeOK
  <2>2. CASE MbSlave
    <3>1. mb.addr \in Addr /\ hmi \in [Addr -> Block] /\ mb.pc # "idle"
      BY <2>2 DEF TypeOK, MbSlave, CopyCommand, CopyHead, CopyTail
    <3>2. \A a \in Addr : a # mb.addr => hmi'[a] = hmi[a]
      BY <2>2, <3>1 DEF MbSlave, CopyCommand, CopyHead, CopyTail
    <3>3. /\ UNCHANGED flag /\ mb'.addr = mb.addr
          /\ slipped' = IF TooLate(mb.addr) THEN slipped \cup {mb.addr} ELSE slipped
      BY <2>2 DEF MbSlave, CopyCommand, CopyHead, CopyTail, CopyEnds, TypeOK
    <3>4. ASSUME NEW a \in Addr, Rest(a)' PROVE a # mb.addr
      BY <3>3, <3>4 DEF Rest, TooLate
    <3>5. ASSUME NEW a \in Addr, Rest(a)' PROVE Rest(a) /\ hmi'[a] = hmi[a]
      BY <3>2, <3>3, <3>4, <3>5 DEF Rest, Copying
    <3> QED
      BY <3>5
  <2> QED
    BY <2>1, <2>2 DEF Screen
<1>3. \A b \in CbPara : Sent(b)'
  <2> SUFFICES ASSUME NEW b \in CbPara, cnt[b] = 1, ~Copying(b)', b \notin slipped'
               PROVE  setPara[b] = hmi'[b]
    BY <1>1 DEF Sent, logicCb
  <2>0. b \in Addr /\ Sent(b)
    BY AddrParts DEF FollowedInv
  <2>1. ASSUME NEW x \in Addr, NEW v \in Values, Request(x, v)
        PROVE  setPara[b] = hmi'[b]
    BY <2>0, <2>1 DEF Request, Copying, Sent, TypeOK
  <2>2. CASE MbSlave
    <3>1. /\ mb'.addr = mb.addr /\ mb.addr \in Addr /\ hmi \in [Addr -> Block]
          /\ slipped' = IF TooLate(mb.addr) THEN slipped \cup {mb.addr} ELSE slipped
      BY <2>2 DEF MbSlave, CopyCommand, CopyHead, CopyTail, CopyEnds, TypeOK
    <3>2. b # mb.addr
      BY <3>1 DEF TooLate
    <3>3. hmi'[b] = hmi[b]
      BY <2>0, <2>2, <3>1, <3>2 DEF MbSlave, CopyCommand, CopyHead, CopyTail
    <3> QED
      BY <2>0, <3>1, <3>2, <3>3 DEF Sent, Copying
  <2> QED
    BY <2>1, <2>2 DEF Screen
<1>4. Commands \subseteq Addr /\ CbPara \subseteq Addr /\ MbPara \in Addr
  BY AddrParts
<1>5. \A c \in Commands : Rest(c)' => acted'[c] = hmi'[c]
  BY <1>1, <1>2, <1>4 DEF FollowedInv
<1>6. Rest(MbPara)' => mbParaNow' = hmi'[MbPara]
  BY <1>1, <1>2, <1>4 DEF FollowedInv, cabinet
<1>7. \A b \in CbPara : Rest(b)' => setPara'[b] = hmi'[b]
  BY <1>1, <1>2, <1>4 DEF FollowedInv, logicCb
<1> QED
  BY <1>3, <1>5, <1>6, <1>7 DEF FollowedInv

(* A pass moves nothing of the screen's but flags, and slipped grows. *)
LEMMA PassFrame ==
  ASSUME TypeOK, LogicPass
  PROVE  /\ UNCHANGED <<mb, hmi>> /\ slipped \subseteq slipped'
         /\ \A a : Copying(a)' <=> Copying(a)
  BY PassTypes DEF LogicPass, Copying

(* Commands: the flag goes down in the pass that carries the command out,  *)
(* whatever ParManage does after it.                                       *)
LEMMA FollowedCmd ==
  ASSUME TypeOK, FollowedInv, LogicPass, NEW c \in Commands, Rest(c)'
  PROVE  acted'[c] = hmi'[c]
<1>1. c \in Addr /\ c \notin ParaAddr /\ c \notin CbPara
  BY AddrParts DEF ParaAddr
<1>2. acted'[c] = IF c \in HmiLow THEN hmi[c] ELSE acted[c]
  BY DEF LogicPass, HmiInputUpdate
<1>3. PICK S \in SUBSET ParaAddr : Lower(S)
  <2>1. ASSUME NEW b \in CbPara, SendSetPar(b) \/ SendReadPar(b)
        PROVE  Lower({}) \/ Lower({b})
    BY <2>1 DEF SendSetPar, SendReadPar
  <2> QED
    BY <2>1 DEF LogicPass, ParManage, AcceptMbPara, NothingNew, ParaAddr
<1>4. CASE c \in HmiLow
  BY <1>2, <1>4, PassFrame
<1>5. CASE c \notin HmiLow
  <2>1. ~flag[c]
    BY <1>1, <1>3, <1>5, Lowered DEF HmiTaken, Rest
  <2>2. Rest(c)
    BY <2>1, PassFrame DEF Rest
  <2> QED
    BY <1>2, <1>5, <2>2, PassFrame DEF FollowedInv
<1> QED
  BY <1>4, <1>5

(* The cabinet: the flag goes down when the block is accepted, and the     *)
(* block is the one on the screen unless the pass served a command; only   *)
(* the boot read changes the parameters otherwise.                         *)
LEMMA FollowedMb ==
  ASSUME TypeOK, FollowedInv, LogicPass, Rest(MbPara)'
  PROVE  mbParaNow' = hmi'[MbPara]
<1>1. MbPara \in Addr /\ MbPara \notin HmiTaken /\ MbPara \notin CbPara
  BY AddrParts, MbParaFirst DEF ParaAddr
<1>2. CASE AcceptMbPara
  BY <1>2, PassFrame DEF AcceptMbPara, Rest, WrParaNow
<1>3. ASSUME UserRecord, NEW S, MbPara \notin S, Lower(S)
      PROVE  mbParaNow' = hmi'[MbPara]
  <2>1. ~flag[MbPara]
    BY <1>1, <1>3, Lowered DEF Rest
  <2>2. ~rParFlag /\ UNCHANGED mbParaNow
    BY <1>3 DEF UserRecord, Rest
  <2>3. Rest(MbPara)
    BY <2>1, PassFrame DEF Rest
  <2> QED
    BY <2>2, <2>3, PassFrame DEF FollowedInv
<1>4. ASSUME NEW b \in CbPara, SendSetPar(b) \/ SendReadPar(b)
      PROVE  UserRecord /\ (Lower({}) \/ Lower({b}))
  BY <1>4 DEF SendSetPar, SendReadPar
<1>5. NothingNew => UserRecord /\ Lower({})
  BY DEF NothingNew
<1>6. ~AcceptMbPara => UserRecord /\ \E S : MbPara \notin S /\ Lower(S)
  BY <1>1, <1>4, <1>5 DEF LogicPass, ParManage
<1> QED
  BY <1>2, <1>3, <1>6

(* The boards: Set_Par carries the block of the screen, the flag stays up  *)
(* until Read_Par, and what was sent is remembered in between.             *)
LEMMA FollowedCb ==
  ASSUME TypeOK, FollowedInv, LogicPass, NEW b \in CbPara
  PROVE  (Rest(b)' => setPara'[b] = hmi'[b]) /\ Sent(b)'
<1>1. b \in Addr /\ b \notin HmiTaken /\ b # MbPara
  BY AddrParts, MbParaFirst DEF ParaAddr
<1>2. cnt \in [CbPara -> 0..1] /\ setPara \in [CbPara -> Block]
  BY DEF TypeOK
<1>3. (Rest(b) => setPara[b] = hmi[b]) /\ Sent(b)
  BY DEF FollowedInv
<1>4. ASSUME setPara'[b] = setPara[b], cnt'[b] = cnt[b] \/ cnt'[b] = 0,
             NEW S, b \notin S, Lower(S)
      PROVE  (Rest(b)' => setPara'[b] = hmi'[b]) /\ Sent(b)'
  <2>1. flag'[b] <=> flag[b]
    BY <1>1, <1>4, Lowered
  <2>2. Rest(b)' => Rest(b)
    BY <2>1, PassFrame DEF Rest
  <2>3. Sent(b)'
    BY <1>3, <1>4, PassFrame DEF Sent
  <2> QED
    BY <1>3, <1>4, <2>2, <2>3, PassFrame
<1>5. CASE AcceptMbPara
  BY <1>1, <1>4, <1>5 DEF AcceptMbPara, logicCb
<1>6. CASE NothingNew
  BY <1>1, <1>4, <1>6 DEF NothingNew, logicCb
<1>7. ASSUME NEW d \in CbPara, d # b, SendSetPar(d) \/ SendReadPar(d)
      PROVE  (Rest(b)' => setPara'[b] = hmi'[b]) /\ Sent(b)'
  <2>1. setPara'[b] = setPara[b] /\ cnt'[b] = cnt[b]
    BY <1>2, <1>7 DEF SendSetPar, SendReadPar
  <2>2. Lower({}) \/ Lower({d})
    BY <1>7 DEF SendSetPar, SendReadPar
  <2> QED
    BY <1>4, <1>7, <2>1, <2>2
<1>8. CASE SendSetPar(b)
  <2>1. setPara'[b] = hmi[b]
    BY <1>2, <1>8 DEF SendSetPar
  <2> QED
    BY <2>1, PassFrame DEF Sent
<1>9. CASE SendReadPar(b)
  <2>1. cnt[b] = 1 /\ cnt'[b] = 0 /\ setPara'[b] = setPara[b]
    BY <1>2, <1>9 DEF SendReadPar
  <2>2. Rest(b)' => setPara[b] = hmi[b]
    BY <1>3, <2>1, PassFrame DEF Rest, Sent
  <2> QED
    BY <2>1, <2>2, PassFrame DEF Sent
<1> QED
  BY <1>5, <1>6, <1>7, <1>8, <1>9 DEF LogicPass, ParManage

(* What is in force at rest is what the screen wrote last, for commands,   *)
(* cabinet and boards, but for the three exceptions in slipped             *)
(* (user_mb_app.c:247-320, logicApp.cc:141-285 and 456-587).               *)
THEOREM WritesFollowed == Spec => []Followed
<1>1. TypeOK /\ FollowedInv /\ [Next]_vars => FollowedInv'
  <2> SUFFICES ASSUME TypeOK, FollowedInv, [Next]_vars PROVE FollowedInv'
    OBVIOUS
  <2>1. CASE LogicPass
    BY <2>1, FollowedCmd, FollowedMb, FollowedCb DEF FollowedInv
  <2>2. CASE UNCHANGED <<screen, acted, cabinet, logicCb, slipped>>
    BY <2>2 DEF screen, cabinet, logicCb, FollowedInv, Rest, Sent, Copying
  <2>3. Boards => UNCHANGED <<screen, acted, cabinet, logicCb, slipped>>
    BY DEF Boards, PushSetPar, Report, others
  <2> QED
    BY <2>1, <2>2, <2>3, FollowedScreen DEF Next, vars
<1> QED
  BY <1>1, FollowedInit, FollowedParts, Typing, PTL DEF Spec
=============================================================================
