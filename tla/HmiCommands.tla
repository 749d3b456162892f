---------------------------- MODULE HmiCommands ----------------------------
(***************************************************************************)
(* The commands and parameters of the touch screen.  The thread mbslave    *)
(* (priority 15) stores what the screen writes and raises the flag of the  *)
(* address (port/user_mb_app.c, RegAddressGet); the thread Logic (priority *)
(* 12) looks at the flags twice in a pass, in HmiInputUpdate and in        *)
(* ParManage (UserApp/logicApp.cc).  No lock protects the flags or what    *)
(* they announce: Logic preempts mbslave at any statement, and mbslave     *)
(* never runs inside a pass.                                               *)
(*                                                                         *)
(* Addresses are numbered as in MB_DataStruct.h: the commands first, then  *)
(* the cabinet's parameters, the boards' parameters, the clock.  A block   *)
(* of parameters is two words, because memcpy can be preempted inside it,  *)
(* and so is a charge command (which board, what); the screen writes the   *)
(* same value in both, so that a torn block or command shows.              *)
(* A read of a command address runs RegAddressGet like a write, and a      *)
(* write that starts at an earlier register leaves a new value for such a  *)
(* read to find: all of these are Requests.                                *)
(***************************************************************************)
EXTENDS Integers

CONSTANTS
  NCmd,        \* number of plain commands, ADDR_CHARGE_EN..ADDR_RESTORE
  NCb,         \* number of boards
  Values,      \* what a word of a register can hold
  Zero,        \* the value of a word before anything is written
  BootValue,   \* the parameters in flash at power-up
  MaxFrames    \* bound: number of requests of the screen

ASSUME CountsAssumption == NCmd \in Nat \ {0} /\ NCb \in Nat \ {0}
ASSUME ValuesAssumption == {Zero, BootValue} \subseteq Values
ASSUME FramesAssumption == MaxFrames \in Nat

Commands == 0..(NCmd - 1)
MbPara == NCmd
CbPara == (NCmd + 1)..(NCmd + NCb)
Rtc == NCmd + NCb + 1
Addr == 0..Rtc
ParaAddr == {MbPara} \cup CbPara

Block == [head : Values, tail : Values]
Whole(v) == [head |-> v, tail |-> v]

VARIABLES
  mb,        \* mbslave in RegAddressGet: where, for which address and value
  flag,      \* HMI.HMI_WAddr_flag
  hmi,       \* the field of HMI behind each address
  acted,     \* the command Logic last served, per address
  wrPara,    \* MB_LGA.MB_WrPara
  rdPara,    \* MB_LGA.MB_RdPara
  mbParaNow, \* MB_LGA.MB_Para, the parameters in force
  rParFlag,  \* MB_LGA.MB_SYS_INFO.rParFlag
  cnt,       \* ParManage's static cntN
  WPara,     \* MB_LGA.ModueN_WPara
  setPara,   \* can.CanBuf.CbNWPara: what ModuleN_Set_Par carries
  update,    \* the update flag of ModuleN_Set_Par
  boardPara, \* the parameters in the board
  appPara,   \* can.AppBuf.CbNPara: the board's last report
  frames,    \* number of requests so far
  accepted,  \* history: a block was accepted since power-up or the boot read
  slipped    \* history: see below

screen == <<mb, flag, hmi>>
cabinet == <<wrPara, rdPara, mbParaNow, rParFlag, accepted>>
logicCb == <<cnt, WPara, setPara>>
vars == <<screen, acted, cabinet, logicCb, update, boardPara, appPara, frames,
          slipped>>

TypeOK ==
  /\ mb \in [pc : {"idle", "raised", "half"}, addr : Addr, val : Values]
  /\ flag \in [Addr -> BOOLEAN]
  /\ hmi \in [Addr -> Block]
  /\ acted \in [Commands -> Block]
  /\ {wrPara, rdPara, mbParaNow} \subseteq Block
  /\ {rParFlag, accepted} \subseteq BOOLEAN
  /\ cnt \in [CbPara -> 0..1]
  /\ WPara \in [CbPara -> Block]
  /\ setPara \in [CbPara -> Block]
  /\ update \in [CbPara -> BOOLEAN]
  /\ boardPara \in [CbPara -> Block]
  /\ appPara \in [CbPara -> Block]
  /\ frames \in 0..MaxFrames
  /\ slipped \subseteq Addr

(* Logic sets rParFlag before its first pass, so that the first pass that
   has nothing to write reads the record of the flash. *)
Init ==
  /\ mb = [pc |-> "idle", addr |-> Rtc, val |-> Zero]
  /\ flag = [a \in Addr |-> FALSE]
  /\ hmi = [a \in Addr |-> Whole(Zero)]
  /\ acted = [c \in Commands |-> Whole(Zero)]
  /\ wrPara = Whole(Zero)
  /\ rdPara = Whole(Zero)
  /\ mbParaNow = Whole(Zero)
  /\ rParFlag = TRUE
  /\ accepted = FALSE
  /\ cnt = [b \in CbPara |-> 0]
  /\ WPara = [b \in CbPara |-> Whole(Zero)]
  /\ setPara = [b \in CbPara |-> Whole(Zero)]
  /\ update = [b \in CbPara |-> FALSE]
  /\ boardPara \in [CbPara -> {Whole(v) : v \in Values}]
  /\ appPara = [b \in CbPara |-> Whole(Zero)]
  /\ frames = 0
  /\ slipped = {}

-----------------------------------------------------------------------------
(***************************************************************************)
(* mbslave: RegAddressGet raises the flag, then copies the field.          *)
(***************************************************************************)
Request(a, v) ==
  /\ mb.pc = "idle"
  /\ frames < MaxFrames
  /\ frames' = frames + 1
  /\ flag' = [flag EXCEPT ![a] = TRUE]
  /\ mb' = [pc |-> "raised", addr |-> a, val |-> v]
  /\ slipped' = slipped \ {a}
  /\ UNCHANGED <<hmi, acted, cabinet, logicCb, update, boardPara, appPara>>

(* The word copied now is one that Logic will not look at any more for this
   request: it has lowered the flag, or has sent Set_Par already. *)
TooLate(a) == ~flag[a] \/ (a \in CbPara /\ cnt[a] = 1)

CopyEnds ==
  /\ mb' = [mb EXCEPT !.pc = "idle"]
  /\ slipped' = IF TooLate(mb.addr) THEN slipped \cup {mb.addr} ELSE slipped
  /\ UNCHANGED <<flag, acted, cabinet, logicCb, update, boardPara, appPara,
                 frames>>

(* A command of one word is copied at once, and so is the clock, which
   Logic does not read. *)
CopyCommand ==
  /\ mb.pc = "raised"
  /\ mb.addr \notin ParaAddr
  /\ hmi' = [hmi EXCEPT ![mb.addr] = Whole(mb.val)]
  /\ CopyEnds

(* A block, or one of the commands of two words (CMD1 and CMD2). *)
CopyHead ==
  /\ mb.pc = "raised"
  /\ mb.addr # Rtc
  /\ hmi' = [hmi EXCEPT ![mb.addr].head = mb.val]
  /\ mb' = [mb EXCEPT !.pc = "half"]
  /\ slipped' = IF TooLate(mb.addr) THEN slipped \cup {mb.addr} ELSE slipped
  /\ UNCHANGED <<flag, acted, cabinet, logicCb, update, boardPara, appPara,
                 frames>>

CopyTail ==
  /\ mb.pc = "half"
  /\ hmi' = [hmi EXCEPT ![mb.addr].tail = mb.val]
  /\ CopyEnds

-----------------------------------------------------------------------------
(***************************************************************************)
(* Logic, HmiInputUpdate: only the lowest flagged address is looked at.  A *)
(* command is served and its flag lowered; the cabinet's parameters are    *)
(* copied and their flag stays; the boards' addresses have no branch.      *)
(*                                                                         *)
(* acted is what the field of the command holds in the pass that serves    *)
(* it.  What each command does with it is left out: a charge command does  *)
(* nothing for words other than those its switches list, ADDR_RESTART      *)
(* sends Reboot whatever the field holds, ADDR_RESTORE lowers its flag and *)
(* does nothing else.  SysMode has the commands that set the mode.         *)
(***************************************************************************)
HmiLow == {a \in Addr : flag[a] /\ \A x \in Addr : x < a => ~flag[x]}

(* Mutation: the clock's branch keeps its flag. *)
HmiTakenNoRtc == HmiLow \cap Commands

(* Mutation: line 277, which is commented out, lowers the parameters' flag. *)
HmiTakenMbPara == HmiLow \ CbPara

HmiTaken == HmiLow \cap (Commands \cup {Rtc})

WrParaNow == IF MbPara \in HmiLow THEN hmi[MbPara] ELSE wrPara

HmiInputUpdate ==
  acted' = [c \in Commands |-> IF c \in HmiLow THEN hmi[c] ELSE acted[c]]

-----------------------------------------------------------------------------
(***************************************************************************)
(* Logic, ParManage: the lowest flag that is left between W_MB_PARA and    *)
(* W_CB5_PARA.  CanInputUpdate has run by then, so the reports compared    *)
(* are those of the receive buffer.                                        *)
(***************************************************************************)
Left(a) == flag[a] /\ a \notin HmiTaken
ParLow(a) == Left(a) /\ \A x \in ParaAddr : x < a => ~Left(x)

(* The boards' blocks are compared over sizeof(MB_Para_STYP), 28 bytes, and
   are 24 bytes long: the start of what follows takes part.  Behind board
   5's come the clock in HMI, and board 1's new parameters in MB_LGA. *)
SameBehind(b) ==
  IF b = NCmd + NCb THEN hmi[Rtc].head = WPara[NCmd + 1].head
                    ELSE hmi[b + 1].head = appPara[b + 1].head
Same(b) == hmi[b] = appPara[b] /\ SameBehind(b)

Lower(S) == flag' = [a \in Addr |-> Left(a) /\ a \notin S]

(* UserRecord reads the record at boot, if this pass has none to write.  A
   record posted before that may or may not be in flash by then. *)
Readable == {Whole(BootValue)} \cup (IF accepted THEN {mbParaNow} ELSE {})

UserRecord ==
  \/ /\ rParFlag
     /\ \E r \in Readable : mbParaNow' = r /\ wrPara' = r
     /\ rParFlag' = FALSE
     /\ accepted' = FALSE
     /\ slipped' = slipped \cup {MbPara}
  \/ /\ ~rParFlag
     /\ wrPara' = WrParaNow
     /\ UNCHANGED <<mbParaNow, rParFlag, accepted, slipped>>

(* Mutation: the accepted block is not noted in MB_RdPara. *)
AcceptMbParaForgets ==
  /\ ParLow(MbPara)
  /\ WrParaNow # rdPara
  /\ mbParaNow' = WrParaNow
  /\ wrPara' = WrParaNow
  /\ accepted' = TRUE
  /\ Lower({MbPara})
  /\ slipped' = IF MbPara \in HmiLow THEN slipped ELSE slipped \cup {MbPara}
  /\ UNCHANGED <<rdPara, rParFlag, logicCb, update>>

(* A new block for the cabinet; wParFlag makes UserRecord post it in the
   same pass, which leaves rParFlag for the next one.  When a command was
   the lowest flag, MB_WrPara is still an older block. *)
AcceptMbPara ==
  /\ ParLow(MbPara)
  /\ WrParaNow # rdPara
  /\ rdPara' = WrParaNow
  /\ mbParaNow' = WrParaNow
  /\ wrPara' = WrParaNow
  /\ accepted' = TRUE
  /\ Lower({MbPara})
  /\ slipped' = IF MbPara \in HmiLow THEN slipped ELSE slipped \cup {MbPara}
  /\ UNCHANGED <<rParFlag, logicCb, update>>

(* First pass over a board's new block. *)
SendSetPar(b) ==
  /\ ParLow(b)
  /\ ~Same(b)
  /\ cnt[b] = 0
  /\ cnt' = [cnt EXCEPT ![b] = 1]
  /\ WPara' = [WPara EXCEPT ![b] = hmi[b]]
  /\ setPara' = [setPara EXCEPT ![b] = hmi[b]]
  /\ update' = [update EXCEPT ![b] = TRUE]
  /\ Lower({})
  /\ UserRecord
  /\ UNCHANGED rdPara

(* Mutation: cntN is not reset. *)
SendReadParCounts(b) ==
  /\ ParLow(b)
  /\ ~Same(b)
  /\ cnt[b] > 0
  /\ cnt' = [cnt EXCEPT ![b] = @ + 1]
  /\ WPara' = [WPara EXCEPT ![b] = hmi[b]]
  /\ Lower({b})
  /\ UserRecord
  /\ UNCHANGED <<rdPara, setPara, update>>

(* Second pass: the board is asked for its parameters. *)
SendReadPar(b) ==
  /\ ParLow(b)
  /\ ~Same(b)
  /\ cnt[b] > 0
  /\ cnt' = [cnt EXCEPT ![b] = 0]
  /\ WPara' = [WPara EXCEPT ![b] = hmi[b]]
  /\ Lower({b})
  /\ UserRecord
  /\ UNCHANGED <<rdPara, setPara, update>>

(* Nothing flagged, or nothing new: the flag stays. *)
ParaUnchanged(a) == IF a = MbPara THEN WrParaNow = rdPara ELSE Same(a)

NothingNew ==
  /\ \A a \in ParaAddr : ParLow(a) => ParaUnchanged(a)
  /\ Lower({})
  /\ UserRecord
  /\ UNCHANGED <<rdPara, logicCb, update>>

ParManage ==
  \/ AcceptMbPara
  \/ \E b \in CbPara : SendSetPar(b) \/ SendReadPar(b)
  \/ NothingNew

LogicPass ==
  /\ HmiInputUpdate
  /\ ParManage
  /\ UNCHANGED <<mb, hmi, boardPara, appPara, frames>>

-----------------------------------------------------------------------------
(***************************************************************************)
(* CanTask and the boards: Set_Par is pushed once and may be lost; a board *)
(* reports its parameters when it is asked and in every cyclic poll.       *)
(***************************************************************************)
others == <<screen, acted, cabinet, logicCb, frames, slipped>>

PushSetPar(b) ==
  /\ update[b]
  /\ update' = [update EXCEPT ![b] = FALSE]
  /\ \/ boardPara' = [boardPara EXCEPT ![b] = setPara[b]]
     \/ UNCHANGED boardPara
  /\ UNCHANGED <<appPara, others>>

Report(b) ==
  /\ appPara' = [appPara EXCEPT ![b] = boardPara[b]]
  /\ UNCHANGED <<update, boardPara, others>>

-----------------------------------------------------------------------------
MbSlave == CopyCommand \/ CopyHead \/ CopyTail
Screen == \E a \in Addr, v \in Values : Request(a, v)
Boards == \E b \in CbPara : PushSetPar(b) \/ Report(b)

Next == Screen \/ MbSlave \/ LogicPass \/ Boards

Spec == Init /\ [][Next]_vars

(* The tick releases Logic's semaphore every 10 ms, and Logic leaves time
   to mbslave, which is never blocked inside RegAddressGet.  Nothing is
   assumed of the screen or of the boards. *)
FairSpec == Spec /\ WF_vars(LogicPass) /\ WF_vars(MbSlave)

-----------------------------------------------------------------------------
(* What the system has made of an address: the command served, the
   parameters in force, the parameters last sent to a board. *)
InForce(a) == CASE a \in Commands -> acted[a]
                [] a = MbPara     -> mbParaNow
                [] OTHER          -> setPara[a]

(***************************************************************************)
(* Whenever an address is at rest (its flag down, no copy under way) what  *)
(* is in force is what the screen wrote last, whole, for commands, cabinet *)
(* and boards alike (user_mb_app.c 247-320, logicApp.cc 141-285, 456-587). *)
(* The exceptions are in slipped, and there are only three: a copy that    *)
(* ends after Logic has stopped looking (the flag is raised before the     *)
(* copy, or a board's block is written again between Set_Par and           *)
(* Read_Par); a cabinet block accepted in a pass that served a command;    *)
(* and the read of the flash at boot.                                      *)
(***************************************************************************)
Followed ==
  \A a \in Addr \ {Rtc} :
    (~flag[a] /\ ~(mb.pc # "idle" /\ mb.addr = a) /\ a \notin slipped)
      => InForce(a) = hmi[a]

(* Once a block has been accepted, MB_WrPara and MB_RdPara agree between   *)
(* passes, so that a pass busy with a command cannot take an older block   *)
(* for a new one: that can happen to the first block after boot only       *)
(* (logicApp.cc 274-277 and 473-477).                                      *)
StaleOnlyFirst == accepted => wrPara = rdPara

(* Every flag is lowered, unless a parameter block not above it says what  *)
(* is in force already: ParManage never lowers that one, and serves no     *)
(* other while it is up.  Commands are before all parameters, so they are  *)
(* always served (logicApp.cc 147-151 and 465-481).                        *)
Blocked(a) ==
  \E p \in ParaAddr :
    /\ p <= a
    /\ flag[p]
    /\ IF p = MbPara THEN hmi[p] = rdPara ELSE Same(p)

FlagsServed == \A a \in Addr : flag[a] ~> (~flag[a] \/ Blocked(a))
=============================================================================
