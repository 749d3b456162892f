------------------------------ MODULE ParStore ------------------------------
(***************************************************************************)
(* How accepted parameters get to the flash: sys_par_write in the thread   *)
(* Logic (UserApp/logicApp.cc) fills a block of the heap, posts it to the  *)
(* mail box of the flash driver, which only keeps its address, and frees   *)
(* it; the thread fst (flash/flash_storage_at45dbxx.c) takes the mail,     *)
(* writes what the block holds by then, and frees it too.  Other threads   *)
(* use the same heap.                                                      *)
(*                                                                         *)
(* The heap serialises its calls with a semaphore, so each call is one     *)
(* step; rt_free checks that the block is in use while it holds it, and a  *)
(* failed RT_ASSERT is an endless loop there, after which no thread gets   *)
(* the semaphore any more.                                                 *)
(***************************************************************************)
EXTENDS Integers, Sequences

CONSTANTS
  Blocks,    \* blocks of the size of the parameters in the heap
  Values,    \* parameters
  Junk,      \* what other threads keep in a block, none of Values
  MailSize,  \* size of the mail box (32)
  NoBlock    \* no block

VARIABLES
  used,     \* heap_mem.used of each block
  data,     \* its contents
  heapSem,  \* heap_sem is free
  logic,    \* Logic in sys_par_write: where, and with which block
  mailbox,  \* fs_mailbox: the addresses posted
  fst,      \* flash_storage_entry: where, and with which block
  others,   \* blocks other threads have allocated
  stored    \* the newest record in flash

heap == <<used, data, heapSem>>
vars == <<heap, logic, mailbox, fst, others, stored>>

At(pc, b) == [pc |-> pc, tmp |-> b]

TypeOK ==
  /\ used \in [Blocks -> BOOLEAN]
  /\ data \in [Blocks -> Values \cup {Junk}]
  /\ heapSem \in BOOLEAN
  /\ logic \in [pc : {"idle", "post", "free", "assert"},
                tmp : Blocks \cup {NoBlock}]
  /\ mailbox \in Seq(Blocks) /\ Len(mailbox) <= MailSize
  /\ fst \in [pc : {"recv", "write", "free", "assert"},
              tmp : Blocks \cup {NoBlock}]
  /\ others \subseteq Blocks
  /\ stored \in Values \cup {Junk}

Init ==
  /\ used = [b \in Blocks |-> FALSE]
  /\ data = [b \in Blocks |-> Junk]
  /\ heapSem = TRUE
  /\ logic = At("idle", NoBlock)
  /\ mailbox = <<>>
  /\ fst = At("recv", NoBlock)
  /\ others = {}
  /\ stored \in Values

-----------------------------------------------------------------------------
Malloc(b, content) ==
  /\ heapSem
  /\ ~used[b]
  /\ used' = [used EXCEPT ![b] = TRUE]
  /\ data' = [data EXCEPT ![b] = content]
  /\ UNCHANGED heapSem

(* The contents of a freed block stay until it is allocated again. *)
Free(b) ==
  /\ heapSem
  /\ used[b]
  /\ used' = [used EXCEPT ![b] = FALSE]
  /\ UNCHANGED <<data, heapSem>>

FreeFails(b) ==
  /\ heapSem
  /\ ~used[b]
  /\ heapSem' = FALSE
  /\ UNCHANGED <<used, data>>

-----------------------------------------------------------------------------
(* Logic: sys_par_write and flash_storage_write. *)
ParAlloc(b, v) ==
  /\ logic.pc = "idle"
  /\ Malloc(b, v)
  /\ logic' = At("post", b)
  /\ UNCHANGED <<mailbox, fst, others, stored>>

(* A full mail box refuses the mail, and nobody looks at the result. *)
ParPost ==
  /\ logic.pc = "post"
  /\ mailbox' = IF Len(mailbox) < MailSize
                THEN Append(mailbox, logic.tmp) ELSE mailbox
  /\ logic' = At("free", logic.tmp)
  /\ UNCHANGED <<heap, fst, others, stored>>

ParFree ==
  /\ logic.pc = "free"
  /\ \/ Free(logic.tmp) /\ logic' = At("idle", NoBlock)
     \/ FreeFails(logic.tmp) /\ logic' = At("assert", NoBlock)
  /\ UNCHANGED <<mailbox, fst, others, stored>>

-----------------------------------------------------------------------------
(* fst: flash_storage_entry. *)
Recv ==
  /\ fst.pc = "recv"
  /\ mailbox # <<>>
  /\ fst' = At("write", Head(mailbox))
  /\ mailbox' = Tail(mailbox)
  /\ UNCHANGED <<heap, logic, others, stored>>

WriteRecord ==
  /\ fst.pc = "write"
  /\ stored' = data[fst.tmp]
  /\ fst' = At("free", fst.tmp)
  /\ UNCHANGED <<heap, logic, mailbox, others>>

FreeParameter ==
  /\ fst.pc = "free"
  /\ \/ Free(fst.tmp) /\ fst' = At("recv", NoBlock)
     \/ FreeFails(fst.tmp) /\ fst' = At("assert", NoBlock)
  /\ UNCHANGED <<logic, mailbox, others, stored>>

-----------------------------------------------------------------------------
OtherAlloc(b) ==
  /\ Malloc(b, Junk)
  /\ others' = others \cup {b}
  /\ UNCHANGED <<logic, mailbox, fst, stored>>

OtherFree(b) ==
  /\ b \in others
  /\ Free(b)
  /\ others' = others \ {b}
  /\ UNCHANGED <<logic, mailbox, fst, stored>>

-----------------------------------------------------------------------------
Logic == (\E b \in Blocks, v \in Values : ParAlloc(b, v)) \/ ParPost \/ ParFree

(* Logic (priority 12) does not wait inside sys_par_write, so that fst (18)
   comes before it or after it. *)
Fst ==
  /\ logic.pc \notin {"post", "free"}
  /\ Recv \/ WriteRecord \/ FreeParameter

Others == \E b \in Blocks : OtherAlloc(b) \/ OtherFree(b)

Next == Logic \/ Fst \/ Others

Spec == Init /\ [][Next]_vars

(* A block given to rt_free is in a used state: the assertion of mem.c 538 *)
(* holds for what Logic and fst free (logicApp.cc 600,                     *)
(* flash_storage_at45dbxx.c 225).                                          *)
FreedInUse == logic.pc # "assert" /\ fst.pc # "assert"
=============================================================================
