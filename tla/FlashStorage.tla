---------------------------- MODULE FlashStorage ----------------------------
(***************************************************************************)
(* The record store in the AT45 flash (flash/flash_storage_at45dbxx.c): a  *)
(* region is a ring of records with increasing ids, storage_maps says in   *)
(* RAM where the newest is, and a copy of storage_maps is written to the   *)
(* catalog region once per boot.  At the next boot the catalog is scanned, *)
(* the maps of the last boot are restored, and the region is scanned from  *)
(* there for what was written since.                                       *)
(*                                                                         *)
(* Two regions are kept: the catalog (RECORD_CATALOG) and the parameters   *)
(* (RECORD_PAR), with one page per record.  Power can be lost at any step, *)
(* also in the middle of a page; a page can fail to take what is written,  *)
(* and the read that verifies it can fail.                                 *)
(***************************************************************************)
EXTENDS Integers, FiniteSets

CONSTANTS
  NCat,         \* records in the catalog region (32)
  NPar,         \* records in the parameter region (32)
  FORWARD,      \* older or empty pages a scan goes over before it stops (8)
  MAX_RETRY_TIMES,
  Values,       \* parameter blocks
  NoBlock,      \* what a read returns when there is no record
  MaxId,        \* bound: no write when an id has reached this
  MaxFaults     \* bound: writes that fail among the last ring of writes

ASSUME SizesAssumption ==
  /\ NCat \in Nat /\ NPar \in Nat
  /\ NCat > MaxFaults + 1 /\ NPar > MaxFaults + 1
ASSUME ScanAssumption == FORWARD \in Nat /\ FORWARD > MaxFaults + 1
ASSUME RetryAssumption == MAX_RETRY_TIMES \in Nat \ {0}
ASSUME NoBlockAssumption == NoBlock \notin Values
ASSUME BoundsAssumption == MaxId \in Nat /\ MaxFaults \in Nat

VARIABLES
  flash,  \* the pages of the two regions
  maps,   \* storage_maps[i].current_page and current_id, in RAM
  pc,     \* where the boot or the flash thread is
  scan,   \* the local variables of scan_flash
  wr,     \* the local variables of write_record
  kept    \* history: what the next boot may read

vars == <<flash, maps, pc, scan, wr, kept>>

Regions == {"cat", "par"}
Size(r) == IF r = "cat" THEN NCat ELSE NPar
Pages(r) == 0..(Size(r) - 1)

(* Mutation: the page after the last one is taken for a page. *)
Next1Late(r, p) == IF p = Size(r) THEN 0 ELSE p + 1

Next1(r, p) == IF p + 1 = Size(r) THEN 0 ELSE p + 1

Map(r) == [page : Pages(r), id : 0..MaxId]
Maps == [cat : Map("cat"), par : Map("par")]
FirstMap == [page |-> 0, id |-> 0]
NoMaps == [cat |-> FirstMap, par |-> FirstMap]

(* A page is good (CRC right), torn (CRC wrong) or erased: CRC wrong and the
   id reads ILLEGAL_ID. *)
Data(r) == IF r = "cat" THEN Maps ELSE Values
Images == {"good", "torn", "erased"}
Record(r) == [st : {"good"}, id : 0..MaxId, data : Data(r)]
Spoilt(s) == [st |-> s]
PageOf(r) == Record(r) \cup {Spoilt("torn"), Spoilt("erased")}

StartScan(r, p) ==
  [region |-> r, start |-> p, pos |-> p, forward |-> FORWARD, found |-> FALSE]

TypeOK ==
  /\ DOMAIN flash = Regions
  /\ \A r \in Regions : flash[r] \in [Pages(r) -> PageOf(r)]
  /\ maps \in Maps
  /\ pc \in {"off", "scan", "restore", "save", "try", "booted", "run"}
  /\ \E r \in Regions :
       scan \in [region : {r}, start : Pages(r), pos : Pages(r),
                 forward : 0..FORWARD, found : BOOLEAN]
  /\ \E r \in Regions :
       wr \in [region : {r}, tries : 0..(MAX_RETRY_TIMES - 1),
               tmp : Images, data : Data(r)]
  /\ kept \subseteq Values \cup {NoBlock}

Init ==
  /\ flash = [r \in Regions |-> [p \in Pages(r) |-> Spoilt("erased")]]
  /\ maps = NoMaps
  /\ pc = "off"
  /\ scan = StartScan("cat", 0)
  /\ wr = [region |-> "cat", tries |-> 0, tmp |-> "good", data |-> NoMaps]
  /\ kept = {NoBlock}

-----------------------------------------------------------------------------
(***************************************************************************)
(* Boot: storage_distribute and flash_storage_init.                        *)
(***************************************************************************)
PowerUp ==
  /\ pc = "off"
  /\ maps' = NoMaps
  /\ scan' = StartScan("cat", 0)
  /\ pc' = "scan"
  /\ UNCHANGED <<flash, wr, kept>>

(* One page of scan_flash. *)
Page == flash[scan.region][scan.pos]
IsNewer == Page.st = "good" /\ Page.id > maps[scan.region].id
Found == scan.found \/ IsNewer

Forward ==
  IF IsNewer \/ Page.st = "torn" THEN scan.forward ELSE scan.forward - 1

(* Mutation: the scan ends with the region instead of going round. *)
ScanOverAtEnd == Next1(scan.region, scan.pos) = 0 \/ Forward = 0

ScanOver == Next1(scan.region, scan.pos) = scan.start \/ Forward = 0

ScanPage ==
  /\ pc = "scan"
  /\ maps' = IF IsNewer
             THEN [maps EXCEPT ![scan.region] =
                                 [page |-> scan.pos, id |-> Page.id]]
             ELSE maps
  /\ \/ /\ ~ScanOver
        /\ scan' = [scan EXCEPT !.pos = Next1(scan.region, scan.pos),
                                !.forward = Forward, !.found = Found]
        /\ pc' = pc
     \/ /\ ScanOver /\ scan.region = "cat" /\ Found
        /\ pc' = "restore"
        /\ scan' = scan
     \/ /\ ScanOver /\ scan.region = "cat" /\ ~Found
        /\ scan' = StartScan("par", maps.par.page)
        /\ pc' = pc
     \/ /\ ScanOver /\ scan.region = "par"
        /\ pc' = "save"
        /\ scan' = scan
  /\ UNCHANGED <<flash, wr, kept>>

(* The newest catalog record holds the maps as they were when it was
   written, its own place included.  The test that its region 3 ends where
   the build's does is left out: every record is written with the same
   layout.  Reads of a boot do not fail here. *)
Restore ==
  /\ pc = "restore"
  /\ maps' = flash["cat"][maps.cat.page].data
  /\ scan' = StartScan("par", maps'.par.page)
  /\ pc' = "scan"
  /\ UNCHANGED <<flash, wr, kept>>

-----------------------------------------------------------------------------
(***************************************************************************)
(* write_record: page and id move on before the first try.                 *)
(***************************************************************************)
(* Mutation: the page does not move on. *)
AdvanceInPlace(r) == [page |-> maps[r].page, id |-> maps[r].id + 1]

Advance(r) ==
  [page |-> IF maps[r].id = 0 THEN maps[r].page ELSE Next1(r, maps[r].page),
   id |-> maps[r].id + 1]

Begin(r, data) ==
  /\ maps[r].id < MaxId
  /\ maps' = [maps EXCEPT ![r] = Advance(r)]
  /\ wr' = [region |-> r, tries |-> 0, tmp |-> "good", data |-> data]
  /\ pc' = "try"
  /\ UNCHANGED <<flash, scan, kept>>

(* The last step of the boot.  The buffer is storage_maps itself, copied
   after the catalog's own page and id have moved on. *)
SaveMaps == pc = "save" /\ Begin("cat", [maps EXCEPT !["cat"] = Advance("cat")])

(* The flash thread takes a block from its mail box. *)
WriteBlock(v) == pc \in {"booted", "run"} /\ Begin("par", v)

Target == maps[wr.region].page
Written(img) ==
  IF img = "good"
  THEN [st |-> "good", id |-> maps[wr.region].id, data |-> wr.data]
  ELSE Spoilt(img)
Stored(img) == flash' = [flash EXCEPT ![wr.region][Target] = Written(img)]

Booted == IF wr.region = "cat" THEN "booted" ELSE "run"

(* A try that writes tmp and reads it back right. *)
Verified ==
  /\ pc = "try"
  /\ wr.tmp = "good"
  /\ Stored("good")
  /\ pc' = Booted
  /\ kept' = IF wr.region = "par" THEN {wr.data} ELSE kept
  /\ UNCHANGED <<maps, scan, wr>>

(* A try that does not: what was read back is in tmp, and is what the next
   try writes. *)
NotVerified(img, back) ==
  /\ pc = "try"
  /\ Stored(img)
  /\ \/ /\ wr.tries < MAX_RETRY_TIMES - 1
        /\ wr' = [wr EXCEPT !.tries = @ + 1, !.tmp = back]
        /\ pc' = pc
     \/ /\ wr.tries = MAX_RETRY_TIMES - 1
        /\ pc' = Booted
        /\ wr' = wr
  /\ UNCHANGED <<maps, scan, kept>>

(* The ring of region r seen by ids, g being its pages: the page p has the
   intact record k, some page has, and the ids from a to b that none has. *)
Carries(g, p, k) == g[p].st = "good" /\ g[p].id = k
Holds(g, k) == \E p \in DOMAIN g : Carries(g, p, k)
Holes(g, a, b) == {k \in a..b : k >= 1 /\ ~Holds(g, k)}

(* Of the ids whose pages the ring still has beside the one being written,
   fewer than MaxFaults are missing. *)
FaultPossible ==
  LET r == wr.region
      m == maps[r].id
  IN  Cardinality(Holes(flash[r], m - Size(r) + 1, m - 1)) < MaxFaults

PageFails(img) ==
  /\ wr.tmp = "good"
  /\ FaultPossible
  /\ NotVerified(img, img)

ReadFails ==
  /\ wr.tmp = "good"
  /\ FaultPossible
  /\ NotVerified("good", "torn")

RetrySpoilt ==
  /\ wr.tmp # "good"
  /\ NotVerified(wr.tmp, wr.tmp)

(* Power is lost: RAM is gone.  A page that was being written is left as it
   was, erased, torn, or done. *)
PowerLoss ==
  /\ pc # "off"
  /\ pc' = "off"
  /\ IF pc = "try"
     THEN /\ \/ UNCHANGED flash
             \/ \E img \in {wr.tmp, "torn", "erased"} : Stored(img)
          /\ kept' = IF wr.region = "par" THEN kept \cup {wr.data} ELSE kept
     ELSE UNCHANGED <<flash, kept>>
  /\ UNCHANGED <<maps, scan, wr>>

-----------------------------------------------------------------------------
Boot == PowerUp \/ ScanPage \/ Restore \/ SaveMaps
Try ==
  \/ Verified
  \/ \E img \in {"torn", "erased"} : PageFails(img)
  \/ ReadFails
  \/ RetrySpoilt

Next == Boot \/ (\E v \in Values : WriteBlock(v)) \/ Try \/ PowerLoss

Spec == Init /\ [][Next]_vars

-----------------------------------------------------------------------------
Good(p) == flash["par"][p].st = "good"

(* When the boot is over, storage_maps points at the newest record of the  *)
(* region, however long ago the catalog was written, wherever the ring     *)
(* has wrapped since and whatever a power loss left half written           *)
(* (flash_storage_at45dbxx.c 56-110 and 343-361).                          *)
RestartFindsNewest ==
  (pc = "booted" /\ \E p \in Pages("par") : Good(p)) =>
    /\ Good(maps.par.page)
    /\ flash["par"][maps.par.page].id = maps.par.id
    /\ \A p \in Pages("par") : Good(p) => flash["par"][p].id <= maps.par.id

(* flash_storage_read of record 0, as sys_par_read calls it at boot. *)
ReadNewest ==
  IF maps.par.id > 0 /\ Good(maps.par.page)
  THEN flash["par"][maps.par.page].data ELSE NoBlock

(* A block whose write was verified is what every boot reads back, until a *)
(* later one is verified or is being written when power is lost: neither a *)
(* failed write nor its retries nor a torn page brings an older block back *)
(* or leaves none (flash_storage_at45dbxx.c 139-190, logicApp.cc 603-622). *)
KeepsLastStored == pc = "booted" => ReadNewest \in kept
=============================================================================
