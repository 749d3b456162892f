---------------------------- MODULE FlashProofs ----------------------------
(***************************************************************************)
(* Theorems about FlashStorage, for rings of any size, a life of any       *)
(* number of boots, writes, faults and power losses.  In this order:       *)
(* type correctness, one intact record per id, the newest record found by  *)
(* every boot, and what was stored last read back by every boot.           *)
(*                                                                         *)
(* Typing is not inductive alone: Restore assigns to storage_maps whatever *)
(* the catalog page holds, so that page must hold a whole record, and      *)
(* scan_flash counts forward down to zero, so it must not take one page    *)
(* more after that.                                                        *)
(***************************************************************************)
EXTENDS FlashStorage, FiniteSetTheorems, TLAPS

(* The page a boot restores from, or would if the scan of the catalog ended
   here, passed its CRC. *)
RestoresGoodPage ==
  (pc = "restore" \/ (pc = "scan" /\ scan.region = "cat" /\ scan.found)) =>
    flash["cat"][maps.cat.page].st = "good"

(* A scan that is not over has pages left to go over. *)
ScanHasPages == pc = "scan" => scan.forward > 0

IInv == TypeOK /\ RestoresGoodPage /\ ScanHasPages

(* The conjuncts of TypeOK about the two local records. *)
ScanTyped(s) ==
  \E r \in Regions :
    s \in [region : {r}, start : Pages(r), pos : Pages(r),
           forward : 0..FORWARD, found : BOOLEAN]
WrTyped(w) ==
  \E r \in Regions :
    w \in [region : {r}, tries : 0..(MAX_RETRY_TIMES - 1),
           tmp : Images, data : Data(r)]

-----------------------------------------------------------------------------
LEMMA SizesNonZero ==
  ASSUME NEW r \in Regions
  PROVE  Size(r) \in Nat \ {0} /\ 0 \in Pages(r)
BY SizesAssumption, BoundsAssumption DEF Regions, Size, Pages

LEMMA NextPage ==
  ASSUME NEW r \in Regions, NEW p \in Pages(r)
  PROVE  Next1(r, p) \in Pages(r)
BY SizesNonZero DEF Next1, Pages

LEMMA StartScanTyped ==
  ASSUME NEW r \in Regions, NEW p \in Pages(r)
  PROVE  /\ ScanTyped(StartScan(r, p))
         /\ StartScan(r, p).forward > 0
         /\ StartScan(r, p).region = r
         /\ StartScan(r, p).found = FALSE
BY ScanAssumption, BoundsAssumption DEF StartScan, ScanTyped

LEMMA MapOfMaps ==
  ASSUME NEW m \in Maps, NEW r \in Regions
  PROVE  m[r] \in Map(r) /\ m[r].page \in Pages(r) /\ m[r].id \in 0..MaxId
BY DEF Maps, Map, Regions

LEMMA MapsExcept ==
  ASSUME NEW m \in Maps, NEW r \in Regions, NEW new \in Map(r)
  PROVE  [m EXCEPT ![r] = new] \in Maps
BY DEF Maps, Regions

(* A page that passed its CRC holds a whole record. *)
LEMMA GoodIsRecord ==
  ASSUME NEW r \in Regions, NEW page \in PageOf(r), page.st = "good"
  PROVE  page \in Record(r) /\ page.id \in 0..MaxId /\ page.data \in Data(r)
<1>1. page # Spoilt("torn") /\ page # Spoilt("erased")
  BY DEF Spoilt
<1> QED BY <1>1 DEF PageOf, Record

LEMMA AdvanceTyped ==
  ASSUME NEW r \in Regions, maps \in Maps, maps[r].id < MaxId
  PROVE  Advance(r) \in Map(r)
<1>1. maps[r].page \in Pages(r) /\ maps[r].id \in 0..MaxId
  BY MapOfMaps
<1>2. Next1(r, maps[r].page) \in Pages(r)
  BY <1>1, NextPage
<1>3. maps[r].id + 1 \in 0..MaxId
  BY <1>1, BoundsAssumption
<1> QED BY <1>1, <1>2, <1>3 DEF Advance, Map

-----------------------------------------------------------------------------
LEMMA InitIInv == Init => IInv
<1> SUFFICES ASSUME Init PROVE IInv
  OBVIOUS
<1> USE DEF Init
<1>1. DOMAIN flash = Regions
  OBVIOUS
<1>2. \A r \in Regions : flash[r] \in [Pages(r) -> PageOf(r)]
  BY DEF PageOf
<1>3. maps \in Maps
  BY SizesNonZero, BoundsAssumption DEF NoMaps, FirstMap, Maps, Map, Regions
<1>4. ScanTyped(scan)
  BY SizesNonZero, StartScanTyped DEF Regions
<1>5. WrTyped(wr)
  <2>1. NoMaps \in Data("cat")
    BY <1>3 DEF Data
  <2>2. wr \in [region : {"cat"}, tries : 0..(MAX_RETRY_TIMES - 1),
                tmp : Images, data : Data("cat")]
    BY <2>1, RetryAssumption DEF Images
  <2> QED BY <2>2 DEF WrTyped, Regions
<1>6. pc = "off" /\ kept \subseteq Values \cup {NoBlock}
  OBVIOUS
<1> QED BY <1>1, <1>2, <1>3, <1>4, <1>5, <1>6
        DEF IInv, TypeOK, RestoresGoodPage, ScanHasPages, ScanTyped, WrTyped

-----------------------------------------------------------------------------
(* A step that leaves the flash and the write alone: the boot. *)
LEMMA BootStep == IInv /\ Boot => IInv'
<1> SUFFICES ASSUME IInv, Boot PROVE IInv'
  OBVIOUS
<1>t. /\ DOMAIN flash = Regions
      /\ \A r \in Regions : flash[r] \in [Pages(r) -> PageOf(r)]
      /\ maps \in Maps /\ ScanTyped(scan) /\ WrTyped(wr)
      /\ pc \in {"off", "scan", "restore", "save", "try", "booted", "run"}
      /\ kept \subseteq Values \cup {NoBlock}
  BY DEF IInv, TypeOK, ScanTyped, WrTyped
<1>1. CASE PowerUp
  <2>1. NoMaps \in Maps
    BY SizesNonZero, BoundsAssumption
       DEF NoMaps, FirstMap, Maps, Map, Regions
  <2>2. ScanTyped(StartScan("cat", 0)) /\ StartScan("cat", 0).forward > 0
        /\ StartScan("cat", 0).found = FALSE
    BY SizesNonZero, StartScanTyped DEF Regions
  <2> QED BY <1>t, <1>1, <2>1, <2>2
          DEF PowerUp, IInv, TypeOK, ScanTyped, WrTyped,
              RestoresGoodPage, ScanHasPages
<1>2. CASE ScanPage
  <2>1. PICK r \in Regions :
          scan \in [region : {r}, start : Pages(r), pos : Pages(r),
                    forward : 0..FORWARD, found : BOOLEAN]
    BY <1>t DEF ScanTyped
  <2>2. Page \in PageOf(r) /\ scan.region = r
    BY <1>t, <2>1 DEF Page
  <2>3. IsNewer => [page |-> scan.pos, id |-> Page.id] \in Map(r)
    BY <2>1, <2>2, GoodIsRecord DEF IsNewer, Map
  <2>4. maps' \in Maps
    BY <1>t, <1>2, <2>2, <2>3, MapsExcept DEF ScanPage
  <2>5. Forward \in 0..FORWARD
    <3>1. pc = "scan" /\ scan.forward > 0
      BY <1>2 DEF ScanPage, IInv, ScanHasPages
    <3> QED BY <2>1, <3>1, ScanAssumption DEF Forward
  <2>6. Found \in BOOLEAN
    BY <2>1 DEF Found, IsNewer
  <2>7. scan.region = "cat" /\ Found => flash["cat"][maps'.cat.page].st = "good"
    <3> SUFFICES ASSUME scan.region = "cat", Found
                 PROVE  flash["cat"][maps'.cat.page].st = "good"
      OBVIOUS
    <3>1. CASE IsNewer
      <4>1. maps'.cat.page = scan.pos
        BY <1>t, <1>2, <3>1 DEF ScanPage, Maps
      <4> QED BY <3>1, <4>1 DEF IsNewer, Page
    <3>2. CASE ~IsNewer
      BY <1>2, <3>2 DEF ScanPage, Found, IInv, RestoresGoodPage
    <3> QED BY <3>1, <3>2
  <2>8. CASE /\ ~ScanOver
             /\ scan' = [scan EXCEPT !.pos = Next1(scan.region, scan.pos),
                                     !.forward = Forward, !.found = Found]
             /\ pc' = pc
    <3>1. Next1(scan.region, scan.pos) \in Pages(r)
      BY <2>1, <2>2, NextPage
    <3>2. scan' \in [region : {r}, start : Pages(r), pos : Pages(r),
                     forward : 0..FORWARD, found : BOOLEAN]
      BY <2>1, <2>5, <2>6, <2>8, <3>1
    <3>3. scan'.forward > 0 /\ scan'.found = Found /\ scan'.region = scan.region
      BY <2>1, <2>5, <2>8, ScanAssumption DEF ScanOver
    <3>4. ScanTyped(scan')
      BY <3>2 DEF ScanTyped
    <3> QED BY <1>t, <1>2, <2>4, <2>7, <2>8, <3>3, <3>4
            DEF ScanPage, IInv, TypeOK, ScanTyped, WrTyped,
                RestoresGoodPage, ScanHasPages
  <2>9. CASE ScanOver /\ scan.region = "cat" /\ Found /\ pc' = "restore" /\ scan' = scan
    BY <1>t, <1>2, <2>4, <2>7, <2>9
       DEF ScanPage, IInv, TypeOK, ScanTyped, WrTyped,
           RestoresGoodPage, ScanHasPages
  <2>10. CASE /\ ScanOver /\ scan.region = "cat" /\ ~Found
              /\ scan' = StartScan("par", maps.par.page) /\ pc' = pc
    <3>1. /\ ScanTyped(scan') /\ scan'.forward > 0
          /\ scan'.found = FALSE
      BY <1>t, <2>10, MapOfMaps, StartScanTyped DEF Regions
    <3> QED BY <1>t, <1>2, <2>4, <2>10, <3>1
            DEF ScanPage, IInv, TypeOK, ScanTyped, WrTyped,
                RestoresGoodPage, ScanHasPages
  <2>11. CASE ScanOver /\ scan.region = "par" /\ pc' = "save" /\ scan' = scan
    BY <1>t, <1>2, <2>4, <2>11
       DEF ScanPage, IInv, TypeOK, ScanTyped, WrTyped,
           RestoresGoodPage, ScanHasPages
  <2> QED BY <1>2, <2>8, <2>9, <2>10, <2>11 DEF ScanPage
<1>3. CASE Restore
  <2>1. maps.cat.page \in Pages("cat")
    BY <1>t, MapOfMaps DEF Regions, Maps
  <2>2. flash["cat"][maps.cat.page] \in PageOf("cat")
    BY <1>t, <2>1 DEF Regions
  <2>3. flash["cat"][maps.cat.page].st = "good"
    BY <1>3 DEF Restore, IInv, RestoresGoodPage
  <2>4. maps' \in Maps
    BY <1>3, <2>2, <2>3, GoodIsRecord DEF Restore, Data, Regions
  <2>5. maps'.par.page \in Pages("par")
    BY <2>4, MapOfMaps DEF Regions, Maps
  <2>6. /\ ScanTyped(scan') /\ scan'.forward > 0
        /\ scan'.found = FALSE
    BY <1>3, <2>5, StartScanTyped DEF Restore, Regions
  <2> QED BY <1>t, <1>3, <2>4, <2>6
          DEF Restore, IInv, TypeOK, ScanTyped, WrTyped,
              RestoresGoodPage, ScanHasPages
<1>4. CASE SaveMaps
  <2>1. "cat" \in Regions /\ maps["cat"].id < MaxId
    BY <1>4 DEF SaveMaps, Begin, Regions
  <2>2. [maps EXCEPT !["cat"] = Advance("cat")] \in Maps
    BY <1>t, <2>1, AdvanceTyped, MapsExcept
  <2>3. WrTyped(wr') /\ maps' \in Maps
    BY <1>4, <2>1, <2>2, RetryAssumption
       DEF SaveMaps, Begin, WrTyped, Data, Images
  <2> QED BY <1>t, <1>4, <2>3
          DEF SaveMaps, Begin, IInv, TypeOK, ScanTyped, WrTyped,
              RestoresGoodPage, ScanHasPages
<1> QED BY <1>1, <1>2, <1>3, <1>4 DEF Boot

-----------------------------------------------------------------------------
(* What a try leaves in the page it writes is a page of that region. *)
LEMMA StoredTyped ==
  ASSUME IInv, NEW img \in Images, Stored(img)
  PROVE  /\ DOMAIN flash' = Regions
         /\ \A r \in Regions : flash'[r] \in [Pages(r) -> PageOf(r)]
<1>1. PICK r \in Regions :
        wr \in [region : {r}, tries : 0..(MAX_RETRY_TIMES - 1),
                tmp : Images, data : Data(r)]
  BY DEF IInv, TypeOK
<1>2. maps[r].page \in Pages(r) /\ maps[r].id \in 0..MaxId
  BY MapOfMaps DEF IInv, TypeOK
<1>3. Written(img) \in PageOf(r)
  <2>1. CASE img = "good"
    BY <1>1, <1>2, <2>1 DEF Written, PageOf, Record
  <2>2. CASE img # "good"
    BY <2>2 DEF Written, Images, PageOf
  <2> QED BY <2>1, <2>2
<1>4. flash' = [flash EXCEPT ![r] = [flash[r] EXCEPT ![maps[r].page] = Written(img)]]
  BY <1>1 DEF Stored, Target
<1>5. [flash[r] EXCEPT ![maps[r].page] = Written(img)] \in [Pages(r) -> PageOf(r)]
  BY <1>2, <1>3 DEF IInv, TypeOK
<1> QED BY <1>4, <1>5 DEF IInv, TypeOK

LEMMA TryStep == IInv /\ Try => IInv'
<1> SUFFICES ASSUME IInv, Try PROVE IInv'
  OBVIOUS
<1>t. /\ maps \in Maps /\ ScanTyped(scan) /\ WrTyped(wr)
      /\ kept \subseteq Values \cup {NoBlock}
  BY DEF IInv, TypeOK, ScanTyped, WrTyped
<1>w. PICK r \in Regions :
        wr \in [region : {r}, tries : 0..(MAX_RETRY_TIMES - 1),
                tmp : Images, data : Data(r)]
  BY <1>t DEF WrTyped
<1>b. Booted \in {"booted", "run"}
  BY DEF Booted
<1>1. CASE Verified
  <2>1. /\ DOMAIN flash' = Regions
        /\ \A q \in Regions : flash'[q] \in [Pages(q) -> PageOf(q)]
    BY <1>1, StoredTyped DEF Verified, Images
  <2>2. kept' \subseteq Values \cup {NoBlock}
    BY <1>t, <1>w, <1>1 DEF Verified, Data
  <2> QED BY <1>t, <1>b, <1>1, <2>1, <2>2
          DEF Verified, IInv, TypeOK, ScanTyped, WrTyped,
              RestoresGoodPage, ScanHasPages
<1>2. ASSUME NEW img \in Images, NEW back \in Images,
             NotVerified(img, back)
      PROVE  IInv'
  <2>1. /\ DOMAIN flash' = Regions
        /\ \A q \in Regions : flash'[q] \in [Pages(q) -> PageOf(q)]
    BY <1>2, StoredTyped DEF NotVerified
  <2>2. WrTyped(wr')
    <3>1. CASE /\ wr.tries < MAX_RETRY_TIMES - 1
               /\ wr' = [wr EXCEPT !.tries = @ + 1, !.tmp = back]
      <4>1. wr.tries + 1 \in 0..(MAX_RETRY_TIMES - 1)
        BY <1>w, <3>1, RetryAssumption
      <4>2. wr' \in [region : {r}, tries : 0..(MAX_RETRY_TIMES - 1),
                     tmp : Images, data : Data(r)]
        BY <1>w, <1>2, <3>1, <4>1
      <4> QED BY <4>2 DEF WrTyped
    <3>2. CASE wr' = wr
      BY <1>w, <3>2 DEF WrTyped
    <3> QED BY <1>2, <3>1, <3>2 DEF NotVerified
  <2> QED BY <1>t, <1>b, <1>2, <2>1, <2>2
          DEF NotVerified, IInv, TypeOK, ScanTyped, WrTyped,
              RestoresGoodPage, ScanHasPages
<1>3. ASSUME NEW img \in {"torn", "erased"}, PageFails(img)
      PROVE  IInv'
  BY <1>2, <1>3 DEF PageFails, Images
<1>4. CASE ReadFails
  BY <1>2, <1>4 DEF ReadFails, Images
<1>5. CASE RetrySpoilt
  BY <1>t, <1>w, <1>2, <1>5 DEF RetrySpoilt
<1> QED BY <1>1, <1>3, <1>4, <1>5 DEF Try

LEMMA WriteBlockStep ==
  ASSUME IInv, NEW v \in Values, WriteBlock(v)
  PROVE  IInv'
<1>1. "par" \in Regions /\ maps["par"].id < MaxId /\ maps \in Maps
  BY DEF WriteBlock, Begin, Regions, IInv, TypeOK
<1>2. maps' \in Maps
  BY <1>1, AdvanceTyped, MapsExcept DEF WriteBlock, Begin
<1>3. WrTyped(wr')
  BY <1>1, RetryAssumption DEF WriteBlock, Begin, WrTyped, Data, Images
<1> QED BY <1>2, <1>3
        DEF WriteBlock, Begin, IInv, TypeOK, WrTyped,
            RestoresGoodPage, ScanHasPages

LEMMA PowerLossStep == IInv /\ PowerLoss => IInv'
<1> SUFFICES ASSUME IInv, PowerLoss PROVE IInv'
  OBVIOUS
<1>1. PICK r \in Regions :
        wr \in [region : {r}, tries : 0..(MAX_RETRY_TIMES - 1),
                tmp : Images, data : Data(r)]
  BY DEF IInv, TypeOK
<1>2. /\ DOMAIN flash' = Regions
      /\ \A q \in Regions : flash'[q] \in [Pages(q) -> PageOf(q)]
  <2>1. CASE UNCHANGED flash
    BY <2>1 DEF IInv, TypeOK
  <2>2. ASSUME NEW img \in {wr.tmp, "torn", "erased"}, Stored(img)
        PROVE  <1>2!1 /\ <1>2!2
    BY <1>1, <2>2, StoredTyped DEF Images
  <2> QED BY <2>1, <2>2 DEF PowerLoss
<1>3. kept' \subseteq Values \cup {NoBlock}
  BY <1>1 DEF PowerLoss, IInv, TypeOK, Data
<1> QED BY <1>2, <1>3
        DEF PowerLoss, IInv, TypeOK, RestoresGoodPage, ScanHasPages

-----------------------------------------------------------------------------
LEMMA StepIInv == IInv /\ [Next]_vars => IInv'
<1> SUFFICES ASSUME IInv, [Next]_vars PROVE IInv'
  OBVIOUS
<1>1. CASE Next
  BY <1>1, BootStep, TryStep, WriteBlockStep, PowerLossStep DEF Next
<1>2. CASE UNCHANGED vars
  BY <1>2 DEF vars, IInv, TypeOK, RestoresGoodPage, ScanHasPages
<1> QED BY <1>1, <1>2

(* Every state is well typed: page, id and forward never leave their ranges *)
(* whatever was torn when power was lost.                                   *)
THEOREM FlashTyping == Spec => []TypeOK
<1>1. IInv => TypeOK
  BY DEF IInv
<1> QED BY InitIInv, StepIInv, <1>1, PTL DEF Spec

(* A boot never takes storage_maps from a catalog page whose CRC is wrong.  *)
THEOREM FlashRestoresGood == Spec => []RestoresGoodPage
<1>1. IInv => RestoresGoodPage
  BY DEF IInv
<1> QED BY InitIInv, StepIInv, <1>1, PTL DEF Spec

-----------------------------------------------------------------------------
(***************************************************************************)
(* Where a record is follows from its id: the ring is filled page after    *)
(* page, and a boot that goes back to an older newest record, or to maps   *)
(* a catalog page remembers, goes back in page and id together.            *)
(***************************************************************************)
AtId(r, p, id) ==
  IF id = 0 THEN p = 0 ELSE \E k \in Nat : id = p + 1 + k * Size(r)

MapsPlaced(m) == \A r \in Regions : AtId(r, m[r].page, m[r].id)

RecordPlaced(r, p) ==
  flash[r][p].st = "good" => flash[r][p].id > 0 /\ AtId(r, p, flash[r][p].id)

PlacedInv ==
  /\ MapsPlaced(maps)
  /\ \A r \in Regions : \A p \in Pages(r) : RecordPlaced(r, p)
  /\ \A p \in Pages("cat") :
       flash["cat"][p].st = "good" => MapsPlaced(flash["cat"][p].data)
  /\ wr.region = "cat" => MapsPlaced(wr.data)
  /\ pc = "try" => maps[wr.region].id > 0

(* No two intact records of a region have the same id: "the newest" is one  *)
(* record, and a scan may compare ids alone (flash_storage_at45dbxx.c       *)
(* 83-86), whatever was torn, retried or written over.                      *)
OneRecordPerId ==
  \A r \in Regions : \A p, q \in Pages(r) :
    (/\ flash[r][p].st = "good"
     /\ flash[r][q].st = "good"
     /\ flash[r][p].id = flash[r][q].id) => p = q

LEMMA TimesNext ==
  ASSUME NEW n \in Nat, NEW k \in Nat
  PROVE  (k + 1) * n = k * n + n /\ k * n \in Nat
OBVIOUS

LEMMA TurnGrows ==
  ASSUME NEW n \in Nat, NEW a \in Nat, NEW b \in Nat, a < b
  PROVE  b * n >= a * n + n
<1>1. PICK d \in Nat : b = a + 1 + d
  <2>1. b - a - 1 \in Nat /\ b = a + 1 + (b - a - 1)
    OBVIOUS
  <2> QED BY <2>1
<1>2. b * n = a * n + n + d * n
  BY <1>1
<1>3. d * n \in Nat /\ a * n \in Nat /\ b * n \in Nat
  BY TimesNext
<1> QED BY <1>2, <1>3

(* A page is that of one turn of the ring only. *)
LEMMA OneTurn ==
  ASSUME NEW n \in Nat \ {0}, NEW p \in 0..(n - 1), NEW q \in 0..(n - 1),
         NEW j \in Nat, NEW k \in Nat, p + 1 + k * n = q + 1 + j * n
  PROVE  p = q
<1>2. k * n \in Nat /\ j * n \in Nat
  BY TimesNext
<1>3. ~(k < j)
  <2>1. SUFFICES ASSUME k < j PROVE FALSE
    OBVIOUS
  <2>2. j * n >= k * n + n
    BY <2>1, TurnGrows
  <2> QED BY <1>2, <2>2
<1>4. ~(j < k)
  <2>1. SUFFICES ASSUME j < k PROVE FALSE
    OBVIOUS
  <2>2. k * n >= j * n + n
    BY <2>1, TurnGrows
  <2> QED BY <1>2, <2>2
<1>5. j = k
  BY <1>3, <1>4
<1> QED BY <1>2, <1>5

(* Two ids of one page are whole turns of the ring apart. *)
LEMMA TurnBelow ==
  ASSUME NEW r \in Regions, NEW p \in Pages(r), NEW j \in Nat \ {0}, NEW k \in Nat,
         AtId(r, p, j), AtId(r, p, k), j < k
  PROVE  j <= k - Size(r)
<1>1. Size(r) \in Nat \ {0} /\ p \in Nat
  BY SizesNonZero DEF Pages
<1>2. PICK a \in Nat : j = p + 1 + a * Size(r)
  BY DEF AtId
<1>3. PICK b \in Nat : k = p + 1 + b * Size(r)
  BY DEF AtId
<1>4. a * Size(r) \in Nat /\ b * Size(r) \in Nat
  BY <1>1, TimesNext
<1>5. CASE a < b
  <2>1. b * Size(r) >= a * Size(r) + Size(r)
    BY <1>1, <1>5, TurnGrows
  <2> QED BY <1>1, <1>2, <1>3, <1>4, <2>1
<1>6. CASE ~(a < b)
  <2>1. b = a \/ b < a
    BY <1>6
  <2>2. b * Size(r) <= a * Size(r)
    BY <1>1, <1>4, <2>1, TurnGrows
  <2> QED BY <1>1, <1>2, <1>3, <1>4, <2>2
<1> QED BY <1>5, <1>6

(* An id has one page. *)
LEMMA SamePage ==
  ASSUME NEW r \in Regions, NEW p \in Pages(r), NEW q \in Pages(r),
         NEW k \in Nat \ {0}, AtId(r, p, k), AtId(r, q, k)
  PROVE  p = q
<1>1. Size(r) \in Nat \ {0} /\ p \in 0..(Size(r) - 1) /\ q \in 0..(Size(r) - 1)
  BY SizesNonZero DEF Pages
<1>2. PICK a \in Nat : k = p + 1 + a * Size(r)
  BY DEF AtId
<1>3. PICK b \in Nat : k = q + 1 + b * Size(r)
  BY DEF AtId
<1>4. p + 1 + a * Size(r) = q + 1 + b * Size(r)
  BY <1>2, <1>3
<1> QED BY <1>1, <1>4, OneTurn

(* The page after it has the next id. *)
LEMMA NextAt ==
  ASSUME NEW r \in Regions, NEW p \in Pages(r), NEW k \in Nat \ {0}, AtId(r, p, k)
  PROVE  AtId(r, Next1(r, p), k + 1)
<1> DEFINE n == Size(r)
<1>1. n \in Nat \ {0} /\ p \in 0..(n - 1)
  BY SizesNonZero DEF Pages
<1>2. PICK a \in Nat : k = p + 1 + a * n
  BY DEF AtId
<1>3. a * n \in Nat /\ (a + 1) * n = a * n + n
  BY <1>1, TimesNext
<1>4. CASE p + 1 = n
  <2>1. k + 1 = 0 + 1 + (a + 1) * n /\ a + 1 \in Nat
    BY <1>1, <1>2, <1>3, <1>4
  <2>2. Next1(r, p) = 0
    BY <1>4 DEF Next1
  <2> QED BY <2>1, <2>2 DEF AtId
<1>5. CASE p + 1 # n
  <2>1. k + 1 = (p + 1) + 1 + a * n
    BY <1>1, <1>2, <1>3
  <2>2. Next1(r, p) = p + 1
    BY <1>5 DEF Next1
  <2> QED BY <2>1, <2>2 DEF AtId
<1> QED BY <1>4, <1>5

(* The last id up to M that a page holds or should hold. *)
LEMMA LastAt ==
  ASSUME NEW r \in Regions, NEW p \in Pages(r),
         NEW c \in Nat \ {0}, NEW M \in Nat, c <= M, AtId(r, p, c)
  PROVE  \E f \in c..M : AtId(r, p, f) /\ M - f < Size(r)
<1> DEFINE n == Size(r)
           d == (M - c) \div n
<1>1. n \in Nat \ {0} /\ p \in 0..(n - 1)
  BY SizesNonZero DEF Pages
<1>2. PICK a \in Nat : c = p + 1 + a * n
  BY DEF AtId
<1>3. d \in Nat /\ d * n <= M - c /\ M - c < d * n + n
  BY <1>1
<1>4. d * n \in Nat /\ a * n \in Nat /\ (a + d) * n = a * n + d * n
  BY <1>1, <1>3, TimesNext
<1>5. PICK f \in Nat : f = c + d * n
  BY <1>4
<1>6. f \in c..M /\ M - f < n /\ f # 0
  BY <1>1, <1>3, <1>4, <1>5
<1>7. f = p + 1 + (a + d) * n /\ a + d \in Nat
  BY <1>1, <1>2, <1>3, <1>4, <1>5
<1>8. AtId(r, p, f)
  BY <1>6, <1>7 DEF AtId
<1> QED BY <1>6, <1>8

LEMMA PlacedUnique == TypeOK /\ PlacedInv => OneRecordPerId
<1> SUFFICES ASSUME TypeOK, PlacedInv, NEW r \in Regions,
                    NEW p \in Pages(r), NEW q \in Pages(r),
                    flash[r][p].st = "good", flash[r][q].st = "good",
                    flash[r][p].id = flash[r][q].id
             PROVE  p = q
  BY DEF OneRecordPerId
<1>1. flash[r][p].id \in 0..MaxId
  BY GoodIsRecord DEF TypeOK
<1>2. flash[r][p].id \in Nat \ {0} /\ AtId(r, p, flash[r][p].id)
  BY <1>1, BoundsAssumption DEF PlacedInv, RecordPlaced
<1>3. AtId(r, q, flash[r][p].id)
  BY DEF PlacedInv, RecordPlaced
<1> QED BY <1>2, <1>3, SamePage

(* Moving on by a page and an id keeps them together. *)
LEMMA AdvancePlaced ==
  ASSUME NEW r \in Regions, maps \in Maps, MapsPlaced(maps)
  PROVE  /\ AtId(r, Advance(r).page, Advance(r).id)
         /\ Advance(r).id > 0
<1> DEFINE n == Size(r)
           p == maps[r].page
           id == maps[r].id
<1>1. n \in Nat \ {0} /\ p \in 0..(n - 1) /\ id \in 0..MaxId
  BY SizesNonZero, MapOfMaps DEF Pages
<1>2. Advance(r).id = id + 1 /\ id \in Nat
  BY <1>1, BoundsAssumption DEF Advance
<1>3. AtId(r, p, id)
  BY DEF MapsPlaced
<1>4. CASE id = 0
  <2>1. p = 0 /\ Advance(r).page = 0
    BY <1>3, <1>4 DEF AtId, Advance
  <2>2. 0 * n = 0
    BY <1>1
  <2>3. id + 1 = 0 + 1 + 0 * n
    BY <1>4, <2>2
  <2> QED BY <1>2, <2>1, <2>3 DEF AtId
<1>5. CASE id # 0
  <2>1. id \in Nat \ {0} /\ p \in Pages(r) /\ Advance(r).page = Next1(r, p)
    BY <1>1, <1>2, <1>5 DEF Advance, Pages
  <2> QED BY <1>2, <1>3, <2>1, NextAt
<1> QED BY <1>4, <1>5

-----------------------------------------------------------------------------
LEMMA InitPlaced == Init => PlacedInv
<1> SUFFICES ASSUME Init PROVE PlacedInv
  OBVIOUS
<1>1. MapsPlaced(NoMaps)
  BY DEF MapsPlaced, NoMaps, FirstMap, AtId, Regions
<1>2. \A r \in Regions : \A p \in Pages(r) : flash[r][p].st # "good"
  BY DEF Init, Spoilt
<1> QED BY <1>1, <1>2 DEF Init, PlacedInv, RecordPlaced, Regions

LEMMA BootPlaced == IInv /\ PlacedInv /\ Boot => PlacedInv'
<1> SUFFICES ASSUME IInv, PlacedInv, Boot PROVE PlacedInv'
  OBVIOUS
<1>t. TypeOK
  BY DEF IInv
<1>1. CASE PowerUp
  <2>1. MapsPlaced(NoMaps)
    BY DEF MapsPlaced, NoMaps, FirstMap, AtId, Regions
  <2> QED BY <1>1, <2>1
          DEF PowerUp, PlacedInv, RecordPlaced, MapsPlaced
<1>2. CASE ScanPage
  <2>1. PICK r \in Regions : scan.region = r /\ scan.pos \in Pages(r)
    BY <1>t DEF TypeOK
  <2>2. MapsPlaced(maps')
    <3>1. CASE IsNewer
      <4>1. AtId(r, scan.pos, Page.id)
        BY <2>1, <3>1 DEF IsNewer, Page, PlacedInv, RecordPlaced
      <4>2. maps' = [maps EXCEPT ![r] = [page |-> scan.pos, id |-> Page.id]]
        BY <1>2, <2>1, <3>1 DEF ScanPage
      <4> QED BY <1>t, <4>1, <4>2 DEF MapsPlaced, PlacedInv, TypeOK, Maps, Regions
    <3>2. CASE ~IsNewer
      BY <1>2, <3>2 DEF ScanPage, PlacedInv
    <3> QED BY <3>1, <3>2
  <2>3. pc' # "try" /\ UNCHANGED <<flash, wr>>
    BY <1>2 DEF ScanPage
  <2> QED BY <2>2, <2>3 DEF PlacedInv, RecordPlaced, MapsPlaced
<1>3. CASE Restore
  <2>1. maps.cat.page \in Pages("cat")
    BY <1>t, MapOfMaps DEF TypeOK, Regions, Maps
  <2>2. flash["cat"][maps.cat.page].st = "good"
    BY <1>3 DEF Restore, IInv, RestoresGoodPage
  <2>3. MapsPlaced(maps')
    BY <1>3, <2>1, <2>2 DEF Restore, PlacedInv
  <2> QED BY <1>3, <2>3 DEF Restore, PlacedInv, RecordPlaced, MapsPlaced
<1>4. CASE SaveMaps
  <2>1. "cat" \in Regions /\ maps \in Maps
    BY <1>t DEF Regions, TypeOK
  <2>2. /\ AtId("cat", Advance("cat").page, Advance("cat").id)
        /\ Advance("cat").id > 0
    BY <2>1, AdvancePlaced DEF PlacedInv
  <2>3. maps' = [maps EXCEPT !["cat"] = Advance("cat")] /\ wr'.data = maps'
        /\ wr'.region = "cat" /\ UNCHANGED flash
    BY <1>4 DEF SaveMaps, Begin
  <2>4. MapsPlaced(maps') /\ maps'["cat"].id > 0
    BY <2>1, <2>2, <2>3 DEF MapsPlaced, PlacedInv, Maps, Regions
  <2> QED BY <2>3, <2>4 DEF PlacedInv, RecordPlaced, MapsPlaced
<1> QED BY <1>1, <1>2, <1>3, <1>4 DEF Boot

(* A try stores a record at the page its id says, or none. *)
LEMMA StoredPlaced ==
  ASSUME IInv, PlacedInv, pc = "try", NEW img \in Images, Stored(img)
  PROVE  /\ \A r \in Regions : \A p \in Pages(r) : RecordPlaced(r, p)'
         /\ \A p \in Pages("cat") :
              flash'["cat"][p].st = "good" => MapsPlaced(flash'["cat"][p].data)
<1>t. TypeOK
  BY DEF IInv
<1>1. PICK w \in Regions : wr.region = w
  BY <1>t DEF TypeOK
<1>2. maps[w].page \in Pages(w) /\ AtId(w, maps[w].page, maps[w].id) /\ maps[w].id > 0
  BY <1>t, <1>1, MapOfMaps DEF TypeOK, PlacedInv, MapsPlaced
<1>3. flash' = [flash EXCEPT ![w] = [flash[w] EXCEPT ![maps[w].page] = Written(img)]]
  BY <1>1 DEF Stored, Target
<1>4. Written(img).st = "good" =>
        Written(img) = [st |-> "good", id |-> maps[w].id, data |-> wr.data]
  BY <1>1 DEF Written, Spoilt, Images
<1>5. flash'[w][maps[w].page] = Written(img)
  BY <1>t, <1>2, <1>3 DEF TypeOK
<1>6. \A r \in Regions : \A p \in Pages(r) :
        r # w \/ p # maps[w].page => flash'[r][p] = flash[r][p]
  BY <1>t, <1>3 DEF TypeOK
<1>7. ASSUME NEW r \in Regions, NEW p \in Pages(r)
      PROVE  RecordPlaced(r, p)'
  <2>1. CASE r = w /\ p = maps[w].page
    BY <1>2, <1>4, <1>5, <2>1 DEF RecordPlaced
  <2>2. CASE r # w \/ p # maps[w].page
    BY <1>6, <2>2 DEF RecordPlaced, PlacedInv
  <2> QED BY <2>1, <2>2
<1>8. ASSUME NEW p \in Pages("cat"), flash'["cat"][p].st = "good"
      PROVE  MapsPlaced(flash'["cat"][p].data)
  <2>1. CASE w = "cat" /\ p = maps[w].page
    BY <1>1, <1>4, <1>5, <1>8, <2>1 DEF PlacedInv
  <2>2. CASE w # "cat" \/ p # maps[w].page
    <3>1. flash'["cat"][p] = flash["cat"][p]
      BY <1>6, <2>2 DEF Regions
    <3> QED BY <1>8, <3>1 DEF PlacedInv
  <2> QED BY <2>1, <2>2
<1> QED BY <1>7, <1>8

LEMMA TryPlaced == IInv /\ PlacedInv /\ Try => PlacedInv'
<1> SUFFICES ASSUME IInv, PlacedInv, Try PROVE PlacedInv'
  OBVIOUS
<1>w. wr.tmp \in Images
  BY DEF IInv, TypeOK
<1>1. CASE Verified
  BY <1>1, StoredPlaced DEF Verified, Images, PlacedInv, MapsPlaced
<1>2. ASSUME NEW img \in Images, NEW back \in Images, NotVerified(img, back)
      PROVE  PlacedInv'
  <2>1. wr'.region = wr.region /\ wr'.data = wr.data /\ UNCHANGED maps
    BY <1>2 DEF NotVerified, IInv, TypeOK
  <2>2. pc = "try"
    BY <1>2 DEF NotVerified
  <2> QED BY <1>2, <2>1, <2>2, StoredPlaced
          DEF NotVerified, PlacedInv, MapsPlaced
<1>3. ASSUME NEW img \in {"torn", "erased"}, PageFails(img)
      PROVE  PlacedInv'
  BY <1>2, <1>3 DEF PageFails, Images
<1>4. CASE ReadFails
  BY <1>2, <1>4 DEF ReadFails, Images
<1>5. CASE RetrySpoilt
  BY <1>w, <1>2, <1>5 DEF RetrySpoilt
<1> QED BY <1>1, <1>3, <1>4, <1>5 DEF Try

LEMMA WriteBlockPlaced ==
  ASSUME IInv, PlacedInv, NEW v \in Values, WriteBlock(v)
  PROVE  PlacedInv'
<1>1. "par" \in Regions /\ maps \in Maps
  BY DEF Regions, IInv, TypeOK
<1>2. /\ AtId("par", Advance("par").page, Advance("par").id)
      /\ Advance("par").id > 0
  BY <1>1, AdvancePlaced DEF PlacedInv
<1>3. /\ maps' = [maps EXCEPT !["par"] = Advance("par")]
      /\ wr'.region = "par" /\ UNCHANGED flash
  BY DEF WriteBlock, Begin
<1>4. MapsPlaced(maps') /\ maps'["par"].id > 0
  BY <1>1, <1>2, <1>3 DEF MapsPlaced, PlacedInv, Maps, Regions
<1> QED BY <1>3, <1>4 DEF PlacedInv, RecordPlaced, MapsPlaced

LEMMA PowerLossPlaced == IInv /\ PlacedInv /\ PowerLoss => PlacedInv'
<1> SUFFICES ASSUME IInv, PlacedInv, PowerLoss PROVE PlacedInv'
  OBVIOUS
<1>1. pc' # "try" /\ UNCHANGED <<maps, wr>>
  BY DEF PowerLoss
<1>2. CASE UNCHANGED flash
  BY <1>1, <1>2 DEF PlacedInv, RecordPlaced, MapsPlaced
<1>3. ASSUME pc = "try", NEW img \in {wr.tmp, "torn", "erased"}, Stored(img)
      PROVE  PlacedInv'
  <2>1. img \in Images
    BY <1>3 DEF IInv, TypeOK, Images
  <2> QED BY <1>1, <1>3, <2>1, StoredPlaced DEF PlacedInv, MapsPlaced
<1> QED BY <1>2, <1>3 DEF PowerLoss

LEMMA StepPlaced == IInv /\ PlacedInv /\ [Next]_vars => PlacedInv'
<1> SUFFICES ASSUME IInv, PlacedInv, [Next]_vars PROVE PlacedInv'
  OBVIOUS
<1>1. CASE Next
  BY <1>1, BootPlaced, TryPlaced, WriteBlockPlaced, PowerLossPlaced DEF Next
<1>2. CASE UNCHANGED vars
  BY <1>2 DEF vars, PlacedInv, RecordPlaced, MapsPlaced
<1> QED BY <1>1, <1>2

(* An id names one intact record of a region: see OneRecordPerId. *)
THEOREM FlashOneRecordPerId == Spec => []OneRecordPerId
<1>1. IInv => TypeOK
  BY DEF IInv
<1> QED BY InitIInv, StepIInv, InitPlaced, StepPlaced, PlacedUnique, <1>1, PTL
        DEF Spec

-----------------------------------------------------------------------------
(***************************************************************************)
(* The ring seen by ids.  Newest: M is the largest id up to b that is      *)
(* held, 0 if there is none.                                               *)
(***************************************************************************)
Newest(g, b, M) ==
  /\ M \in 0..b
  /\ M # 0 => Holds(g, M)
  /\ \A k \in 1..b : Holds(g, k) => k <= M

FewHoles(g, a, b, n) == Cardinality(Holes(g, a, b)) <= n

NoneAbove(g, m) == \A k \in 1..MaxId : Holds(g, k) => k <= m

(* At most MaxFaults ids are missing among the newest ones.  The oldest of
   the ring is left out: the next write may have spoilt its page. *)
Settled(r, g) ==
  \E M \in 0..MaxId : /\ Newest(g, MaxId, M)
                      /\ FewHoles(g, M - Size(r) + 2, M, MaxFaults)

Writing(r) == pc = "try" /\ wr.region = r

RegionInv == \A r \in Regions : ~Writing(r) => Settled(r, flash[r])

(* While the record m is written, the ids before it.  With a spoilt buffer m
   itself will be missing, so that there is room for it among them. *)
Paid == IF wr.tmp = "good" THEN MaxFaults ELSE MaxFaults - 1

BeingWritten(r, m) ==
  /\ NoneAbove(flash[r], m)
  /\ \E M \in 0..MaxId : Newest(flash[r], m - 1, M)
  /\ FewHoles(flash[r], m - Size(r) + 1, m - 1, Paid)
  /\ wr.tmp = "good" => wr.tries = 0
  /\ r = "cat" => wr.data = maps
  /\ \A p \in Pages(r) : Carries(flash[r], p, m) => flash[r][p].data = wr.data

WriteInv == \A r \in Regions : Writing(r) => BeingWritten(r, maps[r].id)

(* Between two writes of blocks ids may have been given to failed writes. *)
RunInv ==
  pc = "run" =>
    /\ NoneAbove(flash["par"], maps["par"].id)
    /\ FewHoles(flash["par"], maps["par"].id - NPar + 2, maps["par"].id, MaxFaults)

(* What the scans have found. *)
CatFound ==
  pc \in {"restore", "save"} \/ (pc = "scan" /\ scan.region = "par")
ParFound == pc \in {"save", "booted"} \/ Writing("cat")

BootInv ==
  /\ (pc = "scan" /\ scan.region = "cat") => maps["par"].id = 0
  /\ CatFound => Newest(flash["cat"], MaxId, maps["cat"].id)
  /\ ParFound => Newest(flash["par"], MaxId, maps["par"].id)

(* A scan will reach the newest record M: f is the id that the page it
   started from holds or should hold, e that of the page it is at.  It has
   more pages left to go over than it can meet holes, and one for the page it
   started from. *)
Reaches(r, g, M, new, s) ==
  \E f \in 1..M : \E e \in f..M :
    /\ AtId(r, s.start, f)
    /\ AtId(r, s.pos, e)
    /\ M - f < Size(r)
    /\ \/ /\ new < e
          /\ s.forward > Cardinality(Holes(g, e, M))
       \/ /\ e = f
          /\ new <= e
          /\ s.forward > Cardinality(Holes(g, e + 1, M)) + 1

WillFind(r, g, new, s) ==
  \E M \in 0..MaxId : /\ Newest(g, MaxId, M)
                      /\ new = M \/ Reaches(r, g, M, new, s)

ScanInv ==
  pc = "scan" =>
    \A r \in Regions :
      scan.region = r => WillFind(r, flash[r], maps[r].id, scan)

(* The newest block a boot may find: the one under way does not count. *)
Limit == IF Writing("par") THEN maps["par"].id - 1 ELSE MaxId

(* No catalog record is ahead of the parameters. *)
Behind(c) == \A M \in 0..MaxId : Newest(flash["par"], Limit, M) => c <= M

CatalogInv ==
  \A p \in Pages("cat") :
    flash["cat"][p].st = "good" =>
      /\ flash["cat"][p].data["cat"].id = flash["cat"][p].id
      /\ Behind(flash["cat"][p].data["par"].id)

KeptInv ==
  \A M \in 0..MaxId :
    Newest(flash["par"], Limit, M) =>
      IF M = 0 THEN NoBlock \in kept
      ELSE \A p \in Pages("par") :
             Carries(flash["par"], p, M) => flash["par"][p].data \in kept

RingInv ==
  RegionInv /\ WriteInv /\ RunInv /\ BootInv /\ ScanInv /\ CatalogInv

(* The pages of a region: typed, and every intact record where its id says. *)
Ring(r, g) ==
  /\ g \in [Pages(r) -> PageOf(r)]
  /\ \A p \in Pages(r) :
       g[p].st = "good" => g[p].id \in 1..MaxId /\ AtId(r, p, g[p].id)

-----------------------------------------------------------------------------
LEMMA RingOf ==
  ASSUME TypeOK, PlacedInv, NEW r \in Regions
  PROVE  Ring(r, flash[r])
<1>1. flash[r] \in [Pages(r) -> PageOf(r)]
  BY DEF TypeOK
<1>2. ASSUME NEW p \in Pages(r), flash[r][p].st = "good"
      PROVE  flash[r][p].id \in 1..MaxId /\ AtId(r, p, flash[r][p].id)
  <2>1. flash[r][p].id \in 0..MaxId
    BY <1>1, <1>2, GoodIsRecord
  <2>2. flash[r][p].id > 0 /\ AtId(r, p, flash[r][p].id)
    BY <1>2 DEF PlacedInv, RecordPlaced
  <2> QED BY <2>1, <2>2, BoundsAssumption
<1> QED BY <1>1, <1>2 DEF Ring

LEMMA HoldsId ==
  ASSUME NEW r \in Regions, NEW g, Ring(r, g), NEW k, Holds(g, k)
  PROVE  k \in 1..MaxId
BY DEF Ring, Holds, Carries

(* A record that is held is on the page of its id. *)
LEMMA Carrier ==
  ASSUME NEW r \in Regions, NEW g, Ring(r, g), NEW p \in Pages(r), NEW k,
         Holds(g, k), AtId(r, p, k)
  PROVE  Carries(g, p, k)
<1>1. PICK q \in Pages(r) : Carries(g, q, k)
  BY DEF Holds, Ring
<1>2. k \in Nat \ {0}
  BY HoldsId, BoundsAssumption
<1>3. AtId(r, q, k)
  BY <1>1 DEF Ring, Carries
<1>4. p = q
  BY <1>2, <1>3, SamePage
<1> QED BY <1>1, <1>4

LEMMA NewestUnique ==
  ASSUME NEW g, NEW b \in Nat, NEW M, NEW L, Newest(g, b, M), Newest(g, b, L)
  PROVE  M = L
BY DEF Newest

LEMMA HolesFinite ==
  ASSUME NEW g, NEW a \in Int, NEW b \in Int
  PROVE  /\ IsFiniteSet(Holes(g, a, b))
         /\ Cardinality(Holes(g, a, b)) \in Nat
<1>1. IsFiniteSet(a..b)
  BY FS_Interval
<1>2. Holes(g, a, b) \in SUBSET (a..b)
  BY DEF Holes
<1>3. IsFiniteSet(Holes(g, a, b))
  BY <1>1, <1>2, FS_Subset
<1> QED BY <1>3, FS_CardinalityType

(* The newest record before m is not so old that m takes its page: a whole
   ring of holes would be more than MaxFaults. *)
LEMMA NewestClose ==
  ASSUME NEW r \in Regions, NEW g, NEW m \in Nat, NEW M,
         NEW n \in Int, n <= MaxFaults,
         Newest(g, m - 1, M), FewHoles(g, m - Size(r) + 1, m - 1, n)
  PROVE  M > m - Size(r)
<1> DEFINE N == Size(r)
<1>1. N \in Nat /\ N > MaxFaults + 1 /\ MaxFaults \in Nat
  BY SizesAssumption, BoundsAssumption DEF Size, Regions
<1>2. M \in Nat /\ M <= m - 1
  BY DEF Newest
<1>3. SUFFICES ASSUME M <= m - N PROVE FALSE
  BY <1>1, <1>2
<1>4. Holes(g, m - N + 1, m - 1) = (m - N + 1)..(m - 1)
  BY <1>1, <1>2, <1>3 DEF Newest, Holes
<1>5. Cardinality((m - N + 1)..(m - 1)) = N - 1
  BY <1>1, FS_Interval
<1> QED BY <1>1, <1>4, <1>5 DEF FewHoles

(* When the write of m is over, well or not, the region is settled. *)
LEMMA WriteOver ==
  ASSUME NEW r \in Regions, NEW g, NEW m \in 1..MaxId, NEW M,
         NEW n \in Int, n <= MaxFaults,
         NoneAbove(g, m), Newest(g, m - 1, M),
         FewHoles(g, m - Size(r) + 1, m - 1, n)
  PROVE  Settled(r, g)
<1> DEFINE N == Size(r)
<1>1. /\ N \in Nat /\ N > 1 /\ m \in Nat /\ m <= MaxId /\ MaxId \in Nat
      /\ M \in 0..(m - 1) /\ MaxFaults \in Int
  BY SizesAssumption, BoundsAssumption DEF Size, Regions, Newest
<1>2. CASE Holds(g, m)
  <2>1. Newest(g, MaxId, m)
    BY <1>1, <1>2 DEF Newest, NoneAbove
  <2>2. Holes(g, m - N + 2, m) \in SUBSET Holes(g, m - N + 1, m - 1)
    BY <1>1, <1>2 DEF Holes
  <2>3. Cardinality(Holes(g, m - N + 2, m)) <= Cardinality(Holes(g, m - N + 1, m - 1))
    BY <1>1, <2>2, HolesFinite, FS_Subset
  <2>4. FewHoles(g, m - N + 2, m, MaxFaults)
    <3>1. /\ Cardinality(Holes(g, m - N + 2, m)) \in Nat
          /\ Cardinality(Holes(g, m - N + 1, m - 1)) \in Nat
      BY <1>1, HolesFinite
    <3> QED BY <1>1, <2>3, <3>1 DEF FewHoles
  <2> QED BY <1>1, <2>1, <2>4 DEF Settled
<1>3. CASE ~Holds(g, m)
  <2>1. Newest(g, MaxId, M)
    BY <1>1, <1>3 DEF Newest, NoneAbove
  <2>2. M > m - N
    BY <1>1, NewestClose
  <2> DEFINE S == Holes(g, M - N + 2, M)
             T == Holes(g, m - N + 1, m - 1)
             Later(k) == IF k > m - N THEN k ELSE k + N - 1
             later == [k \in S |-> Later(k)]
  <2>3. ASSUME NEW k \in S PROVE Later(k) \in T
    <3>1. k \in Int /\ k >= M - N + 2 /\ k <= M /\ k >= 1 /\ ~Holds(g, k)
      BY <1>1 DEF Holes
    <3>2. CASE k > m - N
      BY <1>1, <3>1, <3>2 DEF Holes
    <3>3. CASE ~(k > m - N)
      <4>1. k + N - 1 >= M + 1 /\ k + N - 1 <= m - 1
        BY <1>1, <3>1, <3>3
      <4>2. ~Holds(g, k + N - 1)
        BY <1>1, <3>1, <4>1 DEF Newest
      <4> QED BY <1>1, <2>2, <3>1, <3>3, <4>1, <4>2 DEF Holes
    <3> QED BY <3>2, <3>3
  <2>4. ASSUME NEW j \in S, NEW k \in S, Later(j) = Later(k) PROVE j = k
    <3>1. j \in Int /\ k \in Int /\ j <= M /\ k <= M /\ j >= M - N + 2 /\ k >= M - N + 2
      BY <1>1 DEF Holes
    <3>2. (j > m - N /\ k > m - N) \/ (j <= m - N /\ k <= m - N) => j = k
      BY <1>1, <2>4, <3>1
    <3>3. ASSUME NEW a \in S, NEW b \in S, a > m - N, b <= m - N
          PROVE  Later(a) # Later(b)
      <4>1. a \in Int /\ b \in Int /\ a <= M /\ b >= M - N + 2
        BY <1>1 DEF Holes
      <4> QED BY <1>1, <3>3, <4>1
    <3> QED BY <1>1, <2>4, <3>1, <3>2, <3>3
  <2>5. later \in Injection(S, T)
    BY <2>3, <2>4 DEF Injection, IsInjective
  <2>6. Cardinality(S) <= Cardinality(T)
    BY <1>1, <2>5, HolesFinite, FS_Injection
  <2>7. FewHoles(g, M - N + 2, M, MaxFaults)
    <3>1. Cardinality(S) \in Nat /\ Cardinality(T) \in Nat
      BY <1>1, HolesFinite
    <3> QED BY <1>1, <2>6, <3>1 DEF FewHoles
  <2> QED BY <1>1, <2>1, <2>7 DEF Settled
<1> QED BY <1>2, <1>3

-----------------------------------------------------------------------------
(* Writing m changes the page of m only, and m's page has none of the ids
   that count. *)
LEMMA WriteKeeps ==
  ASSUME NEW r \in Regions, NEW g, NEW h, Ring(r, g),
         NEW m \in 1..MaxId, NEW pg \in Pages(r), AtId(r, pg, m),
         h \in [Pages(r) -> PageOf(r)],
         \A p \in Pages(r) : p # pg => h[p] = g[p],
         h[pg] = g[pg] \/ (h[pg].st = "good" => h[pg].id = m)
  PROVE  /\ Ring(r, h)
         /\ \A p \in Pages(r) : \A k : k # m /\ Carries(h, p, k) => h[p] = g[p]
         /\ \A p \in Pages(r) : \A k \in 1..(m - 1) :
              k > m - Size(r) /\ Carries(g, p, k) => h[p] = g[p]
<1>1. Ring(r, h)
  <2>1. ASSUME NEW p \in Pages(r), h[p].st = "good"
        PROVE  h[p].id \in 1..MaxId /\ AtId(r, p, h[p].id)
    <3>1. CASE h[p] = g[p]
      BY <2>1, <3>1 DEF Ring
    <3>2. CASE h[p] # g[p]
      <4>1. p = pg /\ h[p].id = m
        BY <2>1, <3>2
      <4> QED BY <4>1
    <3> QED BY <3>1, <3>2
  <2> QED BY <2>1 DEF Ring
<1>2. ASSUME NEW p \in Pages(r), NEW k, k # m, Carries(h, p, k)
      PROVE  h[p] = g[p]
  BY <1>2 DEF Carries
<1>3. ASSUME NEW p \in Pages(r), NEW k \in 1..(m - 1), k > m - Size(r), Carries(g, p, k)
      PROVE  h[p] = g[p]
  <2>1. k \in Nat \ {0} /\ m \in Nat /\ k < m /\ Size(r) \in Nat
    BY SizesNonZero
  <2>2. p # pg
    <3>1. SUFFICES ASSUME p = pg PROVE FALSE
      OBVIOUS
    <3>2. AtId(r, pg, k)
      BY <1>3, <3>1 DEF Ring, Carries
    <3>3. k <= m - Size(r)
      BY <2>1, <3>2, TurnBelow
    <3> QED BY <1>3, <2>1, <3>3
  <2> QED BY <2>2
<1> QED BY <1>1, <1>2, <1>3

(* What holds of the ids before m holds after a try at m. *)
LEMMA WriteBelow ==
  ASSUME NEW r \in Regions, NEW g, NEW h, Ring(r, g), Ring(r, h),
         NEW m \in 1..MaxId,
         \A p \in Pages(r) : \A k : k # m /\ Carries(h, p, k) => h[p] = g[p],
         \A p \in Pages(r) : \A k \in 1..(m - 1) :
           k > m - Size(r) /\ Carries(g, p, k) => h[p] = g[p],
         NoneAbove(g, m),
         NEW n \in Int, n <= MaxFaults, FewHoles(g, m - Size(r) + 1, m - 1, n),
         NEW M, Newest(g, m - 1, M)
  PROVE  /\ NoneAbove(h, m)
         /\ Newest(h, m - 1, M)
         /\ FewHoles(h, m - Size(r) + 1, m - 1, n)
<1> DEFINE N == Size(r)
<1>1. /\ N \in Nat /\ m \in Nat /\ M \in 0..(m - 1)
      /\ DOMAIN g = Pages(r) /\ DOMAIN h = Pages(r)
  BY SizesNonZero DEF Newest, Ring
<1>2. M > m - N
  BY <1>1, NewestClose
<1>3. ASSUME NEW k, k # m, Holds(h, k) PROVE Holds(g, k)
  BY <1>1, <1>3 DEF Holds, Carries
<1>4. ASSUME NEW k \in 1..(m - 1), k > m - N, Holds(g, k) PROVE Holds(h, k)
  <2>1. PICK p \in Pages(r) : Carries(g, p, k)
    BY <1>1, <1>4 DEF Holds
  <2>2. h[p] = g[p]
    BY <1>4, <2>1
  <2> QED BY <1>1, <2>1, <2>2 DEF Holds, Carries
<1>5. NoneAbove(h, m)
  <2>1. ASSUME NEW k \in 1..MaxId, Holds(h, k) PROVE k <= m
    <3>1. k = m \/ Holds(g, k)
      BY <1>3, <2>1
    <3> QED BY <1>1, <3>1 DEF NoneAbove
  <2> QED BY <2>1 DEF NoneAbove
<1>6. Newest(h, m - 1, M)
  <2>1. M # 0 => Holds(h, M)
    BY <1>1, <1>2, <1>4 DEF Newest
  <2>2. ASSUME NEW k \in 1..(m - 1), Holds(h, k) PROVE k <= M
    <3>1. Holds(g, k)
      BY <1>1, <1>3, <2>2
    <3> QED BY <3>1 DEF Newest
  <2> QED BY <1>1, <2>1, <2>2 DEF Newest
<1>7. FewHoles(h, m - N + 1, m - 1, n)
  <2>1. Holes(h, m - N + 1, m - 1) \in SUBSET Holes(g, m - N + 1, m - 1)
    BY <1>1, <1>4 DEF Holes
  <2>2. Cardinality(Holes(h, m - N + 1, m - 1))
          <= Cardinality(Holes(g, m - N + 1, m - 1))
    BY <1>1, <2>1, HolesFinite, FS_Subset
  <2>3. /\ Cardinality(Holes(h, m - N + 1, m - 1)) \in Nat
        /\ Cardinality(Holes(g, m - N + 1, m - 1)) \in Nat
    BY <1>1, HolesFinite
  <2> QED BY <2>2, <2>3 DEF FewHoles
<1> QED BY <1>5, <1>6, <1>7

(* The newest record afterwards is m, or the newest before it. *)
LEMMA NewestAfter ==
  ASSUME NEW g, NEW m \in 1..MaxId, NoneAbove(g, m), NEW L, Newest(g, MaxId, L)
  PROVE  \/ L = m /\ Holds(g, m)
         \/ ~Holds(g, m) /\ Newest(g, m - 1, L)
<1>1. L \in 0..MaxId /\ MaxId \in Nat /\ (L # 0 => Holds(g, L) /\ L <= m)
  BY BoundsAssumption DEF Newest, NoneAbove
<1>2. CASE Holds(g, m)
  <2>1. m <= L
    BY <1>2 DEF Newest
  <2> QED BY <1>1, <1>2, <2>1
<1>3. CASE ~Holds(g, m)
  <2>1. L <= m - 1
    BY <1>1, <1>3
  <2> QED BY <1>1, <1>3, <2>1 DEF Newest
<1> QED BY <1>2, <1>3

(* The next id to write, its region being settled or between two writes. *)
LEMMA NextWrite ==
  ASSUME NEW r \in Regions, NEW g, NEW m \in 0..MaxId,
         NoneAbove(g, m), Settled(r, g)
  PROVE  /\ NoneAbove(g, m + 1)
         /\ \E M \in 0..MaxId : Newest(g, m, M)
         /\ m + 1 \in 1..MaxId => ~Holds(g, m + 1)
<1>1. PICK M \in 0..MaxId : Newest(g, MaxId, M)
  BY DEF Settled
<1>2. MaxId \in Nat
  BY BoundsAssumption
<1>3. M <= m
  BY <1>1, <1>2 DEF Newest, NoneAbove
<1>4. Newest(g, m, M)
  BY <1>1, <1>2, <1>3 DEF Newest
<1> QED BY <1>2, <1>4 DEF NoneAbove

-----------------------------------------------------------------------------
(* A scan that starts at the page of an id no newer than the newest will
   find the newest. *)
LEMMA StartFinds ==
  ASSUME NEW r \in Regions, NEW g, NEW p \in Pages(r), NEW c \in 0..MaxId,
         AtId(r, p, c), Settled(r, g),
         \A M \in 0..MaxId : Newest(g, MaxId, M) => c <= M
  PROVE  WillFind(r, g, c, StartScan(r, p))
<1> DEFINE N == Size(r)
           s == StartScan(r, p)
<1>1. PICK M \in 0..MaxId : Newest(g, MaxId, M) /\ FewHoles(g, M - N + 2, M, MaxFaults)
  BY DEF Settled
<1>2. /\ N \in Nat /\ MaxId \in Nat /\ MaxFaults \in Nat
      /\ c <= M /\ s.start = p /\ s.pos = p /\ s.forward = FORWARD
      /\ FORWARD \in Nat /\ FORWARD > MaxFaults + 1
  BY <1>1, SizesNonZero, BoundsAssumption, ScanAssumption DEF StartScan
<1>3. CASE c = M
  BY <1>1, <1>3 DEF WillFind
<1>4. CASE c # M
  <2> DEFINE d == IF c = 0 THEN 1 ELSE c
  <2>1. d \in Nat \ {0} /\ d <= M /\ c <= d /\ M \in Nat
    BY <1>2, <1>4
  <2>2. AtId(r, p, d)
    <3>1. CASE c = 0
      <4>1. p = 0 /\ 1 = 0 + 1 + 0 * Size(r)
        BY <1>2, <3>1 DEF AtId
      <4> QED BY <3>1, <4>1 DEF AtId
    <3> QED BY <3>1
  <2>3. PICK f \in d..M : AtId(r, p, f) /\ M - f < N
    BY <2>1, <2>2, LastAt
  <2>4. Cardinality(Holes(g, f + 1, M)) <= MaxFaults
    <3>1. Holes(g, f + 1, M) \in SUBSET Holes(g, M - N + 2, M)
      BY <1>2, <2>1, <2>3 DEF Holes
    <3>2. Cardinality(Holes(g, f + 1, M)) <= Cardinality(Holes(g, M - N + 2, M))
      BY <1>2, <2>1, <3>1, HolesFinite, FS_Subset
    <3>3. /\ Cardinality(Holes(g, f + 1, M)) \in Nat
          /\ Cardinality(Holes(g, M - N + 2, M)) \in Nat
      BY <1>2, <2>1, HolesFinite
    <3> QED BY <1>1, <1>2, <3>2, <3>3 DEF FewHoles
  <2>5. Cardinality(Holes(g, f + 1, M)) \in Nat
    BY <2>1, HolesFinite
  <2>6. f \in 1..M /\ c <= f /\ f \in f..M
    BY <1>2, <2>1, <2>3
  <2>7. s.forward > Cardinality(Holes(g, f + 1, M)) + 1
    BY <1>2, <2>4, <2>5
  <2>8. Reaches(r, g, M, c, s)
    BY <1>2, <2>3, <2>6, <2>7 DEF Reaches
  <2> QED BY <1>1, <2>8 DEF WillFind
<1> QED BY <1>3, <1>4

(* One page further: the scan goes on and will still find the newest, or it
   is over and has found it. *)
LEMMA ScanPageFinds ==
  ASSUME TypeOK, PlacedInv, ScanHasPages, ScanInv, ScanPage,
         NEW r \in Regions, scan.region = r
  PROVE  /\ ~ScanOver =>
              WillFind(r, flash[r], maps'[r].id,
                       [scan EXCEPT !.pos = Next1(scan.region, scan.pos),
                                    !.forward = Forward, !.found = Found])
         /\ ScanOver => Newest(flash[r], MaxId, maps'[r].id)
<1> DEFINE g == flash[r]
           N == Size(r)
           t == [scan EXCEPT !.pos = Next1(scan.region, scan.pos),
                             !.forward = Forward, !.found = Found]
<1>1. /\ scan \in [region : {r}, start : Pages(r), pos : Pages(r),
                   forward : 0..FORWARD, found : BOOLEAN]
      /\ pc = "scan" /\ maps \in Maps /\ scan.forward > 0
  <2>1. \E q \in Regions :
          scan \in [region : {q}, start : Pages(q), pos : Pages(q),
                    forward : 0..FORWARD, found : BOOLEAN]
    BY DEF TypeOK
  <2> QED BY <2>1 DEF TypeOK, ScanPage, ScanHasPages
<1>2. Ring(r, g) /\ Page = g[scan.pos]
  BY RingOf DEF Page
<1>3. /\ N \in Nat /\ MaxId \in Nat /\ maps[r].id \in 0..MaxId
      /\ FORWARD \in Nat /\ DOMAIN g = Pages(r)
  BY <1>1, <1>2, SizesNonZero, MapOfMaps, BoundsAssumption, ScanAssumption DEF Ring
<1>4. PICK M \in 0..MaxId :
        Newest(g, MaxId, M) /\ (maps[r].id = M \/ Reaches(r, g, M, maps[r].id, scan))
  BY <1>1 DEF ScanInv, WillFind
<1>5. maps'[r].id = IF IsNewer THEN Page.id ELSE maps[r].id
  BY <1>1 DEF ScanPage, Maps, Regions
<1>6. Page.st = "good" => Page.id \in 1..M /\ AtId(r, scan.pos, Page.id)
  <2>1. SUFFICES ASSUME Page.st = "good"
                 PROVE  Page.id \in 1..M /\ AtId(r, scan.pos, Page.id)
    OBVIOUS
  <2>2. Page.id \in 1..MaxId /\ AtId(r, scan.pos, Page.id)
    BY <1>1, <1>2, <2>1 DEF Ring
  <2>3. Holds(g, Page.id)
    BY <1>1, <1>2, <1>3, <2>1 DEF Holds, Carries
  <2>4. Page.id <= M
    BY <1>4, <2>2, <2>3 DEF Newest
  <2> QED BY <1>3, <2>2, <2>4
<1>7. CASE maps[r].id = M
  <2>1. ~IsNewer
    BY <1>1, <1>3, <1>6, <1>7 DEF IsNewer
  <2>2. maps'[r].id = M
    BY <1>5, <1>7, <2>1
  <2> QED BY <1>4, <2>2 DEF WillFind
<1>8. CASE maps[r].id # M
  <2>0. PICK f \in 1..M : \E e \in f..M :
          /\ AtId(r, scan.start, f)
          /\ AtId(r, scan.pos, e)
          /\ M - f < N
          /\ \/ /\ maps[r].id < e
                /\ scan.forward > Cardinality(Holes(g, e, M))
             \/ /\ e = f
                /\ maps[r].id <= e
                /\ scan.forward > Cardinality(Holes(g, e + 1, M)) + 1
    BY <1>4, <1>8 DEF Reaches
  <2>1. PICK e \in f..M :
          /\ AtId(r, scan.start, f)
          /\ AtId(r, scan.pos, e)
          /\ M - f < N
          /\ \/ /\ maps[r].id < e
                /\ scan.forward > Cardinality(Holes(g, e, M))
             \/ /\ e = f
                /\ maps[r].id <= e
                /\ scan.forward > Cardinality(Holes(g, e + 1, M)) + 1
    BY <2>0
  <2>2. /\ M \in Nat /\ f \in Nat /\ e \in Nat /\ f >= 1 /\ e >= f /\ e <= M
        /\ maps[r].id \in Nat
    BY <1>3
  <2>3. CASE e = M
    <3>1. Carries(g, scan.pos, M)
      <4>1. Holds(g, M)
        BY <1>4, <2>2 DEF Newest
      <4> QED BY <1>1, <1>2, <2>1, <2>3, <4>1, Carrier
    <3>2. IsNewer /\ Page.id = M
      BY <1>1, <1>2, <1>8, <2>1, <2>2, <2>3, <3>1 DEF IsNewer, Carries
    <3>3. maps'[r].id = M
      BY <1>5, <3>2
    <3> QED BY <1>4, <3>3 DEF WillFind
  <2>4. CASE e # M
    <3>1. maps'[r].id < e + 1
      <4>1. Page.st = "good" => Page.id <= e
        <5>1. SUFFICES ASSUME Page.st = "good", Page.id > e PROVE FALSE
          BY <1>6, <2>2
        <5>2. Page.id \in Nat /\ Page.id <= M
          BY <1>6, <2>2, <5>1
        <5>3. e <= Page.id - N
          BY <1>1, <1>6, <2>1, <2>2, <5>1, <5>2, TurnBelow
        <5> QED BY <1>3, <2>1, <2>2, <5>2, <5>3
      <4>2. CASE IsNewer
        BY <1>5, <1>6, <2>2, <4>1, <4>2 DEF IsNewer
      <4>3. CASE ~IsNewer
        BY <1>5, <2>1, <2>2, <4>3
      <4> QED BY <4>2, <4>3
    <3> DEFINE H == Holes(g, e, M)
               L == Holes(g, e + 1, M)
    <3>2. /\ IsFiniteSet(H) /\ IsFiniteSet(L)
          /\ Cardinality(H) \in Nat /\ Cardinality(L) \in Nat
      BY <2>2, HolesFinite
    <3>3. Forward > Cardinality(L)
      <4>1. scan.forward \in Nat /\ Forward \in Int /\ Forward >= scan.forward - 1
        BY <1>1 DEF Forward
      <4>2. CASE scan.forward > Cardinality(L) + 1
        BY <3>2, <4>1, <4>2
      <4>3. CASE maps[r].id < e /\ scan.forward > Cardinality(H)
        <5>1. CASE Carries(g, scan.pos, e)
          <6>1. IsNewer
            BY <1>1, <1>2, <4>3, <5>1 DEF IsNewer, Carries
          <6>2. Forward = scan.forward
            BY <6>1 DEF Forward
          <6>3. L \in SUBSET H
            BY <2>2 DEF Holes
          <6>4. Cardinality(L) <= Cardinality(H)
            BY <3>2, <6>3, FS_Subset
          <6> QED BY <3>2, <4>1, <4>3, <6>2, <6>4
        <5>2. CASE ~Carries(g, scan.pos, e)
          <6>1. ~Holds(g, e)
            BY <1>1, <1>2, <2>1, <5>2, Carrier
          <6>2. H = L \cup {e} /\ e \notin L
            BY <2>2, <6>1 DEF Holes
          <6>3. Cardinality(H) = Cardinality(L) + 1
            BY <3>2, <6>2, FS_AddElement
          <6> QED BY <3>2, <4>1, <4>3, <6>3
        <5> QED BY <5>1, <5>2
      <4> QED BY <2>1, <4>2, <4>3
    <3>4. Next1(r, scan.pos) \in Pages(r) /\ AtId(r, Next1(r, scan.pos), e + 1)
      BY <1>1, <2>1, <2>2, NextAt, NextPage
    <3>5. Next1(r, scan.pos) # scan.start
      <4>1. SUFFICES ASSUME Next1(r, scan.pos) = scan.start PROVE FALSE
        OBVIOUS
      <4>2. AtId(r, scan.start, e + 1)
        BY <3>4, <4>1
      <4>3. f <= (e + 1) - N
        BY <1>1, <2>1, <2>2, <4>2, TurnBelow
      <4> QED BY <1>3, <2>1, <2>2, <2>4, <4>3
    <3>6. ~ScanOver
      BY <1>1, <3>2, <3>3, <3>5 DEF ScanOver
    <3>7. t.start = scan.start /\ t.pos = Next1(r, scan.pos) /\ t.forward = Forward
      BY <1>1
    <3>8. e + 1 \in f..M
      BY <2>2, <2>4
    <3>9. Reaches(r, g, M, maps'[r].id, t)
      BY <2>1, <3>1, <3>3, <3>4, <3>7, <3>8 DEF Reaches
    <3> QED BY <1>4, <3>6, <3>9 DEF WillFind
  <2> QED BY <2>3, <2>4
<1> QED BY <1>7, <1>8

-----------------------------------------------------------------------------
LEMMA InitRing == Init => RingInv
<1> SUFFICES ASSUME Init PROVE RingInv
  OBVIOUS
<1>1. ASSUME NEW r \in Regions PROVE Settled(r, flash[r])
  <2>1. \A k : ~Holds(flash[r], k)
    BY DEF Init, Holds, Carries, Spoilt
  <2>2. Newest(flash[r], MaxId, 0)
    BY <2>1, BoundsAssumption DEF Newest
  <2>3. Size(r) \in Nat /\ 0 - Size(r) + 2 \in Int
    BY SizesNonZero
  <2>4. Holes(flash[r], 0 - Size(r) + 2, 0) = {}
    BY <2>3 DEF Holes
  <2>5. FewHoles(flash[r], 0 - Size(r) + 2, 0, MaxFaults)
    <3>1. Cardinality(Holes(flash[r], 0 - Size(r) + 2, 0)) = 0
      BY <2>4, FS_EmptySet
    <3> QED BY <3>1, BoundsAssumption DEF FewHoles
  <2> QED BY <2>2, <2>5, BoundsAssumption DEF Settled
<1>2. \A p \in Pages("cat") : flash["cat"][p].st # "good"
  BY DEF Init, Regions, Spoilt
<1>3. pc = "off"
  BY DEF Init
<1> QED BY <1>1, <1>2, <1>3
        DEF RingInv, RegionInv, WriteInv, RunInv, BootInv, CatFound, ParFound,
            ScanInv, CatalogInv, Writing

(* The boot does not touch the flash: only SaveMaps changes what Limit and
   Writing say, and only of the catalog. *)
LEMMA SameFlash ==
  ASSUME CatalogInv, RegionInv, UNCHANGED flash, ~Writing("par"),
         ~Writing("par")', ~Writing("cat")
  PROVE  CatalogInv' /\ (\A r \in Regions : Settled(r, flash[r])')
<1>1. Limit = MaxId /\ Limit' = MaxId
  BY DEF Limit
<1>2. \A r \in Regions : ~Writing(r)
  BY DEF Regions
<1>3. CatalogInv'
  BY <1>1 DEF CatalogInv, Behind
<1>4. \A r \in Regions : Settled(r, flash[r])'
  BY <1>2 DEF RegionInv
<1> QED BY <1>3, <1>4

LEMMA CatIsRegion == "cat" \in Regions /\ "par" \in Regions /\ Size("par") = NPar
BY DEF Regions, Size

LEMMA PowerUpRing == IInv /\ PlacedInv /\ RingInv /\ PowerUp => RingInv'
<1> SUFFICES ASSUME IInv, PlacedInv, RingInv, PowerUp PROVE RingInv'
  OBVIOUS
<1>1. pc = "off" /\ pc' = "scan" /\ UNCHANGED <<flash, wr>>
      /\ maps' = NoMaps /\ scan' = StartScan("cat", 0)
  BY DEF PowerUp
<1>2. CatalogInv' /\ (\A r \in Regions : Settled(r, flash[r])')
  BY <1>1, SameFlash DEF RingInv, Writing
<1>3. ScanInv'
  <2>1. 0 \in Pages("cat") /\ 0 \in 0..MaxId /\ AtId("cat", 0, 0)
    BY CatIsRegion, SizesNonZero, BoundsAssumption DEF AtId
  <2>2. Settled("cat", flash["cat"])
    BY <1>1, CatIsRegion DEF RingInv, RegionInv, Writing
  <2>3. \A M \in 0..MaxId : Newest(flash["cat"], MaxId, M) => 0 <= M
    BY BoundsAssumption
  <2>4. WillFind("cat", flash["cat"], 0, StartScan("cat", 0))
    BY <2>1, <2>2, <2>3, CatIsRegion, StartFinds
  <2>5. scan'.region = "cat" /\ maps'["cat"].id = 0
    BY <1>1 DEF StartScan, NoMaps, FirstMap
  <2> QED BY <1>1, <2>4, <2>5 DEF ScanInv
<1>4. BootInv'
  BY <1>1 DEF BootInv, CatFound, ParFound, Writing, StartScan, NoMaps, FirstMap
<1> QED BY <1>1, <1>2, <1>3, <1>4
        DEF RingInv, RegionInv, WriteInv, RunInv, Writing

LEMMA RestoreRing == IInv /\ PlacedInv /\ RingInv /\ Restore => RingInv'
<1> SUFFICES ASSUME IInv, PlacedInv, RingInv, Restore PROVE RingInv'
  OBVIOUS
<1> DEFINE p == maps["cat"].page
           new == flash["cat"][p].data
<1>t. TypeOK /\ maps \in Maps /\ "cat" \in Regions /\ "par" \in Regions
  BY CatIsRegion DEF IInv, TypeOK
<1>1. pc = "restore" /\ pc' = "scan" /\ UNCHANGED <<flash, wr>>
      /\ maps' = new /\ scan' = StartScan("par", maps'.par.page)
  BY DEF Restore
<1>2. CatalogInv' /\ (\A r \in Regions : Settled(r, flash[r])')
  BY <1>1, SameFlash DEF RingInv, Writing
<1>3. p \in Pages("cat") /\ flash["cat"][p].st = "good"
  BY <1>t, <1>1, MapOfMaps DEF IInv, RestoresGoodPage
<1>4. new \in Maps /\ MapsPlaced(new)
  BY <1>t, <1>3, GoodIsRecord DEF TypeOK, Data, PlacedInv
<1>5. Newest(flash["cat"], MaxId, maps["cat"].id)
  BY <1>1 DEF RingInv, BootInv, CatFound
<1>6. new["cat"].id = maps["cat"].id
  <2>1. new["cat"].id = flash["cat"][p].id
    BY <1>3 DEF RingInv, CatalogInv
  <2>2. Ring("cat", flash["cat"])
    BY <1>t, RingOf
  <2>3. Holds(flash["cat"], flash["cat"][p].id) /\ flash["cat"][p].id \in 1..MaxId
    BY <1>3, <2>2 DEF Ring, Holds, Carries
  <2>4. maps["cat"].id # 0
    BY <1>5, <2>3, BoundsAssumption DEF Newest
  <2>5. Holds(flash["cat"], maps["cat"].id)
    BY <1>5, <2>4 DEF Newest
  <2>6. AtId("cat", p, maps["cat"].id)
    BY <1>t DEF PlacedInv, MapsPlaced
  <2>7. Carries(flash["cat"], p, maps["cat"].id)
    BY <1>t, <1>3, <2>2, <2>5, <2>6, Carrier
  <2> QED BY <2>1, <2>7 DEF Carries
<1>7. ScanInv'
  <2>1. /\ new["par"].page \in Pages("par") /\ new["par"].id \in 0..MaxId
        /\ AtId("par", new["par"].page, new["par"].id)
    BY <1>t, <1>4, MapOfMaps DEF MapsPlaced
  <2>2. Settled("par", flash["par"])
    BY <1>t, <1>1 DEF RingInv, RegionInv, Writing
  <2>3. \A M \in 0..MaxId : Newest(flash["par"], MaxId, M) => new["par"].id <= M
    BY <1>1, <1>3 DEF RingInv, CatalogInv, Behind, Limit, Writing
  <2>4. WillFind("par", flash["par"], new["par"].id, StartScan("par", new["par"].page))
    BY <1>t, <2>1, <2>2, <2>3, StartFinds
  <2>5. scan'.region = "par" /\ maps'["par"].id = new["par"].id
        /\ scan' = StartScan("par", new["par"].page)
    BY <1>1 DEF StartScan
  <2> QED BY <1>1, <2>4, <2>5 DEF ScanInv
<1>8. BootInv'
  BY <1>1, <1>5, <1>6 DEF BootInv, CatFound, ParFound, Writing, StartScan
<1> QED BY <1>1, <1>2, <1>7, <1>8
        DEF RingInv, RegionInv, WriteInv, RunInv, Writing

LEMMA ScanPageRing == IInv /\ PlacedInv /\ RingInv /\ ScanPage => RingInv'
<1> SUFFICES ASSUME IInv, PlacedInv, RingInv, ScanPage PROVE RingInv'
  OBVIOUS
<1>t. TypeOK /\ maps \in Maps /\ "cat" \in Regions /\ "par" \in Regions
  BY CatIsRegion DEF IInv, TypeOK
<1>1. pc = "scan" /\ UNCHANGED <<flash, wr>> /\ pc' \in {"scan", "restore", "save"}
  BY DEF ScanPage
<1>2. CatalogInv' /\ (\A r \in Regions : Settled(r, flash[r])')
  BY <1>1, SameFlash DEF RingInv, Writing
<1>3. PICK r \in Regions : scan.region = r
  BY <1>t DEF TypeOK
<1>4. \A q \in Regions : q # r => maps'[q] = maps[q]
  BY <1>t, <1>3 DEF ScanPage, Maps, Regions
<1>5. /\ ~ScanOver =>
           WillFind(r, flash[r], maps'[r].id,
                    [scan EXCEPT !.pos = Next1(scan.region, scan.pos),
                                 !.forward = Forward, !.found = Found])
      /\ ScanOver => Newest(flash[r], MaxId, maps'[r].id)
  BY <1>t, <1>3, ScanPageFinds DEF IInv, RingInv
<1>6. ScanInv' /\ BootInv'
  <2>1. CASE /\ ~ScanOver
             /\ scan' = [scan EXCEPT !.pos = Next1(scan.region, scan.pos),
                                     !.forward = Forward, !.found = Found]
             /\ pc' = pc
    <3>1. scan'.region = r
      BY <1>t, <1>3, <2>1 DEF TypeOK
    <3>2. ScanInv'
      <4>1. WillFind(r, flash[r], maps'[r].id, scan')
        BY <1>5, <2>1
      <4> QED BY <1>1, <3>1, <4>1 DEF ScanInv
    <3>3. BootInv'
      BY <1>1, <1>3, <1>4, <2>1, <3>1, CatIsRegion
         DEF RingInv, BootInv, CatFound, ParFound, Writing
    <3> QED BY <3>2, <3>3
  <2>2. CASE ScanOver /\ scan.region = "cat" /\ Found /\ pc' = "restore" /\ scan' = scan
    BY <1>1, <1>3, <1>5, <2>2 DEF ScanInv, BootInv, CatFound, ParFound, Writing
  <2>3. CASE /\ ScanOver /\ scan.region = "cat" /\ ~Found
             /\ scan' = StartScan("par", maps.par.page) /\ pc' = pc
    <3>1. maps'["par"] = maps["par"] /\ maps["par"].id = 0
      BY <1>1, <1>3, <1>4, <2>3, CatIsRegion DEF RingInv, BootInv
    <3>2. maps["par"].page \in Pages("par") /\ AtId("par", maps["par"].page, 0)
          /\ 0 \in 0..MaxId
      BY <1>t, <3>1, MapOfMaps, BoundsAssumption DEF PlacedInv, MapsPlaced
    <3>3. Settled("par", flash["par"])
      BY <1>t, <1>1 DEF RingInv, RegionInv, Writing
    <3>4. \A M \in 0..MaxId : Newest(flash["par"], MaxId, M) => 0 <= M
      BY BoundsAssumption
    <3>5. WillFind("par", flash["par"], 0, StartScan("par", maps["par"].page))
      BY <1>t, <3>2, <3>3, <3>4, StartFinds
    <3>6. scan'.region = "par" /\ scan' = StartScan("par", maps["par"].page)
      BY <2>3 DEF StartScan
    <3>7. ScanInv'
      BY <1>1, <2>3, <3>1, <3>5, <3>6 DEF ScanInv
    <3>8. BootInv'
      BY <1>1, <1>3, <1>5, <2>3, <3>6 DEF BootInv, CatFound, ParFound, Writing
    <3> QED BY <3>7, <3>8
  <2>4. CASE ScanOver /\ scan.region = "par" /\ pc' = "save" /\ scan' = scan
    BY <1>1, <1>3, <1>4, <1>5, <2>4, CatIsRegion
       DEF RingInv, ScanInv, BootInv, CatFound, ParFound, Writing
  <2> QED BY <2>1, <2>2, <2>3, <2>4 DEF ScanPage
<1> QED BY <1>1, <1>2, <1>6
        DEF RingInv, RegionInv, WriteInv, RunInv, Writing

-----------------------------------------------------------------------------
(* A write begins: what is known of the newest record is known of the ids
   before the new one. *)
LEMMA BeginWrites ==
  ASSUME IInv, PlacedInv, RingInv, NEW r \in Regions, NEW data, Begin(r, data),
         pc # "try", r = "cat" => data = maps',
         NoneAbove(flash[r], maps[r].id),
         FewHoles(flash[r], maps[r].id - Size(r) + 2, maps[r].id, MaxFaults)
  PROVE  BeingWritten(r, maps[r].id)'
<1> DEFINE g == flash[r]
           m == maps[r].id
<1>t. /\ maps \in Maps /\ m \in 0..MaxId /\ m < MaxId
      /\ MaxId \in Nat /\ Size(r) \in Nat
  BY MapOfMaps, BoundsAssumption, SizesNonZero DEF Begin, IInv, TypeOK
<1>1. /\ maps'[r].id = m + 1 /\ flash' = flash
      /\ wr' = [region |-> r, tries |-> 0, tmp |-> "good", data |-> data]
  BY <1>t DEF Begin, Advance, Maps, Regions
<1>2. Settled(r, g)
  BY DEF RingInv, RegionInv, Writing
<1>3. /\ NoneAbove(g, m + 1)
      /\ \E M \in 0..MaxId : Newest(g, m, M)
      /\ ~Holds(g, m + 1)
  BY <1>t, <1>2, NextWrite
<1>4. Ring(r, g)
  BY RingOf DEF IInv
<1>5. \A p \in Pages(r) : ~Carries(g, p, m + 1)
  BY <1>3, <1>4 DEF Holds, Ring
<1>6. (m + 1) - 1 = m /\ (m + 1) - Size(r) + 1 = m - Size(r) + 2
  BY <1>t
<1>7. /\ \E M \in 0..MaxId : Newest(g, (m + 1) - 1, M)
      /\ FewHoles(g, (m + 1) - Size(r) + 1, (m + 1) - 1, MaxFaults)
  BY <1>3, <1>6
<1>8. Paid' = MaxFaults
  BY <1>1 DEF Paid
<1> QED BY <1>1, <1>3, <1>5, <1>7, <1>8 DEF BeingWritten

(* What Begin asks for, of a region that is settled and whose newest record
   storage_maps knows. *)
LEMMA FoundIsReady ==
  ASSUME NEW r \in Regions, NEW g, NEW m,
         Newest(g, MaxId, m), Settled(r, g)
  PROVE  NoneAbove(g, m) /\ FewHoles(g, m - Size(r) + 2, m, MaxFaults)
<1>1. PICK M \in 0..MaxId : Newest(g, MaxId, M) /\ FewHoles(g, M - Size(r) + 2, M, MaxFaults)
  BY DEF Settled
<1>2. M = m
  BY <1>1, NewestUnique, BoundsAssumption
<1> QED BY <1>1, <1>2 DEF Newest, NoneAbove

LEMMA SaveMapsRing == IInv /\ PlacedInv /\ RingInv /\ SaveMaps => RingInv'
<1> SUFFICES ASSUME IInv, PlacedInv, RingInv, SaveMaps PROVE RingInv'
  OBVIOUS
<1>t. /\ TypeOK /\ maps \in Maps /\ "cat" \in Regions /\ "par" \in Regions
  BY CatIsRegion DEF IInv, TypeOK
<1>1. /\ pc = "save" /\ pc' = "try" /\ UNCHANGED flash
      /\ wr'.region = "cat" /\ maps' = [maps EXCEPT !["cat"] = Advance("cat")]
      /\ Begin("cat", maps')
  BY DEF SaveMaps, Begin
<1>2. CatalogInv' /\ (\A r \in Regions : Settled(r, flash[r])')
  BY <1>1, SameFlash DEF RingInv, Writing
<1>3. Newest(flash["cat"], MaxId, maps["cat"].id) /\ Settled("cat", flash["cat"])
  BY <1>t, <1>1 DEF RingInv, BootInv, CatFound, RegionInv, Writing
<1>4. BeingWritten("cat", maps["cat"].id)'
  BY <1>t, <1>1, <1>3, FoundIsReady, BeginWrites
<1>5. Newest(flash["par"], MaxId, maps["par"].id)'
  BY <1>t, <1>1 DEF RingInv, BootInv, ParFound, Maps
<1> QED BY <1>1, <1>2, <1>4, <1>5
        DEF RingInv, RegionInv, WriteInv, RunInv, BootInv, CatFound, ParFound,
            ScanInv, Writing

LEMMA WriteBlockReady ==
  ASSUME IInv, RingInv, pc \in {"booted", "run"}
  PROVE  /\ NoneAbove(flash["par"], maps["par"].id)
         /\ FewHoles(flash["par"], maps["par"].id - Size("par") + 2,
                     maps["par"].id, MaxFaults)
<1>1. CASE pc = "booted"
  <2>1. Newest(flash["par"], MaxId, maps["par"].id) /\ Settled("par", flash["par"])
    BY <1>1, CatIsRegion DEF RingInv, BootInv, ParFound, RegionInv, Writing
  <2> QED BY <2>1, FoundIsReady, CatIsRegion
<1>2. CASE pc = "run"
  BY <1>2, CatIsRegion DEF RingInv, RunInv
<1> QED BY <1>1, <1>2

(* The block that is about to be written does not count yet. *)
LEMMA LimitBegins ==
  ASSUME IInv, RingInv, NEW v \in Values, WriteBlock(v), NEW M \in 0..MaxId,
         Newest(flash["par"], Limit', M)
  PROVE  Newest(flash["par"], Limit, M)
<1>1. maps["par"].id \in 0..MaxId /\ maps["par"].id < MaxId /\ MaxId \in Nat
  BY CatIsRegion, MapOfMaps, BoundsAssumption DEF WriteBlock, Begin, IInv, TypeOK
<1>2. Writing("par")' /\ ~Writing("par") /\ maps'["par"].id = maps["par"].id + 1
  BY CatIsRegion DEF WriteBlock, Begin, Writing, Advance, IInv, TypeOK, Maps
<1>3. Limit = MaxId /\ Limit' = maps["par"].id
  BY <1>1, <1>2 DEF Limit
<1>4. NoneAbove(flash["par"], maps["par"].id)
  BY WriteBlockReady DEF WriteBlock
<1> QED BY <1>1, <1>3, <1>4 DEF Newest, NoneAbove

LEMMA WriteBlockRing ==
  ASSUME IInv, PlacedInv, RingInv, NEW v \in Values, WriteBlock(v)
  PROVE  RingInv'
<1>t. "cat" \in Regions /\ "par" \in Regions
  BY CatIsRegion
<1>1. /\ pc \in {"booted", "run"} /\ pc' = "try" /\ UNCHANGED flash
      /\ wr'.region = "par" /\ Begin("par", v)
  BY DEF WriteBlock, Begin
<1>2. BeingWritten("par", maps["par"].id)'
  BY <1>t, <1>1, WriteBlockReady, BeginWrites
<1>3. Settled("cat", flash["cat"])'
  BY <1>t, <1>1 DEF RingInv, RegionInv, Writing
<1>4. CatalogInv'
  <2>1. ASSUME NEW p \in Pages("cat"), flash["cat"][p].st = "good",
               NEW M \in 0..MaxId, Newest(flash["par"], Limit', M)
        PROVE  flash["cat"][p].data["par"].id <= M
    <3>1. Newest(flash["par"], Limit, M)
      BY <2>1, LimitBegins
    <3> QED BY <2>1, <3>1 DEF RingInv, CatalogInv, Behind
  <2>2. \A p \in Pages("cat") : flash["cat"][p].st = "good" =>
          flash["cat"][p].data["cat"].id = flash["cat"][p].id
    BY DEF RingInv, CatalogInv
  <2> QED BY <1>1, <2>1, <2>2 DEF CatalogInv, Behind
<1>5. WriteInv'
  BY <1>1, <1>2 DEF WriteInv, Writing
<1>6. RegionInv'
  BY <1>1, <1>3 DEF RegionInv, Writing, Regions
<1> QED BY <1>1, <1>4, <1>5, <1>6
        DEF RingInv, RunInv, BootInv, CatFound, ParFound, ScanInv, Writing

-----------------------------------------------------------------------------
(* One try at the record m of region r, or a power loss during it. *)
Tried(r) ==
  /\ Writing(r)
  /\ \/ flash' = flash
     \/ \E img \in Images : Stored(img)

LEMMA TryEffect ==
  ASSUME IInv, PlacedInv, RingInv, NEW r \in Regions, Tried(r)
  PROVE  /\ maps[r].id \in 1..MaxId
         /\ Paid \in Int /\ Paid <= MaxFaults /\ MaxFaults \in Int
         /\ Ring(r, flash[r]) /\ Ring(r, flash'[r])
         /\ \A q \in Regions : q # r => flash'[q] = flash[q]
         /\ NoneAbove(flash'[r], maps[r].id)
         /\ \E M \in 0..MaxId : /\ Newest(flash[r], maps[r].id - 1, M)
                                /\ Newest(flash'[r], maps[r].id - 1, M)
         /\ FewHoles(flash'[r], maps[r].id - Size(r) + 1, maps[r].id - 1, Paid)
         /\ FewHoles(flash[r], maps[r].id - Size(r) + 1, maps[r].id - 1,
                     MaxFaults - 1)
            => FewHoles(flash'[r], maps[r].id - Size(r) + 1, maps[r].id - 1,
                        MaxFaults - 1)
         /\ \A p \in Pages(r) : \A k :
              k # maps[r].id /\ Carries(flash'[r], p, k) => flash'[r][p] = flash[r][p]
         /\ \A p \in Pages(r) :
              Carries(flash'[r], p, maps[r].id) => flash'[r][p].data = wr.data
<1> DEFINE g == flash[r]
           h == flash'[r]
           m == maps[r].id
           pg == maps[r].page
<1>1. TypeOK /\ maps \in Maps /\ BeingWritten(r, m) /\ wr.region = r /\ pc = "try"
  BY DEF IInv, TypeOK, RingInv, WriteInv, Tried, Writing
<1>2. /\ pg \in Pages(r) /\ m \in 1..MaxId /\ AtId(r, pg, m)
      /\ MaxId \in Nat /\ MaxFaults \in Nat
  <2>1. pg \in Pages(r) /\ m \in 0..MaxId
    BY <1>1, MapOfMaps
  <2>2. m > 0 /\ AtId(r, pg, m)
    BY <1>1 DEF PlacedInv, MapsPlaced
  <2> QED BY <1>1, <2>1, <2>2, BoundsAssumption DEF TypeOK
<1>3. Paid \in Int /\ Paid <= MaxFaults
  BY <1>2 DEF Paid
<1>4. Ring(r, g)
  BY <1>1, RingOf
<1>5. /\ h \in [Pages(r) -> PageOf(r)]
      /\ \A p \in Pages(r) : p # pg => h[p] = g[p]
      /\ h[pg] = g[pg] \/ (h[pg].st = "good" => h[pg].id = m /\ h[pg].data = wr.data)
      /\ \A q \in Regions : q # r => flash'[q] = flash[q]
  <2>1. CASE flash' = flash
    BY <1>4, <2>1 DEF Ring
  <2>2. ASSUME NEW img \in Images, Stored(img)
        PROVE  <1>5!:
    <3>1. h \in [Pages(r) -> PageOf(r)]
      BY <2>2, StoredTyped
    <3>2. flash' = [flash EXCEPT ![r] = [g EXCEPT ![pg] = Written(img)]]
      BY <1>1, <2>2 DEF Stored, Target
    <3>3. h = [g EXCEPT ![pg] = Written(img)]
      BY <1>1, <3>2 DEF TypeOK
    <3>4. h[pg] = Written(img) /\ \A p \in Pages(r) : p # pg => h[p] = g[p]
      BY <1>2, <1>4, <3>3 DEF Ring
    <3>5. Written(img).st = "good" =>
            Written(img).id = m /\ Written(img).data = wr.data
      BY <1>1 DEF Written, Spoilt, Images
    <3>6. \A q \in Regions : q # r => flash'[q] = flash[q]
      BY <1>1, <3>2 DEF TypeOK
    <3> QED BY <3>1, <3>4, <3>5, <3>6
  <2> QED BY <2>1, <2>2 DEF Tried
<1>6. /\ Ring(r, h)
      /\ \A p \in Pages(r) : \A k : k # m /\ Carries(h, p, k) => h[p] = g[p]
      /\ \A p \in Pages(r) : \A k \in 1..(m - 1) :
           k > m - Size(r) /\ Carries(g, p, k) => h[p] = g[p]
  BY <1>2, <1>4, <1>5, WriteKeeps
<1>7. PICK M \in 0..MaxId : Newest(g, m - 1, M)
  BY <1>1 DEF BeingWritten
<1>8. /\ NoneAbove(h, m)
      /\ Newest(h, m - 1, M)
      /\ FewHoles(h, m - Size(r) + 1, m - 1, Paid)
  BY <1>1, <1>2, <1>3, <1>4, <1>6, <1>7, WriteBelow DEF BeingWritten
<1>9. \A p \in Pages(r) : Carries(h, p, m) => h[p].data = wr.data
  <2>1. ASSUME NEW p \in Pages(r), Carries(h, p, m) PROVE h[p].data = wr.data
    <3>1. CASE h[p] = g[p]
      BY <1>1, <2>1, <3>1 DEF BeingWritten, Carries
    <3>2. CASE h[p] # g[p]
      BY <1>5, <2>1, <3>2 DEF Carries
    <3> QED BY <3>1, <3>2
  <2> QED BY <2>1
<1>10. FewHoles(g, m - Size(r) + 1, m - 1, MaxFaults - 1) =>
         FewHoles(h, m - Size(r) + 1, m - 1, MaxFaults - 1)
  <2>1. MaxFaults - 1 \in Int /\ MaxFaults - 1 <= MaxFaults
    BY <1>2
  <2> QED BY <1>1, <1>2, <1>4, <1>6, <1>7, <2>1, WriteBelow DEF BeingWritten
<1> QED BY <1>2, <1>3, <1>4, <1>5, <1>6, <1>7, <1>8, <1>9, <1>10

LEMMA TrySettled ==
  ASSUME IInv, PlacedInv, RingInv, NEW r \in Regions, Tried(r)
  PROVE  Settled(r, flash'[r])
<1>1. PICK M \in 0..MaxId : Newest(flash'[r], maps[r].id - 1, M)
  BY TryEffect
<1>2. maps[r].id \in 1..MaxId /\ Paid \in Int /\ Paid <= MaxFaults
  BY TryEffect
<1> QED BY <1>1, <1>2, TryEffect, WriteOver

(* The try goes on, or the write is over. *)
TryGoesOn(r) ==
  /\ maps' = maps
  /\ \/ pc' = "try" /\ wr'.region = r
     \/ pc' # "try"

(* The newest block after a try is the one being written, or was the newest
   before it. *)
LEMMA TryNewest ==
  ASSUME IInv, PlacedInv, RingInv, Tried("par"), TryGoesOn("par"),
         NEW L \in 0..MaxId, Newest(flash'["par"], Limit', L)
  PROVE  \/ L = maps["par"].id /\ Holds(flash'["par"], L) /\ pc' # "try"
         \/ Newest(flash["par"], Limit, L) /\ Newest(flash'["par"], maps["par"].id - 1, L)
<1> DEFINE m == maps["par"].id
           h == flash'["par"]
<1>1. PICK M \in 0..MaxId : Newest(flash["par"], m - 1, M) /\ Newest(h, m - 1, M)
  BY TryEffect, CatIsRegion
<1>2. m \in 1..MaxId /\ NoneAbove(h, m) /\ MaxId \in Nat /\ m - 1 \in Nat
  BY TryEffect, CatIsRegion, BoundsAssumption
<1>3. Limit = m - 1
  BY DEF Tried, Limit
<1>4. CASE pc' = "try"
  <2>1. Limit' = m - 1
    BY <1>4 DEF TryGoesOn, Limit, Writing
  <2>2. L = M
    BY <1>1, <1>2, <2>1, NewestUnique
  <2> QED BY <1>1, <1>3, <2>2
<1>5. CASE pc' # "try"
  <2>1. Limit' = MaxId
    BY <1>5 DEF Limit, Writing
  <2>2. \/ L = m /\ Holds(h, m)
        \/ ~Holds(h, m) /\ Newest(h, m - 1, L)
    <3>1. Newest(h, MaxId, L)
      BY <2>1
    <3>2. m \in 1..MaxId /\ NoneAbove(h, m)
      BY <1>2
    <3> HIDE DEF m, h
    <3> QED BY <3>1, <3>2, NewestAfter
  <2>3. ASSUME Newest(h, m - 1, L) PROVE L = M
    BY <1>1, <1>2, <2>3, NewestUnique
  <2> QED BY <1>1, <1>3, <1>5, <2>2, <2>3
<1> QED BY <1>4, <1>5

LEMMA TryCatalog ==
  ASSUME IInv, PlacedInv, RingInv, NEW r \in Regions, Tried(r), TryGoesOn(r)
  PROVE  CatalogInv'
<1>t. "cat" \in Regions /\ "par" \in Regions /\ maps \in Maps /\ MaxId \in Nat
  BY CatIsRegion, BoundsAssumption DEF IInv, TypeOK
<1>1. CASE r = "cat"
  <2> DEFINE m == maps["cat"].id
             h == flash'["cat"]
  <2>1. wr.region = "cat" /\ pc = "try" /\ wr.data = maps
    BY <1>t, <1>1 DEF Tried, Writing, RingInv, WriteInv, BeingWritten
  <2>2. flash'["par"] = flash["par"] /\ Limit = MaxId /\ Limit' = MaxId
    <3>1. flash'["par"] = flash["par"]
      BY <1>t, <1>1, TryEffect
    <3> QED BY <1>1, <2>1, <3>1 DEF TryGoesOn, Limit, Writing
  <2>3. \A M \in 0..MaxId : Newest(flash["par"], MaxId, M) => maps["par"].id <= M
    <3>1. Newest(flash["par"], MaxId, maps["par"].id)
      BY <2>1 DEF RingInv, BootInv, ParFound, Writing
    <3>2. ASSUME NEW M \in 0..MaxId, Newest(flash["par"], MaxId, M)
          PROVE  maps["par"].id <= M
      <4>1. M = maps["par"].id
        BY <1>t, <3>1, <3>2, NewestUnique
      <4> QED BY <1>t, <4>1
    <3> QED BY <3>2
  <2>4. ASSUME NEW p \in Pages("cat"), h[p].st = "good"
        PROVE  /\ h[p].data["cat"].id = h[p].id
               /\ \A M \in 0..MaxId :
                    Newest(flash["par"], MaxId, M) => h[p].data["par"].id <= M
    <3>1. CASE h[p].id = m
      <4>1. h[p].data = maps
        BY <1>t, <1>1, <2>1, <2>4, <3>1, TryEffect DEF Carries
      <4> QED BY <2>3, <3>1, <4>1
    <3>2. CASE h[p].id # m
      <4>1. h[p] = flash["cat"][p]
        BY <1>t, <1>1, <2>4, <3>2, TryEffect DEF Carries
      <4> QED BY <2>2, <2>4, <4>1 DEF RingInv, CatalogInv, Behind
    <3> QED BY <3>1, <3>2
  <2> QED BY <2>2, <2>4 DEF CatalogInv, Behind
<1>2. CASE r = "par"
  <2>1. flash'["cat"] = flash["cat"]
    BY <1>t, <1>2, TryEffect
  <2>2. ASSUME NEW p \in Pages("cat"), flash["cat"][p].st = "good",
               NEW L \in 0..MaxId, Newest(flash'["par"], Limit', L)
        PROVE  flash["cat"][p].data["par"].id <= L
    <3> DEFINE c == flash["cat"][p].data["par"].id
    <3>1. \A M \in 0..MaxId : Newest(flash["par"], Limit, M) => c <= M
      BY <2>2 DEF RingInv, CatalogInv, Behind
    <3>2. CASE Newest(flash["par"], Limit, L)
      BY <3>1, <3>2
    <3>3. CASE L = maps["par"].id
      <4>1. PICK M \in 0..MaxId : Newest(flash["par"], L - 1, M)
        BY <1>t, <1>2, <3>3, TryEffect
      <4>2. c <= M
        BY <1>2, <3>1, <3>3, <4>1 DEF Limit, Tried
      <4>3. M <= L - 1
        BY <4>1 DEF Newest
      <4>4. c \in Nat
        <5>1. flash["cat"][p].data \in Maps
          BY <1>t, <2>2, GoodIsRecord DEF IInv, TypeOK, Data
        <5> QED BY <1>t, <5>1, MapOfMaps
      <4> QED BY <1>t, <4>2, <4>3, <4>4
    <3> QED BY <1>2, <2>2, <3>2, <3>3, TryNewest
  <2>3. \A p \in Pages("cat") : flash["cat"][p].st = "good" =>
          flash["cat"][p].data["cat"].id = flash["cat"][p].id
    BY DEF RingInv, CatalogInv
  <2> QED BY <2>1, <2>2, <2>3 DEF CatalogInv, Behind
<1> QED BY <1>1, <1>2 DEF Regions

(* The region that is not written stays as it was. *)
LEMMA TryRegions ==
  ASSUME IInv, PlacedInv, RingInv, NEW r \in Regions, Tried(r),
         pc' = "try" => wr'.region = r
  PROVE  RegionInv'
<1>1. ASSUME NEW q \in Regions, ~Writing(q)'
      PROVE  Settled(q, flash'[q])
  <2>1. CASE q = r
    BY <2>1, TryEffect, TrySettled
  <2>2. CASE q # r
    <3>1. Settled(q, flash[q])
      BY <2>2 DEF Tried, Writing, RingInv, RegionInv
    <3>2. flash'[q] = flash[q]
      BY <2>2, TryEffect
    <3> QED BY <3>1, <3>2
  <2> QED BY <2>1, <2>2
<1> QED BY <1>1 DEF RegionInv

(* After a write that is over, of blocks, only ids are known. *)
LEMMA RunAfter ==
  ASSUME IInv, PlacedInv, RingInv, Tried("par"), maps' = maps,
         \/ Holds(flash'["par"], maps["par"].id)
         \/ FewHoles(flash'["par"], maps["par"].id - NPar + 1,
                     maps["par"].id - 1, MaxFaults - 1)
  PROVE  /\ NoneAbove(flash'["par"], maps["par"].id)
         /\ FewHoles(flash'["par"], maps["par"].id - NPar + 2, maps["par"].id,
                     MaxFaults)
<1> DEFINE m == maps["par"].id
           h == flash'["par"]
           S == Holes(h, m - NPar + 2, m)
           T == Holes(h, m - NPar + 1, m - 1)
<1>1. m \in Nat /\ NPar \in Nat /\ MaxFaults \in Int /\ Size("par") = NPar
  BY TryEffect, CatIsRegion, SizesNonZero, BoundsAssumption
<1>2. NoneAbove(h, m) /\ Cardinality(T) <= MaxFaults
  <2>1. Cardinality(T) \in Nat
    BY <1>1, HolesFinite
  <2> QED BY <1>1, <2>1, TryEffect, CatIsRegion DEF FewHoles
<1>3. /\ IsFiniteSet(S) /\ IsFiniteSet(T) /\ IsFiniteSet(T \cup {m})
      /\ Cardinality(S) \in Nat /\ Cardinality(T) \in Nat
      /\ Cardinality(T \cup {m}) \in Nat
  <2>1. IsFiniteSet(S) /\ Cardinality(S) \in Nat
    BY <1>1, HolesFinite
  <2>2. IsFiniteSet(T) /\ Cardinality(T) \in Nat
    BY <1>1, HolesFinite
  <2>3. IsFiniteSet(T \cup {m})
    BY <2>2, FS_AddElement
  <2> QED BY <2>1, <2>2, <2>3, FS_CardinalityType
<1>4. CASE Holds(h, m)
  <2>1. S \in SUBSET T
    BY <1>1, <1>4 DEF Holes
  <2>2. Cardinality(S) <= Cardinality(T)
    BY <1>3, <2>1, FS_Subset
  <2> QED BY <1>1, <1>2, <1>3, <2>2 DEF FewHoles
<1>5. CASE FewHoles(h, m - NPar + 1, m - 1, MaxFaults - 1)
  <2>1. S \in SUBSET (T \cup {m})
    BY <1>1 DEF Holes
  <2>2. Cardinality(S) <= Cardinality(T \cup {m})
    BY <1>3, <2>1, FS_Subset
  <2>3. Cardinality(T \cup {m}) <= Cardinality(T) + 1
    BY <1>3, FS_AddElement
  <2> QED BY <1>1, <1>2, <1>3, <1>5, <2>2, <2>3 DEF FewHoles
<1> QED BY <1>4, <1>5

LEMMA VerifiedRing == IInv /\ PlacedInv /\ RingInv /\ Verified => RingInv'
<1> SUFFICES ASSUME IInv, PlacedInv, RingInv, Verified PROVE RingInv'
  OBVIOUS
<1>1. PICK r \in Regions : wr.region = r
  BY DEF IInv, TypeOK
<1>2. /\ pc = "try" /\ wr.tmp = "good" /\ Stored("good") /\ pc' = Booted
      /\ UNCHANGED <<maps, scan, wr>>
  BY DEF Verified
<1>3. Tried(r) /\ TryGoesOn(r) /\ pc' \in {"booted", "run"}
      /\ (pc' = "run" <=> r = "par") /\ (pc' = "booted" <=> r = "cat")
  BY <1>1, <1>2 DEF Tried, TryGoesOn, Writing, Images, Booted, Regions
<1>4. CatalogInv' /\ RegionInv'
  BY <1>2, <1>3, TryCatalog, TryRegions
<1>5. RunInv'
  <2>1. SUFFICES ASSUME r = "par" PROVE RunInv'
    BY <1>3 DEF RunInv
  <2>2. Holds(flash'["par"], maps["par"].id)
    <3>1. flash'["par"][maps["par"].page] = Written("good")
          /\ maps["par"].page \in Pages("par")
      BY <1>1, <1>2, <2>1, MapOfMaps DEF Stored, Target, IInv, TypeOK
    <3>2. Carries(flash'["par"], maps["par"].page, maps["par"].id)
      BY <1>1, <2>1, <3>1 DEF Carries, Written
    <3>3. DOMAIN flash'["par"] = Pages("par")
      BY <1>3, <2>1, TryEffect DEF Ring
    <3> QED BY <3>1, <3>2, <3>3 DEF Holds
  <2>3. /\ NoneAbove(flash'["par"], maps["par"].id)
        /\ FewHoles(flash'["par"], maps["par"].id - NPar + 2, maps["par"].id, MaxFaults)
    BY <1>2, <1>3, <2>1, <2>2, RunAfter
  <2> QED BY <1>2, <2>3 DEF RunInv
<1>6. BootInv'
  <2>1. ASSUME r = "cat" PROVE Newest(flash'["par"], MaxId, maps["par"].id)
    <3>1. flash'["par"] = flash["par"]
      BY <1>3, <2>1, TryEffect, CatIsRegion
    <3> QED BY <1>1, <1>2, <2>1, <3>1 DEF RingInv, BootInv, ParFound, Writing
  <2> QED BY <1>2, <1>3, <2>1 DEF BootInv, CatFound, ParFound, Writing
<1> QED BY <1>3, <1>4, <1>5, <1>6 DEF RingInv, WriteInv, ScanInv, Writing

(* A try that fails leaves room for its hole, or an earlier one did. *)
LEMMA NotVerifiedRing ==
  ASSUME IInv, PlacedInv, RingInv, NEW img \in Images, NEW back \in Images,
         back # "good", NotVerified(img, back),
         wr.tmp = "good" => FaultPossible
  PROVE  RingInv'
<1>1. PICK r \in Regions : wr.region = r
  BY DEF IInv, TypeOK
<1>2. /\ pc = "try" /\ Stored(img) /\ UNCHANGED <<maps, scan>>
      /\ wr'.region = wr.region /\ wr'.data = wr.data
      /\ \/ pc' = "try" /\ wr'.tmp = back
         \/ pc' = Booted
  BY DEF NotVerified, IInv, TypeOK
<1>3. Tried(r) /\ TryGoesOn(r) /\ pc' \in {"try", "booted", "run"}
      /\ (pc' = "run" => r = "par") /\ (pc' = "booted" => r = "cat")
  BY <1>1, <1>2 DEF Tried, TryGoesOn, Writing, Booted, Regions
<1>4. FewHoles(flash'[r], maps[r].id - Size(r) + 1, maps[r].id - 1,
               MaxFaults - 1)
  <2>1. CASE wr.tmp = "good"
    <3>1. MaxFaults \in Int
      BY BoundsAssumption
    <3>2. maps[r].id - Size(r) + 1 \in Int /\ maps[r].id - 1 \in Int
      BY <1>3, TryEffect, SizesNonZero
    <3>3. Cardinality(Holes(flash[r], maps[r].id - Size(r) + 1, maps[r].id - 1))
            \in Nat
      BY <3>2, HolesFinite
    <3>4. FewHoles(flash[r], maps[r].id - Size(r) + 1, maps[r].id - 1,
                   MaxFaults - 1)
      BY <1>1, <2>1, <3>1, <3>3 DEF FaultPossible, FewHoles
    <3> QED BY <1>3, <3>4, TryEffect
  <2>2. CASE wr.tmp # "good"
    BY <1>3, <2>2, TryEffect DEF Paid
  <2> QED BY <2>1, <2>2
<1>5. CatalogInv' /\ RegionInv'
  BY <1>1, <1>2, <1>3, TryCatalog, TryRegions
<1>6. RunInv'
  <2>1. SUFFICES ASSUME r = "par" PROVE RunInv'
    BY <1>3 DEF RunInv
  <2>2. /\ NoneAbove(flash'["par"], maps["par"].id)
        /\ FewHoles(flash'["par"], maps["par"].id - NPar + 2, maps["par"].id, MaxFaults)
    BY <1>2, <1>3, <1>4, <2>1, RunAfter, CatIsRegion DEF Size
  <2> QED BY <1>2, <2>2 DEF RunInv
<1>7. BootInv'
  <2>1. ASSUME r = "cat" PROVE Newest(flash'["par"], MaxId, maps["par"].id)
    <3>1. flash'["par"] = flash["par"]
      BY <1>3, <2>1, TryEffect, CatIsRegion
    <3> QED BY <1>1, <1>2, <2>1, <3>1 DEF RingInv, BootInv, ParFound, Writing
  <2> QED BY <1>1, <1>2, <1>3, <2>1 DEF BootInv, CatFound, ParFound, Writing
<1>8. WriteInv'
  <2>1. SUFFICES ASSUME pc' = "try" PROVE BeingWritten(r, maps[r].id)'
    BY <1>1, <1>2 DEF WriteInv, Writing
  <2>2. wr'.tmp = back
    BY <1>2, <2>1 DEF Booted
  <2>3. Paid' = MaxFaults - 1
    BY <2>2 DEF Paid
  <2> DEFINE m == maps[r].id
  <2>5. /\ NoneAbove(flash'[r], m)
        /\ \E M \in 0..MaxId : Newest(flash'[r], m - 1, M)
        /\ \A p \in Pages(r) : Carries(flash'[r], p, m) => flash'[r][p].data = wr.data
    BY <1>3, TryEffect
  <2>6. r = "cat" => wr.data = maps
    BY <1>3 DEF Tried, RingInv, WriteInv, BeingWritten
  <2> QED BY <1>2, <1>4, <2>2, <2>3, <2>5, <2>6 DEF BeingWritten
<1> QED BY <1>3, <1>5, <1>6, <1>7, <1>8 DEF RingInv, ScanInv

LEMMA TryRing == IInv /\ PlacedInv /\ RingInv /\ Try => RingInv'
<1> SUFFICES ASSUME IInv, PlacedInv, RingInv, Try PROVE RingInv'
  OBVIOUS
<1>t. wr.tmp \in Images
  BY DEF IInv, TypeOK
<1>1. CASE Verified
  BY <1>1, VerifiedRing
<1>2. ASSUME NEW img \in {"torn", "erased"}, PageFails(img) PROVE RingInv'
  BY <1>t, <1>2, NotVerifiedRing DEF PageFails, Images
<1>3. CASE ReadFails
  BY <1>t, <1>3, NotVerifiedRing DEF ReadFails, Images
<1>4. CASE RetrySpoilt
  BY <1>t, <1>4, NotVerifiedRing DEF RetrySpoilt, Paid, Images
<1> QED BY <1>1, <1>2, <1>3, <1>4 DEF Try

LEMMA PowerLossTried ==
  ASSUME IInv, PowerLoss, pc = "try"
  PROVE  \E r \in Regions : wr.region = r /\ Tried(r) /\ TryGoesOn(r)
<1>1. PICK r \in Regions : wr.region = r
  BY DEF IInv, TypeOK
<1>2. wr.tmp \in Images
  BY DEF IInv, TypeOK
<1> QED BY <1>1, <1>2 DEF PowerLoss, Tried, TryGoesOn, Writing, Images

LEMMA PowerLossRing == IInv /\ PlacedInv /\ RingInv /\ PowerLoss => RingInv'
<1> SUFFICES ASSUME IInv, PlacedInv, RingInv, PowerLoss PROVE RingInv'
  OBVIOUS
<1>1. pc' = "off" /\ UNCHANGED <<maps, scan, wr>>
  BY DEF PowerLoss
<1>2. CatalogInv' /\ RegionInv'
  <2>1. CASE pc = "try"
    <3>1. PICK r \in Regions : Tried(r) /\ TryGoesOn(r)
      BY <2>1, PowerLossTried
    <3> QED BY <1>1, <3>1, TryCatalog, TryRegions
  <2>2. CASE pc # "try"
    <3>1. flash' = flash
      BY <2>2 DEF PowerLoss
    <3>2. CatalogInv' /\ (\A r \in Regions : Settled(r, flash[r])')
      BY <1>1, <2>2, <3>1, SameFlash DEF RingInv, Writing
    <3> QED BY <3>2 DEF RegionInv
  <2> QED BY <2>1, <2>2
<1> QED BY <1>1, <1>2
        DEF RingInv, WriteInv, RunInv, BootInv, CatFound, ParFound, ScanInv, Writing

LEMMA StepRing == IInv /\ PlacedInv /\ RingInv /\ [Next]_vars => RingInv'
<1> SUFFICES ASSUME IInv, PlacedInv, RingInv, [Next]_vars PROVE RingInv'
  OBVIOUS
<1>1. CASE Next
  BY <1>1, PowerUpRing, ScanPageRing, RestoreRing, SaveMapsRing, TryRing,
     WriteBlockRing, PowerLossRing DEF Next, Boot
<1>2. CASE UNCHANGED vars
  <2>1. RegionInv' /\ WriteInv' /\ RunInv' /\ BootInv'
    BY <1>2 DEF vars, RingInv, RegionInv, WriteInv, BeingWritten, Paid, RunInv,
       BootInv, CatFound, ParFound, Writing
  <2>2. ScanInv' /\ CatalogInv'
    BY <1>2 DEF vars, RingInv, ScanInv, CatalogInv, Behind, Limit, Writing
  <2> QED BY <2>1, <2>2 DEF RingInv
<1> QED BY <1>1, <1>2

-----------------------------------------------------------------------------
LEMMA RingFindsNewest == TypeOK /\ PlacedInv /\ RingInv => RestartFindsNewest
<1> SUFFICES ASSUME TypeOK, PlacedInv, RingInv, pc = "booted",
                    NEW q \in Pages("par"), Good(q)
             PROVE  /\ Good(maps.par.page)
                    /\ flash["par"][maps.par.page].id = maps.par.id
                    /\ \A p \in Pages("par") :
                         Good(p) => flash["par"][p].id <= maps.par.id
  BY DEF RestartFindsNewest
<1> DEFINE g == flash["par"]
           M == maps["par"].id
<1>1. Ring("par", g) /\ Newest(g, MaxId, M)
  BY CatIsRegion, RingOf DEF RingInv, BootInv, ParFound
<1>2. ASSUME NEW p \in Pages("par"), Good(p)
      PROVE  g[p].id \in 1..MaxId /\ g[p].id <= M
  <2>1. g[p].id \in 1..MaxId /\ Holds(g, g[p].id)
    BY <1>1, <1>2 DEF Good, Ring, Holds, Carries
  <2> QED BY <1>1, <2>1 DEF Newest
<1>3. M # 0
  BY <1>1, <1>2, BoundsAssumption DEF Newest
<1>4. Carries(g, maps["par"].page, M)
  <2>1. Holds(g, M)
    BY <1>1, <1>3 DEF Newest
  <2>2. maps["par"].page \in Pages("par") /\ AtId("par", maps["par"].page, M)
    BY CatIsRegion, MapOfMaps DEF TypeOK, PlacedInv, MapsPlaced
  <2> QED BY <1>1, <2>1, <2>2, Carrier, CatIsRegion
<1> QED BY <1>2, <1>4 DEF Good, Carries

(* The boot finds the newest intact record, for rings of any size and       *)
(* whatever failed, was torn or wrapped before, as long as FORWARD is       *)
(* larger by two than the writes that fail in one ring: see                 *)
(* RestartFindsNewest.                                                      *)
THEOREM FlashFindsNewest == Spec => []RestartFindsNewest
<1>1. IInv => TypeOK
  BY DEF IInv
<1> QED BY InitIInv, StepIInv, InitPlaced, StepPlaced, InitRing, StepRing,
           RingFindsNewest, <1>1, PTL DEF Spec

-----------------------------------------------------------------------------
(***************************************************************************)
(* What a boot reads back.                                                 *)
(***************************************************************************)
LEMMA InitKept == Init => KeptInv
<1> SUFFICES ASSUME Init, NEW M \in 0..MaxId, Newest(flash["par"], Limit, M)
             PROVE  M = 0 /\ NoBlock \in kept
  BY DEF KeptInv
<1>1. ~Holds(flash["par"], M)
  BY DEF Init, Holds, Carries, Spoilt, Regions
<1> QED BY <1>1 DEF Init, Newest

(* With the flash and kept unchanged the newest block may still be read. *)
LEMMA SameKept ==
  ASSUME KeptInv, UNCHANGED <<flash, kept>>,
         \A M \in 0..MaxId :
           Newest(flash["par"], Limit', M) => Newest(flash["par"], Limit, M)
  PROVE  KeptInv'
BY DEF KeptInv

(* After a try what was newest before m is as it was. *)
LEMMA TryKeeps ==
  ASSUME IInv, PlacedInv, RingInv, KeptInv, Tried("par"), kept \subseteq kept',
         NEW L \in 0..MaxId, Newest(flash["par"], Limit, L),
         Newest(flash'["par"], maps["par"].id - 1, L)
  PROVE  IF L = 0 THEN NoBlock \in kept'
         ELSE \A p \in Pages("par") :
                Carries(flash'["par"], p, L) => flash'["par"][p].data \in kept'
<1>1. L # maps["par"].id
  BY TryEffect, CatIsRegion, BoundsAssumption DEF Newest
<1>2. ASSUME NEW p \in Pages("par"), Carries(flash'["par"], p, L)
      PROVE  flash'["par"][p] = flash["par"][p]
  BY <1>1, <1>2, TryEffect, CatIsRegion
<1> QED BY <1>2 DEF KeptInv, Carries

(* A write of the catalog leaves the blocks alone. *)
LEMMA CatKept ==
  ASSUME IInv, PlacedInv, RingInv, KeptInv, Tried("cat"), TryGoesOn("cat"), kept' = kept
  PROVE  KeptInv'
<1>1. flash'["par"] = flash["par"]
  BY TryEffect, CatIsRegion
<1>2. Limit = MaxId /\ Limit' = MaxId
  BY DEF Tried, TryGoesOn, Limit, Writing
<1> QED BY <1>1, <1>2 DEF KeptInv

LEMMA VerifiedKept == IInv /\ PlacedInv /\ RingInv /\ KeptInv /\ Verified => KeptInv'
<1> SUFFICES ASSUME IInv, PlacedInv, RingInv, KeptInv, Verified PROVE KeptInv'
  OBVIOUS
<1>1. PICK r \in Regions : wr.region = r
  BY DEF IInv, TypeOK
<1>2. /\ pc = "try" /\ Stored("good") /\ pc' = Booted /\ pc' # "try"
      /\ maps' = maps /\ wr' = wr
      /\ kept' = IF wr.region = "par" THEN {wr.data} ELSE kept
  BY DEF Verified, Booted
<1>3. Tried(r) /\ TryGoesOn(r)
  BY <1>1, <1>2 DEF Tried, TryGoesOn, Writing, Images
<1>4. CASE r = "cat"
  BY <1>1, <1>2, <1>3, <1>4, CatKept
<1>5. CASE r = "par"
  <2> DEFINE m == maps["par"].id
             h == flash'["par"]
  <2>1. Holds(h, m)
    <3>1. h[maps["par"].page] = Written("good") /\ maps["par"].page \in Pages("par")
      BY <1>1, <1>2, <1>5, MapOfMaps DEF Stored, Target, IInv, TypeOK
    <3>2. Carries(h, maps["par"].page, m)
      BY <1>1, <1>5, <3>1 DEF Carries, Written
    <3>3. DOMAIN h = Pages("par")
      BY <1>3, <1>5, TryEffect DEF Ring
    <3> QED BY <3>1, <3>2, <3>3 DEF Holds
  <2>2. m \in 1..MaxId
    BY <1>3, <1>5, TryEffect
  <2>3. ASSUME NEW L \in 0..MaxId, Newest(h, MaxId, L)
        PROVE  L = m
    <3>1. NoneAbove(h, m)
      BY <1>3, <1>5, TryEffect
    <3> QED BY <2>1, <2>2, <2>3, <3>1, BoundsAssumption DEF Newest, NoneAbove
  <2>4. \A p \in Pages("par") : Carries(h, p, m) => h[p].data = wr.data
    BY <1>3, <1>5, TryEffect
  <2>5. Limit' = MaxId /\ kept' = {wr.data}
    BY <1>1, <1>2, <1>5 DEF Limit, Writing
  <2> QED BY <2>2, <2>3, <2>4, <2>5, BoundsAssumption DEF KeptInv
<1> QED BY <1>4, <1>5 DEF Regions

(* A try that fails leaves no intact record of its id behind when it is the
   last: the page is spoilt, at the latest from the buffer. *)
LEMMA NotVerifiedKept ==
  ASSUME IInv, PlacedInv, RingInv, KeptInv, NEW img \in Images, NEW back \in Images,
         NotVerified(img, back),
         img = "good" => wr.tries < MAX_RETRY_TIMES - 1
  PROVE  KeptInv'
<1>1. PICK r \in Regions : wr.region = r
  BY DEF IInv, TypeOK
<1>2. /\ pc = "try" /\ Stored(img) /\ UNCHANGED <<maps, scan, kept>>
      /\ wr'.region = wr.region
      /\ pc' \in {"try", "booted", "run"}
      /\ pc' # "try" => img # "good"
  <2>1. /\ pc = "try" /\ Stored(img) /\ UNCHANGED <<maps, scan, kept>>
        /\ pc' \in {"try", "booted", "run"}
    BY DEF NotVerified, Booted
  <2>2. wr'.region = wr.region
    BY DEF NotVerified, IInv, TypeOK
  <2>3. ASSUME pc' # "try" PROVE img # "good"
    <3>1. wr.tries = MAX_RETRY_TIMES - 1
      BY <2>1, <2>3 DEF NotVerified
    <3>2. wr.tries \in Int
      BY RetryAssumption DEF IInv, TypeOK
    <3> QED BY <3>1, <3>2
  <2> QED BY <2>1, <2>2, <2>3
<1>3. Tried(r) /\ TryGoesOn(r)
  BY <1>1, <1>2 DEF Tried, TryGoesOn, Writing
<1>4. CASE r = "cat"
  BY <1>2, <1>3, <1>4, CatKept
<1>5. CASE r = "par"
  <2> DEFINE m == maps["par"].id
             pg == maps["par"].page
             h == flash'["par"]
  <2>1. ASSUME pc' # "try" PROVE ~Holds(h, m)
    <3>1. SUFFICES ASSUME Holds(h, m) PROVE FALSE
      OBVIOUS
    <3>2. pg \in Pages("par") /\ AtId("par", pg, m)
      BY CatIsRegion, MapOfMaps DEF IInv, TypeOK, PlacedInv, MapsPlaced
    <3>3. Carries(h, pg, m)
      BY <1>3, <1>5, <3>1, <3>2, TryEffect, Carrier
    <3>4. h[pg] = Spoilt(img)
      BY <1>1, <1>2, <1>5, <2>1, <3>2 DEF Stored, Target, Written, IInv, TypeOK
    <3> QED BY <1>2, <2>1, <3>3, <3>4 DEF Carries, Spoilt
  <2>2. ASSUME NEW L \in 0..MaxId, Newest(h, Limit', L)
        PROVE  IF L = 0 THEN NoBlock \in kept'
               ELSE \A p \in Pages("par") : Carries(h, p, L) => h[p].data \in kept'
    <3>1. Newest(flash["par"], Limit, L) /\ Newest(h, m - 1, L)
      BY <1>3, <1>5, <2>1, <2>2, TryNewest
    <3> QED BY <1>2, <1>3, <1>5, <3>1, TryKeeps
  <2> QED BY <2>2 DEF KeptInv
<1> QED BY <1>4, <1>5 DEF Regions

LEMMA TryKept ==
  ASSUME MAX_RETRY_TIMES > 1, IInv, PlacedInv, RingInv, KeptInv, Try
  PROVE  KeptInv'
<1>t. /\ wr.tmp \in Images /\ MAX_RETRY_TIMES \in Nat
  BY RetryAssumption DEF IInv, TypeOK
<1>1. CASE Verified
  BY <1>1, VerifiedKept
<1>2. ASSUME NEW img \in {"torn", "erased"}, PageFails(img) PROVE KeptInv'
  BY <1>2, NotVerifiedKept DEF PageFails, Images
<1>3. CASE ReadFails
  <2>1. wr.tries = 0
    <3>1. PICK r \in Regions : wr.region = r
      BY DEF IInv, TypeOK
    <3> QED BY <1>3, <3>1 DEF ReadFails, NotVerified, RingInv, WriteInv,
                              BeingWritten, Writing
  <2> QED BY <1>t, <1>3, <2>1, NotVerifiedKept DEF ReadFails, Images
<1>4. CASE RetrySpoilt
  BY <1>t, <1>4, NotVerifiedKept DEF RetrySpoilt
<1> QED BY <1>1, <1>2, <1>3, <1>4 DEF Try

LEMMA PowerLossKept == IInv /\ PlacedInv /\ RingInv /\ KeptInv /\ PowerLoss => KeptInv'
<1> SUFFICES ASSUME IInv, PlacedInv, RingInv, KeptInv, PowerLoss PROVE KeptInv'
  OBVIOUS
<1>1. pc' = "off" /\ maps' = maps
  BY DEF PowerLoss
<1>2. CASE pc # "try"
  <2>1. UNCHANGED <<flash, kept>> /\ Limit' = Limit
    BY <1>1, <1>2 DEF PowerLoss, Limit, Writing
  <2> QED BY <2>1, SameKept
<1>3. CASE pc = "try"
  <2>1. PICK r \in Regions : wr.region = r /\ Tried(r) /\ TryGoesOn(r)
    BY <1>3, PowerLossTried
  <2>2. CASE r = "cat"
    <3>1. kept' = kept
      BY <1>3, <2>1, <2>2 DEF PowerLoss
    <3> QED BY <2>1, <2>2, <3>1, CatKept
  <2>3. CASE r = "par"
    <3>1. kept' = kept \cup {wr.data}
      BY <1>3, <2>1, <2>3 DEF PowerLoss
    <3>2. ASSUME NEW L \in 0..MaxId, Newest(flash'["par"], Limit', L)
          PROVE  IF L = 0 THEN NoBlock \in kept'
                 ELSE \A p \in Pages("par") :
                        Carries(flash'["par"], p, L) => flash'["par"][p].data \in kept'
      <4>1. CASE L = maps["par"].id
        <5>1. \A p \in Pages("par") :
                Carries(flash'["par"], p, L) => flash'["par"][p].data = wr.data
          BY <2>1, <2>3, <4>1, TryEffect
        <5>2. L # 0
          BY <2>1, <2>3, <4>1, TryEffect
        <5> QED BY <3>1, <5>1, <5>2
      <4>2. CASE Newest(flash["par"], Limit, L)
                 /\ Newest(flash'["par"], maps["par"].id - 1, L)
        BY <2>1, <2>3, <3>1, <4>2, TryKeeps
      <4> QED BY <2>1, <2>3, <3>2, <4>1, <4>2, TryNewest
    <3> QED BY <3>2 DEF KeptInv
  <2> QED BY <2>2, <2>3 DEF Regions
<1> QED BY <1>2, <1>3

LEMMA StepKept ==
  ASSUME MAX_RETRY_TIMES > 1, IInv, PlacedInv, RingInv, KeptInv, [Next]_vars
  PROVE  KeptInv'
<1>1. CASE Boot
  <2>1. UNCHANGED <<flash, kept>> /\ Limit = MaxId /\ Limit' = MaxId
    BY <1>1 DEF Boot, PowerUp, ScanPage, Restore, SaveMaps, Begin, Limit, Writing
  <2> QED BY <2>1, SameKept
<1>2. ASSUME NEW v \in Values, WriteBlock(v) PROVE KeptInv'
  <2>1. UNCHANGED <<flash, kept>>
    BY <1>2 DEF WriteBlock, Begin
  <2> QED BY <1>2, <2>1, LimitBegins, SameKept
<1>3. CASE UNCHANGED vars
  <2>1. UNCHANGED <<flash, kept>> /\ Limit' = Limit
    BY <1>3 DEF vars, Limit, Writing
  <2> QED BY <2>1, SameKept
<1> QED BY <1>1, <1>2, <1>3, TryKept, PowerLossKept DEF Next

LEMMA KeptIsRead == TypeOK /\ PlacedInv /\ RingInv /\ KeptInv => KeepsLastStored
<1> SUFFICES ASSUME TypeOK, PlacedInv, RingInv, KeptInv, pc = "booted"
             PROVE  ReadNewest \in kept
  BY DEF KeepsLastStored
<1> DEFINE g == flash["par"]
           M == maps["par"].id
           pg == maps["par"].page
<1>1. Ring("par", g) /\ Newest(g, MaxId, M) /\ Limit = MaxId
  BY CatIsRegion, RingOf DEF RingInv, BootInv, ParFound, Limit, Writing
<1>2. M \in 0..MaxId /\ pg \in Pages("par") /\ AtId("par", pg, M) /\ MaxId \in Nat
  BY CatIsRegion, MapOfMaps, BoundsAssumption DEF TypeOK, PlacedInv, MapsPlaced
<1>3. CASE M = 0
  BY <1>1, <1>2, <1>3 DEF KeptInv, ReadNewest
<1>4. CASE M # 0
  <2>1. Carries(g, pg, M)
    BY <1>1, <1>2, <1>4, Carrier, CatIsRegion DEF Newest
  <2>2. ReadNewest = g[pg].data
    BY <1>2, <1>4, <2>1 DEF ReadNewest, Good, Carries
  <2> QED BY <1>1, <1>2, <1>4, <2>1, <2>2 DEF KeptInv
<1> QED BY <1>3, <1>4

(* A block whose write was verified is what every boot reads back, until a  *)
(* later one is verified or under way when power is lost: see               *)
(* KeepsLastStored.  With a single try it would not hold: a read that fails *)
(* after the page was written right would leave the new block behind.       *)
THEOREM FlashKeepsLastStored ==
  ASSUME MAX_RETRY_TIMES > 1
  PROVE  Spec => []KeepsLastStored
<1>1. IInv => TypeOK
  BY DEF IInv
<1>2. IInv /\ PlacedInv /\ RingInv /\ KeptInv /\ [Next]_vars => KeptInv'
  BY StepKept
<1> QED BY InitIInv, StepIInv, InitPlaced, StepPlaced, InitRing, StepRing,
           InitKept, <1>2, KeptIsRead, <1>1, PTL DEF Spec
=============================================================================
