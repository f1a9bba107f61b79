------------------------ MODULE ScrapeServiceProofs -------------------------
(***************************************************************************)
(* Proofs about ScrapeService, for every catalogue, every list of          *)
(* categories and any number of saves, failures and manual scrapes: types, *)
(* the flags that guard the scrapes, and the one configuration of a        *)
(* scheduled scrape.                                                       *)
(***************************************************************************)
EXTENDS ScrapeService, SequenceTheorems, TLAPS

-----------------------------------------------------------------------------
(* The paging of a scan.                                                   *)

\* A request ends in one more part, one more page, or one category less.
LEMMA NextMainPageType ==
  ASSUME NEW scan \in Scan, ~Done(scan)
  PROVE  NextMainPage(scan) \in Scan
<1>1. scan.list \in Seq(Categories) /\ scan.list # <<>>
  BY DEF Scan, Done
<1>2. Tail(scan.list) \in Seq(Categories)
  BY <1>1
<1>3. scan.main \in 0..LastMainPage /\ LastMainPage \in Nat /\ LastLazyPart \in Nat
  BY ScanAssumption DEF Scan
<1> DEFINE rest == Tail(scan.list)
<1>4. NextMainPage(scan) =
        IF scan.found /\ scan.main < LastMainPage
        THEN [scan EXCEPT !.main = @ + 1, !.lazy = 0, !.found = FALSE]
        ELSE [scan EXCEPT !.list = rest, !.main = 0, !.lazy = 0, !.found = FALSE]
  BY DEF NextMainPage
<1>5. rest \in Seq(Categories)
  BY <1>2
<1> HIDE DEF rest
<1>6. [scan EXCEPT !.list = rest, !.main = 0, !.lazy = 0, !.found = FALSE] \in Scan
  <2>1. 0 \in 0..LastMainPage /\ 0 \in 0..LastLazyPart
    BY <1>3
  <2> QED BY <1>5, <2>1 DEF Scan
<1>7. scan.main < LastMainPage =>
        [scan EXCEPT !.main = @ + 1, !.lazy = 0, !.found = FALSE] \in Scan
  <2>1. 0 \in 0..LastLazyPart /\ (scan.main < LastMainPage => scan.main + 1 \in 0..LastMainPage)
    BY <1>3
  <2> QED BY <2>1 DEF Scan
<1> QED BY <1>4, <1>6, <1>7

LEMMA NextPartType ==
  ASSUME NEW scan \in Scan, ~Done(scan)
  PROVE  NextPart(scan) \in Scan
<1>1. scan.lazy \in 0..LastLazyPart /\ LastLazyPart \in Nat
  BY ScanAssumption DEF Scan
<1>2. CASE scan.lazy < LastLazyPart
  <2>1. scan.lazy + 1 \in 0..LastLazyPart
    BY <1>1, <1>2
  <2> QED BY <1>2, <2>1 DEF NextPart, Scan
<1>3. CASE ~(scan.lazy < LastLazyPart)
  BY <1>3, NextMainPageType DEF NextPart
<1> QED BY <1>2, <1>3

LEMMA PartFailedType ==
  ASSUME NEW scan \in Scan, ~Done(scan)
  PROVE  PartFailed(scan) \in Scan
<1> DEFINE next == [scan EXCEPT !.missed = TRUE]
<1>1. next \in Scan /\ ~Done(next)
  BY DEF Scan, Done
<1> QED BY <1>1, NextPartType DEF PartFailed

LEMMA PartType ==
  ASSUME NEW scan \in Scan, ~Done(scan)
  PROVE  Part(scan) \in SUBSET Products
<1> DEFINE pages == Shelf[Category(scan)]
<1>1. Category(scan) \in Categories
  BY DEF Scan, Done, Category
<1>2. pages \in Seq(Seq(SUBSET Products))
  BY <1>1, ScanAssumption
<1> HIDE DEF pages
<1>3. ASSUME NEW m \in DOMAIN pages, NEW l \in DOMAIN pages[m]
      PROVE  pages[m][l] \in SUBSET Products
  <2>1. pages[m] \in Seq(SUBSET Products)
    BY <1>2, <1>3
  <2> QED BY <1>3, <2>1
<1>4. Part(scan) = IF scan.main + 1 \in DOMAIN pages /\ scan.lazy + 1 \in DOMAIN pages[scan.main + 1]
                   THEN pages[scan.main + 1][scan.lazy + 1] ELSE {}
  BY DEF Part, pages
<1> QED BY <1>3, <1>4

LEMMA PartAnsweredType ==
  ASSUME NEW scan \in Scan, ~Done(scan), NEW coeff \in Coefficients
  PROVE  PartAnswered(scan, coeff) \in Scan
<1> DEFINE kept == Kept(Part(scan), coeff)
           next == [scan EXCEPT !.found = TRUE, !.got = @ \cup kept]
<1>1. kept \in SUBSET Item
  BY PartType DEF Kept, Item
<1> HIDE DEF kept
<1>2. next \in Scan /\ ~Done(next)
  BY <1>1 DEF Scan, Done
<1> HIDE DEF next
<1>3. PartAnswered(scan, coeff) = IF Part(scan) = {} THEN NextMainPage(scan) ELSE NextPart(next)
  BY DEF PartAnswered, next, kept
<1> QED BY <1>2, <1>3, NextMainPageType, NextPartType

LEMMA StartScanType ==
  ASSUME NEW list \in Seq(Categories)
  PROVE  StartScan(list) \in Scan
<1>1. 0 \in 0..LastMainPage /\ 0 \in 0..LastLazyPart
  BY ScanAssumption
<1> QED BY <1>1 DEF StartScan, Scan

-----------------------------------------------------------------------------
(* Type correctness.  A scrape that fetches has a category left, and the   *)
(* import a row of its page.                                               *)

ScrapeOK(state) == state \in Scrape /\ (state.pc = "fetch" => ~Done(state.scan))

ControlInv == TypeOK /\ \A s \in Scrapers : ScrapeOK(scrape[s])
ImportInv == Importer!ImportTypeOK /\ (import.pc = "rows" => import.todo # <<>>)
TypeInv == ControlInv /\ ImportInv

LEMMA VersionsIn == 0 \in Versions /\ 1 \in Versions /\ Versions \subseteq Coefficients
                      /\ NoCoeff \in Coefficients
  BY ControlAssumption DEF Versions, NoCoeff

LEMMA LoadedType ==
  ASSUME NEW v \in Versions
  PROVE  Whole(v) \in Catalogue /\ Loaded(v) \in Settings
  BY ControlAssumption DEF Whole, Loaded, Catalogue, Settings

LEMMA IdleOK == ScrapeOK(Idle)
<1>1. NoScan \in Scan
  <2>1. <<>> \in Seq(Categories)
    OBVIOUS
  <2> QED BY <2>1, StartScanType DEF NoScan
<1>2. Loaded(0) \in Settings
  BY VersionsIn, LoadedType
<1> QED BY <1>1, <1>2 DEF ScrapeOK, Idle, Scrape

LEMMA SetOK ==
  ASSUME ControlInv, NEW s \in Scrapers, NEW state, ScrapeOK(state), Set(s, state)
  PROVE  scrape' \in [Scrapers -> Scrape] /\ \A t \in Scrapers : ScrapeOK(scrape'[t])
  BY DEF ControlInv, TypeOK, Set, ScrapeOK

LEMMA FaultType == ASSUME TypeOK, Fault PROVE faults' \in 0..MaxFaults
  BY ControlAssumption DEF TypeOK, Fault

LEMMA SeenType == ControlInv => Seen \subseteq Catalogue
<1> SUFFICES ASSUME ControlInv PROVE Seen \subseteq Catalogue
  OBVIOUS
<1> DEFINE old == inUse.cats
           new == config.cats
<1>1. old \in Catalogue /\ new \in Catalogue
  BY DEF ControlInv, TypeOK, Settings
<1>2. ASSUME NEW a \in Seq(Categories), NEW b \in Seq(Categories)
      PROVE  Prefix(a, b) \in Seq(Categories)
  <2> DEFINE n == IF Len(a) < Len(b) THEN Len(a) ELSE Len(b)
  <2>1. n \in 0..Len(a)
    OBVIOUS
  <2>2. SubSeq(a, 1, n) \in Seq(Categories)
    BY <2>1, SubSeqProperties
  <2> QED BY <2>2 DEF Prefix
<1> HIDE DEF old, new
<1>3. /\ [old EXCEPT !.list = Prefix(old.list, new.list)] \in Catalogue
      /\ [new EXCEPT !.list = Prefix(new.list, old.list)] \in Catalogue
  BY <1>1, <1>2 DEF Catalogue
<1> QED BY <1>1, <1>3 DEF Seen, old, new

LEMMA CoefficientInType ==
  ASSUME NEW catalogue \in Catalogue, NEW c
  PROVE  CoefficientIn(catalogue, c) \in Coefficients
  BY VersionsIn DEF CoefficientIn, Catalogue

LEMMA FetchOK ==
  ASSUME ControlInv, NEW s \in Scrapers, NEW scan \in Scan, NEW conf \in Settings,
         Fetch(s, scan, conf)
  PROVE  scrape' \in [Scrapers -> Scrape] /\ \A t \in Scrapers : ScrapeOK(scrape'[t])
<1> DEFINE state == [pc |-> IF Done(scan) THEN "process" ELSE "fetch", scan |-> scan,
                     conf |-> conf]
<1>1. ScrapeOK(state)
  BY DEF ScrapeOK, Scrape
<1>2. Set(s, state)
  BY DEF Fetch
<1> HIDE DEF state
<1> QED BY <1>1, <1>2, SetOK

\* The step to another point of the program alone.
LEMMA MoveOK ==
  ASSUME ControlInv, NEW s \in Scrapers,
         NEW pc \in {"fixed", "cats", "useCats", "useFixed", "refresh", "login"},
         NEW state \in {scrape[s], Idle},
         Set(s, [state EXCEPT !.pc = pc])
  PROVE  scrape' \in [Scrapers -> Scrape] /\ \A t \in Scrapers : ScrapeOK(scrape'[t])
<1>1. state \in Scrape
  BY IdleOK DEF ControlInv, ScrapeOK
<1>2. ScrapeOK([state EXCEPT !.pc = pc])
  BY <1>1 DEF ScrapeOK, Scrape
<1> QED BY <1>2, SetOK

LEMMA ReleaseOK ==
  ASSUME ControlInv, NEW s \in Scrapers, Release(s)
  PROVE  /\ scrape' \in [Scrapers -> Scrape] /\ \A t \in Scrapers : ScrapeOK(scrape'[t])
         /\ isScraping' \in BOOLEAN /\ isManualScraping' \in BOOLEAN
<1>1. Set(s, Idle)
  BY DEF Release
<1>2. isScraping' \in BOOLEAN /\ isManualScraping' \in BOOLEAN
  BY DEF Release
<1> QED BY <1>1, <1>2, IdleOK, SetOK

LEMMA StoreType ==
  ASSUME NEW tab \in [Products -> Row], NEW p \in Products, NEW price \in Price
  PROVE  Store(tab, p, price) \in [Products -> Row]
  BY DEF Store, Row

\* One lemma per action; what an action leaves alone is in its UNCHANGED.
LEMMA InitType == ServiceInit => TypeInv
<1> SUFFICES ASSUME ServiceInit PROVE TypeInv
  OBVIOUS
<1> USE DEF ServiceInit, Init
<1>1. stored \in Versions \ {0} /\ 0 \in 0..MaxFaults
  BY ControlAssumption DEF Versions
<1>2. config \in Settings /\ inUse \in Settings
  BY VersionsIn, LoadedType DEF Settings
<1>3. scrape \in [Scrapers -> Scrape] /\ \A s \in Scrapers : ScrapeOK(scrape[s])
  BY IdleOK DEF ScrapeOK
<1>4. rows \in [Products -> Row]
  BY DEF Row
<1>5. ControlInv
  BY <1>1, <1>2, <1>3, <1>4 DEF ControlInv, TypeOK
<1>6. ImportInv
  <2>1. 1 \in 1..Attempts /\ FirstPage \in Nat /\ <<>> \in Seq(Products \cup {NoSku})
    BY ImportAssumption
  <2> QED BY <2>1 DEF ImportInv, Importer!ImportTypeOK, Importer!ImportInit, Importer!Import
<1> QED BY <1>5, <1>6 DEF TypeInv

LEMMA BootType == ASSUME ControlInv, Boot PROVE ControlInv'
<1>1. stored \in Versions /\ Lists[stored] \in Seq(Categories)
  BY ControlAssumption DEF ControlInv, TypeOK
<1>2. config' \in Settings
  <2>1. CutOff(Lists[stored]) \subseteq Seq(Categories)
    BY <1>1, SubSeqProperties DEF CutOff
  <2>2. CASE config' = Loaded(stored)
    BY <1>1, <2>2, LoadedType
  <2>3. CASE \E part \in CutOff(Lists[stored]) :
               config' = [fixed |-> stored, cats |-> [version |-> stored, list |-> part]]
    BY <1>1, <2>1, <2>3 DEF Settings, Catalogue
  <2>4. CASE \E fixed \in {0, stored} : config' = [fixed |-> fixed, cats |-> Whole(0)]
    BY <1>1, <2>4, VersionsIn, LoadedType DEF Settings
  <2> QED BY <2>2, <2>3, <2>4 DEF Boot
<1>3. inUse' \in Settings
  BY <1>2, VersionsIn DEF Boot, Settings
<1>4. faults' \in 0..MaxFaults
  BY FaultType DEF Boot, ControlInv, TypeOK
<1> QED BY <1>2, <1>3, <1>4 DEF Boot, process, flags, ControlInv, TypeOK

LEMMA ShutdownType == ASSUME ControlInv, Shutdown PROVE ControlInv'
<1>1. faults' \in 0..MaxFaults
  BY FaultType DEF Shutdown, ControlInv
<1> QED BY <1>1 DEF Shutdown, settings, flags, ControlInv, TypeOK

LEMMA ExitType == ASSUME ControlInv, Exit PROVE ControlInv'
<1>1. scrape' \in [Scrapers -> Scrape] /\ \A s \in Scrapers : ScrapeOK(scrape'[s])
  BY IdleOK DEF Exit, ScrapeOK
<1> QED BY <1>1 DEF Exit, settings, ControlInv, TypeOK

LEMMA WorldType ==
  ASSUME ControlInv, updateSettings \/ SessionExpires PROVE ControlInv'
<1>1. CASE updateSettings
  <2>1. stored' \in Versions \ {0}
    BY <1>1, ControlAssumption DEF updateSettings, ControlInv, TypeOK, Versions
  <2> QED BY <1>1, <2>1 DEF updateSettings, process, flags, ControlInv, TypeOK
<1>2. CASE SessionExpires
  <2>1. faults' \in 0..MaxFaults
    BY <1>2, FaultType DEF SessionExpires, ControlInv
  <2> QED BY <1>2, <2>1 DEF SessionExpires, settings, process, flags, ControlInv, TypeOK
<1> QED BY <1>1, <1>2

LEMMA StartType ==
  ASSUME ControlInv, NEW s \in Scrapers, StartScheduled(s) \/ StartManual(s)
  PROVE  ControlInv'
<1>1. CASE StartScheduled(s)
  <2>1. scrape' \in [Scrapers -> Scrape] /\ \A t \in Scrapers : ScrapeOK(scrape'[t])
    BY <1>1, MoveOK DEF StartScheduled
  <2> QED BY <1>1, <2>1 DEF StartScheduled, settings, ControlInv, TypeOK
<1>2. CASE StartManual(s)
  <2>1. scrape' \in [Scrapers -> Scrape] /\ \A t \in Scrapers : ScrapeOK(scrape'[t])
    BY <1>2, MoveOK DEF StartManual
  <2> QED BY <1>2, <2>1 DEF StartManual, settings, process, ControlInv, TypeOK
<1> QED BY <1>1, <1>2

LEMMA ReadFixedCostType ==
  ASSUME ControlInv, NEW s \in Scrapers, ReadFixedCost(s) PROVE ControlInv'
<1>1. scrape' \in [Scrapers -> Scrape] /\ \A t \in Scrapers : ScrapeOK(scrape'[t])
  BY MoveOK DEF ReadFixedCost
<1>2. config' \in Settings
  BY DEF ReadFixedCost, ControlInv, TypeOK, Settings
<1>3. faults' \in 0..MaxFaults
  BY FaultType DEF ReadFixedCost, ControlInv, TypeOK
<1> QED BY <1>1, <1>2, <1>3 DEF ReadFixedCost, process, flags, ControlInv, TypeOK

LEMMA ReadCategoriesType ==
  ASSUME ControlInv, NEW s \in Scrapers, ReadCategories(s) PROVE ControlInv'
<1>1. scrape' \in [Scrapers -> Scrape] /\ \A t \in Scrapers : ScrapeOK(scrape'[t])
  BY MoveOK DEF ReadCategories
<1>2. config' \in Settings
  <2>1. stored \in Versions /\ Lists[stored] \in Seq(Categories)
    BY ControlAssumption DEF ControlInv, TypeOK
  <2>2. CutOff(Lists[stored]) \subseteq Seq(Categories)
    BY <2>1, SubSeqProperties DEF CutOff
  <2>3. \E list \in Seq(Categories) :
          config' \in {config, [config EXCEPT !.cats = [version |-> stored, list |-> list]]}
    BY <2>1, <2>2 DEF ReadCategories, Whole
  <2> QED BY <2>1, <2>3 DEF ControlInv, TypeOK, Settings, Catalogue
<1>3. faults' \in 0..MaxFaults
  BY FaultType DEF ReadCategories, ControlInv, TypeOK
<1> QED BY <1>1, <1>2, <1>3 DEF ReadCategories, process, flags, ControlInv, TypeOK

LEMMA UseType ==
  ASSUME ControlInv, NEW s \in Scrapers, UpdateCategories(s) \/ SetFixedCost(s)
  PROVE  ControlInv'
<1>1. scrape' \in [Scrapers -> Scrape] /\ \A t \in Scrapers : ScrapeOK(scrape'[t])
  BY MoveOK DEF UpdateCategories, SetFixedCost
<1>2. inUse' \in Settings
  BY DEF UpdateCategories, SetFixedCost, ControlInv, TypeOK, Settings
<1> QED BY <1>1, <1>2 DEF UpdateCategories, SetFixedCost, process, flags, ControlInv, TypeOK

LEMMA RefreshSessionType ==
  ASSUME ControlInv, NEW s \in Scrapers, RefreshSession(s) PROVE ControlInv'
<1>1. /\ scrape' \in [Scrapers -> Scrape] /\ \A t \in Scrapers : ScrapeOK(scrape'[t])
      /\ isScraping' \in BOOLEAN /\ isManualScraping' \in BOOLEAN
  BY MoveOK, ReleaseOK DEF RefreshSession, flags, ControlInv, TypeOK
<1>2. faults' \in 0..MaxFaults /\ session' \in BOOLEAN
  BY FaultType DEF RefreshSession, ControlInv, TypeOK
<1> QED BY <1>1, <1>2 DEF RefreshSession, settings, process, ControlInv, TypeOK

LEMMA LoginType ==
  ASSUME ControlInv, NEW s \in Scrapers, Login(s) PROVE ControlInv'
<1>1. PICK seen \in Seen :
         Fetch(s, StartScan(seen.list), IF s \in Scheduled THEN inUse ELSE Idle.conf)
  BY DEF Login
<1>2. StartScan(seen.list) \in Scan
  BY SeenType, StartScanType DEF Catalogue
<1>3. (IF s \in Scheduled THEN inUse ELSE Idle.conf) \in Settings
  BY IdleOK DEF ControlInv, TypeOK, ScrapeOK, Scrape
<1>4. scrape' \in [Scrapers -> Scrape] /\ \A t \in Scrapers : ScrapeOK(scrape'[t])
  BY <1>1, <1>2, <1>3, FetchOK
<1> QED BY <1>4 DEF Login, settings, process, flags, ControlInv, TypeOK

LEMMA PageArrivesType ==
  ASSUME ControlInv, NEW s \in Scrapers, PageArrives(s) PROVE ControlInv'
<1> DEFINE scan == scrape[s].scan
<1>1. PICK seen \in Seen :
         Fetch(s, PartAnswered(scan, CoefficientIn(seen, Category(scan))), scrape[s].conf)
  BY DEF PageArrives
<1>2. scan \in Scan /\ ~Done(scan) /\ scrape[s].conf \in Settings
  BY DEF PageArrives, ControlInv, ScrapeOK, Scrape
<1> DEFINE coeff == CoefficientIn(seen, Category(scan))
<1>3. coeff \in Coefficients
  BY SeenType, CoefficientInType
<1> HIDE DEF scan, coeff
<1>4. PartAnswered(scan, coeff) \in Scan
  BY <1>2, <1>3, PartAnsweredType
<1>5. scrape' \in [Scrapers -> Scrape] /\ \A t \in Scrapers : ScrapeOK(scrape'[t])
  BY <1>1, <1>2, <1>4, FetchOK DEF coeff
<1> QED BY <1>5 DEF PageArrives, settings, process, flags, ControlInv, TypeOK

LEMMA PageFailsType ==
  ASSUME ControlInv, NEW s \in Scrapers, PageFails(s) PROVE ControlInv'
<1>1. scrape[s].scan \in Scan /\ ~Done(scrape[s].scan) /\ scrape[s].conf \in Settings
  BY DEF PageFails, ControlInv, ScrapeOK, Scrape
<1>2. scrape' \in [Scrapers -> Scrape] /\ \A t \in Scrapers : ScrapeOK(scrape'[t])
  BY <1>1, PartFailedType, FetchOK DEF PageFails
<1>3. faults' \in 0..MaxFaults
  BY FaultType DEF PageFails, ControlInv, TypeOK
<1> QED BY <1>2, <1>3 DEF PageFails, settings, process, flags, ControlInv, TypeOK

LEMMA ProcessProductType ==
  ASSUME ControlInv, NEW s \in Scrapers, ProcessProduct(s) PROVE ControlInv'
<1>1. PICK item \in scrape[s].scan.got :
         /\ \/ rows' = Store(rows, item.product, PriceOf(item)) /\ UNCHANGED faults
            \/ Fault /\ UNCHANGED rows
         /\ Set(s, [scrape[s] EXCEPT !.scan.got = @ \ {item}])
  BY DEF ProcessProduct
<1>2. scrape[s] \in Scrape /\ scrape[s].pc = "process"
  BY DEF ProcessProduct, ControlInv, ScrapeOK
<1>3. item \in Item /\ scrape[s].scan \in Scan
  BY <1>2 DEF Scrape, Scan
<1>4. PriceOf(item) \in Price
  BY <1>3 DEF PriceOf, Price, Item, ControlInv, TypeOK, Settings
<1>5. rows' \in [Products -> Row]
  BY <1>1, <1>3, <1>4, StoreType DEF Item, ControlInv, TypeOK
<1>6. ScrapeOK([scrape[s] EXCEPT !.scan.got = @ \ {item}])
  <2>1. [scrape[s].scan EXCEPT !.got = @ \ {item}] \in Scan
    BY <1>3 DEF Scan
  <2> QED BY <1>2, <2>1 DEF ScrapeOK, Scrape
<1>7. scrape' \in [Scrapers -> Scrape] /\ \A t \in Scrapers : ScrapeOK(scrape'[t])
  BY <1>1, <1>6, SetOK
<1>8. faults' \in 0..MaxFaults
  BY <1>1, FaultType DEF ControlInv, TypeOK
<1> QED BY <1>5, <1>7, <1>8 DEF ProcessProduct, settings, process, flags, ControlInv, TypeOK

LEMMA EndType ==
  ASSUME ControlInv, NEW s \in Scrapers, EndProcess(s) \/ Abandon(s) PROVE ControlInv'
<1>1. Release(s) /\ UNCHANGED <<settings, session, process, rows, faults>>
  BY DEF EndProcess, Abandon
<1> QED BY <1>1, ReleaseOK DEF settings, process, ControlInv, TypeOK

LEMMA ShopPageType ==
  ASSUME NEW n \in Nat
  PROVE  Importer!ShopPage(n) \in Seq(Products \cup {NoSku})
<1>1. CASE n \in DOMAIN ShopPages
  <2>1. ShopPages[n] \in Seq(Products \cup {NoSku})
    BY <1>1, ImportAssumption
  <2> QED BY <1>1, <2>1 DEF Importer!ShopPage
<1>2. CASE n \notin DOMAIN ShopPages
  <2>1. <<>> \in Seq(Products \cup {NoSku})
    OBVIOUS
  <2> QED BY <1>2, <2>1 DEF Importer!ShopPage
<1> QED BY <1>1, <1>2

\* The import's place after a row.
LEMMA NextRowType ==
  ASSUME ImportInv, import.pc = "rows"
  PROVE  /\ Importer!NextRow(import) \in Importer!Import
         /\ Importer!NextRow(import).pc = "rows" => Importer!NextRow(import).todo # <<>>
<1> DEFINE todo == import.todo
<1>1. todo \in Seq(Products \cup {NoSku}) /\ todo # <<>> /\ import \in Importer!Import
  BY DEF ImportInv, Importer!ImportTypeOK, Importer!Import
<1>2. /\ Tail(todo) \in Seq(Products \cup {NoSku})
      /\ Len(todo) > 1 => Tail(todo) # <<>>
      /\ <<>> \in Seq(Products \cup {NoSku})
  <2> HIDE DEF todo
  <2>1. Tail(todo) \in Seq(Products \cup {NoSku}) /\ Len(Tail(todo)) = Len(todo) - 1
    BY <1>1, HeadTailProperties
  <2>2. Len(todo) > 1 => Tail(todo) # <<>>
    <3> DEFINE rest == Tail(todo)
    <3>1. Len(todo) \in Nat /\ Len(rest) = Len(todo) - 1
      BY <1>1, <2>1
    <3> HIDE DEF rest
    <3>2. rest = <<>> => Len(rest) = 0
      OBVIOUS
    <3>3. Len(todo) > 1 => rest # <<>>
      BY <3>1, <3>2
    <3> QED BY <3>3 DEF rest
  <2> QED BY <2>1, <2>2
<1>3. import.page + 1 \in Nat
  BY <1>1 DEF Importer!Import
<1>4. CASE Len(todo) > 1
  <2>1. Importer!NextRow(import) = [import EXCEPT !.todo = Tail(todo)]
    BY <1>4 DEF Importer!NextRow
  <2> HIDE DEF todo
  <2> QED BY <1>1, <1>2, <1>4, <2>1 DEF Importer!Import
<1>5. CASE ~(Len(todo) > 1)
  <2>1. Importer!NextRow(import) =
          [import EXCEPT !.pc = "request", !.todo = <<>>, !.page = @ + 1]
    BY <1>5 DEF Importer!NextRow
  <2> QED BY <1>1, <1>2, <1>3, <2>1 DEF Importer!Import
<1> QED BY <1>4, <1>5

LEMMA ImportStepType ==
  ASSUME TypeInv, Importer!ImportStep,
         UNCHANGED <<settings, session, process, flags, scrape>>
  PROVE  TypeInv'
<1> USE DEF settings, process, flags
<1>1. import \in Importer!Import /\ import.page \in Nat
  BY DEF TypeInv, ImportInv, Importer!ImportTypeOK, Importer!Import
<1>2. CASE Importer!PageArrives
  <2> DEFINE page == Importer!ShopPage(import.page)
  <2>1. page \in Seq(Products \cup {NoSku}) /\ 1 \in 1..Attempts
    <3>1. page \in Seq(Products \cup {NoSku})
      BY ONLY ShopPageType, <1>1
    <3>2. 1 \in 1..Attempts
      <4>1. Attempts \in Nat \ {0}
        BY ImportAssumption
      <4> QED BY ONLY <4>1
    <3> QED BY ONLY <3>1, <3>2
  <2>2. import' = IF page = <<>> THEN [import EXCEPT !.pc = "ended"]
                  ELSE [import EXCEPT !.pc = "rows", !.todo = page, !.attempt = 1]
    BY <1>2 DEF Importer!PageArrives
  <2> HIDE DEF page
  <2>3. ImportInv'
    BY <1>1, <2>1, <2>2 DEF ImportInv, Importer!ImportTypeOK, Importer!Import
  <2> QED BY <1>2, <2>3 DEF Importer!PageArrives, TypeInv, ControlInv, TypeOK
<1>3. CASE Importer!PageFails
  <2>1. import.attempt < Attempts => import.attempt + 1 \in 1..Attempts
    BY <1>1, ImportAssumption DEF Importer!Import
  <2>2. ImportInv'
    BY <1>1, <1>3, <2>1 DEF Importer!PageFails, Importer!StopAt, ImportInv, Importer!ImportTypeOK,
                            Importer!Import
  <2> QED BY <1>3, <2>2 DEF Importer!PageFails, TypeInv, ControlInv, TypeOK
<1>4. CASE Importer!SkipRow
  <2>1. ImportInv'
    BY <1>4, NextRowType DEF Importer!SkipRow, TypeInv, ImportInv, Importer!ImportTypeOK
  <2> QED BY <1>4, <2>1 DEF Importer!SkipRow, TypeInv, ControlInv, TypeOK
<1>5. CASE Importer!UpsertRow
  <2> DEFINE p == Head(import.todo)
             next == Importer!NextRow(import)
  <2>1. p \in Products
    BY <1>1, <1>5 DEF Importer!UpsertRow, TypeInv, ImportInv, Importer!Import
  <2>2. import' = [next EXCEPT !.handled = @ \cup {p}] /\ import.pc = "rows"
    BY <1>5 DEF Importer!UpsertRow
  <2>3. next \in Importer!Import /\ (next.pc = "rows" => next.todo # <<>>)
    BY <2>2, NextRowType DEF TypeInv
  <2>4. rows' = Importer!Upsert(rows, p) \/ rows' = rows
    BY <1>5 DEF Importer!UpsertRow
  <2>5. faults' \in 0..MaxFaults
    BY <1>5, ControlAssumption DEF Importer!UpsertRow, TypeInv, ControlInv, TypeOK
  <2> HIDE DEF p, next
  <2>6. ImportInv'
    BY <2>1, <2>2, <2>3 DEF ImportInv, Importer!ImportTypeOK, Importer!Import
  <2>7. rows' \in [Products -> Row]
    BY <2>1, <2>4 DEF Importer!Upsert, Row, TypeInv, ControlInv, TypeOK
  <2> QED BY <2>5, <2>6, <2>7 DEF TypeInv, ControlInv, TypeOK
<1> QED BY <1>2, <1>3, <1>4, <1>5 DEF Importer!ImportStep

LEMMA NextType == TypeInv /\ [Next]_allvars => TypeInv'
<1> SUFFICES ASSUME TypeInv, [Next]_allvars PROVE TypeInv'
  OBVIOUS
<1>1. CASE ControlNext /\ UNCHANGED import
  <2>1. ControlInv'
    BY <1>1, BootType, ShutdownType, ExitType, WorldType, StartType, ReadFixedCostType,
       ReadCategoriesType, UseType, RefreshSessionType, LoginType, PageArrivesType, PageFailsType,
       ProcessProductType, EndType
       DEF ControlNext, ScrapeStep, Scrapers, TypeInv
  <2> QED BY <1>1, <2>1 DEF TypeInv, ImportInv, Importer!ImportTypeOK
<1>2. CASE Importer!ImportStep /\ UNCHANGED <<settings, session, process, flags, scrape>>
  BY <1>2, ImportStepType
<1>3. CASE UNCHANGED allvars
  BY <1>3 DEF allvars, vars, settings, process, flags, TypeInv, ControlInv, TypeOK, ImportInv,
              Importer!ImportTypeOK
<1> QED BY <1>1, <1>2, <1>3 DEF Next

\* The specification is type correct: scans stay inside the loops of FetchProducts,
\* lists and coefficients are of versions that were saved, and the import stays
\* inside its page and its attempts.
THEOREM TypeCorrect == Spec => []ServiceTypeOK
<1>1. TypeInv => ServiceTypeOK
  BY DEF TypeInv, ControlInv, ImportInv, ServiceTypeOK
<1> QED BY <1>1, InitType, NextType, PTL DEF Spec

-----------------------------------------------------------------------------
(* The flags.  RunInv says besides which steps belong to which scrape, and *)
(* that none runs while the process is down.                               *)

Steps(s) ==
    IF s \in Scheduled
    THEN {"idle", "fixed", "cats", "useCats", "useFixed", "login", "fetch", "process"}
    ELSE {"idle", "refresh", "login", "fetch", "process"}

RunInv ==
    /\ OneGuarded
    /\ \A s \in Scrapers : scrape[s].pc \in Steps(s)
    /\ phase = "down" => \A s \in Scrapers : ~Active(s)

LEMMA Kinds == /\ \A s \in Manual : s \notin Scheduled
               /\ Scrapers = Scheduled \cup Manual
  BY ControlAssumption DEF Scrapers

\* A step inside a scrape.
LEMMA RunsOn ==
  ASSUME ControlInv, RunInv, NEW s \in Scrapers, Active(s), NEW state, Set(s, state),
         state.pc \in Steps(s), state.pc # "idle", UNCHANGED <<phase, isScraping, isManualScraping>>
  PROVE  RunInv'
<1>1. \A t \in Scrapers : scrape'[t] = IF t = s THEN state ELSE scrape[t]
  BY DEF Set, ControlInv, TypeOK
<1>2. \A t \in Scrapers : Active(t)' <=> Active(t)
  BY <1>1 DEF Active
<1>3. \A t \in Scrapers : scrape'[t].pc \in Steps(t)
  BY <1>1 DEF RunInv
<1>4. OneGuarded'
  BY <1>2, Kinds DEF RunInv, OneGuarded
<1> QED BY <1>2, <1>3, <1>4 DEF RunInv, Steps

\* The end of a scrape.
LEMMA Ends ==
  ASSUME ControlInv, RunInv, NEW s \in Scrapers, Active(s), Release(s), UNCHANGED phase
  PROVE  RunInv'
<1>1. \A t \in Scrapers : scrape'[t] = IF t = s THEN Idle ELSE scrape[t]
  BY DEF Release, Set, ControlInv, TypeOK
<1>2. Idle.pc = "idle" /\ \A t \in Scrapers : "idle" \in Steps(t)
  BY DEF Idle, Steps
<1>3. \A t \in Scrapers : Active(t)' <=> Active(t) /\ t # s
  BY <1>1, <1>2 DEF Active
<1>4. OneGuarded'
  <2>1. CASE s \in Scheduled
    <3>1. isScraping' = FALSE /\ isManualScraping' = isManualScraping
      BY <2>1, Kinds DEF Release, ControlInv, TypeOK
    <3> QED BY <2>1, <3>1, <1>3, Kinds DEF RunInv, OneGuarded
  <2>2. CASE s \in Manual
    <3>1. isManualScraping' = FALSE /\ isScraping' = isScraping
      BY <2>2, Kinds DEF Release, ControlInv, TypeOK
    <3> QED BY <2>2, <3>1, <1>3, Kinds DEF RunInv, OneGuarded
  <2> QED BY <2>1, <2>2, Kinds
<1>5. \A t \in Scrapers : scrape'[t].pc \in Steps(t)
  BY <1>1, <1>2 DEF RunInv
<1> QED BY <1>3, <1>4, <1>5 DEF RunInv, Steps

\* The start of a scrape.
LEMMA Starts ==
  ASSUME ControlInv, RunInv, NEW s \in Scrapers,
         (StartScheduled(s) /\ s \in Scheduled) \/ (StartManual(s) /\ s \in Manual)
  PROVE  RunInv'
<1>1. CASE StartScheduled(s) /\ s \in Scheduled
  <2>1. \A t \in Scrapers : scrape'[t] = IF t = s THEN [Idle EXCEPT !.pc = "fixed"] ELSE scrape[t]
    BY <1>1 DEF StartScheduled, Set, ControlInv, TypeOK
  <2>2. [Idle EXCEPT !.pc = "fixed"].pc = "fixed"
    BY DEF Idle
  <2>3. \A t \in Scrapers : Active(t)' <=> Active(t) \/ t = s
    BY <2>1, <2>2 DEF Active
  <2>4. /\ isScraping' = TRUE /\ isManualScraping' = isManualScraping
        /\ isScraping = FALSE
    BY <1>1 DEF StartScheduled, Free, ControlInv, TypeOK
  <2>5. OneGuarded'
    BY <1>1, <2>3, <2>4, Kinds DEF RunInv, OneGuarded
  <2>6. \A t \in Scrapers : scrape'[t].pc \in Steps(t)
    BY <1>1, <2>1, <2>2 DEF RunInv, Steps
  <2> QED BY <1>1, <2>5, <2>6 DEF RunInv, Steps, StartScheduled
<1>2. CASE StartManual(s) /\ s \in Manual
  <2>1. \A t \in Scrapers : scrape'[t] = IF t = s THEN [Idle EXCEPT !.pc = "refresh"] ELSE scrape[t]
    BY <1>2 DEF StartManual, Set, ControlInv, TypeOK
  <2>2. [Idle EXCEPT !.pc = "refresh"].pc = "refresh"
    BY DEF Idle
  <2>3. \A t \in Scrapers : Active(t)' <=> Active(t) \/ t = s
    BY <2>1, <2>2 DEF Active
  <2>4. /\ isManualScraping' = TRUE /\ isScraping' = isScraping
        /\ isManualScraping = FALSE
    BY <1>2, Kinds DEF StartManual, Free, ControlInv, TypeOK
  <2>5. OneGuarded'
    BY <1>2, <2>3, <2>4, Kinds DEF RunInv, OneGuarded
  <2>6. \A t \in Scrapers : scrape'[t].pc \in Steps(t)
    BY <1>2, <2>1, <2>2, Kinds DEF RunInv, Steps
  <2> QED BY <1>2, <2>5, <2>6 DEF RunInv, Steps, StartManual, process
<1> QED BY <1>1, <1>2

LEMMA ScrapeStepRuns ==
  ASSUME ControlInv, RunInv, NEW s \in Scrapers, ScrapeStep(s)
  PROVE  RunInv'
<1> USE DEF process, flags
<1>1. scrape[s] \in Scrape /\ scrape[s].pc \in Steps(s)
  BY DEF RunInv, ControlInv, ScrapeOK
<1>2. ASSUME NEW pc \in Steps(s) \ {"idle"}, Set(s, [scrape[s] EXCEPT !.pc = pc]), Active(s),
             UNCHANGED <<phase, isScraping, isManualScraping>>
      PROVE  RunInv'
  <2> DEFINE state == [scrape[s] EXCEPT !.pc = pc]
  <2>1. state.pc = pc
    BY <1>1 DEF Scrape
  <2> HIDE DEF state
  <2>2. Set(s, state) /\ state.pc \in Steps(s) /\ state.pc # "idle"
    BY <1>2, <2>1 DEF state
  <2> QED BY <1>2, <2>2, RunsOn
<1>3. CASE ReadFixedCost(s) \/ ReadCategories(s) \/ UpdateCategories(s) \/ SetFixedCost(s)
  <2>1. \E pc \in {"cats", "useCats", "useFixed", "login"} : Set(s, [scrape[s] EXCEPT !.pc = pc])
    BY <1>3 DEF ReadFixedCost, ReadCategories, UpdateCategories, SetFixedCost
  <2>2. scrape[s].pc \in {"fixed", "cats", "useCats", "useFixed"}
    BY <1>3 DEF ReadFixedCost, ReadCategories, UpdateCategories, SetFixedCost
  <2>3. {"cats", "useCats", "useFixed", "login"} \subseteq Steps(s) \ {"idle"}
    BY <1>1, <2>2 DEF Steps
  <2>4. Active(s) /\ UNCHANGED <<phase, isScraping, isManualScraping>>
    BY <1>3, <2>2 DEF ReadFixedCost, ReadCategories, UpdateCategories, SetFixedCost, Active
  <2> QED BY <1>2, <2>1, <2>3, <2>4
<1>4. CASE RefreshSession(s)
  <2>1. "login" \in Steps(s) \ {"idle"}
    BY DEF Steps
  <2>2. Active(s) /\ UNCHANGED phase
    BY <1>4 DEF RefreshSession, Active
  <2>3. \/ /\ Set(s, [scrape[s] EXCEPT !.pc = "login"])
           /\ UNCHANGED <<isScraping, isManualScraping>>
        \/ Release(s)
    BY <1>4 DEF RefreshSession
  <2> QED BY <1>2, <2>1, <2>2, <2>3, Ends
<1>5. ASSUME NEW scan, NEW conf, Fetch(s, scan, conf), Active(s),
             UNCHANGED <<phase, isScraping, isManualScraping>>
      PROVE  RunInv'
  <2> DEFINE state == [pc |-> IF Done(scan) THEN "process" ELSE "fetch", scan |-> scan,
                       conf |-> conf]
  <2>1. Set(s, state) /\ state.pc \in {"fetch", "process"}
    BY <1>5 DEF Fetch
  <2> HIDE DEF state
  <2>2. state.pc \in Steps(s) /\ state.pc # "idle"
    BY <2>1 DEF Steps
  <2> QED BY <1>5, <2>1, <2>2, RunsOn
<1>6. CASE Login(s) \/ PageArrives(s) \/ PageFails(s)
  <2>1. Active(s) /\ UNCHANGED <<phase, isScraping, isManualScraping>>
    BY <1>6 DEF Login, PageArrives, PageFails, Active
  <2>2. \E scan, conf : Fetch(s, scan, conf)
    BY <1>6 DEF Login, PageArrives, PageFails
  <2> QED BY <1>5, <2>1, <2>2
<1>7. CASE ProcessProduct(s)
  <2>1. PICK item : Set(s, [scrape[s] EXCEPT !.scan.got = @ \ {item}])
    BY <1>7 DEF ProcessProduct
  <2> DEFINE state == [scrape[s] EXCEPT !.scan.got = @ \ {item}]
  <2>2. state.pc = "process" /\ Active(s)
    BY <1>1, <1>7 DEF ProcessProduct, Active, Scrape
  <2> HIDE DEF state
  <2>3. state.pc \in Steps(s) /\ state.pc # "idle"
    BY <2>2 DEF Steps
  <2> QED BY <1>7, <2>1, <2>2, <2>3, RunsOn DEF ProcessProduct, state
<1>8. CASE EndProcess(s) \/ Abandon(s)
  BY <1>8, Ends DEF EndProcess, Abandon, Active
<1> QED BY <1>3, <1>4, <1>6, <1>7, <1>8 DEF ScrapeStep

LEMMA NextRuns == ControlInv /\ RunInv /\ [Next]_allvars => RunInv'
<1> SUFFICES ASSUME ControlInv, RunInv, [Next]_allvars PROVE RunInv'
  OBVIOUS
<1>1. CASE \E s \in Scrapers : ScrapeStep(s)
  BY <1>1, ScrapeStepRuns
<1>2. CASE (\E s \in Scheduled : StartScheduled(s)) \/ (\E s \in Manual : StartManual(s))
  BY <1>2, Starts, Kinds
<1>3. CASE Exit
  <2>1. \A s \in Scrapers : scrape'[s].pc = "idle"
    BY <1>3 DEF Exit, Idle
  <2>2. isScraping' = FALSE /\ isManualScraping' = FALSE
    BY <1>3 DEF Exit
  <2> QED BY <2>1, <2>2, Kinds DEF RunInv, OneGuarded, Active, Steps
<1>4. CASE Boot \/ Shutdown
  <2>1. UNCHANGED <<isScraping, isManualScraping, scrape>> /\ phase' # "down"
    BY <1>4 DEF Boot, Shutdown, flags
  <2> QED BY <2>1 DEF RunInv, OneGuarded, Active, Steps
<1>5. CASE \/ updateSettings \/ SessionExpires \/ UNCHANGED allvars
           \/ UNCHANGED <<settings, session, process, flags, scrape>>
  <2>1. UNCHANGED <<isScraping, isManualScraping, scrape, phase>>
    BY <1>5 DEF updateSettings, SessionExpires, allvars, vars, process, flags
  <2> QED BY <2>1 DEF RunInv, OneGuarded, Active, Steps
<1> QED BY <1>1, <1>2, <1>3, <1>4, <1>5 DEF Next, ControlNext

LEMMA InitRuns == ServiceInit => RunInv
<1> SUFFICES ASSUME ServiceInit PROVE RunInv
  OBVIOUS
<1>1. Idle.pc = "idle"
  BY DEF Idle
<1>2. \A s \in Scrapers : scrape[s].pc = "idle"
  BY <1>1 DEF ServiceInit, Init
<1>3. isScraping = FALSE /\ isManualScraping = FALSE
  BY DEF ServiceInit, Init
<1> QED BY <1>2, <1>3, Kinds DEF RunInv, OneGuarded, Active, Steps

\* A flag is up exactly while its one scrape runs, for any number of buttons
\* pressed, failures and restarts.
THEOREM Guarded == Spec => []OneGuarded
<1>1. TypeInv => ControlInv
  BY DEF TypeInv
<1>2. RunInv => OneGuarded
  BY DEF RunInv
<1> QED BY <1>1, <1>2, InitType, NextType, InitRuns, NextRuns, PTL DEF Spec

-----------------------------------------------------------------------------
(* The configuration of a scheduled scrape.  While it fetches, the other   *)
(* scheduled goroutine is idle, so nobody replaces the list or the fixed   *)
(* cost, and the categories it still has to read are in the list.          *)

Configured(state) ==
    /\ inUse = state.conf
    /\ \A item \in state.scan.got : item.coeff = state.conf.cats.version
    /\ \A i \in DOMAIN state.scan.list : \E k \in DOMAIN state.conf.cats.list :
         state.conf.cats.list[k] = state.scan.list[i]

Fetches(state) == state.pc \in {"fetch", "process"}

ConfigInv == \A s \in Scheduled : Fetches(scrape[s]) => Configured(scrape[s])

\* What a request adds to a scan, and what it takes off its list.
LEMMA NextPartKeeps ==
  ASSUME NEW scan \in Scan, ~Done(scan)
  PROVE  /\ NextPart(scan).got = scan.got /\ NextMainPage(scan).got = scan.got
         /\ NextPart(scan).list \in {scan.list, Tail(scan.list)}
         /\ NextMainPage(scan).list \in {scan.list, Tail(scan.list)}
<1> DEFINE rest == Tail(scan.list)
<1>1. NextMainPage(scan) \in
        {[scan EXCEPT !.main = @ + 1, !.lazy = 0, !.found = FALSE],
         [scan EXCEPT !.list = rest, !.main = 0, !.lazy = 0, !.found = FALSE]}
  BY DEF NextMainPage
<1>2. NextPart(scan) \in {[scan EXCEPT !.lazy = @ + 1], NextMainPage(scan)}
  BY DEF NextPart
<1> HIDE DEF rest
<1>3. /\ NextMainPage(scan).got = scan.got
      /\ NextMainPage(scan).list \in {scan.list, rest}
  BY <1>1 DEF Scan
<1>4. /\ [scan EXCEPT !.lazy = @ + 1].got = scan.got
      /\ [scan EXCEPT !.lazy = @ + 1].list = scan.list
  BY DEF Scan
<1> QED BY <1>2, <1>3, <1>4 DEF rest

LEMMA PartAnsweredKeeps ==
  ASSUME NEW scan \in Scan, ~Done(scan), NEW coeff \in Coefficients
  PROVE  /\ PartAnswered(scan, coeff).got \subseteq scan.got \cup Kept(Part(scan), coeff)
         /\ PartAnswered(scan, coeff).list \in {scan.list, Tail(scan.list)}
<1> DEFINE kept == Kept(Part(scan), coeff)
           next == [scan EXCEPT !.found = TRUE, !.got = @ \cup kept]
<1>1. kept \in SUBSET Item
  BY PartType DEF Kept, Item
<1> HIDE DEF kept
<1>2. next \in Scan /\ ~Done(next) /\ next.got = scan.got \cup kept /\ next.list = scan.list
  BY <1>1 DEF Scan, Done
<1> HIDE DEF next
<1>3. PartAnswered(scan, coeff) = IF Part(scan) = {} THEN NextMainPage(scan) ELSE NextPart(next)
  BY DEF PartAnswered, next, kept
<1> QED BY <1>2, <1>3, NextPartKeeps DEF kept

LEMMA PartFailedKeeps ==
  ASSUME NEW scan \in Scan, ~Done(scan)
  PROVE  /\ PartFailed(scan).got = scan.got
         /\ PartFailed(scan).list \in {scan.list, Tail(scan.list)}
<1> DEFINE next == [scan EXCEPT !.missed = TRUE]
<1>1. next \in Scan /\ ~Done(next) /\ next.got = scan.got /\ next.list = scan.list
  BY DEF Scan, Done
<1> HIDE DEF next
<1>2. PartFailed(scan) = NextPart(next)
  BY DEF PartFailed, next
<1> QED BY <1>1, <1>2, NextPartKeeps

\* What is left of a list is in the list.
LEMMA Shorter ==
  ASSUME NEW list \in Seq(Categories), list # <<>>, NEW conf \in Seq(Categories),
         \A i \in DOMAIN list : \E k \in DOMAIN conf : conf[k] = list[i]
  PROVE  /\ \A i \in DOMAIN Tail(list) : \E k \in DOMAIN conf : conf[k] = Tail(list)[i]
         /\ \E k \in DOMAIN conf : conf[k] = Head(list)
<1>1. Len(list) \in Nat /\ Len(list) > 0 /\ DOMAIN list = 1..Len(list) /\ Head(list) = list[1]
  BY EmptySeq
<1>2. /\ Tail(list) \in Seq(Categories) /\ Len(Tail(list)) = Len(list) - 1
      /\ \A i \in 1..Len(Tail(list)) : Tail(list)[i] = list[i + 1]
  BY HeadTailProperties
<1>3. DOMAIN Tail(list) = 1..Len(Tail(list))
  BY <1>2
<1>4. ASSUME NEW i \in DOMAIN Tail(list) PROVE \E k \in DOMAIN conf : conf[k] = Tail(list)[i]
  <2>1. i + 1 \in DOMAIN list /\ Tail(list)[i] = list[i + 1]
    BY <1>1, <1>2, <1>3
  <2> QED BY <2>1
<1>5. 1 \in DOMAIN list
  BY <1>1
<1> QED BY <1>1, <1>4, <1>5

LEMMA OneScheduled ==
  ASSUME RunInv, NEW s \in Scheduled, NEW t \in Scheduled, Active(s), Active(t)
  PROVE  s = t
  BY DEF RunInv, OneGuarded

\* While a scheduled scrape logs in or fetches, the list is not being replaced.
LEMMA SeenWhole ==
  ASSUME RunInv, NEW s \in Scheduled, scrape[s].pc \in {"login", "fetch"}
  PROVE  Seen = {inUse.cats}
<1>1. \A t \in Scheduled : scrape[t].pc # "useCats"
  BY OneScheduled DEF Active
<1> QED BY <1>1 DEF Seen

\* A step of one scrape that leaves the settings in use alone.
LEMMA StepConfigured ==
  ASSUME ControlInv, ConfigInv, NEW s \in Scrapers, NEW state, Set(s, state), UNCHANGED inUse,
         s \in Scheduled /\ Fetches(state) => Configured(state)
  PROVE  ConfigInv'
<1>1. \A t \in Scheduled : scrape'[t] = IF t = s THEN state ELSE scrape[t]
  BY DEF Set, ControlInv, TypeOK, Scrapers
<1>2. ASSUME NEW t \in Scheduled, Fetches(scrape'[t]) PROVE Configured(scrape[t])'
  <2>1. CASE t = s
    <3>1. Configured(state) /\ scrape'[t] = state
      BY <1>1, <1>2, <2>1
    <3> QED BY <3>1 DEF Configured
  <2>2. CASE t # s
    <3>1. Configured(scrape[t]) /\ scrape'[t] = scrape[t]
      BY <1>1, <1>2, <2>2 DEF ConfigInv
    <3> QED BY <3>1 DEF Configured
  <2> QED BY <2>1, <2>2
<1> QED BY <1>2 DEF ConfigInv, Fetches

LEMMA LoginConfigured ==
  ASSUME ControlInv, RunInv, ConfigInv, NEW s \in Scrapers, Login(s)
  PROVE  ConfigInv'
<1>1. PICK seen \in Seen :
         Fetch(s, StartScan(seen.list), IF s \in Scheduled THEN inUse ELSE Idle.conf)
  BY DEF Login
<1> DEFINE scan == StartScan(seen.list)
           conf == IF s \in Scheduled THEN inUse ELSE Idle.conf
           state == [pc |-> IF Done(scan) THEN "process" ELSE "fetch", scan |-> scan,
                     conf |-> conf]
<1>2. scan.got = {} /\ scan.list = seen.list
  BY DEF StartScan
<1>3. s \in Scheduled => seen = inUse.cats /\ conf = inUse
  BY SeenWhole DEF Login
<1>4. Set(s, state)
  BY <1>1 DEF Fetch
<1> HIDE DEF scan, conf
<1>5. s \in Scheduled => Configured(state)
  BY <1>2, <1>3 DEF Configured
<1> HIDE DEF state
<1>6. UNCHANGED inUse
  BY DEF Login, settings
<1> QED BY <1>4, <1>5, <1>6, StepConfigured

LEMMA PageConfigured ==
  ASSUME ControlInv, RunInv, ConfigInv, NEW s \in Scrapers, PageArrives(s) \/ PageFails(s)
  PROVE  ConfigInv'
<1> DEFINE scan == scrape[s].scan
           conf == scrape[s].conf
<1>1. scan \in Scan /\ ~Done(scan) /\ conf \in Settings /\ scrape[s].pc = "fetch"
  BY DEF PageArrives, PageFails, ControlInv, ScrapeOK, Scrape
<1>2. PICK next : /\ Fetch(s, next, conf)
                  /\ next.list \in {scan.list, Tail(scan.list)}
                  /\ \/ next.got = scan.got
                     \/ \E seen \in Seen : next.got \subseteq
                          scan.got \cup Kept(Part(scan), CoefficientIn(seen, Category(scan)))
  <2>1. CASE PageArrives(s)
    <3>1. PICK seen \in Seen :
            Fetch(s, PartAnswered(scan, CoefficientIn(seen, Category(scan))), conf)
      BY <2>1 DEF PageArrives
    <3> DEFINE coeff == CoefficientIn(seen, Category(scan))
    <3>2. coeff \in Coefficients
      BY SeenType, CoefficientInType
    <3> HIDE DEF coeff, scan, conf
    <3>3. /\ PartAnswered(scan, coeff).got \subseteq scan.got \cup Kept(Part(scan), coeff)
          /\ PartAnswered(scan, coeff).list \in {scan.list, Tail(scan.list)}
      BY <1>1, <3>2, PartAnsweredKeeps
    <3> QED BY <3>1, <3>3 DEF coeff
  <2>2. CASE PageFails(s)
    <3>1. Fetch(s, PartFailed(scan), conf)
      BY <2>2 DEF PageFails
    <3> HIDE DEF scan, conf
    <3> QED BY <1>1, <3>1, PartFailedKeeps
  <2> QED BY <2>1, <2>2
<1> DEFINE state == [pc |-> IF Done(next) THEN "process" ELSE "fetch", scan |-> next,
                     conf |-> conf]
<1>3. Set(s, state)
  BY <1>2 DEF Fetch
<1>4. ASSUME s \in Scheduled PROVE Configured(state)
  <2>1. /\ inUse = conf
        /\ \A item \in scan.got : item.coeff = conf.cats.version
        /\ \A i \in DOMAIN scan.list : \E k \in DOMAIN conf.cats.list :
             conf.cats.list[k] = scan.list[i]
    BY <1>1, <1>4 DEF ConfigInv, Fetches, Configured
  <2>2. Seen = {conf.cats}
    BY <1>1, <1>4, <2>1, SeenWhole
  <2>3. /\ scan.list \in Seq(Categories) /\ scan.list # <<>>
        /\ conf.cats.list \in Seq(Categories)
    BY <1>1 DEF Scan, Done, Settings, Catalogue
  <2> HIDE DEF scan, conf
  <2>4. /\ \A i \in DOMAIN Tail(scan.list) : \E k \in DOMAIN conf.cats.list :
             conf.cats.list[k] = Tail(scan.list)[i]
        /\ \E k \in DOMAIN conf.cats.list : conf.cats.list[k] = Head(scan.list)
    BY <2>1, <2>3, Shorter
  <2>5. CoefficientIn(conf.cats, Category(scan)) = conf.cats.version
    BY <2>4 DEF CoefficientIn, Category
  <2>6. \A item \in next.got : item.coeff = conf.cats.version
    BY <1>2, <2>1, <2>2, <2>5 DEF Kept
  <2>7. \A i \in DOMAIN next.list : \E k \in DOMAIN conf.cats.list :
          conf.cats.list[k] = next.list[i]
    BY <1>2, <2>1, <2>4
  <2> QED BY <2>1, <2>6, <2>7 DEF Configured
<1>5. UNCHANGED inUse
  BY DEF PageArrives, PageFails, settings
<1> HIDE DEF state
<1> QED BY <1>3, <1>4, <1>5, StepConfigured

LEMMA ProcessConfigured ==
  ASSUME ControlInv, ConfigInv, NEW s \in Scrapers, ProcessProduct(s)
  PROVE  ConfigInv'
<1>1. PICK item : Set(s, [scrape[s] EXCEPT !.scan.got = @ \ {item}])
  BY DEF ProcessProduct
<1> DEFINE state == [scrape[s] EXCEPT !.scan.got = @ \ {item}]
<1>2. scrape[s] \in Scrape /\ scrape[s].scan \in Scan /\ scrape[s].pc = "process"
  BY DEF ProcessProduct, ControlInv, ScrapeOK, Scrape
<1>3. /\ state.conf = scrape[s].conf /\ state.scan.list = scrape[s].scan.list
      /\ state.scan.got \subseteq scrape[s].scan.got
  BY <1>2 DEF Scrape, Scan
<1> HIDE DEF state
<1>4. s \in Scheduled => Configured(state)
  BY <1>2, <1>3 DEF ConfigInv, Fetches, Configured
<1>5. UNCHANGED inUse
  BY DEF ProcessProduct, settings
<1> QED BY <1>1, <1>4, <1>5, StepConfigured DEF state

\* Steps to a place outside the fetch.
LEMMA AwayConfigured ==
  ASSUME ControlInv, ConfigInv, NEW s \in Scrapers, NEW state, Set(s, state), UNCHANGED inUse,
         ~Fetches(state)
  PROVE  ConfigInv'
  BY StepConfigured

LEMMA ScrapeStepConfigured ==
  ASSUME ControlInv, RunInv, ConfigInv, NEW s \in Scrapers, ScrapeStep(s)
  PROVE  ConfigInv'
<1>1. scrape[s] \in Scrape /\ scrape[s].pc \in Steps(s)
  BY DEF RunInv, ControlInv, ScrapeOK
<1>2. ASSUME NEW pc \in {"cats", "useCats", "useFixed", "login"}
      PROVE  ~Fetches([scrape[s] EXCEPT !.pc = pc])
  BY <1>1, <1>2 DEF Fetches, Scrape
<1>3. ~Fetches(Idle)
  BY DEF Fetches, Idle
<1>4. CASE ReadFixedCost(s) \/ ReadCategories(s)
  <2>1. \E pc \in {"cats", "useCats", "login"} : Set(s, [scrape[s] EXCEPT !.pc = pc])
    BY <1>4 DEF ReadFixedCost, ReadCategories
  <2>2. UNCHANGED inUse
    BY <1>4 DEF ReadFixedCost, ReadCategories
  <2> QED BY <1>2, <2>1, <2>2, AwayConfigured
<1>5. CASE UpdateCategories(s) \/ SetFixedCost(s)
  <2>1. s \in Scheduled /\ Active(s)
    BY <1>1, <1>5 DEF UpdateCategories, SetFixedCost, Steps, Active
  <2>2. \A t \in Scheduled : t # s => ~Active(t)
    BY <2>1, OneScheduled
  <2>3. PICK pc \in {"useFixed", "login"} : Set(s, [scrape[s] EXCEPT !.pc = pc])
    BY <1>5 DEF UpdateCategories, SetFixedCost
  <2>4. \A t \in Scheduled :
          scrape'[t] = IF t = s THEN [scrape[s] EXCEPT !.pc = pc] ELSE scrape[t]
    BY <2>3 DEF Set, ControlInv, TypeOK, Scrapers
  <2>5. \A t \in Scheduled : ~Fetches(scrape'[t])
    BY <1>2, <2>2, <2>4 DEF Active, Fetches
  <2> QED BY <2>5 DEF ConfigInv, Fetches
<1>6. CASE RefreshSession(s)
  <2>1. Set(s, [scrape[s] EXCEPT !.pc = "login"]) \/ Set(s, Idle)
    BY <1>6 DEF RefreshSession, Release
  <2>2. UNCHANGED inUse
    BY <1>6 DEF RefreshSession, settings
  <2> QED BY <1>2, <1>3, <2>1, <2>2, AwayConfigured
<1>7. CASE EndProcess(s) \/ Abandon(s)
  <2>1. Set(s, Idle) /\ UNCHANGED inUse
    BY <1>7 DEF EndProcess, Abandon, Release, settings
  <2> QED BY <1>3, <2>1, AwayConfigured
<1> QED BY <1>4, <1>5, <1>6, <1>7, LoginConfigured, PageConfigured, ProcessConfigured
        DEF ScrapeStep

LEMMA NextConfigured == ControlInv /\ RunInv /\ ConfigInv /\ [Next]_allvars => ConfigInv'
<1> SUFFICES ASSUME ControlInv, RunInv, ConfigInv, [Next]_allvars PROVE ConfigInv'
  OBVIOUS
<1>1. CASE \E s \in Scrapers : ScrapeStep(s)
  BY <1>1, ScrapeStepConfigured
<1>2. ASSUME NEW s \in Scrapers, StartScheduled(s) \/ StartManual(s) PROVE ConfigInv'
  <2>1. PICK pc \in {"fixed", "refresh"} : Set(s, [Idle EXCEPT !.pc = pc])
    BY <1>2 DEF StartScheduled, StartManual
  <2>2. ~Fetches([Idle EXCEPT !.pc = pc])
    BY DEF Fetches, Idle
  <2>3. UNCHANGED inUse
    BY <1>2 DEF StartScheduled, StartManual, settings
  <2> QED BY <2>1, <2>2, <2>3, AwayConfigured
<1>3. CASE Exit \/ Boot
  <2>1. \A s \in Scheduled : scrape'[s].pc = "idle"
    BY <1>3, Kinds DEF Exit, Boot, Idle, RunInv, Active
  <2> QED BY <2>1 DEF ConfigInv, Fetches
<1>4. CASE \/ Shutdown \/ updateSettings \/ SessionExpires \/ UNCHANGED allvars
           \/ UNCHANGED <<settings, session, process, flags, scrape>>
  <2>1. UNCHANGED <<inUse, scrape>>
    BY <1>4 DEF Shutdown, updateSettings, SessionExpires, allvars, vars, settings
  <2> QED BY <2>1 DEF ConfigInv, Fetches, Configured
<1> QED BY <1>1, <1>2, <1>3, <1>4, Kinds DEF Next, ControlNext

LEMMA InitConfigured == ServiceInit => ConfigInv
<1> SUFFICES ASSUME ServiceInit PROVE ConfigInv
  OBVIOUS
<1>1. \A s \in Scheduled : scrape[s].pc = "idle"
  BY Kinds DEF ServiceInit, Init, Idle
<1> QED BY <1>1 DEF ConfigInv, Fetches

\* A scheduled scrape prices everything by one configuration, whatever lists are
\* saved, cut short or replaced beside it.
THEOREM Configuration == Spec => []OneConfiguration
<1>1. TypeInv => ControlInv
  BY DEF TypeInv
<1>2. ConfigInv => OneConfiguration
  BY DEF ConfigInv, Fetches, Configured, OneConfiguration
<1> QED BY <1>1, <1>2, InitType, NextType, InitRuns, NextRuns, InitConfigured, NextConfigured, PTL
        DEF Spec
=============================================================================
