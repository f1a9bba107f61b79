--------------------------- MODULE ScrapeControl ----------------------------
(***************************************************************************)
(* The scrapes of cmd/app/main.go and the settings they price by.          *)
(*                                                                         *)
(* The panel (static/panel.go) keeps the settings in the database: a fixed *)
(* cost with a rounding, and a list of categories with their coefficients. *)
(* A scheduled scrape first copies them, in two statements, into the       *)
(* globals of config.go and from there into the scraper client and the     *)
(* normalizer, which the manual scrapes use as they find them.  Settings   *)
(* are versions here; version 0 is what the process has without a          *)
(* database: the environment's fixed cost and the fallback list.           *)
(***************************************************************************)
EXTENDS CatalogueScan, FiniteSets

CONSTANTS
    Starter,        \* the goroutine that calls scrapeFunc 5 seconds after the start
    Ticker,         \* the goroutine that calls it every 2 hours
    Manual,         \* the goroutines of POST /run-scrape
    Lists,          \* the categories of each version of the settings
    MaxSaves,       \* bound: saves in the panel
    MaxFaults,      \* bound: statements, logins and requests that fail, restarts
    Zero, NoPrice   \* the price of an imported row; of no row

Versions == 0..(MaxSaves + 1)
NoCoeff == MaxSaves + 2     \* the category is not in the list: 1.0
Scheduled == {Starter, Ticker}

\* A saved list is not empty: a start that falls back would then save its
\* fallback list (SaveDefaultCategories).
ASSUME ControlAssumption ==
    /\ Starter # Ticker /\ Scheduled \cap Manual = {}
    /\ MaxSaves \in Nat /\ MaxFaults \in Nat
    /\ Lists \in [Versions -> Seq(Categories)]
    /\ \A v \in Versions : Lists[v] # <<>>
    /\ Coefficients = 0..NoCoeff

VARIABLES
    stored,         \* the version in the tables app_settings and categories
    config,         \* config.FixedCost/RoundTo and config.Categories
    inUse,          \* normalizer.fixedCost/roundTo and Client.categories
    session,        \* the supplier takes the client's cookies
    phase,          \* of the process
    started,        \* the 5 seconds after its start are over
    isScraping, isManualScraping,
    scrape,         \* what each goroutine is doing
    rows,           \* products, as far as their prices go
    faults

settings == <<stored, config, inUse>>
process == <<phase, started>>
flags == <<isScraping, isManualScraping>>
vars == <<settings, session, phase, started, flags, scrape, rows, faults>>

Scrapers == Scheduled \cup Manual

\* A list of categories may be a part of the one that was saved.
Catalogue == [version : Versions, list : Seq(Categories)]
Settings == [fixed : Versions, cats : Catalogue]
Price == [coeff : Coefficients, fixed : Versions]
Row == [price : Price \cup {Zero, NoPrice}, fp : Price \cup {Zero, NoPrice}]

\* conf: the settings a scheduled scrape has found in use.
Scrape == [pc : {"idle", "fixed", "cats", "useCats", "useFixed", "refresh",
                 "login", "fetch", "process"},
           conf : Settings, scan : Scan]

\* Type invariant.
TypeOK ==
    /\ stored \in Versions \ {0}
    /\ config \in Settings /\ inUse \in Settings
    /\ session \in BOOLEAN
    /\ phase \in {"up", "stopping", "down"}
    /\ started \in BOOLEAN
    /\ isScraping \in BOOLEAN /\ isManualScraping \in BOOLEAN
    /\ scrape \in [Scrapers -> Scrape]
    /\ rows \in [Products -> Row]
    /\ faults \in 0..MaxFaults

Whole(v) == [version |-> v, list |-> Lists[v]]
Loaded(v) == [fixed |-> v, cats |-> Whole(v)]
Idle == [pc |-> "idle", conf |-> Loaded(0), scan |-> NoScan]
Fault == faults < MaxFaults /\ faults' = faults + 1

-----------------------------------------------------------------------------
(* The start and the end of the process.  config.Load reads the tables as   *)
(* LoadFromDB does, or falls back; the client gets the categories it read, *)
(* the normalizer the fixed cost of the environment.  NewClient logs in.   *)

\* The part of a list that is read before the connection breaks.
CutOff(list) == {SubSeq(list, 1, n) : n \in 0..Len(list)}

Init ==
    /\ stored = 1
    /\ config = Loaded(0) /\ inUse = Loaded(0)
    /\ session = FALSE
    /\ phase = "down" /\ started = FALSE
    /\ isScraping = FALSE /\ isManualScraping = FALSE
    /\ scrape = [s \in Scrapers |-> Idle]
    /\ rows = [p \in Products |-> [price |-> NoPrice, fp |-> NoPrice]]
    /\ faults = 0

Boot ==
    /\ phase = "down"
    /\ \/ config' = Loaded(stored) /\ UNCHANGED faults
       \/ /\ Fault
          /\ \E part \in CutOff(Lists[stored]) :
               config' = [fixed |-> stored, cats |-> [version |-> stored, list |-> part]]
       \/ /\ Fault
          /\ \E fixed \in {0, stored} : config' = [fixed |-> fixed, cats |-> Whole(0)]
    /\ inUse' = [fixed |-> 0, cats |-> config'.cats]
    /\ session' = TRUE
    /\ phase' = "up" /\ started' = FALSE
    /\ UNCHANGED <<stored, flags, scrape, rows>>

\* SIGTERM cancels the context of the scrapes; nothing waits for them.
Shutdown ==
    /\ phase = "up" /\ Fault
    /\ phase' = "stopping"
    /\ UNCHANGED <<settings, session, started, flags, scrape, rows>>

Exit ==
    /\ phase = "stopping"
    /\ phase' = "down"
    /\ isScraping' = FALSE /\ isManualScraping' = FALSE
    /\ scrape' = [s \in Scrapers |-> Idle]
    /\ UNCHANGED <<settings, session, started, rows, faults>>

-----------------------------------------------------------------------------
(* The world outside: the panel saves settings in one transaction, and the *)
(* supplier forgets a session.                                             *)

updateSettings ==
    /\ stored <= MaxSaves
    /\ stored' = stored + 1
    /\ UNCHANGED <<config, inUse, session, process, flags, scrape, rows, faults>>

SessionExpires ==
    /\ session /\ Fault
    /\ session' = FALSE
    /\ UNCHANGED <<settings, process, flags, scrape, rows>>

-----------------------------------------------------------------------------
(* The flags.  A scrape gives its flag back however it ends.               *)

Set(s, state) == scrape' = [scrape EXCEPT ![s] = state]

\* Mutant: the mutex is taken and the flag is not looked at.
FreeAlways(s) == TRUE

Free(s) == IF s \in Scheduled THEN ~isScraping ELSE ~isManualScraping

\* Mutant: the flag of a manual scrape is given back at its regular end only.
ReleaseRegular(s) ==
    /\ Set(s, Idle)
    /\ isScraping' = (isScraping /\ s \notin Scheduled)
    /\ isManualScraping' = (isManualScraping /\ (s \notin Manual \/ scrape[s].pc = "refresh"))

Release(s) ==
    /\ Set(s, Idle)
    /\ isScraping' = (isScraping /\ s \notin Scheduled)
    /\ isManualScraping' = (isManualScraping /\ s \notin Manual)

\* The starter calls once, and before the first tick.
StartScheduled(s) ==
    /\ phase # "down"
    /\ IF s = Starter THEN ~started ELSE started
    /\ started' = TRUE
    /\ scrape[s].pc = "idle" /\ Free(s)
    /\ isScraping' = TRUE
    /\ Set(s, [Idle EXCEPT !.pc = "fixed"])
    /\ UNCHANGED <<settings, session, phase, isManualScraping, rows, faults>>

StartManual(s) ==
    /\ phase # "down"
    /\ scrape[s].pc = "idle" /\ Free(s)
    /\ isManualScraping' = TRUE
    /\ Set(s, [Idle EXCEPT !.pc = "refresh"])
    /\ UNCHANGED <<settings, session, process, isScraping, rows, faults>>

-----------------------------------------------------------------------------
(* LoadFromDB, and what scrapeFunc does with it.  After an error the scrape *)
(* goes on with the settings in use.                                       *)

ReadFixedCost(s) ==
    /\ scrape[s].pc = "fixed"
    /\ \/ /\ config' = [config EXCEPT !.fixed = stored]
          /\ Set(s, [scrape[s] EXCEPT !.pc = "cats"])
          /\ UNCHANGED faults
       \/ Fault /\ Set(s, [scrape[s] EXCEPT !.pc = "login"]) /\ UNCHANGED config
    /\ UNCHANGED <<stored, inUse, session, process, flags, rows>>

\* A list that is cut off while it is read passes for the whole one: the loop
\* over the rows does not ask for their error.
ReadCategories(s) ==
    /\ scrape[s].pc = "cats"
    /\ \/ /\ config' = [config EXCEPT !.cats = Whole(stored)]
          /\ Set(s, [scrape[s] EXCEPT !.pc = "useCats"])
          /\ UNCHANGED faults
       \/ /\ Fault
          /\ \E part \in CutOff(Lists[stored]) :
               config' = [config EXCEPT !.cats = [version |-> stored, list |-> part]]
          /\ Set(s, [scrape[s] EXCEPT !.pc = "useCats"])
       \/ Fault /\ Set(s, [scrape[s] EXCEPT !.pc = "login"]) /\ UNCHANGED config
    /\ UNCHANGED <<stored, inUse, session, process, flags, rows>>

\* RefreshSession holds the client's mutex while a browser logs in.
MutexFree == \A m \in Manual : scrape[m].pc # "refresh"

\* Mutant: the client keeps the list it was made with.
KeepCategories(s) ==
    /\ scrape[s].pc = "useCats" /\ MutexFree
    /\ Set(s, [scrape[s] EXCEPT !.pc = "useFixed"])
    /\ UNCHANGED <<settings, session, process, flags, rows, faults>>

UpdateCategories(s) ==
    /\ scrape[s].pc = "useCats" /\ MutexFree
    /\ inUse' = [inUse EXCEPT !.cats = config.cats]
    /\ Set(s, [scrape[s] EXCEPT !.pc = "useFixed"])
    /\ UNCHANGED <<stored, config, session, process, flags, rows, faults>>

SetFixedCost(s) ==
    /\ scrape[s].pc = "useFixed"
    /\ inUse' = [inUse EXCEPT !.fixed = config.fixed]
    /\ Set(s, [scrape[s] EXCEPT !.pc = "login"])
    /\ UNCHANGED <<stored, config, session, process, flags, rows, faults>>

\* A manual scrape logs in anew, or gives up.
RefreshSession(s) ==
    /\ scrape[s].pc = "refresh"
    /\ \/ /\ session' = TRUE
          /\ Set(s, [scrape[s] EXCEPT !.pc = "login"])
          /\ UNCHANGED <<flags, faults>>
       \/ Fault /\ Release(s) /\ UNCHANGED session
    /\ UNCHANGED <<settings, process, rows>>

-----------------------------------------------------------------------------
(* FetchProducts, and ProcessScrapedProducts as far as prices go.          *)

Prefix(list, other) ==
    SubSeq(list, 1, IF Len(list) < Len(other) THEN Len(list) ELSE Len(other))

\* The client's list as a goroutine finds it that does not hold the mutex: while
\* another one replaces it, the old list, the new one, or the pointer of one with
\* the length of the other.
Seen ==
    LET old == inUse.cats
        new == config.cats IN
    {old} \cup
    IF \E s \in Scheduled : scrape[s].pc = "useCats"
    THEN {new, [old EXCEPT !.list = Prefix(old.list, new.list)],
               [new EXCEPT !.list = Prefix(new.list, old.list)]}
    ELSE {}

Fetch(s, scan, conf) ==
    Set(s, [pc |-> IF Done(scan) THEN "process" ELSE "fetch", scan |-> scan, conf |-> conf])

\* login takes the mutex once; the loop over the categories then fixes its list.
Login(s) ==
    /\ scrape[s].pc = "login" /\ MutexFree
    /\ \E seen \in Seen :
         Fetch(s, StartScan(seen.list), IF s \in Scheduled THEN inUse ELSE Idle.conf)
    /\ UNCHANGED <<settings, session, process, flags, rows, faults>>

Cancelled == phase = "stopping"

\* What fetchPage finds for a category when the page has been answered.
CoefficientIn(catalogue, c) ==
    IF \E i \in DOMAIN catalogue.list : catalogue.list[i] = c
    THEN catalogue.version ELSE NoCoeff

PageArrives(s) ==
    LET scan == scrape[s].scan IN
    /\ scrape[s].pc = "fetch"
    /\ session /\ ~Cancelled
    /\ \E seen \in Seen :
         Fetch(s, PartAnswered(scan, CoefficientIn(seen, Category(scan))), scrape[s].conf)
    /\ UNCHANGED <<settings, session, process, flags, rows, faults>>

\* Without a session the answer is a login page, which is no JSON.
PageFails(s) ==
    LET scan == scrape[s].scan IN
    /\ scrape[s].pc = "fetch" /\ ~Cancelled
    /\ \/ ~session /\ UNCHANGED faults
       \/ session /\ Fault
    /\ Fetch(s, PartFailed(scan), scrape[s].conf)
    /\ UNCHANGED <<settings, session, process, flags, rows>>

\* The products are taken in any order: each is normalised, looked up and, if its
\* fingerprint differs, written.
PriceOf(item) == [coeff |-> item.coeff, fixed |-> inUse.fixed]

Store(tab, p, price) ==
    IF tab[p].fp = price THEN tab ELSE [tab EXCEPT ![p] = [price |-> price, fp |-> price]]

ProcessProduct(s) ==
    /\ scrape[s].pc = "process" /\ ~Cancelled
    /\ \E item \in scrape[s].scan.got :
         /\ \/ rows' = Store(rows, item.product, PriceOf(item)) /\ UNCHANGED faults
            \/ Fault /\ UNCHANGED rows
         /\ Set(s, [scrape[s] EXCEPT !.scan.got = @ \ {item}])
    /\ UNCHANGED <<settings, session, process, flags>>

EndProcess(s) ==
    /\ scrape[s].pc = "process" /\ scrape[s].scan.got = {}
    /\ Release(s)
    /\ UNCHANGED <<settings, session, process, rows, faults>>

\* Once the context is cancelled no request and no statement succeeds: the rest
\* of the scrape changes nothing.
Abandon(s) ==
    /\ scrape[s].pc \in {"fetch", "process"} /\ Cancelled
    /\ Release(s)
    /\ UNCHANGED <<settings, session, process, rows, faults>>

TakesMutex(s) == UpdateCategories(s) \/ Login(s)

ScrapeStep(s) ==
    \/ ReadFixedCost(s) \/ ReadCategories(s) \/ UpdateCategories(s) \/ SetFixedCost(s)
    \/ RefreshSession(s) \/ Login(s) \/ PageArrives(s) \/ PageFails(s)
    \/ ProcessProduct(s) \/ EndProcess(s) \/ Abandon(s)

ControlNext ==
    \/ Boot \/ Shutdown \/ Exit \/ updateSettings \/ SessionExpires
    \/ \E s \in Scheduled : StartScheduled(s)
    \/ \E s \in Manual : StartManual(s)
    \/ \E s \in Scrapers : ScrapeStep(s)

-----------------------------------------------------------------------------
(* Safety properties.                                                      *)

Active(s) == scrape[s].pc # "idle"

\* Each flag is up exactly while a scrape of its kind runs, and at most one of
\* each kind does: no way out of a scrape, failed login or shutdown included,
\* leaves the flag up and so refuses every later scrape (scrapeFunc and the
\* handler of /run-scrape).
OneGuarded ==
    /\ isScraping = (\E s \in Scheduled : Active(s))
    /\ isManualScraping = (\E s \in Manual : Active(s))
    /\ \A s, t \in Scheduled : Active(s) /\ Active(t) => s = t
    /\ \A s, t \in Manual : Active(s) /\ Active(t) => s = t

\* A scheduled scrape prices everything by the one configuration it found when it
\* began to fetch, although client and normalizer belong to all scrapes, their
\* settings are read again for every page and every product, and the client's
\* list is read without its mutex.
OneConfiguration ==
    \A s \in Scheduled : scrape[s].pc \in {"fetch", "process"} =>
        /\ inUse = scrape[s].conf
        /\ \A item \in scrape[s].scan.got : item.coeff = scrape[s].conf.cats.version

\* A scheduled scrape in which no request failed has every product on sale in its
\* categories when it ends, through all main pages and lazy parts, whatever is
\* listed without a price between them.
Complete ==
    [][\A s \in Scheduled :
         LET scan == scrape'[s].scan IN
         scrape[s].pc = "fetch" /\ scrape'[s].pc = "process" /\ ~scan.missed =>
             {item.product : item \in scan.got} = OnSale(scrape[s].conf.cats.list)]_vars
=============================================================================
