--------------------------- MODULE ChangeDetector ---------------------------
(***************************************************************************)
(* internal/sync/change_detector.go, with the scrapes of main.go that call *)
(* it.  A scrape reads the catalogue of the supplier once and then handles *)
(* the products one by one: it looks the row up, decides from what it read *)
(* whether the product is new, changed or unchanged, and writes.  The      *)
(* scheduled and the manual scrape have separate guards and the test       *)
(* scrape has none, so several run at a time, beside the engine.           *)
(***************************************************************************)
EXTENDS SyncTables

CONSTANTS
    Scrapers,       \* scrapes that may run side by side
    MaxScrapes,     \* bound: scrapes ever started
    MaxChanges      \* bound: changes of the supplier's catalogue

VARIABLES
    source,     \* the version the supplier sells of each product
    changes,    \* catalogue changes so far
    scrape,     \* what each scrape is doing
    scrapes     \* scrapes started so far

detection == <<source, changes, scrape, scrapes>>
vars == <<jobs, products, woo, faults, crashes, source, changes, scrape, scrapes>>

\* list: the versions scraped and not handled yet (0: not in the list);
\* product, version, found: the product in hand, as scraped and as read.
Scrape == [pc : {"idle", "find", "write", "enqueue"},
           list : [Products -> Versions],
           product : Products \cup {NoProduct}, version : Versions,
           found : ProductRow]

Nothing == [p \in Products |-> 0]

Listing(list) ==
    [pc |-> IF list = Nothing THEN "idle" ELSE "find", list |-> list,
     product |-> NoProduct, version |-> 0, found |-> NoRow]

Idle == Listing(Nothing)

DetectorTypeOK ==
    /\ source \in [Products -> 1..MaxVersion]
    /\ changes \in 0..MaxChanges
    /\ scrape \in [Scrapers -> Scrape]
    /\ scrapes \in 0..MaxScrapes

DetectorInit ==
    /\ source = [p \in Products |-> 1]
    /\ changes = 0
    /\ scrape = [s \in Scrapers |-> Idle]
    /\ scrapes = 0

Set(s, state) == scrape' = [scrape EXCEPT ![s] = state]
Skip(s) == Set(s, Listing(scrape[s].list))      \* continue with the next product

-----------------------------------------------------------------------------
(* The supplier, and FetchProducts: a category whose page fails is skipped, *)
(* so a scrape may miss products.                                          *)

SourceChanges(p) ==
    /\ changes < MaxChanges
    /\ changes' = changes + 1
    /\ \E v \in Versions \ {0, source[p]} : source' = [source EXCEPT ![p] = v]
    /\ UNCHANGED <<jobs, products, woo, faults, crashes, scrape, scrapes>>

FetchProducts(s) ==
    /\ scrape[s].pc = "idle"
    /\ scrapes < MaxScrapes
    /\ scrapes' = scrapes + 1
    /\ \E Q \in SUBSET Products \ {{}} :
         Set(s, Listing([p \in Products |-> IF p \in Q THEN source[p] ELSE 0]))
    /\ UNCHANGED <<jobs, products, woo, faults, crashes, source, changes>>

-----------------------------------------------------------------------------
(* ProcessScrapedProducts.                                                 *)

\* Mutant: a row without woo_id counts as an existing product.
IsNewRow(row) == row.fp = 0
IsNew(row) == row.fp = 0 \/ ~row.woo
InHand(s) == scrape[s].product
Row(s) == scrape[s].found

\* FindBySourceID.  An unchanged product gets a new last_scraped_at, which is
\* not modelled, and nothing else.
FindProduct(s) ==
    /\ scrape[s].pc = "find"
    /\ \E p \in Products :
         LET row == products[p]
             version == scrape[s].list[p]
             rest == [scrape[s].list EXCEPT ![p] = 0] IN
         /\ version # 0
         /\ \/ /\ IsNew(row) \/ row.fp # version
               /\ Set(s, [pc |-> "write", list |-> rest, product |-> p,
                          version |-> version, found |-> row])
               /\ UNCHANGED faults
            \/ /\ ~IsNew(row) /\ row.fp = version
               /\ Set(s, Listing(rest))
               /\ UNCHANGED faults
            \/ /\ Fault
               /\ Set(s, Listing(rest))
    /\ UNCHANGED <<jobs, products, woo, crashes, source, changes, scrapes>>

\* GetProductDetailFromPage is called before the write when the product is new
\* or has no details yet, and may fail.
Details(s) == IF IsNew(Row(s)) \/ ~Row(s).fetched THEN BOOLEAN ELSE {FALSE}

Stored(s, got) ==
    UpsertProduct(products, InHand(s), scrape[s].version, got \/ Row(s).fetched, got)

\* Mutant: the job is created whether or not the row was.
WriteNewAlways(s) ==
    LET p == InHand(s) IN
    /\ scrape[s].pc = "write" /\ IsNew(Row(s))
    /\ \/ /\ \E got \in Details(s) :
               products' = UpsertProduct(products, p, scrape[s].version, got, got)
          /\ Room(jobs) /\ jobs' = CreateJob(jobs, p, "create")
          /\ UNCHANGED faults
       \/ Fault /\ UNCHANGED <<jobs, products>>
    /\ Skip(s)
    /\ UNCHANGED <<woo, crashes, source, changes, scrapes>>

\* A product read as new: one transaction writes the row and, if it was not
\* there (someone else may have inserted it meanwhile), its create job.
WriteNew(s) ==
    LET p == InHand(s) IN
    /\ scrape[s].pc = "write" /\ IsNew(Row(s))
    /\ \/ /\ \E got \in Details(s) :
               products' = UpsertProduct(products, p, scrape[s].version, got, got)
          /\ \/ Known(products, p) /\ UNCHANGED jobs
             \/ /\ ~Known(products, p) /\ Room(jobs)
                /\ jobs' = CreateJob(jobs, p, "create")
          /\ UNCHANGED faults
       \/ Fault /\ UNCHANGED <<jobs, products>>
    /\ Skip(s)
    /\ UNCHANGED <<woo, crashes, source, changes, scrapes>>

\* A product read as changed: the row first, and the update job in a statement
\* of its own.
WriteChanged(s) ==
    /\ scrape[s].pc = "write" /\ ~IsNew(Row(s))
    /\ \/ /\ \E got \in Details(s) : products' = Stored(s, got)
          /\ Set(s, [scrape[s] EXCEPT !.pc = "enqueue"])
          /\ UNCHANGED faults
       \/ Fault /\ UNCHANGED products /\ Skip(s)
    /\ UNCHANGED <<jobs, woo, crashes, source, changes, scrapes>>

EnqueueUpdate(s) ==
    /\ scrape[s].pc = "enqueue"
    /\ \/ Room(jobs) /\ jobs' = CreateJob(jobs, InHand(s), "update") /\ UNCHANGED faults
       \/ Fault /\ UNCHANGED jobs
    /\ Skip(s)
    /\ UNCHANGED <<products, woo, crashes, source, changes, scrapes>>

\* The end of the process takes the scrapes with it.
LoseScrapes == scrape' = [s \in Scrapers |-> Idle]

Handle(s) == FindProduct(s) \/ WriteNew(s) \/ WriteChanged(s) \/ EnqueueUpdate(s)

=============================================================================
