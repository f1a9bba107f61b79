---------------------------- MODULE SyncPipeline ----------------------------
(***************************************************************************)
(* The whole of the service that cmd/app/main.go wires together: scrapes   *)
(* that detect changes, and the engine that sends them to the shop, over   *)
(* the same tables and in the same process, with its crashes.              *)
(***************************************************************************)
EXTENDS SyncTables

CONSTANTS
    CreateWorkers, UpdateWorkers, CreateFetchLimit, UpdateFetchLimit,
    CreateBatchSize, UpdateBatchSize, Prompt,
    Scrapers, MaxScrapes, MaxChanges

ASSUME PipelineAssumption ==
    /\ CreateWorkers \cap UpdateWorkers = {}
    /\ IsFiniteSet(CreateWorkers) /\ IsFiniteSet(UpdateWorkers)
    /\ CreateFetchLimit \in Nat \ {0} /\ UpdateFetchLimit \in Nat \ {0}
    /\ CreateBatchSize \in Nat \ {0} /\ UpdateBatchSize \in Nat \ {0}
    /\ Prompt \in BOOLEAN
    /\ IsFiniteSet(Scrapers)
    /\ MaxScrapes \in Nat /\ MaxChanges \in Nat

VARIABLES
    turn, claimed, queue, worker,           \* SyncEngine
    source, changes, scrape, scrapes,       \* ChangeDetector
    unqueued    \* history: products whose row has changed since a job was last
                \* inserted for them

Engine == INSTANCE SyncEngine
Detector == INSTANCE ChangeDetector

memory == <<turn, claimed, queue, worker>>
detection == <<source, changes, scrape, scrapes>>
vars == <<jobs, products, woo, faults, crashes, turn, claimed, queue, worker,
          source, changes, scrape, scrapes, unqueued>>

\* Type invariant.
TypeOK ==
    /\ TablesTypeOK /\ Engine!EngineTypeOK /\ Detector!DetectorTypeOK
    /\ unqueued \in SUBSET Products

Init == TablesInit /\ Engine!NoMemory /\ Detector!DetectorInit /\ unqueued = {}

EngineStep ==
    \/ Engine!ClaimJobs \/ Engine!SubmitBatch \/ Engine!RecoverStale
    \/ \E w \in Engine!Workers : Engine!WorkerStep(w)
    \/ \E j \in JobIds : Engine!Tick(j)

DetectorStep ==
    \/ \E p \in Products : Detector!SourceChanges(p)
    \/ \E s \in Scrapers : Detector!FetchProducts(s) \/ Detector!Handle(s)

Restart ==
    Engine!Crash /\ Detector!LoseScrapes /\ UNCHANGED <<source, changes, scrapes>>

Changed == {p \in Products : products'[p].fp # products[p].fp}
Inserted == {jobs'[j].product : j \in {k \in JobIds : jobs[k].state = "ABSENT"}}
Remember == unqueued' = (unqueued \cup Changed) \ Inserted

Next ==
    /\ \/ EngineStep /\ UNCHANGED detection
       \/ DetectorStep /\ UNCHANGED memory
       \/ Restart
    /\ Remember

Spec == Init /\ [][Next]_vars

-----------------------------------------------------------------------------
(* Properties.                                                             *)

JobsOf(p) == {j \in JobIds : jobs[j].product = p}

\* A product row and its create job are inserted together and once, whichever
\* scrapes race for the product and wherever a statement fails or the process
\* dies (the transaction of ProcessScrapedProducts).
OneCreateJobPerRow ==
    \A p \in Products :
        Cardinality({j \in JobsOf(p) : jobs[j].type = "create"})
          = IF Known(products, p) THEN 1 ELSE 0

\* An update job is only ever enqueued for a product whose woo_id is stored, and
\* a stored woo_id is one the shop gave: MapToUpdate has an id to send.
UpdatesHaveATarget ==
    \A j \in JobIds :
        jobs[j].type = "update" =>
            products[jobs[j].product].woo /\ woo[jobs[j].product].price # 0

LastJob(p) == CHOOSE j \in JobsOf(p) : \A k \in JobsOf(p) : k <= j

\* No job of the product is waiting or running, and its last one succeeded.
Settled(p) ==
    /\ Known(products, p)
    /\ \A j \in JobsOf(p) : ~Live(j)
    /\ jobs[LastJob(p)].state = "SUCCESS"

\* A change that got a job reaches the shop: once the last job of a product is
\* SUCCESS and the row has not changed since the job was inserted, the shop has
\* the price of the row.  Scrapes that overlap the engine, jobs that were
\* retried, recovered or lost with a process, failed statements and unanswered
\* calls may come in between: a batch reads the row after its claim and right
\* before the call (processBatch).  This is so as long as no two update workers
\* are between load and call with the same product, hence always with one update
\* worker.  With two, the one that loaded the old content may call last.
QueuedChangesArrive ==
    \A p \in Products \ unqueued : Settled(p) => woo[p].price = products[p].fp

\* Every job lives the life of JobLifecycle in the composed service too: scrapes
\* insert jobs at any time beside the engine, and a restart ends both (CreateJob,
\* ClaimPendingJobs, handleJobFailure, UpdateJobStatus, RecoverStaleJobs).
Lifecycle ==
    INSTANCE JobLifecycle WITH
        Jobs <- JobIds,
        life <- [j \in JobIds |->
                    [state |-> jobs[j].state, retries |-> jobs[j].retries]]

JobsLive == Lifecycle!LifecycleSpec

\* A scrape has written the row of the product and not yet its update job.
BetweenRowAndJob(p) ==
    \E s \in Scrapers : scrape[s].pc = "enqueue" /\ scrape[s].product = p

\* The shop follows the table (README.md: "syncs products from an external
\* source to WooCommerce"): the same without regard to how the row changed, but
\* for the moment in which ProcessScrapedProducts is about to insert the job.
ShopFollowsTable ==
    \A p \in Products :
        Settled(p) /\ ~BetweenRowAndJob(p) => woo[p].price = products[p].fp

\* An update carries the stock as well (the comment above MapToUpdate).
StockArrives ==
    \A p \in Products \ unqueued : Settled(p) => woo[p].stock = products[p].fp

\* Details are fetched once (the comment in ProcessScrapedProducts): the write of
\* a product of the shop that was read with its details fetched, for which none
\* are fetched again, leaves those in the row where they are.
DetailsAreKept ==
    [][\A s \in Scrapers :
         LET p == scrape[s].product IN
         /\ scrape[s].pc = "write"
         /\ scrape[s].found.woo /\ scrape[s].found.fetched
         /\ products[p].detail
         => products'[p].detail]_vars
=============================================================================
