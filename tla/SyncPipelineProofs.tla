------------------------- MODULE SyncPipelineProofs -------------------------
(***************************************************************************)
(* What the service promises of its tables and of the shop, for any number *)
(* of products, scrapes, workers, failures and restarts: a row and its     *)
(* create job come together (OneCreateJobPerRow), an update has a target   *)
(* (UpdatesHaveATarget), a change that got a job arrives                   *)
(* (QueuedChangesArrive), and what the engine promises of its jobs it      *)
(* keeps beside the scrapes (OneHolder, TerminalIsFinal, RecordedIsReal,   *)
(* the lifecycle).                                                         *)
(***************************************************************************)
EXTENDS SyncPipeline, TLAPS, FiniteSetTheorems

-----------------------------------------------------------------------------
(* What is proved of SyncEngine, for the engine of the service.            *)

Proved == INSTANCE SyncEngineLifecycle

\* The assumptions of the engine hold of its instance here.
LEMMA EngineAssumed == Proved!TablesAssumption!: /\ Proved!EngineAssumption!:
  BY TablesAssumption, PipelineAssumption DEF IsFiniteSet, Proved!IsFiniteSet

\* The id of a new row: it is free, and no smaller one is.
LEMMA NextIdFree ==
  ASSUME NEW tab, Room(tab)
  PROVE  /\ NextId(tab) \in JobIds /\ tab[NextId(tab)].state = "ABSENT"
         /\ \A k \in 1..(NextId(tab) - 1) : tab[k].state # "ABSENT"
<1>1. Proved!NextId(tab) = NextId(tab) /\ Proved!JobIds = JobIds /\ Proved!Room(tab)
  BY Zenon DEF Proved!NextId, NextId, Proved!JobIds, JobIds, Proved!Room, Room
<1> QED BY <1>1, EngineAssumed, Proved!NextIdFree

-----------------------------------------------------------------------------
(* The invariant.  The rows of sync_jobs keep their columns, an unused row  *)
(* names no product, and a scrape about to write has a product in hand     *)
(* with the version it was scraped with.                                   *)

RowOver(R) ==
    [product : Products \cup {NoProduct}, type : JobTypes,
     state : States \cup {"ABSENT"}, retries : R, due : BOOLEAN]

Shape(tab) ==
    /\ \E R : tab \in [JobIds -> RowOver(R)]
    /\ \A j \in JobIds : tab[j].state = "ABSENT" => tab[j].product = NoProduct

CreateJobs(tab, p) ==
    {j \in JobIds : tab[j].product = p /\ tab[j].type = "create"}

OneEach ==
    \A p \in Products :
        IF Known(products, p) THEN \E j \in JobIds : CreateJobs(jobs, p) = {j}
                              ELSE CreateJobs(jobs, p) = {}

RowsTyped == products \in [Products -> ProductRow]

\* A row that a scrape found is still there: no statement deletes one.
HandsFull(tab, state) ==
    state.pc \in {"write", "enqueue"} =>
        /\ state.product \in Products /\ state.version # 0
        /\ state.found.fp # 0 => Known(tab, state.product)
        /\ state.found.woo => tab[state.product].woo
        /\ state.pc = "enqueue" => state.found.woo

Hands == \A s \in Scrapers : HandsFull(products, scrape[s])

PairInv ==
    /\ Shape(jobs) /\ RowsTyped /\ OneEach
    /\ Detector!DetectorTypeOK /\ Hands

LEMMA PairInvOne == PairInv => OneCreateJobPerRow
<1> SUFFICES ASSUME PairInv, NEW p \in Products
             PROVE  Cardinality({j \in JobsOf(p) : jobs[j].type = "create"})
                      = IF Known(products, p) THEN 1 ELSE 0
  BY DEF OneCreateJobPerRow
<1>1. {j \in JobsOf(p) : jobs[j].type = "create"} = CreateJobs(jobs, p)
  BY DEF JobsOf, CreateJobs
<1>2. CASE Known(products, p)
  <2>1. PICK j \in JobIds : CreateJobs(jobs, p) = {j}
    BY <1>2 DEF PairInv, OneEach
  <2>2. Cardinality({j}) = 1
    BY FS_Singleton
  <2> QED BY <1>1, <1>2, <2>1, <2>2
<1>3. CASE ~Known(products, p)
  <2>1. CreateJobs(jobs, p) = {}
    BY <1>3 DEF PairInv, OneEach
  <2>2. Cardinality({}) = 0
    BY FS_EmptySet
  <2> QED BY <1>1, <1>3, <2>1, <2>2
<1> QED BY <1>2, <1>3

-----------------------------------------------------------------------------
(* The statements.  None but the insertion changes what a job is about.    *)

SameJobs(tab) ==
    \A j \in JobIds : /\ tab[j].product = jobs[j].product /\ tab[j].type = jobs[j].type
                      /\ tab[j].state = "ABSENT" => jobs[j].state = "ABSENT"

\* The row j with another state and another retry count.
LEMMA RowWritten ==
  ASSUME Shape(jobs), NEW id, NEW state \in States, NEW retries, NEW due \in BOOLEAN
  PROVE  LET tab == [jobs EXCEPT ![id].state = state, ![id].retries = retries,
                                 ![id].due = due] IN
         Shape(tab) /\ SameJobs(tab)
<1> DEFINE tab == [jobs EXCEPT ![id].state = state, ![id].retries = retries, ![id].due = due]
<1>1. PICK R : jobs \in [JobIds -> RowOver(R)]
  BY DEF Shape
<1>2. state # "ABSENT"
  BY DEF States
<1>3. tab \in [JobIds -> RowOver(R \cup {retries})]
  <2>1. ASSUME NEW j \in JobIds
        PROVE  jobs[j] \in RowOver(R) /\ jobs[j] \in RowOver(R \cup {retries})
    BY <1>1 DEF RowOver
  <2>2. ASSUME id \in JobIds
        PROVE  [jobs[id] EXCEPT !.state = state, !.retries = retries, !.due = due]
                 \in RowOver(R \cup {retries})
    BY <2>1, <2>2 DEF RowOver
  <2>3. tab = [jobs EXCEPT ![id] =
                 [jobs[id] EXCEPT !.state = state, !.retries = retries, !.due = due]]
    BY <1>1
  <2> HIDE DEF tab
  <2> QED BY <1>1, <2>1, <2>2, <2>3
<1>4. ASSUME NEW j \in JobIds
      PROVE  /\ tab[j].product = jobs[j].product /\ tab[j].type = jobs[j].type
             /\ tab[j].state \in {state, jobs[j].state}
  <2>1. jobs[j] \in RowOver(R)
    BY <1>1
  <2> QED BY <1>1, <2>1 DEF RowOver
<1> HIDE DEF tab
<1>5. Shape(tab)
  BY <1>2, <1>3, <1>4 DEF Shape
<1>6. SameJobs(tab)
  BY <1>2, <1>4 DEF SameJobs
<1> QED BY <1>5, <1>6 DEF tab

\* The row j with no other value for its retry count.
LEMMA RowEnded ==
  ASSUME Shape(jobs), NEW id
  PROVE  Shape(MarkAsDeadLetter(jobs, id)) /\ SameJobs(MarkAsDeadLetter(jobs, id))
<1> DEFINE tab == MarkAsDeadLetter(jobs, id)
<1>1. PICK R : jobs \in [JobIds -> RowOver(R)]
  BY DEF Shape
<1>2. tab \in [JobIds -> RowOver(R)]
  BY <1>1 DEF RowOver, MarkAsDeadLetter, States
<1>3. ASSUME NEW j \in JobIds
      PROVE  /\ tab[j].product = jobs[j].product /\ tab[j].type = jobs[j].type
             /\ tab[j].state \in {"DEAD_LETTER", jobs[j].state}
  <2>1. jobs[j] \in RowOver(R)
    BY <1>1
  <2> QED BY <1>1, <2>1 DEF RowOver, MarkAsDeadLetter
<1> HIDE DEF tab
<1>4. Shape(tab)
  BY <1>2, <1>3 DEF Shape
<1>5. SameJobs(tab)
  BY <1>3 DEF SameJobs
<1> QED BY <1>4, <1>5 DEF tab

LEMMA RowRetried ==
  ASSUME Shape(jobs), NEW id
  PROVE  Shape(ScheduleRetry(jobs, id)) /\ SameJobs(ScheduleRetry(jobs, id))
<1> DEFINE n == jobs[id].retries + 1
           tab == [jobs EXCEPT ![id].state = "PENDING", ![id].retries = n,
                               ![id].due = FALSE]
<1>1. ScheduleRetry(jobs, id) = tab
  BY DEF ScheduleRetry
<1> HIDE DEF n
<1>2. "PENDING" \in States
  BY DEF States
<1>3. Shape(tab) /\ SameJobs(tab)
  BY <1>2, RowWritten
<1> HIDE DEF tab
<1> QED BY <1>1, <1>3

\* Any set of rows given another state, as a claim and a recovery do.
LEMMA RowsMoved ==
  ASSUME Shape(jobs), NEW S, NEW state \in States, NEW due \in BOOLEAN
  PROVE  LET tab == [j \in JobIds |-> IF j \in S
                        THEN [jobs[j] EXCEPT !.state = state, !.due = due]
                        ELSE jobs[j]] IN
         Shape(tab) /\ SameJobs(tab)
<1> DEFINE tab == [j \in JobIds |-> IF j \in S
                      THEN [jobs[j] EXCEPT !.state = state, !.due = due]
                      ELSE jobs[j]]
<1>1. PICK R : jobs \in [JobIds -> RowOver(R)]
  BY DEF Shape
<1>2. state # "ABSENT"
  BY DEF States
<1>3. ASSUME NEW j \in JobIds
      PROVE  /\ tab[j] \in RowOver(R)
             /\ tab[j].product = jobs[j].product /\ tab[j].type = jobs[j].type
             /\ tab[j].state \in {state, jobs[j].state}
  <2>1. jobs[j] \in RowOver(R)
    BY <1>1
  <2> QED BY <2>1 DEF RowOver
<1>4. tab \in [JobIds -> RowOver(R)]
  BY <1>3
<1> HIDE DEF tab
<1>5. Shape(tab)
  BY <1>2, <1>4, <1>3 DEF Shape
<1>6. SameJobs(tab)
  BY <1>2, <1>3 DEF SameJobs
<1> QED BY <1>5, <1>6 DEF tab

LEMMA RowDue ==
  ASSUME Shape(jobs), NEW id \in JobIds
  PROVE  LET tab == [jobs EXCEPT ![id].due = TRUE] IN Shape(tab) /\ SameJobs(tab)
<1> DEFINE tab == [jobs EXCEPT ![id].due = TRUE]
<1>1. PICK R : jobs \in [JobIds -> RowOver(R)]
  BY DEF Shape
<1>2. tab \in [JobIds -> RowOver(R)]
  BY <1>1 DEF RowOver
<1>3. ASSUME NEW j \in JobIds
      PROVE  /\ tab[j].product = jobs[j].product /\ tab[j].type = jobs[j].type
             /\ tab[j].state = jobs[j].state
  <2>1. jobs[j] \in RowOver(R)
    BY <1>1
  <2> QED BY <1>1, <2>1 DEF RowOver
<1> HIDE DEF tab
<1>4. Shape(tab)
  BY <1>2, <1>3 DEF Shape
<1>5. SameJobs(tab)
  BY <1>3 DEF SameJobs
<1> QED BY <1>4, <1>5 DEF tab

LEMMA RowsSame == Shape(jobs) => Shape(jobs) /\ SameJobs(jobs)
  BY DEF SameJobs

\* The insertion: an unused row becomes a job of the product.
LEMMA RowInserted ==
  ASSUME Shape(jobs), Room(jobs), NEW p \in Products, NEW type \in JobTypes
  PROVE  LET tab == CreateJob(jobs, p, type) IN
         /\ Shape(tab) /\ NextId(jobs) \in JobIds
         /\ \A q \in Products :
              CreateJobs(tab, q) =
                CreateJobs(jobs, q) \cup
                  (IF q = p /\ type = "create" THEN {NextId(jobs)} ELSE {})
<1> DEFINE n == NextId(jobs)
           tab == CreateJob(jobs, p, type)
<1>0. NoProduct \notin Products
  BY TablesAssumption
<1>1. PICK R : jobs \in [JobIds -> RowOver(R)]
  BY DEF Shape
<1>2. n \in JobIds /\ jobs[n].state = "ABSENT"
  BY NextIdFree
<1>3. jobs[n].product = NoProduct
  BY <1>2 DEF Shape
<1>4. tab = [jobs EXCEPT ![n] = [product |-> p, type |-> type, state |-> "PENDING",
                                 retries |-> 0, due |-> TRUE]]
  BY DEF CreateJob
<1> HIDE DEF n, tab
<1>5. tab \in [JobIds -> RowOver(R \cup {0})]
  BY <1>1, <1>2, <1>4 DEF RowOver, States
<1>6. /\ tab[n].product = p /\ tab[n].type = type /\ tab[n].state = "PENDING"
      /\ \A j \in JobIds : j # n => tab[j] = jobs[j]
  BY <1>1, <1>2, <1>4
<1>7. Shape(tab)
  BY <1>5, <1>6 DEF Shape
<1>8. ASSUME NEW q \in Products
      PROVE  CreateJobs(tab, q) =
               CreateJobs(jobs, q) \cup
                 (IF q = p /\ type = "create" THEN {n} ELSE {})
  BY <1>0, <1>2, <1>3, <1>6 DEF CreateJobs
<1> QED BY <1>2, <1>7, <1>8 DEF n, tab

-----------------------------------------------------------------------------
(* What the two sides may do to the pairs.                                 *)

\* Nothing: the same jobs for the same products.
Neutral ==
    /\ Shape(jobs') /\ SameJobs(jobs') /\ RowsTyped'
    /\ \A p \in Products : /\ products'[p].fp = products[p].fp
                           /\ products[p].woo => products'[p].woo

LEMMA NeutralKeeps ==
  ASSUME OneEach, Neutral
  PROVE  OneEach'
<1>1. ASSUME NEW p \in Products
      PROVE  CreateJobs(jobs', p) = CreateJobs(jobs, p)
  BY DEF Neutral, SameJobs, CreateJobs
<1>2. ASSUME NEW p \in Products
      PROVE  Known(products', p) <=> Known(products, p)
  BY DEF Neutral, Known
<1>3. ASSUME NEW p \in Products
      PROVE  IF Known(products', p) THEN \E j \in JobIds : CreateJobs(jobs', p) = {j}
                                    ELSE CreateJobs(jobs', p) = {}
  <2>1. IF Known(products, p) THEN \E j \in JobIds : CreateJobs(jobs, p) = {j}
                              ELSE CreateJobs(jobs, p) = {}
    BY DEF OneEach
  <2> QED BY <1>1, <1>2, <2>1
<1> QED BY <1>3 DEF OneEach

LEMMA FailureNeutral ==
  ASSUME Shape(jobs), NEW c
  PROVE  Shape(Engine!Failure(c)) /\ SameJobs(Engine!Failure(c))
  BY RowEnded, RowRetried DEF Engine!Failure, Engine!MarkAsDeadLetter,
     Engine!ScheduleRetry, MarkAsDeadLetter, ScheduleRetry

LEMMA WorkerNeutral ==
  ASSUME Shape(jobs), RowsTyped, NEW w, Engine!WorkerStep(w)
  PROVE  Neutral
<1>1. ASSUME UNCHANGED products PROVE 
             /\ RowsTyped'
             /\ \A p \in Products : /\ products'[p].fp = products[p].fp
                                    /\ products[p].woo => products'[p].woo
  BY <1>1 DEF RowsTyped
<1>2. ASSUME UNCHANGED jobs PROVE Shape(jobs') /\ SameJobs(jobs')
  BY <1>2, RowsSame
<1>3. ASSUME NEW c, Engine!HandleJobFailure(c) PROVE Shape(jobs') /\ SameJobs(jobs')
  BY <1>3, <1>2, FailureNeutral DEF Engine!HandleJobFailure, Engine!Write
<1>4. CASE Engine!TakeTask(w) \/ Engine!LoadProduct(w) \/ Engine!CallWoo(w) \/ Engine!CallFails(w)
  BY <1>1, <1>2, <1>4 DEF Engine!TakeTask, Engine!LoadProduct, Engine!CallWoo, Engine!CallFails, Neutral
<1>5. CASE Engine!LoadFails(w)
  BY <1>1, <1>2, <1>5, FailureNeutral DEF Engine!LoadFails, Neutral
<1>6. CASE Engine!AbortJob(w) \/ Engine!RecordFailure(w)
  BY <1>1, <1>3, <1>6 DEF Engine!AbortJob, Engine!RecordFailure, Neutral
<1>7. CASE Engine!StoreWooId(w)
  <2>1. Shape(jobs') /\ SameJobs(jobs')
    BY <1>2, <1>7 DEF Engine!StoreWooId
  <2>2. CASE UNCHANGED products
    BY <2>1, <2>2, <1>1 DEF Neutral
  <2>3. CASE products' = Engine!UpdateWooID(products, Engine!Current(w))
    BY <2>1, <2>3 DEF Neutral, RowsTyped, ProductRow, Engine!UpdateWooID
  <2> QED BY <1>7, <2>2, <2>3 DEF Engine!StoreWooId
<1>8. CASE Engine!MarkSuccess(w)
  <2> DEFINE c == Engine!Owner(worker[w].items, Engine!Current(w))
  <2>1. /\ Engine!Write(Engine!UpdateJobStatus(jobs, c.id, "SUCCESS", c.retries))
        /\ UNCHANGED products
    BY <1>8 DEF Engine!MarkSuccess
  <2> HIDE DEF c
  <2>2. CASE UNCHANGED jobs
    BY <2>1, <2>2, <1>1, <1>2 DEF Neutral
  <2>3. CASE jobs' = Engine!UpdateJobStatus(jobs, c.id, "SUCCESS", c.retries)
    <3>1. "SUCCESS" \in States
      BY DEF States
    <3>2. jobs' = [jobs EXCEPT ![c.id].state = "SUCCESS", ![c.id].retries = c.retries,
                               ![c.id].due = FALSE]
      BY <2>3 DEF Engine!UpdateJobStatus
    <3>3. Shape(jobs') /\ SameJobs(jobs')
      BY <3>1, <3>2, RowWritten
    <3> QED BY <2>1, <3>3, <1>1 DEF Neutral
  <2> QED BY <2>1, <2>2, <2>3 DEF Engine!Write
<1> QED BY <1>4, <1>5, <1>6, <1>7, <1>8 DEF Engine!WorkerStep

LEMMA EngineNeutral ==
  ASSUME Shape(jobs), RowsTyped, EngineStep \/ Engine!Crash
  PROVE  Neutral
<1>1. ASSUME UNCHANGED products PROVE 
             /\ RowsTyped'
             /\ \A p \in Products : /\ products'[p].fp = products[p].fp
                                    /\ products[p].woo => products'[p].woo
  BY <1>1 DEF RowsTyped
<1>2. ASSUME UNCHANGED jobs PROVE Shape(jobs') /\ SameJobs(jobs')
  BY <1>2, RowsSame
<1>3. "RUNNING" \in States /\ "PENDING" \in States
  BY DEF States
<1>4. CASE Engine!ClaimJobs
  <2>1. PICK S : jobs' = Engine!ClaimPendingJobs(jobs, S)
    BY <1>4 DEF Engine!ClaimJobs
  <2>2. jobs' = [j \in JobIds |-> IF j \in S
                    THEN [jobs[j] EXCEPT !.state = "RUNNING", !.due = FALSE]
                    ELSE jobs[j]]
    BY <2>1 DEF Engine!ClaimPendingJobs, Engine!JobIds, JobIds
  <2>3. Shape(jobs') /\ SameJobs(jobs')
    BY <1>3, <2>2, RowsMoved
  <2> QED BY <1>1, <1>4, <2>3 DEF Engine!ClaimJobs, Neutral
<1>5. CASE Engine!RecoverStale
  <2> DEFINE S == Engine!Stale(jobs)
  <2>2. jobs' = [j \in JobIds |-> IF j \in S
                    THEN [jobs[j] EXCEPT !.state = "PENDING", !.due = FALSE]
                    ELSE jobs[j]]
    BY <1>5 DEF Engine!RecoverStale, Engine!RecoverStaleJobs, Engine!JobIds, JobIds
  <2> HIDE DEF S
  <2>3. Shape(jobs') /\ SameJobs(jobs')
    BY <1>3, <2>2, RowsMoved
  <2> QED BY <1>1, <1>5, <2>3 DEF Engine!RecoverStale, Neutral
<1>6. CASE \E j \in JobIds : Engine!Tick(j)
  <2>1. PICK j \in JobIds : Engine!Tick(j)
    BY <1>6
  <2>2. jobs' = [jobs EXCEPT ![j].due = TRUE] /\ UNCHANGED products
    BY <2>1 DEF Engine!Tick, Engine!Elapse
  <2>3. Shape(jobs') /\ SameJobs(jobs')
    BY <2>2, RowDue
  <2> QED BY <1>1, <2>2, <2>3 DEF Neutral
<1>7. CASE Engine!SubmitBatch \/ Engine!Crash
  BY <1>1, <1>2, <1>7 DEF Engine!SubmitBatch, Engine!Crash, Neutral
<1>8. CASE \E w \in Engine!Workers : Engine!WorkerStep(w)
  BY <1>8, WorkerNeutral
<1> QED BY <1>4, <1>5, <1>6, <1>7, <1>8 DEF EngineStep

-----------------------------------------------------------------------------
(* The scrapes.                                                            *)

\* Rows are only ever added.
Grown ==
    \A p \in Products : /\ Known(products, p) => Known(products', p)
                        /\ products[p].woo => products'[p].woo

LEMMA NewScrape ==
  ASSUME Detector!DetectorTypeOK, Hands, Grown, NEW s \in Scrapers,
         NEW state \in Detector!Scrape, HandsFull(products', state),
         scrape' = [scrape EXCEPT ![s] = state]
  PROVE  scrape' \in [Scrapers -> Detector!Scrape] /\ Hands'
<1>1. scrape \in [Scrapers -> Detector!Scrape]
  BY DEF Detector!DetectorTypeOK
<1>2. ASSUME NEW r \in Scrapers PROVE HandsFull(products', scrape'[r])
  <2>1. CASE r = s
    BY <1>1, <2>1
  <2>2. CASE r # s
    BY <1>1, <2>2 DEF Hands, HandsFull, Grown
  <2> QED BY <2>1, <2>2
<1>3. Hands'
  BY <1>2 DEF Hands
<1> QED BY <1>1, <1>3

LEMMA ListingTyped ==
  ASSUME NEW list \in [Products -> Versions], NEW tab
  PROVE  Detector!Listing(list) \in Detector!Scrape /\ HandsFull(tab, Detector!Listing(list))
<1>1. 0 \in Versions
  BY TablesAssumption DEF Versions
<1>2. NoRow \in ProductRow
  BY <1>1 DEF NoRow, ProductRow
<1> DEFINE pc == IF list = Detector!Nothing THEN "idle" ELSE "find"
<1>3. pc \in {"idle", "find"}
  OBVIOUS
<1>4. Detector!Listing(list) =
        [pc |-> pc, list |-> list, product |-> NoProduct, version |-> 0, found |-> NoRow]
  BY DEF Detector!Listing, NoRow, Detector!NoRow
<1> HIDE DEF pc
<1>5. Detector!Listing(list) \in Detector!Scrape
  BY <1>1, <1>2, <1>3, <1>4 DEF Detector!Scrape, Detector!Versions, Versions,
     Detector!ProductRow, ProductRow
<1>6. HandsFull(tab, Detector!Listing(list))
  BY <1>3, <1>4 DEF HandsFull
<1> QED BY <1>5, <1>6

LEMMA Upserted ==
  ASSUME RowsTyped, NEW p \in Products, NEW version \in Versions \ {0},
         NEW fetched \in BOOLEAN, NEW detail \in BOOLEAN,
         products' = Detector!UpsertProduct(products, p, version, fetched, detail)
  PROVE  /\ RowsTyped' /\ Grown /\ Known(products', p)
         /\ \A q \in Products : q # p => products'[q] = products[q]
         /\ \A q \in Products : products'[q].woo = products[q].woo
<1>1. products' = [products EXCEPT ![p] =
        [fp |-> version, woo |-> products[p].woo,
         fetched |-> fetched \/ products[p].fetched, detail |-> detail]]
  BY DEF Detector!UpsertProduct
<1>2. products[p] \in ProductRow /\ products \in [Products -> ProductRow]
  BY DEF RowsTyped
<1>3. products[p].woo \in BOOLEAN /\ products[p].fetched \in BOOLEAN
  BY <1>2 DEF ProductRow
<1>4. products'[p] = [fp |-> version, woo |-> products[p].woo,
                      fetched |-> fetched \/ products[p].fetched, detail |-> detail]
  BY <1>1, <1>2
<1>5. \A q \in Products : q # p => products'[q] = products[q]
  BY <1>1, <1>2
<1>6. (fetched \/ products[p].fetched) \in BOOLEAN
  BY <1>3
<1>7. products'[p] \in ProductRow
  BY <1>3, <1>4, <1>6 DEF ProductRow
<1>8. RowsTyped'
  BY <1>1, <1>2, <1>4, <1>7 DEF RowsTyped
<1>9. Known(products', p)
  BY <1>4 DEF Known
<1>10. \A q \in Products : products'[q].woo = products[q].woo
  BY <1>4, <1>5
<1>11. Grown
  BY <1>5, <1>9, <1>10 DEF Grown, Known
<1> QED BY <1>5, <1>8, <1>9, <1>10, <1>11

\* What a scrape keeps besides the pairs.
LEMMA ScrapeKept ==
  ASSUME Detector!DetectorTypeOK, NEW s \in Scrapers
  PROVE  /\ scrape[s] \in Detector!Scrape
         /\ scrape[s].list \in [Products -> Versions]
         /\ scrape[s].version \in Versions
         /\ scrape[s].found.fetched \in BOOLEAN
<1>1. scrape[s] \in Detector!Scrape
  BY DEF Detector!DetectorTypeOK
<1>2. scrape[s].found \in Detector!ProductRow
  BY <1>1 DEF Detector!Scrape
<1>3. scrape[s].found.fetched \in BOOLEAN
  BY <1>2 DEF Detector!ProductRow
<1> QED BY <1>1, <1>3 DEF Detector!Scrape, Detector!Versions, Versions

LEMMA FetchKeeps ==
  ASSUME PairInv, NEW s \in Scrapers, Detector!FetchProducts(s)
  PROVE  PairInv'
<1>1. PICK Q \in SUBSET Products :
        Detector!Set(s, Detector!Listing([p \in Products |-> IF p \in Q THEN source[p] ELSE 0]))
  BY DEF Detector!FetchProducts
<1> DEFINE list == [p \in Products |-> IF p \in Q THEN source[p] ELSE 0]
<1>2. list \in [Products -> Versions]
  <2>1. source \in [Products -> 1..MaxVersion]
    BY DEF PairInv, Detector!DetectorTypeOK
  <2> QED BY <2>1, TablesAssumption DEF Versions
<1>3. scrape' = [scrape EXCEPT ![s] = Detector!Listing(list)]
  BY <1>1 DEF Detector!Set
<1> HIDE DEF list
<1>4. Grown /\ UNCHANGED <<jobs, products, source, changes>>
  BY DEF Detector!FetchProducts, Grown
<1>5. scrape' \in [Scrapers -> Detector!Scrape] /\ Hands'
  BY <1>2, <1>3, <1>4, ListingTyped, NewScrape DEF PairInv
<1>6. scrapes' \in 0..MaxScrapes
  BY PipelineAssumption DEF PairInv, Detector!DetectorTypeOK, Detector!FetchProducts
<1>7. Detector!DetectorTypeOK'
  BY <1>4, <1>5, <1>6 DEF PairInv, Detector!DetectorTypeOK
<1>8. OneEach' /\ RowsTyped' /\ Shape(jobs')
  BY <1>4 DEF PairInv, OneEach, RowsTyped
<1> QED BY <1>5, <1>7, <1>8 DEF PairInv

LEMMA SourceKeeps ==
  ASSUME PairInv, NEW p \in Products, Detector!SourceChanges(p)
  PROVE  PairInv'
<1>1. UNCHANGED <<jobs, products, scrape, scrapes>>
  BY DEF Detector!SourceChanges
<1>2. PICK v \in Versions \ {0} : source' = [source EXCEPT ![p] = v]
  BY DEF Detector!SourceChanges, Detector!Versions, Versions
<1>3. source' \in [Products -> 1..MaxVersion]
  BY <1>2, TablesAssumption DEF PairInv, Detector!DetectorTypeOK, Versions
<1>4. changes' \in 0..MaxChanges
  BY PipelineAssumption DEF PairInv, Detector!DetectorTypeOK, Detector!SourceChanges
<1>5. Detector!DetectorTypeOK'
  BY <1>1, <1>3, <1>4 DEF PairInv, Detector!DetectorTypeOK
<1>6. OneEach' /\ RowsTyped' /\ Shape(jobs') /\ Hands'
  BY <1>1 DEF PairInv, OneEach, RowsTyped, Hands
<1> QED BY <1>5, <1>6 DEF PairInv

\* A handling step writes only the tables and its own scrape.
LEMMA HandledTyped ==
  ASSUME PairInv, UNCHANGED <<source, changes, scrapes>>,
         scrape' \in [Scrapers -> Detector!Scrape]
  PROVE  Detector!DetectorTypeOK'
  BY DEF PairInv, Detector!DetectorTypeOK

LEMMA FindKeeps ==
  ASSUME PairInv, NEW s \in Scrapers, Detector!FindProduct(s)
  PROVE  PairInv'
<1>1. UNCHANGED <<jobs, products, source, changes, scrapes>>
  BY DEF Detector!FindProduct
<1>2. Grown
  BY <1>1 DEF Grown
<1>3. PICK p \in Products :
        LET row == products[p]
            version == scrape[s].list[p]
            rest == [scrape[s].list EXCEPT ![p] = 0] IN
        /\ version # 0
        /\ \/ Detector!Set(s, [pc |-> "write", list |-> rest, product |-> p,
                               version |-> version, found |-> row])
           \/ Detector!Set(s, Detector!Listing(rest))
  BY DEF Detector!FindProduct
<1> DEFINE version == scrape[s].list[p]
           rest == [scrape[s].list EXCEPT ![p] = 0]
           hand == [pc |-> "write", list |-> rest, product |-> p,
                    version |-> version, found |-> products[p]]
<1>4. rest \in [Products -> Versions] /\ version \in Versions
  <2>1. 0 \in Versions
    BY TablesAssumption DEF Versions
  <2> QED BY <2>1, ScrapeKept DEF PairInv
<1>5. products[p] \in ProductRow
  BY DEF PairInv, RowsTyped
<1>6. version # 0
  BY <1>3
<1>7. scrape' = [scrape EXCEPT ![s] = hand] \/ scrape' = [scrape EXCEPT ![s] = Detector!Listing(rest)]
  BY <1>3 DEF Detector!Set
<1> HIDE DEF version, rest
<1>8. hand \in Detector!Scrape
  BY <1>4, <1>5 DEF Detector!Scrape, Detector!Versions, Versions, Detector!ProductRow, ProductRow
<1>9. HandsFull(products', hand)
  BY <1>1, <1>6 DEF HandsFull, Known
<1>10. Detector!Listing(rest) \in Detector!Scrape /\ HandsFull(products', Detector!Listing(rest))
  BY <1>4, ListingTyped
<1> HIDE DEF hand
<1>11. scrape' \in [Scrapers -> Detector!Scrape] /\ Hands'
  BY <1>2, <1>7, <1>8, <1>9, <1>10, NewScrape DEF PairInv
<1>12. OneEach' /\ RowsTyped' /\ Shape(jobs')
  BY <1>1 DEF PairInv, OneEach, RowsTyped
<1> QED BY <1>1, <1>11, <1>12, HandledTyped DEF PairInv

LEMMA SkipKeeps ==
  ASSUME PairInv, NEW s \in Scrapers, Detector!Skip(s), Grown
  PROVE  scrape' \in [Scrapers -> Detector!Scrape] /\ Hands'
<1>1. scrape' = [scrape EXCEPT ![s] = Detector!Listing(scrape[s].list)]
  BY DEF Detector!Skip, Detector!Set
<1>2. scrape[s].list \in [Products -> Versions]
  BY ScrapeKept DEF PairInv
<1> QED BY <1>1, <1>2, ListingTyped, NewScrape DEF PairInv

\* Neither table is written.
LEMMA UntouchedPairs ==
  ASSUME PairInv, UNCHANGED <<jobs, products>>
  PROVE  OneEach' /\ RowsTyped' /\ Shape(jobs') /\ Grown
  BY DEF PairInv, OneEach, RowsTyped, Grown

\* The product in hand of a scrape that writes.
LEMMA InHandTyped ==
  ASSUME PairInv, NEW s \in Scrapers, scrape[s].pc \in {"write", "enqueue"}
  PROVE  /\ Detector!InHand(s) \in Products
         /\ scrape[s].version \in Versions \ {0}
         /\ Detector!Row(s).fp # 0 => Known(products, Detector!InHand(s))
         /\ scrape[s].pc = "enqueue" => products[Detector!InHand(s)].woo
  BY ScrapeKept DEF PairInv, Hands, HandsFull, Detector!InHand, Detector!Row

LEMMA WriteNewKeeps ==
  ASSUME PairInv, NEW s \in Scrapers, Detector!WriteNew(s)
  PROVE  PairInv'
<1> DEFINE p == Detector!InHand(s)
           version == scrape[s].version
<1>1. scrape[s].pc = "write"
  BY DEF Detector!WriteNew
<1>2. p \in Products /\ version \in Versions \ {0}
  BY <1>1, InHandTyped
<1>3. Detector!Skip(s) /\ UNCHANGED <<source, changes, scrapes>>
  BY DEF Detector!WriteNew
<1>4. CASE UNCHANGED <<jobs, products>>
  BY <1>3, <1>4, UntouchedPairs, SkipKeeps, HandledTyped DEF PairInv
<1>5. CASE /\ \E got \in Detector!Details(s) :
                 products' = Detector!UpsertProduct(products, p, version, got, got)
           /\ \/ Detector!Known(products, p) /\ UNCHANGED jobs
              \/ /\ ~Detector!Known(products, p) /\ Detector!Room(jobs)
                 /\ jobs' = Detector!CreateJob(jobs, p, "create")
  <2> HIDE DEF p, version
  <2>1. PICK got \in BOOLEAN :
          products' = Detector!UpsertProduct(products, p, version, got, got)
    BY <1>5 DEF Detector!Details
  <2>2. /\ RowsTyped' /\ Grown /\ Known(products', p)
        /\ \A q \in Products : q # p => products'[q] = products[q]
    BY <1>2, <2>1, Upserted DEF PairInv
  <2>3. Shape(jobs') /\ OneEach'
    <3>1. CASE Known(products, p) /\ UNCHANGED jobs
      <4>1. ASSUME NEW q \in Products
            PROVE  Known(products', q) <=> Known(products, q)
        BY <2>2, <3>1 DEF Known
      <4> QED BY <3>1, <4>1 DEF PairInv, OneEach
    <3>2. CASE ~Known(products, p) /\ Room(jobs) /\ jobs' = CreateJob(jobs, p, "create")
      <4>1. "create" \in JobTypes
        BY DEF JobTypes
      <4>2. /\ Shape(jobs') /\ NextId(jobs) \in JobIds
            /\ \A q \in Products :
                 CreateJobs(jobs', q) =
                   CreateJobs(jobs, q) \cup
                     (IF q = p /\ "create" = "create" THEN {NextId(jobs)} ELSE {})
        BY <1>2, <3>2, <4>1, RowInserted DEF PairInv
      <4>3. CreateJobs(jobs, p) = {}
        BY <1>2, <3>2 DEF PairInv, OneEach
      <4>4. CreateJobs(jobs', p) = {NextId(jobs)}
        BY <1>2, <4>2, <4>3
      <4>5. ASSUME NEW q \in Products, q # p
            PROVE  /\ CreateJobs(jobs', q) = CreateJobs(jobs, q)
                   /\ Known(products', q) <=> Known(products, q)
        BY <2>2, <4>2, <4>5 DEF Known
      <4>6. ASSUME NEW q \in Products
            PROVE  IF Known(products', q) THEN \E j \in JobIds : CreateJobs(jobs', q) = {j}
                                          ELSE CreateJobs(jobs', q) = {}
        <5>1. CASE q = p
          BY <2>2, <4>2, <4>4, <5>1
        <5>2. CASE q # p
          BY <4>5, <5>2 DEF PairInv, OneEach
        <5> QED BY <5>1, <5>2
      <4> QED BY <4>2, <4>6 DEF OneEach
    <3> QED BY <1>5, <3>1, <3>2 DEF Detector!Known, Known, Detector!Room, Room,
        Detector!JobIds, JobIds, Detector!CreateJob, CreateJob, Detector!NextId, NextId
  <2> QED BY <1>3, <2>2, <2>3, SkipKeeps, HandledTyped DEF PairInv
<1> QED BY <1>4, <1>5 DEF Detector!WriteNew

\* A changed product has its row, so nothing new is known of.
LEMMA WriteChangedKeeps ==
  ASSUME PairInv, NEW s \in Scrapers, Detector!WriteChanged(s)
  PROVE  PairInv'
<1> DEFINE p == Detector!InHand(s)
           version == scrape[s].version
<1>1. scrape[s].pc = "write" /\ ~Detector!IsNew(Detector!Row(s))
  BY DEF Detector!WriteChanged
<1>2. p \in Products /\ version \in Versions \ {0} /\ Known(products, p)
  BY <1>1, InHandTyped DEF Detector!IsNew
<1>3. UNCHANGED <<jobs, source, changes, scrapes>>
  BY DEF Detector!WriteChanged
<1>4. CASE UNCHANGED products /\ Detector!Skip(s)
  BY <1>3, <1>4, UntouchedPairs, SkipKeeps, HandledTyped DEF PairInv
<1>5. CASE /\ \E got \in Detector!Details(s) : products' = Detector!Stored(s, got)
           /\ Detector!Set(s, [scrape[s] EXCEPT !.pc = "enqueue"])
  <2>1. PICK got \in BOOLEAN : products' = Detector!Stored(s, got)
    BY <1>5 DEF Detector!Details
  <2> DEFINE fetched == got \/ Detector!Row(s).fetched
  <2>2. fetched \in BOOLEAN
    BY ScrapeKept DEF PairInv, Detector!Row
  <2>3. products' = Detector!UpsertProduct(products, p, version, fetched, got)
    BY <2>1 DEF Detector!Stored
  <2> HIDE DEF p, version, fetched
  <2>4. /\ RowsTyped' /\ Grown
        /\ \A q \in Products : q # p => products'[q] = products[q]
        /\ Known(products', p)
    BY <1>2, <2>2, <2>3, Upserted DEF PairInv
  <2>5. ASSUME NEW q \in Products
        PROVE  Known(products', q) <=> Known(products, q)
    BY <1>2, <2>4 DEF Known
  <2>6. OneEach' /\ Shape(jobs')
    BY <1>3, <2>5 DEF PairInv, OneEach
  <2>7. scrape' \in [Scrapers -> Detector!Scrape] /\ Hands'
    <3> DEFINE state == [scrape[s] EXCEPT !.pc = "enqueue"]
    <3>1. scrape' = [scrape EXCEPT ![s] = state]
      BY <1>5 DEF Detector!Set
    <3>2. scrape[s] \in Detector!Scrape
      BY ScrapeKept DEF PairInv
    <3>3. state \in Detector!Scrape
      BY <3>2 DEF Detector!Scrape
    <3>4. state.product = scrape[s].product /\ state.version = scrape[s].version
          /\ state.found = scrape[s].found
      BY <3>2 DEF Detector!Scrape
    <3>5. HandsFull(products, scrape[s])
      BY DEF PairInv, Hands
    <3> HIDE DEF state
    <3>6. HandsFull(products', state)
      BY <1>1, <2>4, <3>4, <3>5 DEF HandsFull, Grown, Detector!IsNew, Detector!Row
    <3> QED BY <2>4, <3>1, <3>3, <3>6, NewScrape DEF PairInv
  <2> QED BY <1>3, <2>4, <2>6, <2>7, HandledTyped DEF PairInv
<1> QED BY <1>4, <1>5 DEF Detector!WriteChanged

LEMMA EnqueueKeeps ==
  ASSUME PairInv, NEW s \in Scrapers, Detector!EnqueueUpdate(s)
  PROVE  PairInv'
<1> DEFINE p == Detector!InHand(s)
<1>1. scrape[s].pc = "enqueue"
  BY DEF Detector!EnqueueUpdate
<1>2. p \in Products
  BY <1>1, InHandTyped
<1>3. Detector!Skip(s) /\ UNCHANGED <<products, source, changes, scrapes>>
  BY DEF Detector!EnqueueUpdate
<1>4. CASE UNCHANGED jobs
  BY <1>3, <1>4, UntouchedPairs, SkipKeeps, HandledTyped DEF PairInv
<1>5. CASE Detector!Room(jobs) /\ jobs' = Detector!CreateJob(jobs, p, "update")
  <2> HIDE DEF p
  <2>1. Room(jobs) /\ jobs' = CreateJob(jobs, p, "update")
    BY <1>5 DEF Detector!Room, Room, Detector!JobIds, JobIds, Detector!CreateJob, CreateJob,
       Detector!NextId, NextId
  <2> DEFINE type == "update"
  <2>2. type \in JobTypes /\ type # "create"
    BY DEF JobTypes
  <2>3. jobs' = CreateJob(jobs, p, type)
    BY <2>1
  <2> HIDE DEF type
  <2>4. /\ Shape(jobs')
        /\ \A q \in Products :
             CreateJobs(jobs', q) =
               CreateJobs(jobs, q) \cup
                 (IF q = p /\ type = "create" THEN {NextId(jobs)} ELSE {})
    BY <1>2, <2>1, <2>2, <2>3, RowInserted DEF PairInv
  <2>5. \A q \in Products : CreateJobs(jobs', q) = CreateJobs(jobs, q)
    BY <2>2, <2>4
  <2>6. OneEach' /\ RowsTyped' /\ Grown
    BY <1>3, <2>5 DEF PairInv, OneEach, RowsTyped, Grown
  <2> QED BY <1>3, <2>4, <2>6, SkipKeeps, HandledTyped DEF PairInv
<1> QED BY <1>4, <1>5 DEF Detector!EnqueueUpdate

-----------------------------------------------------------------------------
(* The invariant.                                                          *)

LEMMA PairInit == Init => PairInv
<1> SUFFICES ASSUME Init PROVE PairInv
  OBVIOUS
<1>1. /\ jobs = [j \in JobIds |-> NoJob] /\ products = [p \in Products |-> NoRow]
  BY DEF Init, TablesInit
<1>2. 0 \in Versions /\ 1 \in 1..MaxVersion /\ NoProduct \notin Products
  BY TablesAssumption DEF Versions
<1>3. Shape(jobs)
  <2>1. NoJob \in RowOver({0})
    BY DEF NoJob, RowOver, JobTypes
  <2>2. jobs \in [JobIds -> RowOver({0})]
    BY <1>1, <2>1
  <2>3. \A j \in JobIds : jobs[j].product = NoProduct
    BY <1>1 DEF NoJob
  <2> QED BY <2>2, <2>3 DEF Shape
<1>4. RowsTyped
  BY <1>1, <1>2 DEF RowsTyped, NoRow, ProductRow
<1>5. OneEach
  <2>1. \A p \in Products : ~Known(products, p) /\ CreateJobs(jobs, p) = {}
    BY <1>1, <1>2 DEF Known, NoRow, CreateJobs, NoJob
  <2> QED BY <2>1 DEF OneEach
<1> DEFINE nothing == Detector!Nothing
<1>6. nothing \in [Products -> Versions]
  BY <1>2 DEF Detector!Nothing
<1>7. Detector!Listing(nothing) \in Detector!Scrape
      /\ HandsFull(products, Detector!Listing(nothing))
  BY <1>6, ListingTyped
<1>8. scrape = [s \in Scrapers |-> Detector!Listing(nothing)]
  BY DEF Init, Detector!DetectorInit, Detector!Idle
<1> HIDE DEF nothing
<1>9. scrape \in [Scrapers -> Detector!Scrape] /\ Hands
  BY <1>7, <1>8 DEF Hands
<1>10. Detector!DetectorTypeOK
  BY <1>2, <1>9, PipelineAssumption DEF Init, Detector!DetectorInit, Detector!DetectorTypeOK
<1> QED BY <1>3, <1>4, <1>5, <1>9, <1>10 DEF PairInv

LEMMA EngineKeeps ==
  ASSUME PairInv, EngineStep, UNCHANGED detection
  PROVE  PairInv'
<1>1. Neutral
  BY EngineNeutral DEF PairInv
<1>2. OneEach' /\ Shape(jobs') /\ RowsTyped'
  BY <1>1, NeutralKeeps DEF PairInv, Neutral
<1>3. UNCHANGED <<source, changes, scrape, scrapes>>
  BY DEF detection
<1>4. Hands'
  BY <1>1, <1>3 DEF PairInv, Neutral, Hands, HandsFull, Known
<1>5. Detector!DetectorTypeOK'
  BY <1>3 DEF PairInv, Detector!DetectorTypeOK
<1> QED BY <1>2, <1>4, <1>5 DEF PairInv

LEMMA RestartKeeps ==
  ASSUME PairInv, Restart
  PROVE  PairInv'
<1>1. Neutral
  BY EngineNeutral DEF PairInv, Restart
<1>2. OneEach' /\ Shape(jobs') /\ RowsTyped'
  BY <1>1, NeutralKeeps DEF PairInv, Neutral
<1> DEFINE nothing == Detector!Nothing
<1>3. nothing \in [Products -> Versions]
  BY TablesAssumption DEF Detector!Nothing, Versions
<1>4. Detector!Listing(nothing) \in Detector!Scrape
      /\ HandsFull(products', Detector!Listing(nothing))
  BY <1>3, ListingTyped
<1>5. scrape' = [s \in Scrapers |-> Detector!Listing(nothing)]
  BY DEF Restart, Detector!LoseScrapes, Detector!Idle
<1> HIDE DEF nothing
<1>6. scrape' \in [Scrapers -> Detector!Scrape] /\ Hands'
  BY <1>4, <1>5 DEF Hands
<1>7. Detector!DetectorTypeOK'
  BY <1>6, HandledTyped DEF Restart, PairInv
<1> QED BY <1>2, <1>6, <1>7 DEF PairInv

LEMMA PairStep == PairInv /\ [Next]_vars => PairInv'
<1> SUFFICES ASSUME PairInv, [Next]_vars PROVE PairInv'
  OBVIOUS
<1>1. CASE EngineStep /\ UNCHANGED detection
  BY <1>1, EngineKeeps
<1>2. CASE DetectorStep
  <2>1. CASE \E p \in Products : Detector!SourceChanges(p)
    BY <2>1, SourceKeeps
  <2>2. CASE \E s \in Scrapers : Detector!FetchProducts(s)
    BY <2>2, FetchKeeps
  <2>3. CASE \E s \in Scrapers : Detector!Handle(s)
    BY <2>3, FindKeeps, WriteNewKeeps, WriteChangedKeeps, EnqueueKeeps DEF Detector!Handle
  <2> QED BY <1>2, <2>1, <2>2, <2>3 DEF DetectorStep
<1>3. CASE Restart
  BY <1>3, RestartKeeps
<1>4. CASE UNCHANGED vars
  <2>1. UNCHANGED <<jobs, products, source, changes, scrape, scrapes>>
    BY <1>4 DEF vars
  <2> QED BY <2>1 DEF PairInv, OneEach, RowsTyped, Hands, Detector!DetectorTypeOK
<1> QED BY <1>1, <1>2, <1>3, <1>4 DEF Next

\* A product row and its create job are inserted together and once, for any
\* number of products, of scrapes at a time, of failed statements and of
\* restarts (the transaction of ProcessScrapedProducts).
THEOREM OneCreateJob == Spec => []OneCreateJobPerRow
<1>1. Spec => []PairInv
  BY PairInit, PairStep, PTL DEF Spec
<1> QED BY <1>1, PairInvOne, PTL

-----------------------------------------------------------------------------
(* What the tables record, with the scrapes beside the engine.  The steps  *)
(* of the engine are those of SyncEngine, so that what is proved of them   *)
(* there can be used here.                                                 *)

LEMMA SameWorker ==
  ASSUME NEW w, Engine!WorkerStep(w)
  PROVE  Proved!WorkerStep(w)
<1>1. ASSUME Engine!TakeTask(w) PROVE Proved!TakeTask(w)
  BY <1>1, Zenon DEF Engine!TakeTask, Proved!TakeTask, Engine!TypeOf, Proved!TypeOf,
     Engine!Loading, Proved!Loading, Engine!NoWork, Proved!NoWork
<1>2. ASSUME Engine!LoadProduct(w) PROVE Proved!LoadProduct(w)
  BY <1>2, Zenon DEF Engine!LoadProduct, Proved!LoadProduct,
     Engine!Loading, Proved!Loading, Engine!NoWork, Proved!NoWork
<1>3. ASSUME NEW c PROVE Engine!Failure(c) = Proved!Failure(c)
  BY Zenon DEF Engine!Failure, Proved!Failure, Engine!MarkAsDeadLetter,
     Proved!MarkAsDeadLetter, Engine!ScheduleRetry, Proved!ScheduleRetry
<1>4. ASSUME Engine!LoadFails(w) PROVE Proved!LoadFails(w)
  BY <1>3, <1>4, Zenon DEF Engine!LoadFails, Proved!LoadFails, Engine!Fault, Proved!Fault,
     Engine!Loading, Proved!Loading, Engine!NoWork, Proved!NoWork
<1>5. ASSUME Engine!CallWoo(w) PROVE Proved!CallWoo(w)
  BY <1>5, Zenon DEF Engine!CallWoo, Proved!CallWoo, Engine!Answers, Proved!Answers,
     Engine!MustRefuse, Proved!MustRefuse, Engine!TypeOf, Proved!TypeOf,
     Engine!Accepted, Proved!Accepted, Engine!Positions, Proved!Positions,
     Engine!SetsStock, Proved!SetsStock, Engine!Last, Proved!Last,
     Engine!Results, Proved!Results, Engine!NoWork, Proved!NoWork,
     Engine!Unsuccessful, Proved!Unsuccessful, Engine!ProductsOf, Proved!ProductsOf,
     Engine!SKUToWooID, Proved!SKUToWooID, Engine!FailedIDs, Proved!FailedIDs
<1>6. ASSUME Engine!CallFails(w) PROVE Proved!CallFails(w)
  BY <1>6, Zenon DEF Engine!CallFails, Proved!CallFails, Engine!Answers, Proved!Answers,
     Engine!MustRefuse, Proved!MustRefuse, Engine!TypeOf, Proved!TypeOf,
     Engine!Accepted, Proved!Accepted, Engine!Positions, Proved!Positions,
     Engine!SetsStock, Proved!SetsStock, Engine!Last, Proved!Last, Engine!Fault,
     Proved!Fault, Engine!Aborting, Proved!Aborting, Engine!NoWork, Proved!NoWork,
     Engine!ProductsOf, Proved!ProductsOf
<1>7. ASSUME NEW items, NEW S
      PROVE  /\ Engine!Results(items, S) = Proved!Results(items, S)
             /\ Engine!Aborting(items, S) = Proved!Aborting(items, S)
  BY Zenon DEF Engine!Results, Proved!Results, Engine!Aborting, Proved!Aborting,
     Engine!NoWork, Proved!NoWork
<1>8. ASSUME NEW items, NEW p PROVE Engine!Owner(items, p) = Proved!Owner(items, p)
  BY Zenon DEF Engine!Owner, Proved!Owner, Engine!Positions, Proved!Positions,
     Engine!Last, Proved!Last
<1>9. ASSUME NEW c, Engine!HandleJobFailure(c) PROVE Proved!HandleJobFailure(c)
  BY <1>3, <1>9, Zenon DEF Engine!HandleJobFailure, Proved!HandleJobFailure,
     Engine!Write, Proved!Write, Engine!Fault, Proved!Fault
<1>10. ASSUME Engine!AbortJob(w) PROVE Proved!AbortJob(w)
  BY <1>7, <1>8, <1>9, <1>10, Zenon DEF Engine!AbortJob, Proved!AbortJob
<1>11. /\ Engine!Current(w) = Proved!Current(w)
       /\ Engine!Refused(w) <=> Proved!Refused(w)
  BY Zenon DEF Engine!Current, Proved!Current, Engine!Refused, Proved!Refused
<1>12. ASSUME Engine!NextItem(w) PROVE Proved!NextItem(w)
  BY <1>7, <1>12, Zenon DEF Engine!NextItem, Proved!NextItem
<1>13. ASSUME Engine!RecordFailure(w) PROVE Proved!RecordFailure(w)
  BY <1>8, <1>9, <1>11, <1>12, <1>13, Zenon DEF Engine!RecordFailure, Proved!RecordFailure
<1>14. ASSUME Engine!StoreWooId(w) PROVE Proved!StoreWooId(w)
  BY <1>11, <1>14, Zenon DEF Engine!StoreWooId, Proved!StoreWooId, Engine!UpdateWooID,
     Proved!UpdateWooID, Engine!Fault, Proved!Fault
<1>15. ASSUME Engine!MarkSuccess(w) PROVE Proved!MarkSuccess(w)
  BY <1>8, <1>11, <1>12, <1>15, Zenon DEF Engine!MarkSuccess, Proved!MarkSuccess,
     Engine!Write, Proved!Write, Engine!Fault, Proved!Fault, Engine!UpdateJobStatus,
     Proved!UpdateJobStatus
<1> QED
  BY <1>1, <1>2, <1>4, <1>5, <1>6, <1>10, <1>13, <1>14, <1>15, Zenon
  DEF Engine!WorkerStep, Proved!WorkerStep

LEMMA SameEngine ==
  ASSUME EngineStep \/ Engine!Crash
  PROVE  Proved!EngineNext
<1>1. ASSUME Engine!ClaimJobs PROVE Proved!ClaimJobs
  BY <1>1, Zenon DEF Engine!ClaimJobs, Proved!ClaimJobs, Engine!Claimable, Proved!Claimable,
     Engine!AtMost, Proved!AtMost, Engine!FetchLimit, Proved!FetchLimit,
     Engine!ClaimPendingJobs, Proved!ClaimPendingJobs, Engine!Snapshot, Proved!Snapshot,
     Engine!Fault, Proved!Fault, Engine!Other, Proved!Other, Engine!JobIds, Proved!JobIds,
     Engine!Cardinality, Proved!Cardinality
<1>2. ASSUME Engine!SubmitBatch PROVE Proved!SubmitBatch
  BY <1>2, Zenon DEF Engine!SubmitBatch, Proved!SubmitBatch, Engine!Other, Proved!Other,
     Engine!AtMost, Proved!AtMost, Engine!BatchSize, Proved!BatchSize,
     Engine!Capacity, Proved!Capacity, Engine!PoolOf, Proved!PoolOf,
     Engine!Cardinality, Proved!Cardinality
<1>3. ASSUME Engine!RecoverStale PROVE Proved!RecoverStale
  BY <1>3, Zenon DEF Engine!RecoverStale, Proved!RecoverStale, Engine!Stale, Proved!Stale,
     Engine!RecoverStaleJobs, Proved!RecoverStaleJobs, Engine!JobIds, Proved!JobIds
<1>4. ASSUME NEW j \in JobIds, Engine!Tick(j) PROVE j \in Proved!JobIds /\ Proved!Tick(j)
  <2>1. Engine!Held(j) <=> Proved!Held(j)
    BY Zenon DEF Engine!Held, Proved!Held, Engine!JobTypes, Proved!JobTypes,
       Engine!Workers, Proved!Workers, Engine!ClaimsOf, Proved!ClaimsOf, Engine!Unrecorded,
       Proved!Unrecorded, Engine!ProductsOf, Proved!ProductsOf, Engine!Owner, Proved!Owner,
       Engine!Positions, Proved!Positions, Engine!Last, Proved!Last
  <2> QED BY <1>4, <2>1, Zenon DEF Engine!Tick, Proved!Tick, Engine!Elapse, Proved!Elapse,
             Engine!Live, Proved!Live, Engine!memory, Proved!memory, JobIds, Proved!JobIds
<1>5. ASSUME Engine!Crash PROVE Proved!Crash
  BY <1>5, Zenon DEF Engine!Crash, Proved!Crash, Engine!JobTypes, Proved!JobTypes,
     Engine!Workers, Proved!Workers, Engine!NoWork, Proved!NoWork
<1>6. Engine!Workers = Proved!Workers
  BY Zenon DEF Engine!Workers, Proved!Workers
<1> QED
  BY <1>1, <1>2, <1>3, <1>4, <1>5, <1>6, SameWorker, Zenon
  DEF EngineStep, Proved!EngineNext

\* A scrape writes rows that keep their woo_id, and inserts a job for a product that
\* has a row, an update only for one that has its woo_id.
Written ==
    /\ RowsTyped' /\ Grown /\ UNCHANGED <<woo, crashes>> /\ faults' \in 0..MaxFaults
    /\ \A q \in Products : products'[q].woo = products[q].woo
    /\ \/ UNCHANGED jobs
       \/ \E p \in Products, type \in JobTypes :
            /\ Room(jobs) /\ jobs' = CreateJob(jobs, p, type)
            /\ Known(products', p)
            /\ type = "update" => products'[p].woo

LEMMA DetectorWrites ==
  ASSUME PairInv, Proved!RecordInv, DetectorStep
  PROVE  Written
<1>1. faults \in 0..MaxFaults
  BY DEF Proved!RecordInv, Proved!TypeInv, Proved!TypeOK, Proved!TablesTypeOK
<1>2. ASSUME Detector!Fault \/ UNCHANGED faults PROVE faults' \in 0..MaxFaults
  BY <1>1, <1>2, TablesAssumption DEF Detector!Fault
<1>3. ASSUME UNCHANGED <<jobs, products, woo, crashes>>, faults' \in 0..MaxFaults
      PROVE  Written
  BY <1>3 DEF Written, PairInv, RowsTyped, Grown
<1>4. ASSUME NEW p \in Products, Detector!SourceChanges(p) PROVE Written
  BY <1>2, <1>3, <1>4 DEF Detector!SourceChanges
<1>5. ASSUME NEW s \in Scrapers, Detector!FetchProducts(s) PROVE Written
  BY <1>2, <1>3, <1>5 DEF Detector!FetchProducts
<1>6. ASSUME NEW s \in Scrapers, Detector!FindProduct(s) PROVE Written
  BY <1>2, <1>3, <1>6 DEF Detector!FindProduct
<1>7. ASSUME NEW s \in Scrapers, Detector!WriteNew(s) PROVE Written
  <2> DEFINE p == Detector!InHand(s)
  <2>1. /\ p \in Products /\ scrape[s].version \in Versions \ {0}
        /\ UNCHANGED <<woo, crashes>> /\ faults' \in 0..MaxFaults
    BY <1>2, <1>7, InHandTyped DEF Detector!WriteNew
  <2>2. CASE UNCHANGED <<jobs, products>>
    BY <1>3, <2>1, <2>2
  <2>3. CASE ~UNCHANGED <<jobs, products>>
    <3>1. PICK got \in BOOLEAN :
            products' = Detector!UpsertProduct(products, p, scrape[s].version, got, got)
      BY <1>7, <2>3 DEF Detector!WriteNew, Detector!Details
    <3>2. /\ RowsTyped' /\ Grown /\ Known(products', p)
          /\ \A q \in Products : products'[q].woo = products[q].woo
      BY <2>1, <3>1, Upserted DEF PairInv
    <3>3. \/ UNCHANGED jobs
          \/ Room(jobs) /\ jobs' = CreateJob(jobs, p, "create")
      BY <1>7 DEF Detector!WriteNew, Detector!Room, Room, Detector!JobIds, JobIds,
         Detector!CreateJob, CreateJob, Detector!NextId, NextId
    <3>4. "create" \in JobTypes
      BY DEF JobTypes
    <3> QED BY <2>1, <3>2, <3>3, <3>4 DEF Written
  <2> QED BY <2>2, <2>3
<1>8. ASSUME NEW s \in Scrapers, Detector!WriteChanged(s) PROVE Written
  <2> DEFINE p == Detector!InHand(s)
  <2>1. /\ p \in Products /\ scrape[s].version \in Versions \ {0}
        /\ UNCHANGED <<jobs, woo, crashes>> /\ faults' \in 0..MaxFaults
    BY <1>2, <1>8, InHandTyped DEF Detector!WriteChanged
  <2>2. CASE UNCHANGED products
    BY <1>3, <2>1, <2>2
  <2>3. CASE \E got \in Detector!Details(s) : products' = Detector!Stored(s, got)
    <3>1. PICK got \in BOOLEAN : products' = Detector!Stored(s, got)
      BY <2>3 DEF Detector!Details
    <3> DEFINE fetched == got \/ Detector!Row(s).fetched
    <3>2. fetched \in BOOLEAN
      BY ScrapeKept DEF PairInv, Detector!Row
    <3>3. products' = Detector!UpsertProduct(products, p, scrape[s].version, fetched, got)
      BY <3>1 DEF Detector!Stored
    <3> HIDE DEF fetched
    <3>4. /\ RowsTyped' /\ Grown
          /\ \A q \in Products : products'[q].woo = products[q].woo
      BY <2>1, <3>2, <3>3, Upserted DEF PairInv
    <3> QED BY <2>1, <3>4 DEF Written
  <2> QED BY <1>8, <2>2, <2>3 DEF Detector!WriteChanged
<1>9. ASSUME NEW s \in Scrapers, Detector!EnqueueUpdate(s) PROVE Written
  <2> DEFINE p == Detector!InHand(s)
  <2>1. /\ p \in Products /\ products[p].woo
        /\ UNCHANGED <<products, woo, crashes>> /\ faults' \in 0..MaxFaults
    BY <1>2, <1>9, InHandTyped DEF Detector!EnqueueUpdate
  <2>2. \/ UNCHANGED jobs
        \/ Room(jobs) /\ jobs' = CreateJob(jobs, p, "update")
    BY <1>9 DEF Detector!EnqueueUpdate, Detector!Room, Room, Detector!JobIds, JobIds,
       Detector!CreateJob, CreateJob, Detector!NextId, NextId
  <2>3. Known(products', p) /\ Grown /\ RowsTyped'
    BY <2>1 DEF Proved!RecordInv, Proved!StoredTrue, Proved!Known, Known, Grown, PairInv,
       RowsTyped
  <2>4. "update" \in JobTypes
    BY DEF JobTypes
  <2> QED BY <2>1, <2>2, <2>3, <2>4 DEF Written
<1> QED BY <1>4, <1>5, <1>6, <1>7, <1>8, <1>9 DEF DetectorStep, Detector!Handle

LEMMA WrittenFeeds ==
  ASSUME Written, UNCHANGED memory
  PROVE  Proved!Feeds
<1>1. UNCHANGED <<turn, claimed, queue, worker>>
  BY DEF memory
<1>2. Proved!ProductRow = ProductRow /\ Proved!JobTypes = JobTypes
  BY DEF Proved!ProductRow, ProductRow, Proved!Versions, Versions, Proved!JobTypes, JobTypes
<1>3. ASSUME NEW p, NEW type
      PROVE  /\ Proved!Known(products, p) <=> Known(products, p)
             /\ Proved!Known(products', p) <=> Known(products', p)
             /\ Proved!Room(jobs) <=> Room(jobs)
             /\ Proved!CreateJob(jobs, p, type) = CreateJob(jobs, p, type)
  BY Zenon DEF Proved!Known, Known, Proved!Room, Room, Proved!CreateJob, CreateJob,
     Proved!NextId, NextId, Proved!JobIds, JobIds
<1> QED BY <1>1, <1>2, <1>3 DEF Written, Proved!Feeds, RowsTyped, Grown

\* An update job is of a product whose woo_id is stored.
Targets ==
    \A j \in JobIds :
        jobs[j].type = "update" => jobs[j].product \in Products /\ products[jobs[j].product].woo

LEMMA WrittenTargets ==
  ASSUME Targets, Shape(jobs), Written
  PROVE  Targets'
<1>1. \A q \in Products : products'[q].woo = products[q].woo
  BY DEF Written
<1>2. CASE UNCHANGED jobs
  BY <1>1, <1>2 DEF Targets
<1>3. CASE ~UNCHANGED jobs
  <2>1. PICK p \in Products, type \in JobTypes :
          /\ Room(jobs) /\ jobs' = CreateJob(jobs, p, type)
          /\ type = "update" => products'[p].woo
    BY <1>3 DEF Written
  <2> DEFINE n == NextId(jobs)
  <2>2. n \in JobIds
    BY <2>1, NextIdFree
  <2>3. DOMAIN jobs = JobIds
    BY DEF Shape
  <2>4. jobs'[n].product = p /\ jobs'[n].type = type
    BY <2>1, <2>2, <2>3 DEF CreateJob
  <2>5. \A j \in JobIds \ {n} : jobs'[j] = jobs[j]
    BY <2>1, <2>2, <2>3 DEF CreateJob
  <2> HIDE DEF n
  <2> QED BY <1>1, <2>1, <2>2, <2>4, <2>5 DEF Targets
<1> QED BY <1>2, <1>3

LEMMA NeutralTargets ==
  ASSUME Targets, Neutral
  PROVE  Targets'
  BY DEF Targets, Neutral, SameJobs

PipelineInv ==
    PairInv /\ Proved!RecordInv /\ Targets /\ unqueued \in SUBSET Products

LEMMA EngineInit == Init => Proved!Init
  BY DEF Init, Proved!Init, TablesInit, Proved!TablesInit, Engine!NoMemory, Proved!NoMemory,
     NoJob, Proved!NoJob, NoRow, Proved!NoRow, NoItem, Proved!NoItem, JobIds, Proved!JobIds,
     Engine!JobTypes, Proved!JobTypes, Engine!Workers, Proved!Workers, Engine!NoWork,
     Proved!NoWork

LEMMA PipelineInit == Init => PipelineInv
<1> SUFFICES ASSUME Init PROVE PipelineInv
  OBVIOUS
<1>1. PairInv
  BY PairInit
<1>2. Proved!Init
  BY EngineInit
<1>3. Proved!RecordInv
  BY <1>2, EngineAssumed, Proved!RecordInit
<1>4. Targets
  BY DEF Init, TablesInit, NoJob, Targets
<1>5. unqueued \in SUBSET Products
  BY DEF Init
<1> QED BY <1>1, <1>3, <1>4, <1>5 DEF PipelineInv

LEMMA PipelineStep == PipelineInv /\ [Next]_vars => PipelineInv'
<1> SUFFICES ASSUME PipelineInv, [Next]_vars PROVE PipelineInv'
  OBVIOUS
<1>1. PairInv'
  BY PairStep DEF PipelineInv
<1>2. unqueued' \in SUBSET Products
  BY DEF PipelineInv, Next, Remember, Changed, vars
<1>3. CASE EngineStep \/ Engine!Crash
  <2>1. Neutral
    BY <1>3, EngineNeutral DEF PipelineInv, PairInv
  <2>2. Proved!RecordInv'
    BY <1>3, SameEngine, EngineAssumed, Proved!RecordStep DEF PipelineInv, Proved!Next
  <2> QED BY <1>1, <1>2, <2>1, <2>2, NeutralTargets DEF PipelineInv
<1>4. CASE DetectorStep /\ UNCHANGED memory
  <2>1. Written
    BY <1>4, DetectorWrites DEF PipelineInv
  <2>2. Proved!RecordInv'
    BY <1>4, <2>1, WrittenFeeds, EngineAssumed, Proved!FeedsRecord DEF PipelineInv
  <2> QED BY <1>1, <1>2, <2>1, <2>2, WrittenTargets DEF PipelineInv, PairInv
<1>5. CASE UNCHANGED vars
  <2>1. UNCHANGED Proved!vars
    BY <1>5 DEF vars, Proved!vars
  <2>2. Proved!RecordInv'
    BY <2>1, EngineAssumed, Proved!RecordStep DEF PipelineInv
  <2>3. Targets'
    BY <1>5 DEF vars, PipelineInv, Targets
  <2> QED BY <1>1, <1>2, <2>2, <2>3 DEF PipelineInv
<1> QED BY <1>3, <1>4, <1>5 DEF Next, Restart

LEMMA PipelineInvCorrect == Spec => []PipelineInv
  BY PipelineInit, PipelineStep, PTL DEF Spec

\* An update job is only ever of a product whose woo_id is stored, and the id is of
\* an item the shop has: a scrape decides on what it read before, the engine stores
\* ids beside it, and either may die at any point (ProcessScrapedProducts, MapToUpdate).
THEOREM UpdatesAim == Spec => []UpdatesHaveATarget
<1>1. PipelineInv => UpdatesHaveATarget
  BY DEF PipelineInv, Targets, UpdatesHaveATarget, Proved!RecordInv, Proved!StoredTrue
<1> QED BY <1>1, PipelineInvCorrect, PTL

\* What the tables record of the shop is true of it, beside the scrapes and with any
\* clock (processBatch, doBatchRequest, ProcessScrapedProducts).
THEOREM RecordsStayReal == Spec => []Engine!RecordedIsReal
<1>1. PipelineInv => Proved!RecordedIsReal
  BY EngineAssumed, Proved!RecordInvReal DEF PipelineInv
<1>2. Proved!RecordedIsReal => Engine!RecordedIsReal
  BY DEF Proved!RecordedIsReal, Engine!RecordedIsReal, Proved!JobIds, Engine!JobIds
<1> QED BY <1>1, <1>2, PipelineInvCorrect, PTL

\* The tables, the engine's memory and the scrapes keep their types while they run
\* side by side.
THEOREM TypeCorrect == Spec => []TypeOK
<1>1. PipelineInv => TypeOK
  <2>1. PipelineInv => TablesTypeOK
    BY DEF PipelineInv, Proved!RecordInv, Proved!TypeInv, Proved!TypeOK,
       Proved!TablesTypeOK, TablesTypeOK, Proved!JobIds, JobIds, Proved!JobRow, JobRow,
       Proved!JobTypes, JobTypes, Proved!States, States, Proved!ProductRow, ProductRow,
       Proved!Versions, Versions, Proved!ShopItem, ShopItem
  <2>2. PipelineInv => Engine!EngineTypeOK
    BY DEF PipelineInv, Proved!RecordInv, Proved!TypeInv, Proved!TypeOK,
       Proved!EngineTypeOK, Engine!EngineTypeOK, Proved!JobTypes, Engine!JobTypes,
       Proved!Claim, Engine!Claim, Proved!JobIds, Engine!JobIds, Proved!Workers,
       Engine!Workers, Proved!Work, Engine!Work, Proved!Item, Engine!Item,
       Proved!Versions, Engine!Versions
  <2> QED BY <2>1, <2>2 DEF PipelineInv, PairInv, TypeOK
<1> QED BY <1>1, PipelineInvCorrect, PTL

-----------------------------------------------------------------------------
(* A change that got a job arrives.  Of a product whose row has not changed *)
(* since a job was inserted for it, the last job is younger than the row's  *)
(* version: Proved!Arrives says what every batch, and the shop, then have. *)

\* No two update workers are between their loads and their calls with items of
\* the same product.
OneLoader == \A p \in Products : Proved!OneLoader(p)

ArrivalInv ==
    /\ PipelineInv /\ Proved!KindInv /\ Proved!InOrder
    /\ \A p \in Products \ unqueued : Proved!Arrives(p)

LEMMA TargetsAim == PipelineInv => Proved!Aims
  BY DEF PipelineInv, Targets, Proved!Aims, Proved!JobIds, JobIds

LEMMA UnusedNames ==
  ASSUME PipelineInv, NEW j \in JobIds, jobs[j].state = "ABSENT"
  PROVE  jobs[j].product \notin Products
  BY TablesAssumption DEF PipelineInv, PairInv, Shape

LEMMA ArrivalInit == Init => ArrivalInv
<1> SUFFICES ASSUME Init PROVE ArrivalInv
  OBVIOUS
<1>1. PipelineInv
  BY PipelineInit
<1>2. Proved!KindInv
  BY EngineInit, EngineAssumed, Proved!KindInit
<1>3. \A j \in JobIds : jobs[j].state = "ABSENT"
  BY DEF Init, TablesInit, NoJob
<1>4. Proved!InOrder /\ \A p : Proved!Arrives(p)
  BY <1>3 DEF Proved!InOrder, Proved!Arrives, Proved!Latest, Proved!Exists, Proved!JobIds,
     JobIds
<1> QED BY <1>1, <1>2, <1>4 DEF ArrivalInv

LEMMA EngineArrival ==
  ASSUME ArrivalInv, OneLoader, EngineStep \/ Engine!Crash, Remember
  PROVE  Proved!KindInv' /\ Proved!InOrder'
         /\ \A p \in Products \ unqueued' : Proved!Arrives(p)'
<1>1. Proved!EngineNext
  BY SameEngine
<1>2. Proved!RecordInv /\ Proved!TypeInv /\ Proved!Aims /\ PairInv
  BY TargetsAim DEF ArrivalInv, PipelineInv, Proved!RecordInv
<1>3. Proved!SameRows(jobs')
  BY <1>1, <1>2, EngineAssumed, Proved!EngineRows
<1>4. Proved!KindInv'
  BY <1>1, <1>2, EngineAssumed, Proved!EngineKind DEF ArrivalInv
<1>5. Proved!InOrder'
  BY <1>3, EngineAssumed, Proved!RowsInOrder DEF ArrivalInv
<1>6. ASSUME NEW p \in Products \ unqueued' PROVE Proved!Arrives(p)'
  <2>1. \A j \in JobIds : jobs[j].state = "ABSENT" => jobs'[j].product # p
    BY <1>3, UnusedNames DEF ArrivalInv, Proved!SameRows, Proved!JobIds, JobIds
  <2>2. p \in Products \ unqueued
    BY <2>1 DEF Remember, Inserted
  <2> QED BY <1>1, <1>2, <2>2, EngineAssumed, Proved!EngineArrives DEF ArrivalInv, OneLoader
<1> QED BY <1>4, <1>5, <1>6

LEMMA DetectorArrival ==
  ASSUME ArrivalInv, DetectorStep, UNCHANGED memory, Remember
  PROVE  Proved!KindInv' /\ Proved!InOrder'
         /\ \A p \in Products \ unqueued' : Proved!Arrives(p)'
<1>1. Proved!Feeds
  BY DetectorWrites, WrittenFeeds DEF ArrivalInv, PipelineInv
<1>2. Proved!RecordInv /\ Proved!KindInv /\ Proved!InOrder
  BY DEF ArrivalInv, PipelineInv
<1>3. Proved!KindInv'
  BY <1>1, <1>2, EngineAssumed, Proved!FeedsKind
<1>4. Proved!InOrder'
  BY <1>1, <1>2, EngineAssumed, Proved!FeedsInOrder
<1>5. Proved!JobIds = JobIds /\ \A j : Proved!Exists(j) <=> jobs[j].state # "ABSENT"
  BY DEF Proved!JobIds, JobIds, Proved!Exists
<1>6. ASSUME NEW p \in Products \ unqueued' PROVE Proved!Arrives(p)'
  <2>1. CASE \E n \in JobIds : jobs[n].state = "ABSENT" /\ jobs'[n].product = p
    <3>1. PICK n \in JobIds : jobs[n].state = "ABSENT" /\ jobs'[n].product = p
      BY <2>1
    <3>2. jobs'[n] # jobs[n]
      BY <3>1, UnusedNames DEF ArrivalInv
    <3> QED BY <1>1, <1>2, <1>5, <3>1, <3>2, EngineAssumed, Proved!InsertArrives
  <2>2. CASE \A n \in JobIds : jobs[n].state = "ABSENT" => jobs'[n].product # p
    <3>1. p \notin unqueued /\ products'[p].fp = products[p].fp
      BY <2>2 DEF Remember, Inserted, Changed
    <3>2. Proved!Arrives(p)
      BY <3>1 DEF ArrivalInv
    <3> QED BY <1>1, <1>2, <1>5, <2>2, <3>1, <3>2, EngineAssumed, Proved!FeedsArrives
  <2> QED BY <2>1, <2>2
<1> QED BY <1>3, <1>4, <1>6

LEMMA ArrivalStep == ArrivalInv /\ OneLoader /\ [Next]_vars => ArrivalInv'
<1> SUFFICES ASSUME ArrivalInv, OneLoader, [Next]_vars PROVE ArrivalInv'
  OBVIOUS
<1>1. PipelineInv'
  BY PipelineStep DEF ArrivalInv
<1>2. CASE Next
  <2>1. Remember
    BY <1>2 DEF Next
  <2> QED BY <1>1, <1>2, <2>1, EngineArrival, DetectorArrival DEF Next, Restart, ArrivalInv
<1>3. CASE UNCHANGED vars
  <2>1. UNCHANGED <<jobs, products, woo, turn, claimed, queue, worker, unqueued>>
    BY <1>3 DEF vars
  <2>2. Proved!SameRows(jobs')
    BY <2>1, EngineAssumed, Proved!RowsStay
  <2>3. Proved!KindInv'
    <3>1. Proved!KeepsTypes
      BY <2>2 DEF Proved!SameRows, Proved!KeepsTypes
    <3> QED BY <2>1, <3>1, EngineAssumed, Proved!KindMemory
            DEF ArrivalInv, PipelineInv, Proved!RecordInv
  <2>4. Proved!InOrder'
    BY <2>2, EngineAssumed, Proved!RowsInOrder DEF ArrivalInv
  <2>5. ASSUME NEW p \in Products \ unqueued' PROVE Proved!Arrives(p)'
    <3>1. Proved!Arrives(p)
      BY <2>1 DEF ArrivalInv
    <3> QED BY <2>1, <2>2, <3>1, EngineAssumed, Proved!ArrivesStill
  <2> QED BY <1>1, <2>3, <2>4, <2>5 DEF ArrivalInv
<1> QED BY <1>2, <1>3

LEMMA ArrivalGood == ArrivalInv => QueuedChangesArrive
<1> SUFFICES ASSUME ArrivalInv, NEW p \in Products \ unqueued, Settled(p)
             PROVE  woo[p].price = products[p].fp
  BY DEF QueuedChangesArrive
<1>1. PICK i \in JobIds : i \in JobsOf(p)
  BY DEF ArrivalInv, PipelineInv, PairInv, OneEach, Settled, CreateJobs, JobsOf
<1> DEFINE n == LastJob(p)
<1>2. n \in JobsOf(p) /\ \A k \in JobsOf(p) : k <= n
  <2>1. JobsOf(p) \in SUBSET (1..MaxJobs) /\ JobsOf(p) # {} /\ MaxJobs \in Nat
    BY <1>1, TablesAssumption DEF JobsOf, JobIds
  <2>2. Proved!Last(JobsOf(p)) = LastJob(p)
    BY DEF Proved!Last, LastJob
  <2> HIDE DEF n
  <2>3. /\ Proved!Last(JobsOf(p)) \in JobsOf(p)
        /\ \A k \in JobsOf(p) : k <= Proved!Last(JobsOf(p))
    BY <2>1, EngineAssumed, Proved!LastIsLast
  <2> QED BY <2>2, <2>3 DEF n
<1>3. jobs[n].state = "SUCCESS"
  BY DEF Settled
<1> HIDE DEF n
<1>4. Proved!Latest(n, p) /\ n \in Proved!JobIds
  BY <1>2, <1>3 DEF Proved!Latest, Proved!Exists, Proved!JobIds, JobIds, JobsOf
<1>5. Proved!Fresh(p)
  BY <1>3, <1>4 DEF ArrivalInv, Proved!Arrives
<1> QED BY <1>5 DEF Proved!Fresh

LEMMA ArrivalCorrect == Spec /\ []OneLoader => []ArrivalInv
  BY ArrivalInit, ArrivalStep, PTL DEF Spec

\* As long as no two update workers are between their loads and their calls with
\* items of one product, a change that got a job reaches the shop: whatever scrapes,
\* claims, retries, recoveries, unanswered calls and restarts come in between, once
\* the last job of the product is SUCCESS the shop has the price of the row, for the
\* batch read the row after its claim and right before the call (processBatch,
\* doBatchRequest).  Nothing is assumed of the clock: a job held by a worker and
\* claimed again is not what loses a change.
THEOREM ChangesArrive == Spec /\ []OneLoader => []QueuedChangesArrive
  BY ArrivalCorrect, ArrivalGood, PTL

\* With one update worker the condition is always met: every change that got a job
\* arrives (SYNC_UPDATE_WORKER_COUNT = 1).
THEOREM ChangesArriveAlone ==
  ASSUME \A v, w \in UpdateWorkers : v = w
  PROVE  Spec => []QueuedChangesArrive
<1>1. OneLoader
  BY DEF OneLoader, Proved!OneLoader
<1> QED BY <1>1, ChangesArrive, PTL

-----------------------------------------------------------------------------
(* What the engine promises of its jobs, it still promises beside the      *)
(* scrapes: they insert rows and leave those that are there alone.         *)

HolderInv == PipelineInv /\ Proved!KindInv /\ Proved!HoldInv

LEMMA HolderInit == Init => HolderInv
  BY PipelineInit, EngineInit, EngineAssumed, Proved!KindInit, Proved!TypeInit, Proved!HoldInit
  DEF HolderInv

LEMMA StillEngine ==
  ASSUME UNCHANGED vars
  PROVE  UNCHANGED Proved!vars
  BY DEF vars, Proved!vars

LEMMA HolderStep == ASSUME Prompt PROVE HolderInv /\ [Next]_vars => HolderInv'
<1> SUFFICES ASSUME HolderInv, [Next]_vars PROVE HolderInv'
  OBVIOUS
<1>1. PipelineInv' /\ Proved!RecordInv
  BY PipelineStep DEF HolderInv, PipelineInv
<1>2. ASSUME [Proved!Next]_(Proved!vars) PROVE HolderInv'
  BY <1>1, <1>2, EngineAssumed, Proved!KindStep, Proved!HoldStep DEF HolderInv
<1>3. CASE EngineStep \/ Engine!Crash
  BY <1>2, <1>3, SameEngine DEF Proved!Next
<1>4. CASE DetectorStep /\ UNCHANGED memory
  <2>1. Proved!Feeds
    BY <1>4, DetectorWrites, WrittenFeeds DEF HolderInv, PipelineInv
  <2> QED BY <1>1, <2>1, EngineAssumed, Proved!FeedsKind, Proved!FeedsHold DEF HolderInv
<1>5. CASE UNCHANGED vars
  BY <1>2, <1>5, StillEngine
<1> QED BY <1>3, <1>4, <1>5 DEF Next, Restart

LEMMA HolderCorrect == ASSUME Prompt PROVE Spec => []HolderInv
  BY HolderInit, HolderStep, PTL DEF Spec

\* On a prompt clock two pool goroutines never have the same job to write, whatever
\* scrapes insert meanwhile (ClaimPendingJobs, RecoverStaleJobs, processBatch).
THEOREM HoldersApart == ASSUME Prompt PROVE Spec => []Engine!OneHolder
<1>1. HolderInv => Engine!OneHolder
  <2>1. Proved!HoldInv => Proved!OneHolder
    BY EngineAssumed, Proved!ClaimsOfHeldIn
    DEF Proved!HoldInv, Proved!Apart, Proved!OneHolder, Proved!Ids
  <2>2. Proved!OneHolder => Engine!OneHolder
    BY Zenon DEF Proved!OneHolder, Engine!OneHolder, Engine!Workers, Proved!Workers,
       Engine!ClaimsOf, Proved!ClaimsOf, Engine!Unrecorded, Proved!Unrecorded,
       Engine!ProductsOf, Proved!ProductsOf, Engine!Owner, Proved!Owner,
       Engine!Positions, Proved!Positions, Engine!Last, Proved!Last
  <2> QED BY <2>1, <2>2 DEF HolderInv
<1> QED BY <1>1, HolderCorrect, PTL

\* Nor does an ended job come back: a scrape inserts rows and writes none
\* (IsTerminal, UpdateJobStatus, ScheduleRetry, CreateJob).
THEOREM EndedStays == ASSUME Prompt PROVE Spec => Engine!TerminalIsFinal
<1> DEFINE Final == \A j \in Engine!JobIds :
                      Engine!IsTerminal(jobs[j].state) => jobs'[j].state = jobs[j].state
<1>1. HolderInv /\ [Next]_vars => Final
  <2> SUFFICES ASSUME HolderInv, [Next]_vars PROVE Final
    OBVIOUS
  <2>1. CASE UNCHANGED jobs
    BY <2>1
  <2>2. CASE EngineStep \/ Engine!Crash
    <3>1. Proved!Next
      BY <2>2, SameEngine DEF Proved!Next
    <3>2. [\A j \in Proved!JobIds : Proved!IsTerminal(jobs[j].state)
               => jobs'[j].state = jobs[j].state]_(Proved!vars)
      BY <3>1, EngineAssumed, Proved!FinalStep DEF HolderInv
    <3> QED BY <3>2, <2>1 DEF Proved!vars, Proved!JobIds, Engine!JobIds, Proved!IsTerminal,
                Engine!IsTerminal
  <2>3. CASE DetectorStep /\ UNCHANGED memory
    <3>1. Proved!Feeds /\ Proved!RecordInv
      BY <2>3, DetectorWrites, WrittenFeeds DEF HolderInv, PipelineInv
    <3>2. \A j \in JobIds : jobs[j].state # "ABSENT" => jobs'[j] = jobs[j]
      BY <3>1, EngineAssumed, Proved!FeedsRows DEF Proved!Exists, Proved!JobIds, JobIds
    <3> QED BY <3>2 DEF Engine!IsTerminal, Engine!JobIds, JobIds
  <2> QED BY <2>1, <2>2, <2>3 DEF Next, Restart, vars
<1>2. UNCHANGED vars => UNCHANGED Engine!vars
  BY DEF vars, Engine!vars
<1>3. HolderInv /\ [Next]_vars => [Final]_(Engine!vars)
  BY <1>1, <1>2
<1> HIDE DEF Final
<1>4. Spec => [][Final]_(Engine!vars)
  BY <1>3, HolderCorrect, PTL DEF Spec
<1> QED BY <1>4 DEF Final, Engine!TerminalIsFinal

-----------------------------------------------------------------------------
(* The lives of the jobs.                                                  *)

LifeInv == HolderInv /\ Proved!AttemptInv

\* No batch of the update pool holds two jobs of one product.
Untwinned == \A w \in UpdateWorkers : Proved!NoTwins(w)

\* The transaction inserts a product's create job with its row, so a batch of the
\* create pool holds one.
LEMMA BatchesDiffer ==
  ASSUME HolderInv, Untwinned
  PROVE  \A w \in Proved!Workers : Proved!NoTwins(w)
<1>1. Proved!OneCreate
  <2>1. ASSUME NEW j \in JobIds, jobs[j].state # "ABSENT" PROVE jobs[j].product \in Products
    BY <2>1 DEF HolderInv, PipelineInv, Proved!RecordInv, Proved!TypeInv, Proved!Named,
                Proved!JobIds, JobIds
  <2>2. ASSUME NEW p \in Products, NEW j \in CreateJobs(jobs, p), NEW k \in CreateJobs(jobs, p)
        PROVE  j = k
    BY <2>2 DEF HolderInv, PipelineInv, PairInv, OneEach
  <2> QED BY <2>1, <2>2 DEF Proved!OneCreate, Proved!Exists, Proved!JobIds, JobIds, CreateJobs
<1>2. Proved!BatchInv
  BY <1>1 DEF HolderInv, PipelineInv, Proved!BatchInv
<1>3. \A w \in CreateWorkers : Proved!NoTwins(w)
  BY <1>2, EngineAssumed, Proved!CreatesDiffer
<1> QED BY <1>3 DEF Untwinned, Proved!Workers

LEMMA ServiceGoes ==
  ASSUME Prompt, LifeInv, Untwinned, [Next]_vars
  PROVE  Proved!Goes
<1>1. Proved!HoldInv /\ Proved!AttemptInv /\ Proved!RecordInv /\ HolderInv
  BY DEF LifeInv, HolderInv, PipelineInv
<1>2. CASE EngineStep \/ Engine!Crash
  <2>1. Proved!EngineNext
    BY <1>2, SameEngine
  <2> QED BY <1>1, <2>1, BatchesDiffer, EngineAssumed, Proved!EngineGoes
<1>3. CASE DetectorStep /\ UNCHANGED memory
  <2>1. Proved!Feeds
    BY <1>1, <1>3, DetectorWrites, WrittenFeeds DEF HolderInv, PipelineInv
  <2> QED BY <1>1, <2>1, EngineAssumed, Proved!FeedsGoes
<1>4. CASE UNCHANGED vars
  BY <1>1, <1>4, StillEngine, EngineAssumed, Proved!StutterGoes
<1> QED BY <1>2, <1>3, <1>4 DEF Next, Restart

LEMMA ServiceMoves ==
  ASSUME \A j \in JobIds : Proved!LifeRow(jobs[j]) /\ Proved!Moves(jobs[j], jobs'[j])
  PROVE  Lifecycle!LifecycleNext
<1> DEFINE life == [j \in JobIds |-> [state |-> jobs[j].state, retries |-> jobs[j].retries]]
           next == [j \in JobIds |-> [state |-> jobs'[j].state, retries |-> jobs'[j].retries]]
<1>1. \A j \in JobIds : Proved!LifeRow(jobs'[j])
  BY EngineAssumed, Proved!MovesLife
<1>2. next \in [JobIds -> Lifecycle!Lives]
  BY <1>1 DEF Proved!LifeRow, Lifecycle!Lives
<1>3. ASSUME NEW j \in JobIds
      PROVE  \/ next[j] = life[j]
             \/ Lifecycle!Insert(j) \/ Lifecycle!Begin(j) \/ Lifecycle!Succeed(j)
             \/ Lifecycle!Lose(j) \/ Lifecycle!Retry(j) \/ Lifecycle!Bury(j)
  BY DEF Proved!Moves, Proved!Turns, Lifecycle!Insert, Lifecycle!Begin, Lifecycle!Succeed,
     Lifecycle!Lose, Lifecycle!Retry, Lifecycle!Bury, Lifecycle!Becomes
<1> QED BY <1>2, <1>3 DEF Lifecycle!LifecycleNext

LEMMA LifeInit == Init => LifeInv /\ Lifecycle!LifecycleInit
<1>1. Init => Proved!AttemptInv
  BY EngineInit, EngineAssumed, Proved!AttemptInit
<1>2. Init => Lifecycle!LifecycleInit
  BY DEF Init, TablesInit, NoJob, Lifecycle!LifecycleInit, Lifecycle!Unborn
<1> QED BY <1>1, <1>2, HolderInit DEF LifeInv

LEMMA LifeStep ==
  ASSUME Prompt
  PROVE  LifeInv /\ Untwinned /\ [Next]_vars =>
           /\ LifeInv'
           /\ [Lifecycle!LifecycleNext]_([j \in JobIds |->
                 [state |-> jobs[j].state, retries |-> jobs[j].retries]])
<1> SUFFICES ASSUME LifeInv, Untwinned, [Next]_vars
             PROVE  LifeInv' /\ Lifecycle!LifecycleNext
  OBVIOUS
<1>1. HolderInv'
  BY HolderStep DEF LifeInv
<1>2. Proved!Goes
  BY ServiceGoes
<1>3. Proved!JobIds = JobIds
  BY DEF Proved!JobIds, JobIds
<1>4. \A j \in JobIds : Proved!LifeRow(jobs[j]) /\ Proved!Moves(jobs[j], jobs'[j])
  BY <1>2, <1>3 DEF LifeInv, Proved!AttemptInv, Proved!Goes
<1>5. Proved!AttemptInv'
  BY <1>2, <1>3, <1>4, EngineAssumed, Proved!MovesLife DEF Proved!Goes, Proved!AttemptInv
<1> QED BY <1>1, <1>4, <1>5, ServiceMoves DEF LifeInv

\* On a prompt clock, as long as no update batch holds two jobs of one product, the
\* whole service implements the lifecycle of a job: scrapes that insert jobs and
\* restarts that end everything disturb no attempt (ProcessScrapedProducts,
\* ClaimPendingJobs, handleJobFailure, UpdateJobStatus, RecoverStaleJobs).
THEOREM ServiceLifecycle ==
  ASSUME Prompt
  PROVE  Spec /\ []Untwinned => JobsLive
  BY LifeInit, LifeStep, PTL DEF Spec, JobsLive, Lifecycle!LifecycleSpec

\* So it does with batches of one job (SYNC_UPDATE_BATCH_SIZE = 1).
THEOREM ServiceLifecycleSingly ==
  ASSUME Prompt, UpdateBatchSize = 1
  PROVE  Spec => JobsLive
<1>1. Init => HolderInv /\ Proved!SingleInv
  BY HolderInit, EngineInit, EngineAssumed, Proved!SingleInit
<1>2. HolderInv /\ Proved!SingleInv /\ [Next]_vars => HolderInv' /\ Proved!SingleInv'
  <2> SUFFICES ASSUME HolderInv, Proved!SingleInv, [Next]_vars PROVE Proved!SingleInv'
    BY HolderStep
  <2>1. CASE UNCHANGED <<claimed, queue, worker>>
    BY <2>1 DEF Proved!SingleInv
  <2>2. CASE EngineStep \/ Engine!Crash
    <3>1. Proved!Next /\ Proved!TypeInv
      BY <2>2, SameEngine DEF Proved!Next, HolderInv, Proved!HoldInv
    <3> QED BY <3>1, EngineAssumed, Proved!SingleStep
  <2> QED BY <2>1, <2>2 DEF Next, Restart, memory, vars
<1>3. HolderInv /\ Proved!SingleInv => Untwinned
  <2> SUFFICES ASSUME HolderInv, Proved!SingleInv, NEW w \in UpdateWorkers
               PROVE  Proved!NoTwins(w)
    BY DEF Untwinned
  <2> QED BY EngineAssumed, Proved!UpdatesDiffer DEF HolderInv
<1> QED BY <1>1, <1>2, <1>3, ServiceLifecycle, PTL DEF Spec
=============================================================================
