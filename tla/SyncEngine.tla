----------------------------- MODULE SyncEngine -----------------------------
(***************************************************************************)
(* internal/sync/engine.go.  Every 30 seconds processJobs claims create    *)
(* jobs, then update jobs, cuts each claim into batches and submits them   *)
(* to the pool of their type.  A pool worker loads the products of its     *)
(* batch, makes one call to the shop and records the outcome of every job. *)
(* A second loop puts RUNNING jobs that are too old back to PENDING.       *)
(*                                                                         *)
(* The claim a process holds is the in-memory job: its id and the retry    *)
(* count the claim returned.  Process memory (claimed, queue, worker) is   *)
(* lost in a crash and in a shutdown.  Stop ends the loops and then one    *)
(* pool after the other: a task runs under the context of its pool, which  *)
(* Stop cancels before it waits, so a create worker may go on until the    *)
(* update pool has stopped, and a worker whose pool is cancelled writes    *)
(* nothing more.  Crash is the end of it: before it some workers may have  *)
(* taken any steps and others none.                                        *)
(***************************************************************************)
EXTENDS SyncTables

CONSTANTS
    CreateWorkers, UpdateWorkers,       \* the goroutines of the two pools
    CreateFetchLimit, UpdateFetchLimit,
    CreateBatchSize, UpdateBatchSize,
    Prompt                              \* the clock assumption of Elapse

ASSUME EngineAssumption ==
    /\ CreateWorkers \cap UpdateWorkers = {}
    /\ IsFiniteSet(CreateWorkers) /\ IsFiniteSet(UpdateWorkers)
    /\ CreateFetchLimit \in Nat \ {0} /\ UpdateFetchLimit \in Nat \ {0}
    /\ CreateBatchSize \in Nat \ {0} /\ UpdateBatchSize \in Nat \ {0}
    /\ Prompt \in BOOLEAN

VARIABLES
    turn,       \* the job type processJobs claims next
    claimed,    \* claims not submitted yet, of the other type
    queue,      \* the task channel of each pool
    worker      \* what each pool goroutine is doing

memory == <<turn, claimed, queue, worker>>
vars == <<jobs, products, woo, faults, crashes, turn, claimed, queue, worker>>

Workers == CreateWorkers \cup UpdateWorkers
Other(type) == IF type = "create" THEN "update" ELSE "create"
PoolOf(type) == IF type = "create" THEN CreateWorkers ELSE UpdateWorkers
TypeOf(w) == IF w \in CreateWorkers THEN "create" ELSE "update"
FetchLimit(type) == IF type = "create" THEN CreateFetchLimit ELSE UpdateFetchLimit
BatchSize(type) == IF type = "create" THEN CreateBatchSize ELSE UpdateBatchSize
Capacity(type) == 2 * Cardinality(PoolOf(type))

Claim == [id : JobIds, retries : Nat]
Item == [claim : Claim, product : Products, version : Versions]

\* pc: load (FindByID of each job in todo), call (the batch request), record
\* and mark (the result loop over items), abort (the request failed).
\* failed: the products refused by the answer, or left to fail in abort.
Work == [pc : {"idle", "load", "call", "record", "mark", "abort"},
         todo : SUBSET Claim, items : Seq(Item), failed : SUBSET Products]
NoWork == [pc |-> "idle", todo |-> {}, items |-> <<>>, failed |-> {}]

EngineTypeOK ==
    /\ turn \in JobTypes
    /\ claimed \in SUBSET Claim
    /\ queue \in [JobTypes -> Seq(SUBSET Claim)]
    /\ worker \in [Workers -> Work]

\* Type invariant of the tables and of the engine's memory.
TypeOK == TablesTypeOK /\ EngineTypeOK

NoMemory ==
    /\ turn = "create"
    /\ claimed = {}
    /\ queue = [t \in JobTypes |-> <<>>]
    /\ worker = [w \in Workers |-> NoWork]

Init == TablesInit /\ NoMemory

-----------------------------------------------------------------------------
(* processJobs: claim, cut into batches, submit.                           *)

Snapshot(S) == {[id |-> j, retries |-> jobs[j].retries] : j \in S}

AtMost(n, S) == IF Cardinality(S) <= n THEN Cardinality(S) ELSE n

\* ORDER BY scheduled_at LIMIT n: the flag due does not order the rows, so
\* any n of the claimable ones may come first.
ClaimJobs ==
    /\ claimed = {}
    /\ LET ready == Claimable(jobs, turn) IN
       \E S \in SUBSET ready :
         /\ Cardinality(S) = AtMost(FetchLimit(turn), ready)
         /\ jobs' = ClaimPendingJobs(jobs, S)
         /\ \/ claimed' = Snapshot(S) /\ UNCHANGED faults
            \/ S # {} /\ Fault /\ claimed' = {}    \* committed, answer lost
    /\ turn' = Other(turn)
    /\ UNCHANGED <<products, woo, crashes, queue, worker>>

\* A full channel refuses the task; the engine logs it and goes on, and the
\* rows of the batch stay RUNNING with nobody working on them.
SubmitBatch ==
    LET type == Other(turn) IN
    /\ claimed # {}
    /\ \E batch \in SUBSET claimed :
         /\ Cardinality(batch) = AtMost(BatchSize(type), claimed)
         /\ claimed' = claimed \ batch
         /\ queue' = IF Len(queue[type]) < Capacity(type)
                     THEN [queue EXCEPT ![type] = Append(@, batch)]
                     ELSE queue
    /\ UNCHANGED <<jobs, products, woo, faults, crashes, turn, worker>>

-----------------------------------------------------------------------------
(* handleJobFailure: decides on the retry count of the claim, not of the    *)
(* row; its statement may fail in turn, which is only logged.               *)

\* Mutant: the limit is off by one.
FailureOneMore(c) ==
    IF c.retries >= MaxRetries THEN MarkAsDeadLetter(jobs, c.id)
                               ELSE ScheduleRetry(jobs, c.id)

Failure(c) ==
    IF c.retries + 1 >= MaxRetries THEN MarkAsDeadLetter(jobs, c.id)
                                   ELSE ScheduleRetry(jobs, c.id)

Write(tab) == \/ jobs' = tab /\ UNCHANGED faults
              \/ UNCHANGED jobs /\ Fault

HandleJobFailure(c) == Write(Failure(c))

-----------------------------------------------------------------------------
(* processBatch, in the goroutine of a worker.                             *)

\* A batch with jobs left to load, ready for the call, or with none loaded.
Loading(todo, items) ==
    IF todo = {} /\ items = <<>> THEN NoWork
    ELSE [pc |-> IF todo = {} THEN "call" ELSE "load",
          todo |-> todo, items |-> items, failed |-> {}]

\* The result loop with these items left.
Results(items, failed) ==
    IF items = <<>> THEN NoWork
    ELSE [pc |-> "record", todo |-> {}, items |-> items, failed |-> failed]

\* The failure loop with the jobs of these products left.
Aborting(items, left) ==
    IF left = {} THEN NoWork
    ELSE [pc |-> "abort", todo |-> {}, items |-> items, failed |-> left]

TakeTask(w) ==
    LET type == TypeOf(w) IN
    /\ worker[w].pc = "idle"
    /\ queue[type] # <<>>
    /\ worker' = [worker EXCEPT ![w] = Loading(Head(queue[type]), <<>>)]
    /\ queue' = [queue EXCEPT ![type] = Tail(@)]
    /\ UNCHANGED <<jobs, products, woo, faults, crashes, turn, claimed>>

\* The order of a batch is the order of UPDATE ... RETURNING: any.
LoadProduct(w) ==
    /\ worker[w].pc = "load"
    /\ \E c \in worker[w].todo :
         LET p == jobs[c.id].product
             item == [claim |-> c, product |-> p, version |-> products[p].fp] IN
         worker' = [worker EXCEPT ![w] =
                      Loading(@.todo \ {c}, Append(@.items, item))]
    /\ UNCHANGED <<jobs, products, woo, faults, crashes, turn, claimed, queue>>

LoadFails(w) ==
    /\ worker[w].pc = "load"
    /\ Fault
    /\ \E c \in worker[w].todo :
         /\ jobs' \in {jobs, Failure(c)}
         /\ worker' = [worker EXCEPT ![w] = Loading(@.todo \ {c}, @.items)]
    /\ UNCHANGED <<products, woo, crashes, turn, claimed, queue>>

ProductsOf(items) == {items[i].product : i \in DOMAIN items}
Positions(items, p) == {i \in DOMAIN items : items[i].product = p}
Last(S) == CHOOSE i \in S : \A k \in S : k <= i

\* sourceIDToJob is keyed by source id: the last job loaded for a product
\* replaces the others.
Owner(items, p) == items[Last(Positions(items, p))].claim

\* The shop refuses a SKU it already has and an id it does not have.
MustRefuse(type, item) == (woo[item.product].price = 0) = (type = "update")

\* An answer has an entry for each item, in the order they were sent; TRUE is an
\* error.
Answers(type, items) ==
    {answer \in [DOMAIN items -> BOOLEAN] :
        \A i \in DOMAIN items : MustRefuse(type, items[i]) => answer[i]}

\* The items that are not refused are applied in their order.
Accepted(type, items, answer) ==
    [p \in Products |->
        LET sent == {i \in Positions(items, p) : ~answer[i]}
            stocked == {i \in sent : SetsStock(type, items[i].version)} IN
        IF sent = {} THEN woo[p]
        ELSE [price |-> items[Last(sent)].version,
              stock |-> IF stocked = {} THEN woo[p].stock
                        ELSE items[Last(stocked)].version]]

\* doBatchRequest reads the answer by index and keeps its outcome by source id.
FailedIDs(items, answer) ==
    {items[i].product : i \in {k \in DOMAIN items : answer[k]}}

\* Mutant: an entry of the answer is given to the product after its own.
SKUToWooIDShifted(items, answer) ==
    {items[i].product : i \in {k \in DOMAIN items : k > 1 /\ ~answer[k - 1]}}

SKUToWooID(items, answer) ==
    {items[i].product : i \in {k \in DOMAIN items : ~answer[k]}}

\* A create is a success when an id came back for it, an update when no error did.
Unsuccessful(type, items, answer) ==
    IF type = "create" THEN ProductsOf(items) \ SKUToWooID(items, answer)
                       ELSE FailedIDs(items, answer)

\* BatchCreateProducts / BatchUpdateProducts: the shop answers, refusing
\* some of the items.
CallWoo(w) ==
    LET items == worker[w].items IN
    /\ worker[w].pc = "call"
    /\ \E answer \in Answers(TypeOf(w), items) :
         /\ woo' = Accepted(TypeOf(w), items, answer)
         /\ worker' = [worker EXCEPT ![w] =
                         Results(items, Unsuccessful(TypeOf(w), items, answer))]
    /\ UNCHANGED <<jobs, products, faults, crashes, turn, claimed, queue>>

\* apiErr: no usable answer.  The shop may have processed some, all or none
\* of the items.
CallFails(w) ==
    LET items == worker[w].items IN
    /\ worker[w].pc = "call"
    /\ Fault
    /\ \E answer \in Answers(TypeOf(w), items) :
         woo' = Accepted(TypeOf(w), items, answer)
    /\ worker' = [worker EXCEPT ![w] = Aborting(items, ProductsOf(items))]
    /\ UNCHANGED <<jobs, products, crashes, turn, claimed, queue>>

\* apiErr: every job of the map fails, in the map's order, which is any.
AbortJob(w) ==
    LET items == worker[w].items IN
    /\ worker[w].pc = "abort"
    /\ \E p \in worker[w].failed :
         /\ HandleJobFailure(Owner(items, p))
         /\ worker' = [worker EXCEPT ![w] = Aborting(items, @.failed \ {p})]
    /\ UNCHANGED <<products, woo, crashes, turn, claimed, queue>>

\* The result loop, for its next item.
Current(w) == Head(worker[w].items).product
\* Mutant: the errors inside an answer are ignored.
RefusedNever(w) == FALSE
Refused(w) == Current(w) \in worker[w].failed
NextItem(w) ==
    worker' = [worker EXCEPT ![w] = Results(Tail(@.items), @.failed)]

RecordFailure(w) ==
    /\ worker[w].pc = "record" /\ Refused(w)
    /\ HandleJobFailure(Owner(worker[w].items, Current(w)))
    /\ NextItem(w)
    /\ UNCHANGED <<products, woo, crashes, turn, claimed, queue>>

\* A failed UpdateWooID is logged and the job is a success all the same.
StoreWooId(w) ==
    /\ worker[w].pc = "record" /\ ~Refused(w) /\ w \in CreateWorkers
    /\ \/ products' = UpdateWooID(products, Current(w)) /\ UNCHANGED faults
       \/ UNCHANGED products /\ Fault
    /\ worker' = [worker EXCEPT ![w].pc = "mark"]
    /\ UNCHANGED <<jobs, woo, crashes, turn, claimed, queue>>

MarkSuccess(w) ==
    LET c == Owner(worker[w].items, Current(w)) IN
    /\ \/ worker[w].pc = "mark"
       \/ worker[w].pc = "record" /\ ~Refused(w) /\ w \in UpdateWorkers
    /\ Write(UpdateJobStatus(jobs, c.id, "SUCCESS", c.retries))
    /\ NextItem(w)
    /\ UNCHANGED <<products, woo, crashes, turn, claimed, queue>>

WorkerStep(w) ==
    \/ TakeTask(w) \/ LoadProduct(w) \/ LoadFails(w)
    \/ CallWoo(w) \/ CallFails(w) \/ AbortJob(w)
    \/ RecordFailure(w) \/ StoreWooId(w) \/ MarkSuccess(w)

-----------------------------------------------------------------------------
(* recoverStaleLoop, the clock, and the end of the process.                *)

RecoverStale ==
    /\ Stale(jobs) # {}
    /\ jobs' = RecoverStaleJobs(jobs)
    /\ UNCHANGED <<products, woo, faults, crashes, turn, claimed, queue, worker>>

\* The claims a worker will still write to: those it has to load, and the
\* owners of the products whose outcome is not recorded yet.
Unrecorded(w) ==
    IF worker[w].pc = "abort" THEN worker[w].failed
                              ELSE ProductsOf(worker[w].items)

ClaimsOf(w) ==
    worker[w].todo \cup {Owner(worker[w].items, p) : p \in Unrecorded(w)}

Held(j) ==
    \/ \E c \in claimed : c.id = j
    \/ \E t \in JobTypes : \E i \in DOMAIN queue[t] : \E c \in queue[t][i] : c.id = j
    \/ \E w \in Workers : \E c \in ClaimsOf(w) : c.id = j

Tick(j) == Elapse(j, Held(j), Prompt) /\ UNCHANGED memory

Crash ==
    /\ crashes < MaxCrashes
    /\ crashes' = crashes + 1
    /\ turn' = "create"
    /\ claimed' = {}
    /\ queue' = [t \in JobTypes |-> <<>>]
    /\ worker' = [w \in Workers |-> NoWork]
    /\ UNCHANGED <<jobs, products, woo, faults>>

EngineNext ==
    \/ ClaimJobs \/ SubmitBatch \/ RecoverStale \/ Crash
    \/ \E w \in Workers : WorkerStep(w)
    \/ \E j \in JobIds : Tick(j)

-----------------------------------------------------------------------------
(* What the change detector puts into the tables (module ChangeDetector    *)
(* has its steps in full): a new product with its create job in one        *)
(* transaction, an update job for a product the shop has.                  *)

EnqueueCreate(p) ==
    /\ Room(jobs) /\ ~Known(products, p)
    /\ \E v \in Versions \ {0} :
         products' = UpsertProduct(products, p, v, TRUE, TRUE)
    /\ jobs' = CreateJob(jobs, p, "create")
    /\ UNCHANGED <<woo, faults, crashes, turn, claimed, queue, worker>>

EnqueueUpdate(p) ==
    /\ Room(jobs) /\ products[p].woo
    /\ jobs' = CreateJob(jobs, p, "update")
    /\ UNCHANGED <<products, woo, faults, crashes, turn, claimed, queue, worker>>

Next == EngineNext \/ \E p \in Products : EnqueueCreate(p) \/ EnqueueUpdate(p)

Spec == Init /\ [][Next]_vars

\* The two tickers fire for ever, the pools' goroutines run until they exit,
\* and time passes.
Fairness ==
    /\ WF_vars(ClaimJobs) /\ WF_vars(SubmitBatch) /\ WF_vars(RecoverStale)
    /\ \A w \in Workers : WF_vars(WorkerStep(w))
    /\ \A j \in JobIds : WF_vars(Tick(j))

FairSpec == Spec /\ Fairness

-----------------------------------------------------------------------------
(* Properties.                                                             *)

\* Two pool goroutines never have the same job to write, although the stale
\* loop takes RUNNING jobs away from whoever claimed them and jobs are claimed
\* again after a crash, a dropped batch or a lost claim (ClaimPendingJobs,
\* RecoverStaleJobs).
OneHolder ==
    \A v, w \in Workers : v # w =>
        \A c \in ClaimsOf(v), d \in ClaimsOf(w) : c.id # d.id

\* No statement moves a job out of SUCCESS or DEAD_LETTER (the comment of
\* IsTerminal in domain/state.go): the three statements that write an outcome
\* have no state in their WHERE clause, so this rests on who may still run one.
TerminalIsFinal ==
    [][\A j \in JobIds :
         IsTerminal(jobs[j].state) => jobs'[j].state = jobs[j].state]_vars

\* What the tables record of the shop is true of it: a woo_id is stored, and a
\* job is SUCCESS, only for a product the shop has (the result loop of
\* processBatch, reading the answer through two maps keyed by source id).
RecordedIsReal ==
    /\ \A p \in Products : products[p].woo => woo[p].price # 0
    /\ \A j \in JobIds :
         jobs[j].state = "SUCCESS" => woo[jobs[j].product].price # 0

\* Every job ends, in SUCCESS or in DEAD_LETTER, whatever statements and calls
\* fail and whenever the process dies: claims that nobody holds any more are
\* found by the stale loop.
EveryJobSettles ==
    \A j \in JobIds :
        jobs[j].state = "PENDING" ~> IsTerminal(jobs[j].state)

\* The engine implements the lifecycle a single job is promised, as long as the
\* clock is prompt and no batch holds two jobs of one product: duplicate
\* processing, a retry counted twice or not at all, a dead letter before its
\* time and a resurrected job are all refused by it.
Lifecycle ==
    INSTANCE JobLifecycle WITH
        Jobs <- JobIds,
        life <- [j \in JobIds |->
                    [state |-> jobs[j].state, retries |-> jobs[j].retries]]

ImplementsLifecycle == Lifecycle!LifecycleSpec
=============================================================================
