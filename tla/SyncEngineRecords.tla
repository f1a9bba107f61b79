------------------------- MODULE SyncEngineRecords --------------------------
(***************************************************************************)
(* What the tables record of the shop is true of it, for every instance of *)
(* SyncEngine and with any clock: RecordedIsReal.  The last section        *)
(* follows the version of a row to the shop, for the composition.          *)
(***************************************************************************)
EXTENDS SyncEngineProofs

-----------------------------------------------------------------------------
(* The invariant.  What a job is about is known; what has been loaded is    *)
(* loaded under the product of its claim; and once the answer is there, a   *)
(* product that is not among the failures is in the shop.                  *)

RowsKnown == \A j \in JobIds : Exists(j) => Known(products, jobs[j].product)

StoredTrue ==
    \A p \in Products : products[p].woo => Known(products, p) /\ woo[p].price # 0

SuccessTrue ==
    \A j \in JobIds : jobs[j].state = "SUCCESS" => woo[jobs[j].product].price # 0

Loaded(items, tab) ==
    \A i \in DOMAIN items :
        items[i].version # 0 /\ items[i].product = tab[items[i].claim.id].product

Taken(items, failed, shop) ==
    \A p \in ProductsOf(items) \ failed : shop[p].price # 0

Honest(r, tab, shop) ==
    /\ Loaded(r.items, tab)
    /\ r.pc \in {"record", "mark"} => Taken(r.items, r.failed, shop)
    /\ r.pc = "mark" => Head(r.items).product \notin r.failed

RecordInv ==
    /\ TypeInv /\ RowsKnown /\ StoredTrue /\ SuccessTrue
    /\ \A w \in Workers : Honest(worker[w], jobs, woo)

LEMMA RecordInvReal == RecordInv => RecordedIsReal
  BY DEF RecordInv, StoredTrue, SuccessTrue, RecordedIsReal

LEMMA RecordInit == Init => RecordInv
<1> SUFFICES ASSUME Init PROVE RecordInv
  OBVIOUS
<1>1. TypeInv
  BY TypeInit
<1>2. RowsKnown /\ StoredTrue /\ SuccessTrue
  BY DEF Init, TablesInit, RowsKnown, StoredTrue, SuccessTrue, Exists, NoJob, NoRow
<1>3. \A w \in Workers : worker[w] = NoWork
  BY DEF Init, NoMemory
<1>4. DOMAIN <<>> = {}
  OBVIOUS
<1>5. Honest(NoWork, jobs, woo)
  BY <1>4 DEF NoWork, Honest, Loaded
<1> QED BY <1>1, <1>2, <1>3, <1>5 DEF RecordInv

-----------------------------------------------------------------------------
(* What a step must not do.                                                *)

\* Rows are not deleted and not given to another product, and a product does not
\* leave the products table or the shop.
Grows ==
    /\ \A j \in JobIds : Exists(j) => jobs'[j].product = jobs[j].product
    /\ \A p \in Products : woo[p].price # 0 => woo'[p].price # 0

\* A statement that inserts no row and makes no job a success.
Quiet(tab) ==
    \A j \in JobIds :
        /\ tab[j].product = jobs[j].product
        /\ tab[j].state # "ABSENT" => Exists(j)
        /\ tab[j].state = "SUCCESS" => jobs[j].state = "SUCCESS"

LEMMA QuietJobs == Quiet(jobs)
  BY DEF Quiet, Exists

LEMMA QuietFailure ==
  ASSUME TypeInv, NEW c \in Claim, Exists(c.id)
  PROVE  Quiet(Failure(c))
<1>1. c.id \in JobIds /\ jobs \in [JobIds -> JobRow]
  BY DEF Claim, TypeInv, TypeOK, TablesTypeOK
<1>2. \A j \in JobIds : jobs[j] \in JobRow
  BY <1>1
<1>3. CASE c.retries + 1 >= MaxRetries
  <2>1. Failure(c) = [jobs EXCEPT ![c.id].state = "DEAD_LETTER", ![c.id].due = FALSE]
    BY <1>3 DEF Failure, MarkAsDeadLetter
  <2> QED BY <1>1, <1>2, <2>1 DEF Quiet, Exists, JobRow
<1>4. CASE ~(c.retries + 1 >= MaxRetries)
  <2>1. Failure(c) = [jobs EXCEPT ![c.id].state = "PENDING", ![c.id].retries = @ + 1,
                                  ![c.id].due = FALSE]
    BY <1>4 DEF Failure, ScheduleRetry
  <2> QED BY <1>1, <1>2, <2>1 DEF Quiet, Exists, JobRow
<1> QED BY <1>3, <1>4

LEMMA QuietWrite ==
  ASSUME TypeInv, NEW c \in Claim, Exists(c.id), Write(Failure(c))
  PROVE  Quiet(jobs')
<1>1. jobs' = Failure(c) \/ jobs' = jobs
  BY DEF Write
<1> QED BY <1>1, QuietFailure, QuietJobs

\* A quiet statement, with the products and the shop as they are.
LEMMA QuietStep ==
  ASSUME RecordInv, Quiet(jobs'), UNCHANGED <<products, woo>>
  PROVE  Grows /\ RowsKnown' /\ StoredTrue' /\ SuccessTrue'
<1>1. Grows
  BY DEF Quiet, Grows
<1>2. RowsKnown'
  BY DEF Quiet, RecordInv, RowsKnown, Exists
<1>3. StoredTrue'
  BY DEF RecordInv, StoredTrue
<1>4. SuccessTrue'
  BY DEF Quiet, RecordInv, SuccessTrue
<1> QED BY <1>1, <1>2, <1>3, <1>4

\* A worker that does not move stays honest.
LEMMA HonestStays ==
  ASSUME RecordInv, Grows, NEW w \in Workers
  PROVE  Honest(worker[w], jobs', woo')
<1> DEFINE r == worker[w]
<1>1. /\ \A i \in DOMAIN r.items : r.items[i] \in Item /\ Exists(r.items[i].claim.id)
      /\ ProductsOf(r.items) \subseteq Products
  BY InHand DEF RecordInv, TypeInv, AllPresent, WorkersPresent
<1>2. Honest(r, jobs, woo)
  BY DEF RecordInv
<1> HIDE DEF r
<1>3. Loaded(r.items, jobs')
  BY <1>1, <1>2 DEF Honest, Loaded, Grows, Item, Claim
<1>4. Taken(r.items, r.failed, woo) => Taken(r.items, r.failed, woo')
  BY <1>1 DEF Taken, Grows
<1>5. Honest(r, jobs', woo')
  BY <1>2, <1>3, <1>4 DEF Honest
<1> QED BY <1>5 DEF r

LEMMA WorkersHonest ==
  ASSUME RecordInv, TypeInv', Grows, worker' = worker,
         RowsKnown', StoredTrue', SuccessTrue'
  PROVE  RecordInv'
<1>1. \A w \in Workers : Honest(worker'[w], jobs', woo')
  BY HonestStays
<1> QED BY <1>1 DEF RecordInv

LEMMA WorkerHonest ==
  ASSUME RecordInv, TypeInv', Grows, NEW w \in Workers, NEW r,
         worker' = [worker EXCEPT ![w] = r], Honest(r, jobs', woo'),
         RowsKnown', StoredTrue', SuccessTrue'
  PROVE  RecordInv'
<1>1. ASSUME NEW v \in Workers PROVE Honest(worker'[v], jobs', woo')
  <2>1. worker \in [Workers -> Work]
    BY DEF RecordInv, TypeInv, TypeOK, EngineTypeOK
  <2>2. v = w => worker'[v] = r
    BY <2>1
  <2>3. v # w => worker'[v] = worker[v]
    BY <2>1
  <2> QED BY <2>2, <2>3, HonestStays
<1> QED BY <1>1 DEF RecordInv

\* What a worker holds, as far as it matters here.
LEMMA HandHonest ==
  ASSUME RecordInv, NEW w \in Workers
  PROVE  /\ worker[w].items \in Seq(Item)
         /\ \A i \in DOMAIN worker[w].items :
              worker[w].items[i] \in Item /\ Exists(worker[w].items[i].claim.id)
         /\ Loaded(worker[w].items, jobs)
         /\ \A p \in ProductsOf(worker[w].items) : Known(products, p) /\ p \in Products
<1> DEFINE items == worker[w].items
<1>1. /\ items \in Seq(Item) /\ ProductsOf(items) \subseteq Products
      /\ \A i \in DOMAIN items : items[i] \in Item /\ Exists(items[i].claim.id)
      /\ Loaded(items, jobs)
  BY InHand DEF RecordInv, TypeInv, AllPresent, WorkersPresent, Honest
<1> HIDE DEF items
<1>2. \A i \in DOMAIN items : Known(products, items[i].product)
  BY <1>1 DEF Loaded, RecordInv, RowsKnown, Item, Claim
<1>3. \A p \in ProductsOf(items) : Known(products, p) /\ p \in Products
  BY <1>1, <1>2 DEF ProductsOf
<1> QED BY <1>1, <1>3 DEF items

-----------------------------------------------------------------------------
(* Claiming and loading.                                                   *)

LEMMA ClaimJobsRecord == ASSUME RecordInv, TypeInv', ClaimJobs PROVE RecordInv'
<1>1. PICK S \in SUBSET Claimable(jobs, turn) : jobs' = ClaimPendingJobs(jobs, S)
  BY DEF ClaimJobs
<1>2. Quiet(jobs')
  <2>1. \A j \in S : j \in JobIds /\ Exists(j)
    BY DEF Claimable, Exists
  <2>2. \A j \in JobIds : jobs[j] \in JobRow
    BY DEF RecordInv, TypeInv, TypeOK, TablesTypeOK
  <2>3. \A j \in JobIds :
          jobs'[j] = IF j \in S THEN [jobs[j] EXCEPT !.state = "RUNNING", !.due = FALSE]
                                ELSE jobs[j]
    BY <1>1 DEF ClaimPendingJobs
  <2> QED BY <2>1, <2>2, <2>3 DEF Quiet, Exists, JobRow
<1>3. UNCHANGED <<products, woo, worker>>
  BY DEF ClaimJobs
<1> QED BY <1>2, <1>3, QuietStep, WorkersHonest

LEMMA SubmitBatchRecord == ASSUME RecordInv, TypeInv', SubmitBatch PROVE RecordInv'
<1>1. UNCHANGED <<jobs, products, woo, worker>>
  BY DEF SubmitBatch
<1> QED BY <1>1, QuietJobs, QuietStep, WorkersHonest

\* A batch that is loaded, or given up because nothing could be.
LEMMA LoadingHonest ==
  ASSUME NEW todo, NEW items, NEW tab, NEW shop, Loaded(items, tab)
  PROVE  Honest(Loading(todo, items), tab, shop)
<1>1. DOMAIN <<>> = {}
  OBVIOUS
<1> QED BY <1>1 DEF Loading, NoWork, Honest, Loaded

LEMMA TakeTaskRecord ==
  ASSUME RecordInv, TypeInv', NEW w \in Workers, TakeTask(w)
  PROVE  RecordInv'
<1> DEFINE r == Loading(Head(queue[TypeOf(w)]), <<>>)
<1>1. worker' = [worker EXCEPT ![w] = r] /\ UNCHANGED <<jobs, products, woo>>
  BY DEF TakeTask
<1>2. DOMAIN <<>> = {}
  OBVIOUS
<1>3. Honest(r, jobs', woo')
  BY <1>2, LoadingHonest DEF Loaded
<1> HIDE DEF r
<1> QED BY <1>1, <1>3, QuietJobs, QuietStep, WorkerHonest

LEMMA LoadProductRecord ==
  ASSUME RecordInv, TypeInv', NEW w \in Workers, LoadProduct(w)
  PROVE  RecordInv'
<1> DEFINE items == worker[w].items
<1>1. PICK c \in worker[w].todo :
        worker' = [worker EXCEPT ![w] =
                     Loading(@.todo \ {c},
                             Append(@.items, [claim |-> c, product |-> jobs[c.id].product,
                                              version |-> products[jobs[c.id].product].fp]))]
  BY DEF LoadProduct
<1> DEFINE item == [claim |-> c, product |-> jobs[c.id].product,
                    version |-> products[jobs[c.id].product].fp]
           more == Append(items, item)
           r == Loading(worker[w].todo \ {c}, more)
<1>2. c \in Claim /\ Exists(c.id)
  BY InHand DEF RecordInv, TypeInv, AllPresent, WorkersPresent, Present
<1>3. worker' = [worker EXCEPT ![w] = r] /\ UNCHANGED <<jobs, products, woo>>
  <2>1. worker \in [Workers -> Work]
    BY DEF RecordInv, TypeInv, TypeOK, EngineTypeOK
  <2> QED BY <1>1, <2>1 DEF LoadProduct
<1>4. item.version # 0 /\ item.product = jobs[item.claim.id].product
  BY <1>2 DEF RecordInv, RowsKnown, Known, Claim
<1>5. items \in Seq(Item) /\ Loaded(items, jobs)
  BY HandHonest
<1> HIDE DEF items, item
<1>6. Loaded(more, jobs)
  <2>1. \A i \in DOMAIN more : more[i] = item \/ (i \in DOMAIN items /\ more[i] = items[i])
    BY <1>5
  <2> HIDE DEF more
  <2> QED BY <1>4, <1>5, <2>1 DEF Loaded
<1> HIDE DEF more
<1>7. Honest(r, jobs', woo')
  BY <1>3, <1>6, LoadingHonest
<1> HIDE DEF r
<1> QED BY <1>3, <1>7, QuietJobs, QuietStep, WorkerHonest

LEMMA LoadFailsRecord ==
  ASSUME RecordInv, TypeInv', NEW w \in Workers, LoadFails(w)
  PROVE  RecordInv'
<1>1. PICK c \in worker[w].todo :
         /\ jobs' \in {jobs, Failure(c)}
         /\ worker' = [worker EXCEPT ![w] = Loading(@.todo \ {c}, @.items)]
  BY DEF LoadFails
<1> DEFINE r == Loading(worker[w].todo \ {c}, worker[w].items)
<1>2. c \in Claim /\ Exists(c.id)
  BY InHand DEF RecordInv, TypeInv, AllPresent, WorkersPresent, Present
<1>3. Quiet(jobs') /\ UNCHANGED <<products, woo>>
  BY <1>1, <1>2, QuietFailure, QuietJobs DEF LoadFails, RecordInv
<1>4. worker' = [worker EXCEPT ![w] = r]
  <2>1. worker \in [Workers -> Work]
    BY DEF RecordInv, TypeInv, TypeOK, EngineTypeOK
  <2> QED BY <1>1, <2>1
<1>5. Grows /\ RowsKnown' /\ StoredTrue' /\ SuccessTrue'
  BY <1>3, QuietStep
<1>6. Loaded(worker[w].items, jobs')
  BY <1>5, HonestStays DEF Honest
<1>7. Honest(r, jobs', woo')
  BY <1>6, LoadingHonest
<1> HIDE DEF r
<1> QED BY <1>4, <1>5, <1>7, WorkerHonest

-----------------------------------------------------------------------------
(* The call.                                                               *)

\* The price after a call is the one before it or the one of an accepted item.
LEMMA AcceptedPrice ==
  ASSUME NEW type, NEW items \in Seq(Item), NEW answer, NEW p \in Products
  PROVE  LET shop == Accepted(type, items, answer) IN
         \/ shop[p] = woo[p] /\ \A i \in Positions(items, p) : answer[i]
         \/ \E i \in Positions(items, p) :
              ~answer[i] /\ shop[p].price = items[i].version
<1> DEFINE shop == Accepted(type, items, answer)
           sent == {i \in Positions(items, p) : ~answer[i]}
           stocked == {i \in sent : SetsStock(type, items[i].version)}
           l == Last(sent)
<1>1. shop[p] = IF sent = {} THEN woo[p]
                ELSE [price |-> items[Last(sent)].version,
                      stock |-> IF stocked = {} THEN woo[p].stock
                                ELSE items[Last(stocked)].version]
  BY DEF Accepted
<1> HIDE DEF shop
<1>2. sent # {} => l \in sent
  <2>1. Len(items) \in Nat /\ DOMAIN items = 1..Len(items)
    OBVIOUS
  <2>2. sent \in SUBSET (1..Len(items))
    BY <2>1 DEF Positions
  <2> HIDE DEF sent
  <2> QED BY <2>1, <2>2, LastIsLast
<1>3. sent # {} => shop[p].price = items[l].version
  BY <1>1
<1>4. sent = {} => shop[p] = woo[p]
  BY <1>1
<1> HIDE DEF l
<1>5. CASE sent = {}
  BY <1>4, <1>5 DEF shop
<1>6. CASE sent # {}
  <2>1. l \in Positions(items, p) /\ ~answer[l]
    BY <1>2, <1>6
  <2> QED BY <1>3, <1>6, <2>1 DEF shop
<1> QED BY <1>5, <1>6

\* An accepted item puts its product into the shop, and no item takes one out.
LEMMA AcceptedGrows ==
  ASSUME NEW type, NEW items \in Seq(Item), Loaded(items, jobs), NEW answer
  PROVE  LET shop == Accepted(type, items, answer) IN
         /\ \A p \in Products : woo[p].price # 0 => shop[p].price # 0
         /\ \A p \in Products : \A i \in Positions(items, p) :
              ~answer[i] => shop[p].price # 0
<1> DEFINE shop == Accepted(type, items, answer)
<1>1. ASSUME NEW p \in Products
      PROVE  \/ shop[p] = woo[p] /\ \A i \in Positions(items, p) : answer[i]
             \/ \E i \in Positions(items, p) :
                  ~answer[i] /\ shop[p].price = items[i].version
  BY AcceptedPrice
<1>2. \A p \in Products : \A i \in Positions(items, p) : items[i].version # 0
  BY DEF Positions, Loaded
<1> HIDE DEF shop
<1>3. \A p \in Products : woo[p].price # 0 => shop[p].price # 0
  BY <1>1, <1>2
<1>4. \A p \in Products : \A i \in Positions(items, p) : ~answer[i] => shop[p].price # 0
  BY <1>1, <1>2
<1> QED BY <1>3, <1>4 DEF shop

\* A product that is not among the failures had an item that was accepted.
LEMMA SuccessfulSent ==
  ASSUME NEW type, NEW items, NEW answer,
         NEW p \in ProductsOf(items) \ Unsuccessful(type, items, answer)
  PROVE  \E i \in Positions(items, p) : ~answer[i]
<1>1. PICK i \in DOMAIN items : items[i].product = p
  BY DEF ProductsOf
<1>2. CASE type = "create"
  BY <1>2 DEF Unsuccessful, SKUToWooID, Positions
<1>3. CASE type # "create"
  <2>1. ~answer[i]
    BY <1>1, <1>3 DEF Unsuccessful, FailedIDs
  <2> QED BY <1>1, <2>1 DEF Positions
<1> QED BY <1>2, <1>3

\* The shop after a call, for what is recorded of it.
LEMMA ShopStep ==
  ASSUME RecordInv, UNCHANGED <<jobs, products>>,
         \A p \in Products : woo[p].price # 0 => woo'[p].price # 0
  PROVE  Grows /\ RowsKnown' /\ StoredTrue' /\ SuccessTrue'
<1>1. Grows
  BY DEF Grows
<1>2. RowsKnown' /\ StoredTrue'
  BY DEF RecordInv, RowsKnown, StoredTrue, Exists
<1>3. SuccessTrue'
  <2>1. \A j \in JobIds : jobs[j].state = "SUCCESS" => jobs[j].product \in Products
    BY DEF RecordInv, TypeInv, Named
  <2> QED BY <2>1 DEF RecordInv, SuccessTrue
<1> QED BY <1>1, <1>2, <1>3

LEMMA ResultsHonest ==
  ASSUME NEW items, NEW failed, NEW tab, NEW shop, Loaded(items, tab),
         Taken(items, failed, shop)
  PROVE  Honest(Results(items, failed), tab, shop)
<1>1. DOMAIN <<>> = {}
  OBVIOUS
<1> QED BY <1>1 DEF Results, NoWork, Honest, Loaded

LEMMA AbortingHonest ==
  ASSUME NEW items, NEW left, NEW tab, NEW shop, Loaded(items, tab)
  PROVE  Honest(Aborting(items, left), tab, shop)
<1>1. DOMAIN <<>> = {}
  OBVIOUS
<1> QED BY <1>1 DEF Aborting, NoWork, Honest, Loaded

LEMMA CallWooRecord ==
  ASSUME RecordInv, TypeInv', NEW w \in Workers, CallWoo(w)
  PROVE  RecordInv'
<1> DEFINE items == worker[w].items
           type == TypeOf(w)
<1>1. PICK answer \in Answers(type, items) :
         /\ woo' = Accepted(type, items, answer)
         /\ worker' = [worker EXCEPT ![w] =
                         Results(items, Unsuccessful(type, items, answer))]
  BY DEF CallWoo
<1> DEFINE failed == Unsuccessful(type, items, answer)
           r == Results(items, failed)
<1>2. UNCHANGED <<jobs, products>>
  BY DEF CallWoo
<1>3. /\ items \in Seq(Item) /\ Loaded(items, jobs)
      /\ \A p \in ProductsOf(items) : p \in Products
  BY HandHonest
<1> HIDE DEF items, type
<1>4. /\ \A p \in Products : woo[p].price # 0 => woo'[p].price # 0
      /\ \A p \in Products : \A i \in Positions(items, p) : ~answer[i] => woo'[p].price # 0
  BY <1>1, <1>3, AcceptedGrows
<1>5. Taken(items, failed, woo')
  BY <1>3, <1>4, SuccessfulSent DEF Taken
<1> HIDE DEF failed
<1>6. Honest(r, jobs', woo')
  BY <1>2, <1>3, <1>5, ResultsHonest
<1>7. worker' = [worker EXCEPT ![w] = r]
  BY <1>1 DEF failed
<1> HIDE DEF r
<1> QED BY <1>2, <1>4, <1>6, <1>7, ShopStep, WorkerHonest

LEMMA CallFailsRecord ==
  ASSUME RecordInv, TypeInv', NEW w \in Workers, CallFails(w)
  PROVE  RecordInv'
<1> DEFINE items == worker[w].items
           r == Aborting(items, ProductsOf(items))
<1>1. PICK answer \in Answers(TypeOf(w), items) :
         woo' = Accepted(TypeOf(w), items, answer)
  BY DEF CallFails
<1>2. worker' = [worker EXCEPT ![w] = r] /\ UNCHANGED <<jobs, products>>
  BY DEF CallFails
<1>3. items \in Seq(Item) /\ Loaded(items, jobs)
  BY HandHonest
<1> HIDE DEF items
<1>4. \A p \in Products : woo[p].price # 0 => woo'[p].price # 0
  BY <1>1, <1>3, AcceptedGrows
<1>5. Honest(r, jobs', woo')
  BY <1>2, <1>3, AbortingHonest
<1> HIDE DEF r
<1> QED BY <1>2, <1>4, <1>5, ShopStep, WorkerHonest

LEMMA AbortJobRecord ==
  ASSUME RecordInv, TypeInv', NEW w \in Workers, AbortJob(w)
  PROVE  RecordInv'
<1> DEFINE items == worker[w].items
<1>1. PICK p \in worker[w].failed :
         /\ Write(Failure(Owner(items, p)))
         /\ worker' = [worker EXCEPT ![w] = Aborting(items, @.failed \ {p})]
  BY DEF AbortJob, HandleJobFailure
<1> DEFINE r == Aborting(items, worker[w].failed \ {p})
<1>2. p \in ProductsOf(items)
  BY DEF AbortJob, RecordInv, TypeInv, AllPresent, WorkersPresent, Sound
<1>3. Owner(items, p) \in Claim /\ Exists(Owner(items, p).id)
  BY <1>2, InHand DEF RecordInv
<1>4. Quiet(jobs') /\ UNCHANGED <<products, woo>>
  BY <1>1, <1>3, QuietWrite DEF AbortJob, RecordInv
<1>5. Grows /\ RowsKnown' /\ StoredTrue' /\ SuccessTrue'
  BY <1>4, QuietStep
<1>6. worker' = [worker EXCEPT ![w] = r]
  <2>1. worker \in [Workers -> Work]
    BY DEF RecordInv, TypeInv, TypeOK, EngineTypeOK
  <2> QED BY <1>1, <2>1
<1>7. Loaded(items, jobs')
  BY <1>5, HonestStays DEF Honest
<1>8. Honest(r, jobs', woo')
  BY <1>7, AbortingHonest
<1> HIDE DEF r
<1> QED BY <1>5, <1>6, <1>8, WorkerHonest

-----------------------------------------------------------------------------
(* The result loop.                                                        *)

LEMMA NextItemHonest ==
  ASSUME RecordInv, TypeInv', NEW w \in Workers, NextItem(w),
         worker[w].pc \in {"record", "mark"}, Grows,
         RowsKnown', StoredTrue', SuccessTrue'
  PROVE  RecordInv'
<1> DEFINE items == worker[w].items
           failed == worker[w].failed
           rest == Tail(items)
           r == Results(rest, failed)
<1>1. worker' = [worker EXCEPT ![w] = r]
  <2>1. worker \in [Workers -> Work]
    BY DEF RecordInv, TypeInv, TypeOK, EngineTypeOK
  <2> QED BY <2>1 DEF NextItem
<1>2. items \in Seq(Item) /\ items # <<>>
  BY HandHonest DEF RecordInv, TypeInv, AllPresent, WorkersPresent, Sound
<1>3. Loaded(items, jobs') /\ Taken(items, failed, woo')
  BY HonestStays DEF Honest
<1> HIDE DEF items, failed
<1>4. \A i \in DOMAIN rest : i + 1 \in DOMAIN items /\ rest[i] = items[i + 1]
  BY <1>2
<1> HIDE DEF rest
<1>5. Loaded(rest, jobs')
  BY <1>3, <1>4 DEF Loaded
<1>6. Taken(rest, failed, woo')
  BY <1>3, <1>4 DEF Taken, ProductsOf
<1>7. Honest(r, jobs', woo')
  BY <1>5, <1>6, ResultsHonest
<1> HIDE DEF r
<1> QED BY <1>1, <1>7, WorkerHonest

\* The item in hand: if it was not refused, its product is in the shop.
LEMMA CurrentHonest ==
  ASSUME RecordInv, NEW w \in Workers, worker[w].pc \in {"record", "mark"}
  PROVE  LET c == Owner(worker[w].items, Current(w)) IN
         /\ Current(w) \in Products /\ Known(products, Current(w))
         /\ c \in Claim /\ Exists(c.id) /\ jobs[c.id].product = Current(w)
         /\ worker[w].pc = "mark" => ~Refused(w)
         /\ ~Refused(w) => woo[Current(w)].price # 0
<1> DEFINE items == worker[w].items
           c == Owner(items, Current(w))
<1>1. worker[w].items # <<>> /\ TypeInv
  BY DEF RecordInv, TypeInv, AllPresent, WorkersPresent, Sound
<1>2. Current(w) \in ProductsOf(items)
  BY <1>1, CurrentLoaded
<1>3. Current(w) \in Products /\ Known(products, Current(w))
  BY <1>2, HandHonest
<1>4. c \in Claim /\ Exists(c.id)
  BY <1>1, <1>2, InHand
<1>5. jobs[c.id].product = Current(w)
  <2>1. items \in Seq(Item) /\ Loaded(items, jobs)
    BY HandHonest
  <2>2. PICK i \in DOMAIN items : items[i].product = Current(w) /\ c = items[i].claim
    BY <1>2, <2>1, OwnerType
  <2> HIDE DEF items, c
  <2> QED BY <2>1, <2>2 DEF Loaded
<1>6. worker[w].pc = "mark" => ~Refused(w)
  BY DEF RecordInv, Honest, Refused, Current
<1>7. ~Refused(w) => woo[Current(w)].price # 0
  <2>1. Taken(items, worker[w].failed, woo)
    BY DEF RecordInv, Honest
  <2> QED BY <1>2, <2>1 DEF Taken, Refused
<1> QED BY <1>3, <1>4, <1>5, <1>6, <1>7

LEMMA RecordFailureRecord ==
  ASSUME RecordInv, TypeInv', NEW w \in Workers, RecordFailure(w)
  PROVE  RecordInv'
<1> DEFINE c == Owner(worker[w].items, Current(w))
<1>1. worker[w].pc \in {"record", "mark"} /\ NextItem(w)
  BY DEF RecordFailure
<1>2. c \in Claim /\ Exists(c.id)
  BY <1>1, CurrentHonest
<1>3. Write(Failure(c)) /\ UNCHANGED <<products, woo>>
  BY DEF RecordFailure, HandleJobFailure
<1> HIDE DEF c
<1>4. Quiet(jobs')
  BY <1>2, <1>3, QuietWrite DEF RecordInv
<1>5. Grows /\ RowsKnown' /\ StoredTrue' /\ SuccessTrue'
  BY <1>3, <1>4, QuietStep
<1> QED BY <1>1, <1>5, NextItemHonest

LEMMA StoreWooIdRecord ==
  ASSUME RecordInv, TypeInv', NEW w \in Workers, StoreWooId(w)
  PROVE  RecordInv'
<1> DEFINE p == Current(w)
           r == [worker[w] EXCEPT !.pc = "mark"]
<1>1. worker[w].pc = "record" /\ ~Refused(w) /\ UNCHANGED <<jobs, woo>>
  BY DEF StoreWooId
<1>2. p \in Products /\ Known(products, p) /\ woo[p].price # 0
  BY <1>1, CurrentHonest
<1>3. products' = [products EXCEPT ![p].woo = TRUE] \/ products' = products
  BY DEF StoreWooId, UpdateWooID
<1> HIDE DEF p
<1>4. /\ \A q \in Products : products'[q].fp = products[q].fp
      /\ \A q \in Products : products'[q].woo => products[q].woo \/ q = p
  <2>1. products \in [Products -> ProductRow]
    BY DEF RecordInv, TypeInv, TypeOK, TablesTypeOK
  <2>2. \A q \in Products : products[q] \in ProductRow
    BY <2>1
  <2> QED BY <1>2, <1>3, <2>1, <2>2 DEF ProductRow
<1>5. Grows
  BY <1>1 DEF Grows
<1>6. StoredTrue'
  BY <1>1, <1>2, <1>4 DEF RecordInv, StoredTrue, Known
<1>7. RowsKnown' /\ SuccessTrue'
  <2>1. \A j \in JobIds : Exists(j) => jobs[j].product \in Products
    BY DEF RecordInv, TypeInv, Named, Exists
  <2> QED BY <1>1, <1>4, <2>1 DEF RecordInv, RowsKnown, SuccessTrue, Known, Exists
<1>8. worker' = [worker EXCEPT ![w] = r]
  <2>1. worker \in [Workers -> Work]
    BY DEF RecordInv, TypeInv, TypeOK, EngineTypeOK
  <2> QED BY <2>1 DEF StoreWooId
<1>9. Honest(r, jobs', woo')
  <2>1. worker[w] \in Work
    BY DEF RecordInv, TypeInv, TypeOK, EngineTypeOK
  <2>2. r.items = worker[w].items /\ r.failed = worker[w].failed
    BY <2>1 DEF Work
  <2>3. Loaded(r.items, jobs') /\ Taken(r.items, r.failed, woo')
    BY <1>1, <1>5, <2>2, HonestStays DEF Honest
  <2>4. Head(r.items).product \notin r.failed
    BY <1>1, <2>2 DEF Refused, Current
  <2> QED BY <2>3, <2>4 DEF Honest
<1> HIDE DEF r
<1> QED BY <1>5, <1>6, <1>7, <1>8, <1>9, WorkerHonest

LEMMA MarkSuccessRecord ==
  ASSUME RecordInv, TypeInv', NEW w \in Workers, MarkSuccess(w)
  PROVE  RecordInv'
<1> DEFINE c == Owner(worker[w].items, Current(w))
           p == Current(w)
<1>1. worker[w].pc \in {"record", "mark"} /\ NextItem(w) /\ UNCHANGED <<products, woo>>
  BY DEF MarkSuccess
<1>2. /\ p \in Products /\ woo[p].price # 0
      /\ c \in Claim /\ Exists(c.id) /\ jobs[c.id].product = p
  BY <1>1, CurrentHonest DEF MarkSuccess
<1>3. jobs' = UpdateJobStatus(jobs, c.id, "SUCCESS", c.retries) \/ jobs' = jobs
  BY DEF MarkSuccess, Write
<1> HIDE DEF c, p
<1>4. \A j \in JobIds :
        /\ jobs'[j].product = jobs[j].product
        /\ jobs'[j].state # "ABSENT" => Exists(j)
        /\ jobs'[j].state = "SUCCESS" => jobs[j].state = "SUCCESS" \/ j = c.id
  <2>1. /\ jobs \in [JobIds -> JobRow] /\ c.id \in JobIds
        /\ \A j \in JobIds : jobs[j] \in JobRow
    BY <1>2 DEF RecordInv, TypeInv, TypeOK, TablesTypeOK, Claim
  <2> QED BY <1>2, <1>3, <2>1 DEF UpdateJobStatus, JobRow, Exists
<1>5. Grows
  BY <1>1, <1>4 DEF Grows
<1>6. RowsKnown' /\ StoredTrue'
  BY <1>1, <1>4 DEF RecordInv, RowsKnown, StoredTrue, Exists
<1>7. SuccessTrue'
  BY <1>1, <1>2, <1>4 DEF RecordInv, SuccessTrue
<1> QED BY <1>1, <1>5, <1>6, <1>7, NextItemHonest

-----------------------------------------------------------------------------
(* The other steps, and the theorem.                                       *)

LEMMA RecoverStaleRecord == ASSUME RecordInv, TypeInv', RecoverStale PROVE RecordInv'
<1>1. Quiet(jobs')
  <2>1. \A j \in JobIds : jobs[j] \in JobRow
    BY DEF RecordInv, TypeInv, TypeOK, TablesTypeOK
  <2>2. \A j \in JobIds :
          jobs'[j] = IF j \in Stale(jobs)
                     THEN [jobs[j] EXCEPT !.state = "PENDING", !.due = FALSE] ELSE jobs[j]
    BY DEF RecoverStale, RecoverStaleJobs
  <2> QED BY <2>1, <2>2 DEF Quiet, Exists, Stale, JobRow
<1>2. UNCHANGED <<products, woo, worker>>
  BY DEF RecoverStale
<1> QED BY <1>1, <1>2, QuietStep, WorkersHonest

LEMMA TickRecord ==
  ASSUME RecordInv, TypeInv', NEW j \in JobIds, Tick(j)
  PROVE  RecordInv'
<1>1. jobs' = [jobs EXCEPT ![j].due = TRUE] /\ UNCHANGED <<products, woo, worker>>
  BY DEF Tick, Elapse, memory
<1>2. Quiet(jobs')
  <2>1. jobs \in [JobIds -> JobRow] /\ \A k \in JobIds : jobs[k] \in JobRow
    BY DEF RecordInv, TypeInv, TypeOK, TablesTypeOK
  <2> QED BY <1>1, <2>1 DEF Quiet, Exists, JobRow
<1> QED BY <1>1, <1>2, QuietStep, WorkersHonest

LEMMA CrashRecord == ASSUME RecordInv, TypeInv', Crash PROVE RecordInv'
<1>1. UNCHANGED <<jobs, products, woo>> /\ worker' = [w \in Workers |-> NoWork]
  BY DEF Crash
<1>2. RowsKnown' /\ StoredTrue' /\ SuccessTrue'
  BY <1>1, QuietJobs, QuietStep
<1>3. DOMAIN <<>> = {}
  OBVIOUS
<1>4. Honest(NoWork, jobs', woo')
  BY <1>3 DEF NoWork, Honest, Loaded
<1>5. \A w \in Workers : worker'[w] = NoWork
  BY <1>1
<1> QED BY <1>2, <1>4, <1>5 DEF RecordInv

\* What the change detector may do to the tables: rows are written that keep
\* their woo_id, and a job is inserted for a product that has a row.
Feeds ==
    /\ UNCHANGED <<woo, crashes, turn, claimed, queue, worker>>
    /\ faults' \in 0..MaxFaults
    /\ products' \in [Products -> ProductRow]
    /\ \A p \in Products : /\ Known(products, p) => Known(products', p)
                           /\ products'[p].woo = products[p].woo
    /\ \/ UNCHANGED jobs
       \/ \E p \in Products, type \in JobTypes :
            Room(jobs) /\ jobs' = CreateJob(jobs, p, type) /\ Known(products', p)

LEMMA FeedsType == ASSUME RecordInv, Feeds PROVE TypeInv'
<1>1. Good(jobs') /\ Keeps(jobs')
  <2>1. CASE UNCHANGED jobs
    BY <2>1, TypeInvGood DEF RecordInv, Good, Named, Keeps, Exists
  <2>2. CASE \E p \in Products, type \in JobTypes :
               Room(jobs) /\ jobs' = CreateJob(jobs, p, type)
    BY <2>2, CreateWrites, TypeInvGood DEF RecordInv
  <2> QED BY <2>1, <2>2 DEF Feeds
<1>2. EngineTypeOK' /\ AllPresent'
  BY <1>1, MemoryStays DEF Feeds, memory, RecordInv
<1> QED BY <1>1, <1>2 DEF Feeds, RecordInv, TypeInv, TypeOK, TablesTypeOK, Good

\* A row that was there is left alone, and at most one is new: it has the smallest id
\* that is free.
LEMMA FeedsRows ==
  ASSUME RecordInv, Feeds
  PROVE  /\ \A j \in JobIds : Exists(j) => jobs'[j] = jobs[j]
         /\ \A j \in JobIds : ~Exists(j) =>
              \/ jobs'[j] = jobs[j]
              \/ /\ jobs'[j].state = "PENDING"
                 /\ jobs'[j].product \in Products /\ Known(products', jobs'[j].product)
                 /\ \A k \in JobIds \ {j} : jobs'[k] = jobs[k]
                 /\ \A k \in 1..(j - 1) : Exists(k)
<1>1. CASE UNCHANGED jobs
  BY <1>1
<1>2. CASE ~UNCHANGED jobs
  <2>1. PICK p \in Products, type \in JobTypes :
          Room(jobs) /\ jobs' = CreateJob(jobs, p, type) /\ Known(products', p)
    BY <1>2 DEF Feeds
  <2> DEFINE n == NextId(jobs)
  <2>2. n \in JobIds /\ ~Exists(n) /\ \A k \in 1..(n - 1) : Exists(k)
    BY <2>1, NextIdFree DEF Exists
  <2>3. jobs \in [JobIds -> JobRow]
    BY DEF RecordInv, TypeInv, TypeOK, TablesTypeOK
  <2>4. jobs'[n].product = p /\ jobs'[n].state = "PENDING"
    BY <2>1, <2>2, <2>3 DEF CreateJob
  <2>5. \A j \in JobIds \ {n} : jobs'[j] = jobs[j]
    BY <2>1, <2>2, <2>3 DEF CreateJob
  <2> HIDE DEF n
  <2> QED BY <2>1, <2>2, <2>4, <2>5
<1> QED BY <1>1, <1>2

LEMMA FeedsRecord == ASSUME RecordInv, Feeds PROVE RecordInv'
<1>1. TypeInv'
  BY FeedsType
<1>2. UNCHANGED <<woo, worker>>
  BY DEF Feeds
<1>3. /\ \A q \in Products : Known(products, q) => Known(products', q)
      /\ \A q \in Products : products'[q].woo = products[q].woo
  BY DEF Feeds
<1>4. \A j \in JobIds : Exists(j) => jobs[j].product \in Products
  BY DEF RecordInv, TypeInv, Named, Exists
<1>5. /\ \A j \in JobIds : Exists(j) => jobs'[j] = jobs[j]
      /\ \A j \in JobIds : ~Exists(j) =>
           \/ jobs'[j] = jobs[j]
           \/ /\ jobs'[j].state = "PENDING"
              /\ jobs'[j].product \in Products /\ Known(products', jobs'[j].product)
  BY FeedsRows
<1>6. Grows
  BY <1>2, <1>5 DEF Grows
<1>7. RowsKnown'
  <2>1. ASSUME NEW j \in JobIds, jobs'[j].state # "ABSENT"
        PROVE  Known(products', jobs'[j].product)
    BY <1>3, <1>4, <1>5, <2>1 DEF RecordInv, RowsKnown, Exists
  <2> QED BY <2>1 DEF RowsKnown, Exists
<1>8. StoredTrue'
  BY <1>2, <1>3 DEF RecordInv, StoredTrue
<1>9. SuccessTrue'
  BY <1>2, <1>5 DEF RecordInv, SuccessTrue
<1> QED BY <1>1, <1>2, <1>6, <1>7, <1>8, <1>9, WorkersHonest

\* A new job is of a product that is known: of the row inserted with it, or of one
\* that has its woo_id.
LEMMA EnqueueFeeds ==
  ASSUME RecordInv, NEW p \in Products, EnqueueCreate(p) \/ EnqueueUpdate(p)
  PROVE  Feeds
<1>1. /\ products \in [Products -> ProductRow] /\ faults \in 0..MaxFaults
  BY DEF RecordInv, TypeInv, TypeOK, TablesTypeOK
<1>2. CASE EnqueueCreate(p)
  <2>1. PICK v \in Versions \ {0} :
          products' = [products EXCEPT ![p] =
                         [fp |-> v, woo |-> products[p].woo,
                          fetched |-> TRUE \/ products[p].fetched, detail |-> TRUE]]
    BY <1>2 DEF EnqueueCreate, UpsertProduct
  <2>2. products' \in [Products -> ProductRow]
    BY <1>1, <2>1 DEF ProductRow
  <2>3. Known(products', p)
    BY <1>1, <2>1 DEF Known
  <2>4. \A q \in Products : /\ Known(products, q) => Known(products', q)
                            /\ products'[q].woo = products[q].woo
    BY <1>1, <2>1 DEF Known
  <2>5. Room(jobs) /\ jobs' = CreateJob(jobs, p, "create") /\ "create" \in JobTypes
    BY <1>2 DEF EnqueueCreate, JobTypes
  <2>6. UNCHANGED <<woo, faults, crashes, turn, claimed, queue, worker>>
    BY <1>2 DEF EnqueueCreate
  <2> QED BY <1>1, <2>2, <2>3, <2>4, <2>5, <2>6 DEF Feeds
<1>3. CASE EnqueueUpdate(p)
  <2>1. Room(jobs) /\ jobs' = CreateJob(jobs, p, "update") /\ "update" \in JobTypes
    BY <1>3 DEF EnqueueUpdate, JobTypes
  <2>2. UNCHANGED <<products, woo, faults, crashes, turn, claimed, queue, worker>>
    BY <1>3 DEF EnqueueUpdate
  <2>3. Known(products', p)
    BY <1>3, <2>2 DEF EnqueueUpdate, RecordInv, StoredTrue
  <2> QED BY <1>1, <2>1, <2>2, <2>3 DEF Feeds
<1> QED BY <1>2, <1>3

LEMMA EnqueueRecord ==
  ASSUME RecordInv, NEW p \in Products, EnqueueCreate(p) \/ EnqueueUpdate(p)
  PROVE  RecordInv'
  BY EnqueueFeeds, FeedsRecord

LEMMA RecordStep == RecordInv /\ [Next]_vars => RecordInv'
<1> SUFFICES ASSUME RecordInv, [Next]_vars PROVE RecordInv'
  OBVIOUS
<1>1. TypeInv'
  BY TypeStep DEF RecordInv
<1>2. ASSUME NEW w \in Workers, WorkerStep(w) PROVE RecordInv'
  BY <1>1, <1>2, TakeTaskRecord, LoadProductRecord, LoadFailsRecord, CallWooRecord,
     CallFailsRecord, AbortJobRecord, RecordFailureRecord, StoreWooIdRecord,
     MarkSuccessRecord DEF WorkerStep
<1>3. CASE UNCHANGED vars
  <2>1. UNCHANGED <<jobs, products, woo, worker>>
    BY <1>3 DEF vars
  <2> QED BY <1>1, <2>1, QuietJobs, QuietStep, WorkersHonest
<1> QED
  BY <1>1, <1>2, <1>3, ClaimJobsRecord, SubmitBatchRecord, RecoverStaleRecord,
     CrashRecord, TickRecord, EnqueueRecord DEF Next, EngineNext

LEMMA RecordInvCorrect == Spec => []RecordInv
  BY RecordInit, RecordStep, PTL DEF Spec

\* A woo_id is stored, and a job is SUCCESS, only for a product the shop has, with
\* any clock, any number of workers and batches that repeat a product
\* (processBatch, doBatchRequest).
THEOREM RecordsAreReal == Spec => []RecordedIsReal
<1>1. RecordInv => RecordedIsReal
  BY RecordInvReal
<1> QED BY <1>1, RecordInvCorrect, PTL

-----------------------------------------------------------------------------
(***************************************************************************)
(* What reaches the shop of a product whose row stays as it is.  The jobs  *)
(* of the product are numbered in the order in which they were inserted;   *)
(* the last one decides.  Once it is a success, and from the moment its    *)
(* item is accepted, the shop has the price of the row and nobody is about *)
(* to send another: every batch of the update pool that is still to call   *)
(* has loaded the row as it is, and a create of an item the shop has is    *)
(* refused.  Before that, a batch that bears the job has loaded the row as *)
(* it is, for the job is younger than the row's last change.               *)
(*                                                                         *)
(* The one thing this rests on is that no two update workers are between   *)
(* their loads and their calls with items of the same product: of two, the *)
(* one that loaded the older row may call last.                            *)
(***************************************************************************)
Early(w) == worker[w].pc \in {"load", "call"}

OneLoader(p) ==
    \A v, w \in UpdateWorkers :
        /\ Early(v) /\ p \in ProductsOf(worker[v].items)
        /\ Early(w) /\ p \in ProductsOf(worker[w].items)
        => v = w

Carries(items, p, v) ==
    \A i \in DOMAIN items : items[i].product = p => items[i].version = v

Bears(r, j) == \E c \in InWork(r) : c.id = j

Latest(j, p) ==
    /\ Exists(j) /\ jobs[j].product = p
    /\ \A k \in JobIds : Exists(k) /\ jobs[k].product = p => k <= j

Fresh(p) ==
    /\ woo[p].price = products[p].fp
    /\ \A w \in UpdateWorkers :
         Early(w) => Carries(worker[w].items, p, products[p].fp)

\* On its way: loaded by the worker, and accepted by the shop.
LoadedFresh(w, j, p) ==
    Early(w) /\ Bears(worker[w], j) => Carries(worker[w].items, p, products[p].fp)

AcceptedFresh(w, j, p) ==
    /\ worker[w].pc \in {"record", "mark"}
    /\ p \in ProductsOf(worker[w].items) \ worker[w].failed
    /\ Owner(worker[w].items, p).id = j
    => Fresh(p)

Arrives(p) ==
    \A j \in JobIds : Latest(j, p) =>
        /\ jobs[j].state = "SUCCESS" => Fresh(p)
        /\ \A w \in Workers : LoadedFresh(w, j, p) /\ AcceptedFresh(w, j, p)

\* An update job is of a product whose woo_id is stored.
Aims ==
    \A j \in JobIds :
        Exists(j) /\ jobs[j].type = "update" => products[jobs[j].product].woo

LEMMA LatestSame ==
  ASSUME SameRows(jobs'), NEW j \in JobIds, NEW p
  PROVE  Latest(j, p)' <=> Latest(j, p)
  BY DEF SameRows, Latest, Exists

\* A step that sends nothing.
LEMMA ArrivesStill ==
  ASSUME NEW p, Arrives(p), SameRows(jobs'),
         \A j \in JobIds : jobs'[j].state = "SUCCESS" => jobs[j].state = "SUCCESS",
         worker' = worker, woo'[p].price = woo[p].price, products'[p].fp = products[p].fp
  PROVE  Arrives(p)'
  BY LatestSame DEF Arrives, Fresh, LoadedFresh, AcceptedFresh, Early

\* A step of one worker that sends nothing either: what it still has to call with
\* it had or has just loaded, and what it has to record was accepted before.
LEMMA ArrivesHand ==
  ASSUME NEW p, Arrives(p), SameRows(jobs'), NEW w \in Workers, NEW r,
         worker \in [Workers -> Work], worker' = [worker EXCEPT ![w] = r],
         woo'[p].price = woo[p].price, products'[p].fp = products[p].fp,
         \A j \in JobIds : Latest(j, p) /\ jobs'[j].state = "SUCCESS" => Fresh(p),
         r.pc \in {"load", "call"} =>
            \/ Carries(r.items, p, products[p].fp)
            \/ /\ Early(w) /\ InWork(r) \subseteq InWork(worker[w])
               /\ Carries(worker[w].items, p, products[p].fp)
                    => Carries(r.items, p, products[p].fp),
         r.pc \in {"record", "mark"} =>
            /\ worker[w].pc \in {"record", "mark"} /\ r.failed = worker[w].failed
            /\ \A q \in ProductsOf(r.items) :
                 q \in ProductsOf(worker[w].items) /\ Owner(r.items, q) = Owner(worker[w].items, q)
  PROVE  Arrives(p)'
<1>1. worker'[w] = r /\ \A v \in Workers \ {w} : worker'[v] = worker[v]
  OBVIOUS
<1>2. UpdateWorkers \subseteq Workers
  BY DEF Workers
<1>3. ASSUME Fresh(p) PROVE Fresh(p)'
  <2>1. ASSUME NEW v \in UpdateWorkers, worker'[v].pc \in {"load", "call"}
        PROVE  Carries(worker'[v].items, p, products'[p].fp)
    BY <1>1, <1>2, <1>3, <2>1 DEF Fresh, Early
  <2> QED BY <1>3, <2>1 DEF Fresh, Early
<1>4. ASSUME NEW j \in JobIds, Latest(j, p)
      PROVE  /\ jobs'[j].state = "SUCCESS" => Fresh(p)'
             /\ \A v \in Workers : LoadedFresh(v, j, p)' /\ AcceptedFresh(v, j, p)'
  <2>1. jobs'[j].state = "SUCCESS" => Fresh(p)'
    BY <1>3, <1>4
  <2>2. LoadedFresh(w, j, p) /\ AcceptedFresh(w, j, p)
    BY <1>4 DEF Arrives
  <2>3. LoadedFresh(w, j, p)'
    BY <1>1, <2>2 DEF LoadedFresh, Early, Bears
  <2>4. AcceptedFresh(w, j, p)'
    BY <1>1, <1>3, <2>2 DEF AcceptedFresh
  <2>5. ASSUME NEW v \in Workers \ {w}
        PROVE  LoadedFresh(v, j, p)' /\ AcceptedFresh(v, j, p)'
    <3>1. LoadedFresh(v, j, p) /\ AcceptedFresh(v, j, p) /\ worker'[v] = worker[v]
      BY <1>1, <1>4 DEF Arrives
    <3> QED BY <1>3, <3>1 DEF LoadedFresh, AcceptedFresh, Early
  <2> QED BY <2>1, <2>3, <2>4, <2>5
<1> QED BY <1>4, LatestSame DEF Arrives

\* The batches of the update pool have items of products the shop has.
LEMMA UpdatesHeld ==
  ASSUME RecordInv, KindInv, Aims, NEW w \in UpdateWorkers, NEW p \in ProductsOf(worker[w].items)
  PROVE  woo[p].price # 0
<1>1. w \in Workers /\ TypeOf(w) = "update"
  BY EngineAssumption DEF Workers, TypeOf
<1>2. PICK i \in DOMAIN worker[w].items : worker[w].items[i].product = p
  BY DEF ProductsOf
<1> DEFINE c == worker[w].items[i].claim
<1>3. c \in InWork(worker[w])
  BY DEF InWork, ClaimsIn
<1>4. c.id \in JobIds /\ Exists(c.id) /\ jobs[c.id].type = "update"
  BY <1>1, <1>3, InWorkPresent DEF RecordInv, Present, KindInv, Kind, Claim
<1>5. p = jobs[c.id].product
  BY <1>1, <1>2, HandHonest DEF Loaded
<1>6. products[p].woo /\ p \in Products
  BY <1>1, <1>4, <1>5, HandHonest DEF Aims
<1> QED BY <1>6 DEF RecordInv, StoredTrue

\* A call leaves what has arrived: updates have loaded the row as it is, and a
\* create is refused.
LEMMA FreshCall ==
  ASSUME RecordInv, NEW p \in Products, Known(products, p), Fresh(p),
         NEW w \in Workers, worker[w].pc = "call",
         NEW answer \in Answers(TypeOf(w), worker[w].items),
         woo' = Accepted(TypeOf(w), worker[w].items, answer), UNCHANGED products,
         \A v \in Workers \ {w} : worker'[v] = worker[v],
         worker'[w].pc \notin {"load", "call"}
  PROVE  Fresh(p)'
<1> DEFINE items == worker[w].items
<1>1. items \in Seq(Item)
  BY HandHonest
<1>2. \/ woo'[p] = woo[p]
      \/ \E i \in Positions(items, p) : ~answer[i] /\ woo'[p].price = items[i].version
  <2> DEFINE type == TypeOf(w)
             shop == Accepted(type, items, answer)
  <2> HIDE DEF type, items
  <2>1. \/ shop[p] = woo[p] /\ \A i \in Positions(items, p) : answer[i]
        \/ \E i \in Positions(items, p) : ~answer[i] /\ shop[p].price = items[i].version
    BY <1>1, AcceptedPrice
  <2>2. woo' = shop
    BY DEF type, items
  <2> HIDE DEF shop
  <2> QED BY <2>1, <2>2
<1>3. woo[p].price = products[p].fp /\ products[p].fp # 0
  BY DEF Fresh, Known
<1>4. woo'[p].price = products[p].fp
  <2>1. CASE w \in CreateWorkers
    <3>1. \A i \in Positions(items, p) : answer[i]
      BY <1>3, <2>1 DEF Answers, MustRefuse, TypeOf, Positions
    <3> QED BY <1>2, <1>3, <3>1
  <2>2. CASE w \in UpdateWorkers
    <3>1. Carries(items, p, products[p].fp)
      BY <2>2 DEF Fresh, Early
    <3> QED BY <1>2, <1>3, <3>1 DEF Carries, Positions
  <2> QED BY <2>1, <2>2 DEF Workers
<1>5. ASSUME NEW v \in UpdateWorkers, worker'[v].pc \in {"load", "call"}
      PROVE  Carries(worker'[v].items, p, products[p].fp)
  BY <1>5 DEF Fresh, Early, Workers
<1> QED BY <1>4, <1>5 DEF Fresh, Early

\* The call that brings the price of the row.
LEMMA CallArrives ==
  ASSUME RecordInv, KindInv, Aims, NEW p \in Products, Known(products, p), OneLoader(p),
         NEW w \in Workers, worker[w].pc = "call",
         Carries(worker[w].items, p, products[p].fp),
         NEW answer \in Answers(TypeOf(w), worker[w].items),
         woo' = Accepted(TypeOf(w), worker[w].items, answer), UNCHANGED products,
         NEW i \in Positions(worker[w].items, p), ~answer[i],
         \A v \in Workers \ {w} : worker'[v] = worker[v],
         worker'[w].pc \notin {"load", "call"}
  PROVE  Fresh(p)'
<1> DEFINE items == worker[w].items
<1>1. items \in Seq(Item)
  BY HandHonest
<1>2. \E k \in Positions(items, p) : ~answer[k] /\ woo'[p].price = items[k].version
  <2> DEFINE type == TypeOf(w)
             shop == Accepted(type, items, answer)
  <2> HIDE DEF type, items
  <2>1. \/ shop[p] = woo[p] /\ \A k \in Positions(items, p) : answer[k]
        \/ \E k \in Positions(items, p) : ~answer[k] /\ shop[p].price = items[k].version
    BY <1>1, AcceptedPrice
  <2>2. woo' = shop /\ i \in Positions(items, p)
    BY DEF type, items
  <2> HIDE DEF shop
  <2> QED BY <2>1, <2>2
<1>3. woo'[p].price = products[p].fp
  BY <1>2 DEF Carries, Positions
<1>4. ASSUME NEW v \in UpdateWorkers, v # w, Early(v)
      PROVE  p \notin ProductsOf(worker[v].items)
  <2>1. CASE w \in UpdateWorkers
    <3>1. Early(w) /\ p \in ProductsOf(items)
      BY DEF Early, Positions, ProductsOf
    <3> QED BY <1>4, <2>1, <3>1 DEF OneLoader
  <2>2. CASE w \notin UpdateWorkers
    <3>1. TypeOf(w) = "create"
      BY <2>2 DEF TypeOf, Workers
    <3>2. ~MustRefuse("create", items[i]) /\ items[i].product = p
      BY <3>1 DEF Answers, Positions
    <3>3. woo[p].price = 0
      BY <3>2 DEF MustRefuse
    <3> QED BY <3>3, UpdatesHeld
  <2> QED BY <2>1, <2>2
<1>5. ASSUME NEW v \in UpdateWorkers, worker'[v].pc \in {"load", "call"}
      PROVE  Carries(worker'[v].items, p, products[p].fp)
  <2>1. v # w /\ Early(v) /\ worker'[v] = worker[v]
    BY <1>5 DEF Early, Workers
  <2>2. p \notin ProductsOf(worker[v].items)
    BY <1>4, <2>1
  <2> QED BY <2>1, <2>2 DEF Carries, ProductsOf
<1> QED BY <1>3, <1>5 DEF Fresh, Early

\* One attempt of a batch: the call is answered.
LEMMA CallWooArrives ==
  ASSUME RecordInv, KindInv, Aims, NEW p \in Products, OneLoader(p), Arrives(p),
         NEW w \in Workers, CallWoo(w)
  PROVE  Arrives(p)'
<1> DEFINE items == worker[w].items
           type == TypeOf(w)
<1>1. PICK answer \in Answers(type, items) :
         /\ woo' = Accepted(type, items, answer)
         /\ worker' = [worker EXCEPT ![w] =
                         Results(items, Unsuccessful(type, items, answer))]
  BY DEF CallWoo
<1> DEFINE failed == Unsuccessful(type, items, answer)
           r == Results(items, failed)
<1>2. worker \in [Workers -> Work] /\ items \in Seq(Item)
  BY HandHonest DEF RecordInv, TypeInv, TypeOK, EngineTypeOK
<1>3. worker[w].pc = "call" /\ UNCHANGED <<jobs, products>>
  BY DEF CallWoo
<1>4. worker'[w] = r /\ \A v \in Workers \ {w} : worker'[v] = worker[v]
  BY <1>1, <1>2
<1>5. r.pc \in {"idle", "record"} /\ (r.pc = "record" => r.items = items /\ r.failed = failed)
  BY DEF Results, NoWork
<1> HIDE DEF r
<1>6. ASSUME NEW j \in JobIds, Latest(j, p)
      PROVE  /\ jobs'[j].state = "SUCCESS" => Fresh(p)'
             /\ \A v \in Workers : LoadedFresh(v, j, p)' /\ AcceptedFresh(v, j, p)'
  <2>1. Known(products, p)
    BY <1>6 DEF Latest, RecordInv, RowsKnown
  <2>2. Fresh(p) => Fresh(p)'
    BY <1>1, <1>3, <1>4, <1>5, <2>1, FreshCall
  <2>3. jobs'[j].state = "SUCCESS" => Fresh(p)'
    BY <1>3, <1>6, <2>2 DEF Arrives
  <2>4. \A v \in Workers : LoadedFresh(v, j, p) /\ AcceptedFresh(v, j, p)
    BY <1>6 DEF Arrives
  <2>5. ASSUME NEW v \in Workers \ {w}
        PROVE  LoadedFresh(v, j, p)' /\ AcceptedFresh(v, j, p)'
    BY <1>3, <1>4, <2>2, <2>4 DEF LoadedFresh, AcceptedFresh, Early
  <2>6. LoadedFresh(w, j, p)'
    BY <1>4, <1>5 DEF LoadedFresh, Early
  <2>7. AcceptedFresh(w, j, p)'
    <3>1. SUFFICES ASSUME r.pc = "record", p \in ProductsOf(items) \ failed,
                          Owner(items, p).id = j
                   PROVE  Fresh(p)'
      BY <1>4, <1>5 DEF AcceptedFresh
    <3>2. PICK i \in Positions(items, p) : ~answer[i]
      BY <3>1, SuccessfulSent
    <3>3. Bears(worker[w], j)
      <4>1. Owner(items, p) \in ClaimsIn(items)
        BY <1>2, <3>1, OwnerType DEF ClaimsIn
      <4> QED BY <3>1, <4>1 DEF Bears, InWork
    <3>4. Carries(items, p, products[p].fp)
      BY <1>3, <2>4, <3>3 DEF LoadedFresh, Early
    <3>5. worker'[w].pc \notin {"load", "call"}
      BY <1>4, <1>5
    <3> QED BY <1>1, <1>3, <1>4, <2>1, <3>2, <3>4, <3>5, CallArrives
  <2> QED BY <2>3, <2>5, <2>6, <2>7
<1>7. SameRows(jobs')
  BY <1>3, RowsStay
<1> QED BY <1>6, <1>7, LatestSame DEF Arrives

\* The call is not answered: whatever the shop did, the batch fails.
LEMMA CallFailsArrives ==
  ASSUME RecordInv, NEW p \in Products, Arrives(p), NEW w \in Workers, CallFails(w)
  PROVE  Arrives(p)'
<1> DEFINE items == worker[w].items
           r == Aborting(items, ProductsOf(items))
<1>1. PICK answer \in Answers(TypeOf(w), items) : woo' = Accepted(TypeOf(w), items, answer)
  BY DEF CallFails
<1>2. worker \in [Workers -> Work]
  BY DEF RecordInv, TypeInv, TypeOK, EngineTypeOK
<1>3. /\ worker[w].pc = "call" /\ UNCHANGED <<jobs, products>>
      /\ worker' = [worker EXCEPT ![w] = r]
  BY DEF CallFails
<1>4. worker'[w] = r /\ \A v \in Workers \ {w} : worker'[v] = worker[v]
  BY <1>2, <1>3
<1>5. r.pc \in {"idle", "abort"}
  BY DEF Aborting, NoWork
<1> HIDE DEF r
<1>6. ASSUME NEW j \in JobIds, Latest(j, p)
      PROVE  /\ jobs'[j].state = "SUCCESS" => Fresh(p)'
             /\ \A v \in Workers : LoadedFresh(v, j, p)' /\ AcceptedFresh(v, j, p)'
  <2>1. Known(products, p)
    BY <1>6 DEF Latest, RecordInv, RowsKnown
  <2>2. Fresh(p) => Fresh(p)'
    BY <1>1, <1>3, <1>4, <1>5, <2>1, FreshCall
  <2>3. jobs'[j].state = "SUCCESS" => Fresh(p)'
    BY <1>3, <1>6, <2>2 DEF Arrives
  <2>4. \A v \in Workers : LoadedFresh(v, j, p) /\ AcceptedFresh(v, j, p)
    BY <1>6 DEF Arrives
  <2>5. ASSUME NEW v \in Workers \ {w}
        PROVE  LoadedFresh(v, j, p)' /\ AcceptedFresh(v, j, p)'
    BY <1>3, <1>4, <2>2, <2>4 DEF LoadedFresh, AcceptedFresh, Early
  <2>6. LoadedFresh(w, j, p)' /\ AcceptedFresh(w, j, p)'
    BY <1>4, <1>5 DEF LoadedFresh, AcceptedFresh, Early
  <2> QED BY <2>3, <2>5, <2>6
<1>7. SameRows(jobs')
  BY <1>3, RowsStay
<1> QED BY <1>6, <1>7, LatestSame DEF Arrives

LEMMA CarriesNothing == ASSUME NEW p, NEW v PROVE Carries(<<>>, p, v)
<1>1. DOMAIN <<>> = {}
  OBVIOUS
<1> QED BY <1>1 DEF Carries

LEMMA SuccessKept ==
  ASSUME NEW p, Arrives(p), Quiet(jobs'), NEW j \in JobIds, Latest(j, p),
         jobs'[j].state = "SUCCESS"
  PROVE  Fresh(p)
  BY DEF Quiet, Arrives

LEMMA LoadingArrives ==
  ASSUME RecordInv, NEW p \in Products, Arrives(p), NEW w \in Workers,
         TakeTask(w) \/ LoadProduct(w) \/ LoadFails(w), SameRows(jobs'), Quiet(jobs')
  PROVE  Arrives(p)'
<1> DEFINE items == worker[w].items
           r == worker'[w]
<1>1. worker \in [Workers -> Work] /\ items \in Seq(Item)
  BY HandHonest DEF RecordInv, TypeInv, TypeOK, EngineTypeOK
<1>2. UNCHANGED <<products, woo>>
  BY DEF TakeTask, LoadProduct, LoadFails
<1>3. \A j \in JobIds : Latest(j, p) /\ jobs'[j].state = "SUCCESS" => Fresh(p)
  BY SuccessKept
<1>4. r.pc \in {"idle", "load", "call"} /\ worker' = [worker EXCEPT ![w] = r]
  <2>1. \E todo, more : worker' = [worker EXCEPT ![w] = Loading(todo, more)]
    BY <1>1 DEF TakeTask, LoadProduct, LoadFails
  <2> QED BY <1>1, <2>1 DEF Loading, NoWork
<1>5. CASE TakeTask(w)
  <2>1. r.items = <<>>
    BY <1>1, <1>5 DEF TakeTask, Loading, NoWork
  <2>2. Carries(r.items, p, products[p].fp)
    BY <2>1, CarriesNothing
  <2> HIDE DEF r
  <2> QED BY <1>1, <1>2, <1>3, <1>4, <2>2, ArrivesHand
<1>6. CASE ~TakeTask(w)
  <2>1. Early(w) /\ InWork(r) \subseteq InWork(worker[w])
    <3>1. TypeInv /\ WorkerStep(w)
      BY DEF WorkerStep, RecordInv
    <3>2. InWork(r) \subseteq InWork(worker[w])
      BY <1>6, <3>1, WorkerAlters
    <3> QED BY <1>6, <3>2 DEF LoadProduct, LoadFails, Early
  <2>2. Carries(items, p, products[p].fp) => Carries(r.items, p, products[p].fp)
    <3>1. CASE LoadProduct(w)
      <4>1. PICK c, item :
              /\ c \in worker[w].todo
              /\ item.version = products[item.product].fp
              /\ worker' = [worker EXCEPT ![w] =
                              Loading(worker[w].todo \ {c}, Append(items, item))]
        BY <1>1, <3>1 DEF LoadProduct
      <4> DEFINE more == Append(items, item)
      <4>2. \A i \in DOMAIN more : more[i] = item \/ (i \in DOMAIN items /\ more[i] = items[i])
        BY <1>1
      <4>3. r.items = more \/ r.items = <<>>
        BY <1>1, <4>1 DEF Loading, NoWork
      <4> HIDE DEF more, items, r
      <4>4. Carries(items, p, products[p].fp) => Carries(more, p, products[p].fp)
        BY <4>1, <4>2 DEF Carries
      <4> QED BY <4>3, <4>4, CarriesNothing
    <3>2. CASE LoadFails(w)
      <4>1. r.items = items \/ r.items = <<>>
        BY <1>1, <3>2 DEF LoadFails, Loading, NoWork
      <4> HIDE DEF items, r
      <4> QED BY <4>1, CarriesNothing
    <3> QED BY <1>6, <3>1, <3>2
  <2> HIDE DEF r
  <2> QED BY <1>1, <1>2, <1>3, <1>4, <2>1, <2>2, ArrivesHand
<1> QED BY <1>5, <1>6

LEMMA AbortJobArrives ==
  ASSUME RecordInv, NEW p \in Products, Arrives(p), NEW w \in Workers,
         AbortJob(w), SameRows(jobs'), Quiet(jobs')
  PROVE  Arrives(p)'
<1> DEFINE r == worker'[w]
<1>1. worker \in [Workers -> Work]
  BY DEF RecordInv, TypeInv, TypeOK, EngineTypeOK
<1>2. UNCHANGED <<products, woo>>
  BY DEF AbortJob
<1>3. \A j \in JobIds : Latest(j, p) /\ jobs'[j].state = "SUCCESS" => Fresh(p)
  BY SuccessKept
<1>4. r.pc \in {"idle", "abort"} /\ worker' = [worker EXCEPT ![w] = r]
  BY <1>1 DEF AbortJob, Aborting, NoWork
<1> HIDE DEF r
<1> QED BY <1>1, <1>2, <1>3, <1>4, ArrivesHand

\* The result loop goes on, with what is left of the accepted items.
LEMMA NextItemArrives ==
  ASSUME RecordInv, NEW p \in Products, Arrives(p), NEW w \in Workers, NextItem(w),
         worker[w].pc \in {"record", "mark"}, SameRows(jobs'), UNCHANGED <<products, woo>>,
         \A j \in JobIds : Latest(j, p) /\ jobs'[j].state = "SUCCESS" => Fresh(p)
  PROVE  Arrives(p)'
<1> DEFINE items == worker[w].items
           r == Results(Tail(items), worker[w].failed)
<1>1. worker \in [Workers -> Work] /\ items \in Seq(Item) /\ items # <<>>
  BY CurrentClaim DEF RecordInv, TypeInv, TypeOK, EngineTypeOK
<1>2. worker' = [worker EXCEPT ![w] = r]
  BY <1>1 DEF NextItem
<1> HIDE DEF items
<1>3. /\ ProductsOf(Tail(items)) \subseteq ProductsOf(items)
      /\ \A q \in ProductsOf(Tail(items)) : Owner(Tail(items), q) = Owner(items, q)
  BY <1>1, OwnerTail
<1>4. /\ r.pc \in {"idle", "record"}
      /\ r.pc = "record" => r.items = Tail(items) /\ r.failed = worker[w].failed
  BY DEF Results, NoWork
<1>5. r.pc \in {"record", "mark"} =>
        /\ worker[w].pc \in {"record", "mark"} /\ r.failed = worker[w].failed
        /\ \A q \in ProductsOf(r.items) :
             q \in ProductsOf(worker[w].items) /\ Owner(r.items, q) = Owner(worker[w].items, q)
  BY <1>3, <1>4 DEF items
<1>6. r.pc \notin {"load", "call"}
  BY <1>4
<1> HIDE DEF r
<1> QED BY <1>1, <1>2, <1>5, <1>6, ArrivesHand

LEMMA StoreWooIdArrives ==
  ASSUME RecordInv, NEW p \in Products, Arrives(p), NEW w \in Workers, StoreWooId(w)
  PROVE  Arrives(p)'
<1> DEFINE r == [worker[w] EXCEPT !.pc = "mark"]
<1>1. worker \in [Workers -> Work] /\ worker[w] \in Work
  BY DEF RecordInv, TypeInv, TypeOK, EngineTypeOK
<1>2. /\ worker[w].pc = "record" /\ UNCHANGED <<jobs, woo>>
      /\ worker' = [worker EXCEPT ![w] = r]
  BY <1>1 DEF StoreWooId
<1>3. products'[p].fp = products[p].fp
  <2>1. products \in [Products -> ProductRow]
    BY DEF RecordInv, TypeInv, TypeOK, TablesTypeOK
  <2>2. products' = [products EXCEPT ![Current(w)].woo = TRUE] \/ products' = products
    BY DEF StoreWooId, UpdateWooID
  <2>3. \A q \in Products : products[q] \in ProductRow
    BY <2>1
  <2> QED BY <2>1, <2>2, <2>3 DEF ProductRow
<1>4. r.pc = "mark" /\ r.items = worker[w].items /\ r.failed = worker[w].failed
  BY <1>1 DEF Work
<1>5. SameRows(jobs') /\ Quiet(jobs')
  BY <1>2, RowsStay, QuietJobs
<1>6. \A j \in JobIds : Latest(j, p) /\ jobs'[j].state = "SUCCESS" => Fresh(p)
  BY <1>5, SuccessKept
<1> HIDE DEF r
<1> QED BY <1>1, <1>2, <1>3, <1>4, <1>5, <1>6, ArrivesHand

\* The job that becomes a success is the one whose item was accepted.
LEMMA MarkSuccessArrives ==
  ASSUME RecordInv, NEW p \in Products, Arrives(p), NEW w \in Workers, MarkSuccess(w),
         SameRows(jobs')
  PROVE  Arrives(p)'
<1> DEFINE c == Owner(worker[w].items, Current(w))
<1>1. worker[w].pc \in {"record", "mark"} /\ NextItem(w) /\ UNCHANGED <<products, woo>>
  BY DEF MarkSuccess
<1>2. c \in Claim /\ jobs[c.id].product = Current(w) /\ ~Refused(w)
  BY <1>1, CurrentHonest DEF MarkSuccess
<1>3. Current(w) \in ProductsOf(worker[w].items) \ worker[w].failed
  BY <1>1, <1>2, CurrentClaim DEF RecordInv, Refused
<1>4. \A j \in JobIds : jobs'[j].state = "SUCCESS" => jobs[j].state = "SUCCESS" \/ j = c.id
  <2>1. jobs \in [JobIds -> JobRow] /\ \A j \in JobIds : jobs[j] \in JobRow
    BY DEF RecordInv, TypeInv, TypeOK, TablesTypeOK
  <2>2. jobs' = UpdateJobStatus(jobs, c.id, "SUCCESS", c.retries) \/ jobs' = jobs
    BY DEF MarkSuccess, Write
  <2> HIDE DEF c
  <2> QED BY <2>1, <2>2 DEF UpdateJobStatus, JobRow
<1>5. ASSUME NEW j \in JobIds, Latest(j, p), jobs'[j].state = "SUCCESS"
      PROVE  Fresh(p)
  <2>1. CASE jobs[j].state = "SUCCESS"
    BY <1>5, <2>1 DEF Arrives
  <2>2. CASE j = c.id
    <3>1. p = Current(w)
      BY <1>2, <1>5, <2>2 DEF Latest
    <3>2. AcceptedFresh(w, j, p)
      BY <1>5 DEF Arrives
    <3> QED BY <1>1, <1>3, <2>2, <3>1, <3>2 DEF AcceptedFresh
  <2> QED BY <1>4, <1>5, <2>1, <2>2
<1> QED BY <1>1, <1>5, NextItemArrives

\* What a step of the engine does to the rows, but for the success of a job.
LEMMA EngineQuiet ==
  ASSUME RecordInv, EngineNext, \A w \in Workers : ~MarkSuccess(w)
  PROVE  Quiet(jobs')
<1>1. TypeInv /\ \A j \in JobIds : jobs[j] \in JobRow
  BY DEF RecordInv, TypeInv, TypeOK, TablesTypeOK
<1>2. CASE SubmitBatch \/ Crash
  BY <1>2, QuietJobs DEF SubmitBatch, Crash
<1>3. CASE ClaimJobs
  <2>1. PICK S \in SUBSET Claimable(jobs, turn) : jobs' = ClaimPendingJobs(jobs, S)
    BY <1>3 DEF ClaimJobs
  <2> QED BY <1>1, <2>1 DEF Quiet, Exists, ClaimPendingJobs, Claimable, JobRow
<1>4. CASE RecoverStale
  BY <1>1, <1>4 DEF RecoverStale, RecoverStaleJobs, Quiet, Exists, Stale, JobRow
<1>5. ASSUME NEW j \in JobIds, Tick(j) PROVE Quiet(jobs')
  <2>1. jobs' = [jobs EXCEPT ![j].due = TRUE] /\ jobs \in [JobIds -> JobRow]
    BY <1>5 DEF Tick, Elapse, RecordInv, TypeInv, TypeOK, TablesTypeOK
  <2> QED BY <1>1, <2>1 DEF Quiet, Exists, JobRow
<1>6. ASSUME NEW w \in Workers, WorkerStep(w) PROVE Quiet(jobs')
  <2>1. CASE TakeTask(w) \/ LoadProduct(w) \/ CallWoo(w) \/ CallFails(w) \/ StoreWooId(w)
    BY <2>1, QuietJobs DEF TakeTask, LoadProduct, CallWoo, CallFails, StoreWooId
  <2>2. CASE LoadFails(w)
    <3>1. PICK c \in worker[w].todo : jobs' \in {jobs, Failure(c)}
      BY <2>2 DEF LoadFails
    <3>2. c \in Claim /\ Exists(c.id)
      BY <1>1, InHand DEF TypeInv, AllPresent, WorkersPresent, Present
    <3> QED BY <1>1, <3>1, <3>2, QuietJobs, QuietFailure
  <2>3. CASE AbortJob(w)
    <3>1. PICK p \in worker[w].failed : Write(Failure(Owner(worker[w].items, p)))
      BY <2>3 DEF AbortJob, HandleJobFailure
    <3>2. p \in ProductsOf(worker[w].items)
      BY <2>3 DEF AbortJob, RecordInv, TypeInv, AllPresent, WorkersPresent, Sound
    <3>3. Owner(worker[w].items, p) \in Claim /\ Exists(Owner(worker[w].items, p).id)
      BY <1>1, <3>2, InHand
    <3> QED BY <1>1, <3>1, <3>3, QuietWrite
  <2>4. CASE RecordFailure(w)
    BY <1>1, <2>4, CurrentClaim, QuietWrite DEF RecordFailure, HandleJobFailure
  <2> QED BY <1>6, <2>1, <2>2, <2>3, <2>4 DEF WorkerStep
<1> QED BY <1>2, <1>3, <1>4, <1>5, <1>6 DEF EngineNext

LEMMA CrashArrives ==
  ASSUME RecordInv, NEW p, Arrives(p), Crash
  PROVE  Arrives(p)'
<1>1. UNCHANGED <<jobs, products, woo>> /\ \A w \in Workers : worker'[w].pc = "idle"
  BY DEF Crash, NoWork
<1>2. Fresh(p) => Fresh(p)'
  BY <1>1 DEF Fresh, Early, Workers
<1>3. \A j \in JobIds : \A w \in Workers : LoadedFresh(w, j, p)' /\ AcceptedFresh(w, j, p)'
  BY <1>1 DEF LoadedFresh, AcceptedFresh, Early
<1>4. SameRows(jobs')
  BY <1>1, RowsStay
<1> QED BY <1>1, <1>2, <1>3, <1>4, LatestSame DEF Arrives

LEMMA EngineArrives ==
  ASSUME RecordInv, KindInv, Aims, NEW p \in Products, OneLoader(p), Arrives(p), EngineNext
  PROVE  Arrives(p)'
<1>1. SameRows(jobs')
  BY EngineRows DEF RecordInv
<1>2. ASSUME NEW w \in Workers, MarkSuccess(w) PROVE Arrives(p)'
  BY <1>1, <1>2, MarkSuccessArrives
<1>3. CASE \A w \in Workers : ~MarkSuccess(w)
  <2>1. Quiet(jobs')
    BY <1>3, EngineQuiet
  <2>2. CASE ClaimJobs \/ SubmitBatch \/ RecoverStale
    <3>1. UNCHANGED <<products, woo, worker>>
      BY <2>2 DEF ClaimJobs, SubmitBatch, RecoverStale
    <3> QED BY <1>1, <2>1, <3>1, ArrivesStill DEF Quiet
  <2>3. ASSUME NEW j \in JobIds, Tick(j) PROVE Arrives(p)'
    <3>1. UNCHANGED <<products, woo, worker>>
      BY <2>3 DEF Tick, Elapse, memory
    <3> QED BY <1>1, <2>1, <3>1, ArrivesStill DEF Quiet
  <2>4. ASSUME NEW w \in Workers, WorkerStep(w) PROVE Arrives(p)'
    <3>1. CASE RecordFailure(w)
      <4>1. worker[w].pc \in {"record", "mark"} /\ NextItem(w) /\ UNCHANGED <<products, woo>>
        BY <3>1 DEF RecordFailure
      <4> QED BY <1>1, <2>1, <4>1, SuccessKept, NextItemArrives
    <3> QED BY <1>1, <1>3, <2>1, <2>4, <3>1, LoadingArrives, CallWooArrives,
               CallFailsArrives, AbortJobArrives, StoreWooIdArrives DEF WorkerStep
  <2> QED BY <2>2, <2>3, <2>4, CrashArrives DEF EngineNext
<1> QED BY <1>2, <1>3

\* A job inserted by a scrape stays with the pool of its type.
LEMMA FeedsKind == ASSUME RecordInv, KindInv, Feeds PROVE KindInv'
<1>1. KeepsTypes
  BY FeedsRows DEF KeepsTypes
<1>2. TypeInv /\ UNCHANGED <<turn, claimed, queue, worker>>
  BY DEF RecordInv, Feeds
<1> QED BY <1>1, <1>2, KindMemory

\* The ids in use are the smallest ones, so that a new job has the largest.
InOrder == \A j, k \in JobIds : k < j /\ Exists(j) => Exists(k)

LEMMA RowsInOrder == ASSUME InOrder, SameRows(jobs') PROVE InOrder'
  BY DEF InOrder, SameRows, Exists

LEMMA FeedsInOrder == ASSUME RecordInv, InOrder, Feeds PROVE InOrder'
<1>1. JobIds \subseteq Nat /\ \A j \in JobIds : \A k \in JobIds : k < j => k \in 1..(j - 1)
  BY TablesAssumption DEF JobIds
<1> SUFFICES ASSUME NEW j \in JobIds, NEW k \in JobIds, k < j, jobs'[j].state # "ABSENT"
             PROVE  jobs'[k].state # "ABSENT"
  BY DEF InOrder, Exists
<1>2. Exists(k)
  <2>1. CASE Exists(j)
    BY <2>1 DEF InOrder
  <2>2. CASE ~Exists(j)
    <3>1. jobs'[j] # jobs[j]
      BY <2>2 DEF Exists
    <3>2. \A i \in 1..(j - 1) : Exists(i)
      BY <2>2, <3>1, FeedsRows
    <3> QED BY <1>1, <3>2
  <2> QED BY <2>1, <2>2
<1> QED BY <1>2, FeedsRows DEF Exists

\* A scrape that does not touch the row and inserts no job for the product.
LEMMA FeedsArrives ==
  ASSUME RecordInv, NEW p \in Products, Arrives(p), Feeds, products'[p].fp = products[p].fp,
         \A j \in JobIds : ~Exists(j) => jobs'[j].product # p
  PROVE  Arrives(p)'
<1>1. UNCHANGED <<woo, worker>> /\ \A j \in JobIds : Exists(j) => jobs'[j] = jobs[j]
  BY FeedsRows DEF Feeds
<1>2. ASSUME NEW j \in JobIds, Latest(j, p)' PROVE Latest(j, p) /\ jobs'[j] = jobs[j]
  BY <1>1, <1>2 DEF Latest, Exists
<1> QED BY <1>1, <1>2 DEF Arrives, Fresh, LoadedFresh, AcceptedFresh, Early

\* A scrape that inserts one: the new job is the last, and nobody has it yet.
LEMMA InsertArrives ==
  ASSUME RecordInv, InOrder, NEW p \in Products, Feeds,
         NEW n \in JobIds, ~Exists(n), jobs'[n] # jobs[n], jobs'[n].product = p
  PROVE  Arrives(p)'
<1>1. /\ UNCHANGED worker /\ TypeInv /\ jobs'[n].state = "PENDING"
      /\ \A k \in JobIds \ {n} : jobs'[k] = jobs[k]
  BY FeedsRows DEF Feeds, RecordInv
<1>2. JobIds \subseteq Nat
  BY TablesAssumption DEF JobIds
<1>3. ASSUME NEW j \in JobIds, Latest(j, p)' PROVE j = n
  <2>1. n <= j /\ (j # n => Exists(j))
    BY <1>1, <1>3 DEF Latest, Exists
  <2>2. Exists(j) => ~(n < j)
    BY DEF InOrder
  <2> QED BY <1>2, <2>1, <2>2
<1>4. ASSUME NEW w \in Workers PROVE LoadedFresh(w, n, p)' /\ AcceptedFresh(w, n, p)'
  <2>1. \A c \in InWork(worker[w]) : c.id # n
    BY <1>1, InWorkPresent DEF Present
  <2>2. \A q \in ProductsOf(worker[w].items) : Owner(worker[w].items, q).id # n
    BY <1>1, InHand
  <2> QED BY <1>1, <2>1, <2>2 DEF LoadedFresh, AcceptedFresh, Bears
<1> QED BY <1>1, <1>3, <1>4 DEF Arrives
=============================================================================
