-------------------------- MODULE SyncEngineProofs --------------------------
(***************************************************************************)
(* Proofs about SyncEngine, for every number of products, jobs, workers,   *)
(* failures and restarts, every batch size and every retry limit.          *)
(***************************************************************************)
EXTENDS SyncEngine, TLAPS, FiniteSetTheorems

-----------------------------------------------------------------------------
(* The id of a new row: it is free, and no smaller one is.                 *)

LEMMA NextIdFree ==
  ASSUME NEW tab, Room(tab)
  PROVE  /\ NextId(tab) \in JobIds /\ tab[NextId(tab)].state = "ABSENT"
         /\ \A k \in 1..(NextId(tab) - 1) : tab[k].state # "ABSENT"
<1> DEFINE Free == {j \in JobIds : tab[j].state = "ABSENT"}
           R == OpToRel(<, Nat)
<1>1. Free \subseteq Nat /\ Free # {} /\ JobIds = 1..MaxJobs /\ MaxJobs \in Nat
  BY TablesAssumption DEF Room, JobIds
<1>2. PICK n \in Free : \A k \in Free : ~(<<k, n>> \in R)
  <2>1. IsWellFoundedOn(R, Nat)
    BY NatLessThanWellFounded
  <2> QED BY <1>1, <2>1, WFMin
<1>3. \A k \in Free : ~(k < n)
  BY <1>1, <1>2 DEF OpToRel
<1>4. \A k \in 1..(n - 1) : tab[k].state # "ABSENT"
  BY <1>1, <1>3
<1>5. n \in JobIds /\ tab[n].state = "ABSENT"
  OBVIOUS
<1> QED BY <1>4, <1>5 DEF NextId

-----------------------------------------------------------------------------
(* Owner and Last.                                                         *)

\* Last is the maximum of a set of positions.
LEMMA LastIsLast ==
  ASSUME NEW n \in Nat, NEW S \in SUBSET (1..n), S # {}
  PROVE  Last(S) \in S /\ \A k \in S : k <= Last(S)
<1> DEFINE T == {n - k : k \in S}
           R == OpToRel(<, Nat)
<1>1. T \subseteq Nat /\ T # {}
  <2>1. \A k \in S : n - k \in Nat
    OBVIOUS
  <2>2. T # {}
    OBVIOUS
  <2> QED BY <2>1, <2>2
<1>2. PICK x \in T : \A y \in T : ~(<<y, x>> \in R)
  <2>1. IsWellFoundedOn(R, Nat)
    BY NatLessThanWellFounded
  <2> QED BY <1>1, <2>1, WFMin
<1>3. \A y \in T : ~(y < x)
  BY <1>1, <1>2 DEF OpToRel
<1>4. PICK m \in S : x = n - m
  OBVIOUS
<1>5. \A k \in S : k <= m
  BY <1>3, <1>4
<1> QED BY <1>5 DEF Last

LEMMA LastIs ==
  ASSUME NEW n \in Nat, NEW S \in SUBSET (1..n),
         NEW m \in S, \A k \in S : k <= m
  PROVE  Last(S) = m
<1> DEFINE l == Last(S)
<1>1. l \in S /\ \A k \in S : k <= l
  BY LastIsLast
<1> HIDE DEF l
<1>2. l <= m /\ m <= l
  BY <1>1
<1>3. l \in Int /\ m \in Int
  BY <1>1
<1> QED BY <1>2, <1>3 DEF l

\* The position whose claim answers for a product, and what makes it so.
LEMMA OwnerIsLast ==
  ASSUME NEW items \in Seq(Item), NEW p \in ProductsOf(items)
  PROVE  /\ Last(Positions(items, p)) \in DOMAIN items
         /\ items[Last(Positions(items, p))].product = p
         /\ \A k \in DOMAIN items :
              items[k].product = p => k <= Last(Positions(items, p))
<1> DEFINE S == Positions(items, p)
<1>1. Len(items) \in Nat /\ DOMAIN items = 1..Len(items)
  OBVIOUS
<1>2. S \in SUBSET (1..Len(items)) /\ S # {}
  BY <1>1 DEF Positions, ProductsOf
<1> DEFINE l == Last(S)
<1>3. l \in S /\ \A k \in S : k <= l
  BY <1>1, <1>2, LastIsLast
<1> HIDE DEF l
<1>4. /\ l \in DOMAIN items /\ items[l].product = p
      /\ \A k \in DOMAIN items : items[k].product = p => k <= l
  BY <1>3 DEF Positions
<1> QED BY <1>4 DEF l

LEMMA OwnerIs ==
  ASSUME NEW items \in Seq(Item), NEW m \in DOMAIN items,
         \A k \in DOMAIN items : items[k].product = items[m].product => k <= m
  PROVE  Owner(items, items[m].product) = items[m].claim
<1>1. Len(items) \in Nat /\ DOMAIN items = 1..Len(items)
  OBVIOUS
<1>2. /\ Positions(items, items[m].product) \in SUBSET (1..Len(items))
      /\ m \in Positions(items, items[m].product)
      /\ \A k \in Positions(items, items[m].product) : k <= m
  BY <1>1 DEF Positions
<1>3. Last(Positions(items, items[m].product)) = m
  BY <1>1, <1>2, LastIs
<1> QED BY <1>3 DEF Owner

LEMMA OwnerType ==
  ASSUME NEW items \in Seq(Item), NEW p \in ProductsOf(items)
  PROVE  \E i \in DOMAIN items : items[i].product = p /\ Owner(items, p) = items[i].claim
<1> QED BY OwnerIsLast DEF Owner

LEMMA OwnerIsClaim ==
  ASSUME NEW items \in Seq(Item), NEW p \in ProductsOf(items)
  PROVE  Owner(items, p) \in Claim
<1>1. PICK i \in DOMAIN items : Owner(items, p) = items[i].claim
  BY OwnerType
<1>2. items[i] \in Item
  BY <1>1
<1> QED BY <1>1, <1>2 DEF Item

\* A product loaded again changes hands; the others keep their owner.
LEMMA OwnerAppend ==
  ASSUME NEW items \in Seq(Item), NEW item \in Item
  PROVE  LET more == Append(items, item) IN
         /\ ProductsOf(more) = ProductsOf(items) \cup {item.product}
         /\ Owner(more, item.product) = item.claim
         /\ \A p \in ProductsOf(items) \ {item.product} :
              Owner(more, p) = Owner(items, p)
<1> DEFINE more == Append(items, item)
           n == Len(items)
<1>1. /\ more \in Seq(Item) /\ n \in Nat
      /\ DOMAIN items = 1..n /\ DOMAIN more = 1..(n + 1)
      /\ \A i \in 1..n : more[i] = items[i]
      /\ more[n + 1] = item
  OBVIOUS
<1> HIDE DEF more, n
<1>2. ProductsOf(more) = ProductsOf(items) \cup {item.product}
  BY <1>1 DEF ProductsOf
<1>3. Owner(more, item.product) = item.claim
  <2>1. n + 1 \in DOMAIN more /\ \A k \in DOMAIN more : k <= n + 1
    BY <1>1
  <2>2. Owner(more, more[n + 1].product) = more[n + 1].claim
    BY <1>1, <2>1, OwnerIs
  <2> QED BY <1>1, <2>2
<1>4. ASSUME NEW p \in ProductsOf(items) \ {item.product}
      PROVE  Owner(more, p) = Owner(items, p)
  <2> DEFINE l == Last(Positions(items, p))
  <2>1. /\ l \in DOMAIN items /\ items[l].product = p
        /\ \A k \in DOMAIN items : items[k].product = p => k <= l
    BY OwnerIsLast
  <2>2. Owner(items, p) = items[l].claim
    BY DEF Owner
  <2> HIDE DEF l
  <2>3. /\ l \in DOMAIN more /\ more[l] = items[l]
        /\ \A k \in DOMAIN more : more[k].product = p => k <= l
    BY <1>1, <2>1
  <2>4. Owner(more, more[l].product) = more[l].claim
    BY <1>1, <2>1, <2>3, OwnerIs
  <2> QED BY <2>1, <2>2, <2>3, <2>4
<1> QED BY <1>2, <1>3, <1>4 DEF more

\* An item that is done takes its product along unless it comes again later.
LEMMA OwnerTail ==
  ASSUME NEW items \in Seq(Item), items # <<>>
  PROVE  LET rest == Tail(items) IN
         /\ ProductsOf(rest) \subseteq ProductsOf(items)
         /\ \A p \in ProductsOf(rest) : Owner(rest, p) = Owner(items, p)
<1> DEFINE rest == Tail(items)
           n == Len(items)
<1>1. /\ rest \in Seq(Item) /\ n \in Nat \ {0}
      /\ DOMAIN items = 1..n /\ DOMAIN rest = 1..(n - 1)
      /\ \A i \in 1..(n - 1) : rest[i] = items[i + 1]
  OBVIOUS
<1> HIDE DEF rest, n
<1>2. ProductsOf(rest) \subseteq ProductsOf(items)
  <2>1. \A i \in DOMAIN rest : i + 1 \in DOMAIN items /\ rest[i] = items[i + 1]
    BY <1>1
  <2> QED BY <2>1 DEF ProductsOf
<1>3. ASSUME NEW p \in ProductsOf(rest) PROVE Owner(rest, p) = Owner(items, p)
  <2> DEFINE l == Last(Positions(rest, p))
  <2>1. /\ l \in DOMAIN rest /\ rest[l].product = p
        /\ \A k \in DOMAIN rest : rest[k].product = p => k <= l
    BY <1>1, OwnerIsLast
  <2>2. Owner(rest, p) = rest[l].claim
    BY DEF Owner
  <2> HIDE DEF l
  <2>3. l + 1 \in DOMAIN items /\ items[l + 1] = rest[l]
    BY <1>1, <2>1
  <2>4. ASSUME NEW k \in DOMAIN items, items[k].product = p PROVE k <= l + 1
    <3>1. CASE k = 1
      BY <1>1, <2>1, <3>1
    <3>2. CASE k # 1
      <4>1. k - 1 \in DOMAIN rest /\ rest[k - 1] = items[k]
        BY <1>1, <3>2
      <4>2. k - 1 <= l
        BY <2>1, <2>4, <4>1
      <4> QED BY <1>1, <2>1, <4>2
    <3> QED BY <3>1, <3>2
  <2>5. Owner(items, items[l + 1].product) = items[l + 1].claim
    BY <2>1, <2>3, <2>4, OwnerIs
  <2> QED BY <2>1, <2>2, <2>3, <2>5
<1> QED BY <1>2, <1>3 DEF rest

-----------------------------------------------------------------------------
(* The statements on sync_jobs: what they write, and what they leave.      *)

Exists(j) == jobs[j].state # "ABSENT"
Named(tab) == \A j \in JobIds : tab[j].state # "ABSENT" => tab[j].product \in Products
Good(tab) == tab \in [JobIds -> JobRow] /\ Named(tab)
Keeps(tab) == \A j \in JobIds : Exists(j) => tab[j].state # "ABSENT"

\* The row j was given this state, is not due, and the other rows are as before.
Writes(tab, j, state) ==
    /\ tab[j].state = state /\ ~tab[j].due
    /\ \A k \in JobIds \ {j} : tab[k] = jobs[k]

Verdict(c) == IF c.retries + 1 >= MaxRetries THEN "DEAD_LETTER" ELSE "PENDING"

LEMMA FailureWrites ==
  ASSUME Good(jobs), NEW c \in Claim, Exists(c.id)
  PROVE  Good(Failure(c)) /\ Keeps(Failure(c)) /\ Writes(Failure(c), c.id, Verdict(c))
<1>1. c.id \in JobIds /\ jobs[c.id] \in JobRow
  BY DEF Claim, Good
<1>2. CASE c.retries + 1 >= MaxRetries
  <2>1. Failure(c) = [jobs EXCEPT ![c.id].state = "DEAD_LETTER", ![c.id].due = FALSE]
    BY <1>2 DEF Failure, MarkAsDeadLetter
  <2>2. Failure(c) \in [JobIds -> JobRow]
    BY <1>1, <2>1 DEF Good, JobRow, States
  <2>3. Named(Failure(c)) /\ Keeps(Failure(c))
    BY <1>1, <2>1 DEF Good, Named, Keeps, Exists
  <2>4. Writes(Failure(c), c.id, "DEAD_LETTER")
    BY <1>1, <2>1 DEF Good, Writes, JobRow
  <2> QED BY <1>2, <2>2, <2>3, <2>4 DEF Good, Verdict
<1>3. CASE ~(c.retries + 1 >= MaxRetries)
  <2>1. Failure(c) = [jobs EXCEPT ![c.id].state = "PENDING", ![c.id].retries = @ + 1,
                                  ![c.id].due = FALSE]
    BY <1>3 DEF Failure, ScheduleRetry
  <2>2. Failure(c) \in [JobIds -> JobRow]
    BY <1>1, <2>1 DEF Good, JobRow, States
  <2>3. Named(Failure(c)) /\ Keeps(Failure(c))
    BY <1>1, <2>1 DEF Good, Named, Keeps, Exists
  <2>4. Writes(Failure(c), c.id, "PENDING")
    BY <1>1, <2>1 DEF Good, Writes, JobRow
  <2> QED BY <1>3, <2>2, <2>3, <2>4 DEF Good, Verdict
<1> QED BY <1>2, <1>3

LEMMA SuccessWrites ==
  ASSUME Good(jobs), NEW c \in Claim, Exists(c.id)
  PROVE  LET tab == UpdateJobStatus(jobs, c.id, "SUCCESS", c.retries) IN
         Good(tab) /\ Keeps(tab) /\ Writes(tab, c.id, "SUCCESS")
<1> DEFINE tab == UpdateJobStatus(jobs, c.id, "SUCCESS", c.retries)
<1>1. c.id \in JobIds /\ jobs[c.id] \in JobRow /\ c.retries \in Nat
  BY DEF Claim, Good
<1>2. tab = [jobs EXCEPT ![c.id].state = "SUCCESS", ![c.id].retries = c.retries,
                         ![c.id].due = FALSE]
  BY DEF UpdateJobStatus
<1> HIDE DEF tab
<1>3. tab \in [JobIds -> JobRow]
  BY <1>1, <1>2 DEF Good, JobRow, States
<1>4. Named(tab) /\ Keeps(tab)
  BY <1>1, <1>2 DEF Good, Named, Keeps, Exists
<1>5. Writes(tab, c.id, "SUCCESS")
  BY <1>1, <1>2 DEF Good, Writes, JobRow
<1> QED BY <1>3, <1>4, <1>5 DEF Good, tab

LEMMA ClaimWrites ==
  ASSUME Good(jobs), NEW type, NEW S \in SUBSET Claimable(jobs, type)
  PROVE  LET tab == ClaimPendingJobs(jobs, S) IN
         /\ Good(tab) /\ Keeps(tab)
         /\ \A j \in S : tab[j].state = "RUNNING" /\ ~tab[j].due
         /\ \A j \in JobIds \ S : tab[j] = jobs[j]
<1> DEFINE tab == ClaimPendingJobs(jobs, S)
<1>1. S \subseteq JobIds /\ \A j \in S : Exists(j)
  BY DEF Claimable, Exists
<1>2. /\ tab \in [JobIds -> JobRow]
      /\ \A j \in S : /\ tab[j].state = "RUNNING" /\ ~tab[j].due
                      /\ tab[j].product = jobs[j].product
      /\ \A j \in JobIds \ S : tab[j] = jobs[j]
  BY <1>1 DEF Good, ClaimPendingJobs, JobRow, States
<1>3. Named(tab) /\ Keeps(tab)
  BY <1>1, <1>2 DEF Good, Named, Keeps, Exists
<1> QED BY <1>2, <1>3 DEF Good

LEMMA RecoverWrites ==
  ASSUME Good(jobs)
  PROVE  LET tab == RecoverStaleJobs(jobs) IN
         /\ Good(tab) /\ Keeps(tab)
         /\ \A j \in Stale(jobs) : tab[j].state = "PENDING" /\ ~tab[j].due
         /\ \A j \in JobIds \ Stale(jobs) : tab[j] = jobs[j]
<1> DEFINE tab == RecoverStaleJobs(jobs)
<1>1. Stale(jobs) \subseteq JobIds /\ \A j \in Stale(jobs) : Exists(j)
  BY DEF Stale, Exists
<1>2. /\ tab \in [JobIds -> JobRow]
      /\ \A j \in Stale(jobs) : /\ tab[j].state = "PENDING" /\ ~tab[j].due
                                /\ tab[j].product = jobs[j].product
      /\ \A j \in JobIds \ Stale(jobs) : tab[j] = jobs[j]
  BY <1>1 DEF Good, RecoverStaleJobs, JobRow, States
<1>3. Named(tab) /\ Keeps(tab)
  BY <1>1, <1>2 DEF Good, Named, Keeps, Exists
<1> QED BY <1>2, <1>3 DEF Good

LEMMA CreateWrites ==
  ASSUME Good(jobs), Room(jobs), NEW p \in Products, NEW type \in JobTypes
  PROVE  LET tab == CreateJob(jobs, p, type) IN
         /\ Good(tab) /\ Keeps(tab)
         /\ \A j \in JobIds : Exists(j) => tab[j] = jobs[j]
<1> DEFINE tab == CreateJob(jobs, p, type)
           n == NextId(jobs)
<1>1. n \in JobIds /\ ~Exists(n)
  BY NextIdFree DEF Exists
<1>2. tab = [jobs EXCEPT ![n] = [product |-> p, type |-> type, state |-> "PENDING",
                                 retries |-> 0, due |-> TRUE]]
  BY DEF CreateJob
<1> HIDE DEF tab, n
<1>3. /\ tab \in [JobIds -> JobRow]
      /\ tab[n].state = "PENDING" /\ tab[n].product = p
      /\ \A j \in JobIds \ {n} : tab[j] = jobs[j]
  BY <1>1, <1>2 DEF Good, JobRow, States
<1>4. Named(tab) /\ Keeps(tab)
  BY <1>1, <1>3 DEF Good, Named, Keeps, Exists
<1> QED BY <1>1, <1>3, <1>4 DEF Good, tab

-----------------------------------------------------------------------------
(***************************************************************************)
(* Type correctness.  Loading a product needs the claimed row to be there  *)
(* and to name one: rows are never deleted, and every claim in memory is   *)
(* of a row.                                                               *)
(***************************************************************************)
Present(S) == \A c \in S : Exists(c.id)

\* The loops over the results have results, and what is left to fail was loaded.
Sound(r) ==
    /\ r.pc = "abort" => r.failed \subseteq ProductsOf(r.items)
    /\ r.pc \in {"record", "mark"} => r.items # <<>>

ClaimedPresent == Present(claimed)
QueuePresent ==
    \A t \in JobTypes : \A i \in DOMAIN queue[t] : Present(queue[t][i])
WorkersPresent ==
    \A w \in Workers :
        /\ Present(worker[w].todo)
        /\ \A i \in DOMAIN worker[w].items : Exists(worker[w].items[i].claim.id)
        /\ Sound(worker[w])

AllPresent == ClaimedPresent /\ QueuePresent /\ WorkersPresent

TypeInv == TypeOK /\ Named(jobs) /\ AllPresent

LEMMA TypeInvGood == TypeInv => Good(jobs)
  BY DEF TypeInv, TypeOK, TablesTypeOK, Good

LEMMA LoadingType ==
  ASSUME NEW todo \in SUBSET Claim, NEW items \in Seq(Item)
  PROVE  Loading(todo, items) \in Work
  BY DEF Loading, Work, NoWork

LEMMA ResultsType ==
  ASSUME NEW items \in Seq(Item), NEW failed \in SUBSET Products
  PROVE  Results(items, failed) \in Work
  BY DEF Results, Work, NoWork

LEMMA AbortingType ==
  ASSUME NEW items \in Seq(Item), NEW left \in SUBSET Products
  PROVE  Aborting(items, left) \in Work
  BY DEF Aborting, Work, NoWork

\* Whatever the answer, only what was sent is a failure.
LEMMA UnsuccessfulSent ==
  ASSUME NEW type, NEW items, NEW answer
  PROVE  Unsuccessful(type, items, answer) \in SUBSET ProductsOf(items)
  BY DEF Unsuccessful, FailedIDs, ProductsOf

\* The shop keeps its type through a batch.
LEMMA AcceptedType ==
  ASSUME woo \in [Products -> ShopItem], NEW type, NEW items \in Seq(Item), NEW answer
  PROVE  Accepted(type, items, answer) \in [Products -> ShopItem]
<1>1. ASSUME NEW S \in SUBSET DOMAIN items, S # {}
      PROVE  items[Last(S)].version \in Versions
  <2> DEFINE l == Last(S)
  <2>1. Len(items) \in Nat /\ DOMAIN items = 1..Len(items)
    OBVIOUS
  <2>2. l \in S
    BY <1>1, <2>1, LastIsLast
  <2> HIDE DEF l
  <2>3. items[l] \in Item
    BY <2>2
  <2> QED BY <2>3 DEF Item, l
<1>2. ASSUME NEW p \in Products
      PROVE  LET sent == {i \in Positions(items, p) : ~answer[i]}
                 stocked == {i \in sent : SetsStock(type, items[i].version)} IN
             (IF sent = {} THEN woo[p]
              ELSE [price |-> items[Last(sent)].version,
                    stock |-> IF stocked = {} THEN woo[p].stock
                              ELSE items[Last(stocked)].version]) \in ShopItem
  <2> DEFINE sent == {i \in Positions(items, p) : ~answer[i]}
             stocked == {i \in sent : SetsStock(type, items[i].version)}
  <2>1. sent \in SUBSET DOMAIN items /\ stocked \in SUBSET DOMAIN items
    BY DEF Positions
  <2>2. sent # {} => items[Last(sent)].version \in Versions
    BY <1>1, <2>1
  <2>3. stocked # {} => items[Last(stocked)].version \in Versions
    BY <1>1, <2>1
  <2> HIDE DEF sent, stocked
  <2>4. woo[p] \in ShopItem
    OBVIOUS
  <2>5. (IF sent = {} THEN woo[p]
              ELSE [price |-> items[Last(sent)].version,
                    stock |-> IF stocked = {} THEN woo[p].stock
                              ELSE items[Last(stocked)].version]) \in ShopItem
    BY <2>2, <2>3, <2>4 DEF ShopItem
  <2> QED BY <2>5 DEF sent, stocked
<1> QED BY <1>2 DEF Accepted

LEMMA TypeInit == Init => TypeInv
<1> SUFFICES ASSUME Init PROVE TypeInv
  OBVIOUS
<1> USE TablesAssumption DEF Init, TablesInit, NoMemory
<1>1. jobs \in [JobIds -> JobRow] /\ Named(jobs)
  BY DEF JobRow, NoJob, Named, JobTypes
<1>2. products \in [Products -> ProductRow] /\ woo \in [Products -> ShopItem]
  BY DEF ProductRow, NoRow, ShopItem, NoItem, Versions
<1>3. TablesTypeOK
  BY <1>1, <1>2 DEF TablesTypeOK
<1>4. worker \in [Workers -> Work]
  BY DEF Work, NoWork
<1>5. queue \in [JobTypes -> Seq(SUBSET Claim)] /\ \A t \in JobTypes : queue[t] = <<>>
  OBVIOUS
<1>6. EngineTypeOK
  BY <1>4, <1>5 DEF EngineTypeOK, JobTypes
<1>7. AllPresent
  <2>1. \A w \in Workers : worker[w] = NoWork
    OBVIOUS
  <2>2. DOMAIN <<>> = {}
    OBVIOUS
  <2> QED BY <1>5, <2>1, <2>2 DEF NoWork, Sound, AllPresent, ClaimedPresent, QueuePresent, WorkersPresent, Present
<1> QED BY <1>1, <1>3, <1>6, <1>7 DEF TypeInv, TypeOK

\* One worker moves on, with claims that were present before.
LEMMA WorkerMoves ==
  ASSUME TypeInv, Keeps(jobs'), NEW w \in Workers, NEW r \in Work,
         worker' = [worker EXCEPT ![w] = r],
         Present(r.todo), \A i \in DOMAIN r.items : Exists(r.items[i].claim.id),
         Sound(r)
  PROVE  worker' \in [Workers -> Work] /\ WorkersPresent'
<1>1. worker \in [Workers -> Work]
  BY DEF TypeInv, TypeOK, EngineTypeOK
<1>2. worker' \in [Workers -> Work]
  BY <1>1
<1>3. ASSUME NEW v \in Workers
      PROVE  /\ Present(worker'[v].todo)
             /\ \A i \in DOMAIN worker'[v].items : Exists(worker'[v].items[i].claim.id)
             /\ Sound(worker'[v])
  BY <1>1 DEF TypeInv, AllPresent, WorkersPresent
<1>4. ASSUME NEW v \in Workers
      PROVE  /\ worker'[v].todo \subseteq Claim
             /\ \A i \in DOMAIN worker'[v].items : worker'[v].items[i].claim \in Claim
  <2>1. worker'[v] \in Work
    BY <1>2
  <2>2. worker'[v].items \in Seq(Item) /\ worker'[v].todo \in SUBSET Claim
    BY <2>1 DEF Work
  <2>3. \A i \in DOMAIN worker'[v].items : worker'[v].items[i] \in Item
    BY <2>2
  <2> QED BY <2>2, <2>3 DEF Item
<1>5. ASSUME NEW c \in Claim, Exists(c.id) PROVE Exists(c.id)'
  BY <1>5 DEF Keeps, Exists, Claim
<1> QED BY <1>2, <1>3, <1>4, <1>5 DEF WorkersPresent, Present

LEMMA WorkersStay ==
  ASSUME TypeInv, Keeps(jobs'), worker' = worker
  PROVE  WorkersPresent'
<1>1. ASSUME NEW v \in Workers
      PROVE  /\ worker[v].todo \subseteq Claim
             /\ \A i \in DOMAIN worker[v].items : worker[v].items[i].claim \in Claim
  <2>1. worker[v].items \in Seq(Item) /\ worker[v].todo \in SUBSET Claim
    BY DEF TypeInv, TypeOK, EngineTypeOK, Work
  <2>2. \A i \in DOMAIN worker[v].items : worker[v].items[i] \in Item
    BY <2>1
  <2> QED BY <2>1, <2>2 DEF Item
<1>2. ASSUME NEW c \in Claim, Exists(c.id) PROVE Exists(c.id)'
  BY <1>2 DEF Keeps, Exists, Claim
<1> QED BY <1>1, <1>2 DEF TypeInv, AllPresent, WorkersPresent, Present

LEMMA ClaimedStays ==
  ASSUME TypeInv, Keeps(jobs'), claimed' \subseteq claimed
  PROVE  claimed' \in SUBSET Claim /\ ClaimedPresent'
  BY DEF TypeInv, TypeOK, EngineTypeOK, AllPresent, ClaimedPresent, Present,
         Keeps, Exists, Claim

LEMMA QueueStays ==
  ASSUME TypeInv, Keeps(jobs'), queue' = queue
  PROVE  QueuePresent'
<1>1. ASSUME NEW t \in JobTypes, NEW i \in DOMAIN queue[t]
      PROVE  queue[t][i] \subseteq Claim
  <2>1. queue[t] \in Seq(SUBSET Claim)
    BY DEF TypeInv, TypeOK, EngineTypeOK
  <2> QED BY <2>1
<1>2. ASSUME NEW c \in Claim, Exists(c.id) PROVE Exists(c.id)'
  BY <1>2 DEF Keeps, Exists, Claim
<1> QED BY <1>1, <1>2 DEF TypeInv, AllPresent, QueuePresent, Present

\* A step that leaves the memory of the engine alone.
LEMMA MemoryStays ==
  ASSUME TypeInv, Keeps(jobs'), UNCHANGED memory
  PROVE  EngineTypeOK' /\ AllPresent'
<1>1. UNCHANGED <<turn, claimed, queue, worker>>
  BY DEF memory
<1>2. EngineTypeOK'
  BY <1>1 DEF TypeInv, TypeOK, EngineTypeOK
<1>3. AllPresent'
  BY <1>1, ClaimedStays, QueueStays, WorkersStay DEF AllPresent
<1> QED BY <1>2, <1>3

\* A step of one worker that takes nothing from the queue.
LEMMA WorkerAlone ==
  ASSUME TypeInv, Keeps(jobs'), NEW w \in Workers, NEW r \in Work,
         worker' = [worker EXCEPT ![w] = r],
         Present(r.todo), \A i \in DOMAIN r.items : Exists(r.items[i].claim.id),
         Sound(r),
         UNCHANGED <<turn, claimed, queue>>
  PROVE  EngineTypeOK' /\ AllPresent'
<1>1. worker' \in [Workers -> Work] /\ WorkersPresent'
  BY WorkerMoves
<1>2. EngineTypeOK'
  BY <1>1 DEF TypeInv, TypeOK, EngineTypeOK
<1>3. AllPresent'
  BY <1>1, ClaimedStays, QueueStays DEF AllPresent
<1> QED BY <1>2, <1>3

\* What a worker has in hand has its type and is of existing rows.
LEMMA InHand ==
  ASSUME TypeInv, NEW w \in Workers
  PROVE  /\ worker[w].items \in Seq(Item)
         /\ worker[w].todo \in SUBSET Claim
         /\ worker[w].failed \in SUBSET Products
         /\ ProductsOf(worker[w].items) \subseteq Products
         /\ \A i \in DOMAIN worker[w].items : worker[w].items[i] \in Item
         /\ \A p \in ProductsOf(worker[w].items) :
              /\ Owner(worker[w].items, p) \in Claim
              /\ Exists(Owner(worker[w].items, p).id)
<1>1. worker[w] \in Work
  BY DEF TypeInv, TypeOK, EngineTypeOK
<1> DEFINE items == worker[w].items
<1>2. /\ items \in Seq(Item) /\ worker[w].todo \in SUBSET Claim
      /\ worker[w].failed \in SUBSET Products
  BY <1>1 DEF Work
<1>3. \A i \in DOMAIN items : items[i] \in Item /\ Exists(items[i].claim.id)
  BY <1>2 DEF TypeInv, AllPresent, WorkersPresent
<1> HIDE DEF items
<1>4. ProductsOf(items) \subseteq Products
  BY <1>3 DEF ProductsOf, Item
<1>5. ASSUME NEW p \in ProductsOf(items)
      PROVE  Owner(items, p) \in Claim /\ Exists(Owner(items, p).id)
  <2>1. PICK i \in DOMAIN items : Owner(items, p) = items[i].claim
    BY <1>2, OwnerType DEF items
  <2> QED BY <1>3, <2>1 DEF Item
<1> QED BY <1>2, <1>3, <1>4, <1>5 DEF items

\* The statement of handleJobFailure or of a success, run or failed.
LEMMA WriteKeeps ==
  ASSUME TypeInv, NEW tab, Good(tab), Keeps(tab), Write(tab)
  PROVE  Good(jobs') /\ Keeps(jobs')
<1>1. jobs' = tab \/ jobs' = jobs
  BY DEF Write
<1>2. Keeps(jobs)
  BY DEF Keeps, Exists
<1> QED BY <1>1, <1>2, TypeInvGood

LEMMA WriteFaults ==
  ASSUME TypeInv, NEW tab, Write(tab) \/ Fault \/ UNCHANGED faults
  PROVE  faults' \in 0..MaxFaults
  BY TablesAssumption DEF TypeInv, TypeOK, TablesTypeOK, Write, Fault

LEMMA ClaimJobsType == ASSUME TypeInv, ClaimJobs PROVE TypeInv'
<1>1. PICK S \in SUBSET Claimable(jobs, turn) :
         /\ jobs' = ClaimPendingJobs(jobs, S)
         /\ \/ claimed' = Snapshot(S) /\ UNCHANGED faults
            \/ Fault /\ claimed' = {}
  BY DEF ClaimJobs
<1>2. /\ Good(jobs') /\ Keeps(jobs')
      /\ \A j \in S : jobs'[j].state = "RUNNING"
  BY <1>1, ClaimWrites, TypeInvGood
<1>3. S \subseteq JobIds
  BY DEF Claimable
<1>4. claimed' \in SUBSET Claim /\ ClaimedPresent'
  <2>1. Snapshot(S) \in SUBSET Claim
    BY <1>3 DEF Snapshot, Claim, TypeInv, TypeOK, TablesTypeOK, JobRow
  <2>2. \A c \in Snapshot(S) : c.id \in S
    BY DEF Snapshot
  <2> QED BY <1>1, <1>2, <2>1, <2>2 DEF ClaimedPresent, Present, Exists
<1>5. QueuePresent' /\ WorkersPresent'
  BY <1>2, QueueStays, WorkersStay DEF ClaimJobs
<1>6. TablesTypeOK'
  BY <1>1, <1>2, WriteFaults
     DEF ClaimJobs, TypeInv, TypeOK, TablesTypeOK, Good
<1>7. EngineTypeOK'
  BY <1>4 DEF ClaimJobs, TypeInv, TypeOK, EngineTypeOK, Other, JobTypes
<1> QED BY <1>2, <1>4, <1>5, <1>6, <1>7 DEF TypeInv, TypeOK, AllPresent, Good

LEMMA SubmitBatchType == ASSUME TypeInv, SubmitBatch PROVE TypeInv'
<1> DEFINE type == Other(turn)
<1>1. PICK batch \in SUBSET claimed :
         /\ claimed' = claimed \ batch
         /\ \/ queue' = [queue EXCEPT ![type] = Append(@, batch)]
            \/ queue' = queue
  BY DEF SubmitBatch
<1>2. /\ queue \in [JobTypes -> Seq(SUBSET Claim)] /\ type \in JobTypes
      /\ batch \in SUBSET Claim /\ Present(batch)
  BY DEF TypeInv, TypeOK, EngineTypeOK, Other, JobTypes, AllPresent,
         ClaimedPresent, Present
<1> HIDE DEF type
<1>3. Keeps(jobs') /\ Good(jobs') /\ UNCHANGED <<jobs, products, woo, faults, crashes>>
  BY TypeInvGood DEF SubmitBatch, Keeps, Exists
<1>4. queue' \in [JobTypes -> Seq(SUBSET Claim)]
  <2>1. Append(queue[type], batch) \in Seq(SUBSET Claim)
    BY <1>2
  <2> QED BY <1>1, <1>2, <2>1
<1>5. QueuePresent'
  <2>1. CASE queue' = queue
    BY <1>3, <2>1, QueueStays
  <2>2. CASE queue' = [queue EXCEPT ![type] = Append(@, batch)]
    <3>1. ASSUME NEW t \in JobTypes, NEW i \in DOMAIN queue'[t]
          PROVE  Present(queue'[t][i])
      <4>1. CASE t # type
        <5>1. queue'[t] = queue[t]
          BY <1>2, <2>2, <4>1
        <5> QED BY <3>1, <5>1 DEF TypeInv, AllPresent, QueuePresent
      <4>2. CASE t = type
        <5>1. queue'[t] = Append(queue[t], batch) /\ queue[t] \in Seq(SUBSET Claim)
          BY <1>2, <2>2, <4>2
        <5>2. queue'[t][i] = batch \/ (i \in DOMAIN queue[t] /\ queue'[t][i] = queue[t][i])
          BY <1>2, <3>1, <5>1
        <5> QED BY <1>2, <3>1, <5>2 DEF TypeInv, AllPresent, QueuePresent
      <4> QED BY <4>1, <4>2
    <3> QED BY <1>3, <3>1 DEF QueuePresent, Present, Exists
  <2> QED BY <1>1, <2>1, <2>2
<1>6. claimed' \in SUBSET Claim /\ ClaimedPresent'
  BY <1>1, <1>3, ClaimedStays
<1>7. WorkersPresent'
  BY <1>3, WorkersStay DEF SubmitBatch
<1>8. TypeOK'
  BY <1>3, <1>4, <1>6 DEF SubmitBatch, TypeInv, TypeOK, TablesTypeOK, EngineTypeOK
<1> QED BY <1>3, <1>5, <1>6, <1>7, <1>8 DEF TypeInv, AllPresent, Good

LEMMA TakeTaskType == ASSUME TypeInv, NEW w \in Workers, TakeTask(w) PROVE TypeInv'
<1> DEFINE type == TypeOf(w)
           batch == Head(queue[type])
           r == Loading(batch, <<>>)
<1>1. queue \in [JobTypes -> Seq(SUBSET Claim)] /\ type \in JobTypes
  BY DEF TypeInv, TypeOK, EngineTypeOK, TypeOf, JobTypes
<1>2. /\ queue[type] \in Seq(SUBSET Claim) /\ queue[type] # <<>>
      /\ worker' = [worker EXCEPT ![w] = r]
      /\ queue' = [queue EXCEPT ![type] = Tail(@)]
      /\ UNCHANGED <<jobs, products, woo, faults, crashes, turn, claimed>>
  BY <1>1 DEF TakeTask
<1> HIDE DEF type
<1>3. /\ batch \in SUBSET Claim /\ Present(batch)
      /\ Tail(queue[type]) \in Seq(SUBSET Claim)
      /\ \A i \in DOMAIN Tail(queue[type]) :
           i + 1 \in DOMAIN queue[type] /\ Tail(queue[type])[i] = queue[type][i + 1]
  <2>1. batch = queue[type][1] /\ 1 \in DOMAIN queue[type]
    BY <1>2
  <2>2. Present(batch)
    BY <1>1, <2>1 DEF TypeInv, AllPresent, QueuePresent
  <2> QED BY <1>2, <2>1, <2>2
<1> HIDE DEF batch
<1>4. <<>> \in Seq(Item) /\ DOMAIN <<>> = {}
  OBVIOUS
<1>5. /\ r \in Work
      /\ r.todo \subseteq batch /\ r.items = <<>> /\ Sound(r)
  BY <1>3, <1>4, LoadingType DEF Loading, NoWork, Sound
<1> HIDE DEF r
<1>6. Good(jobs') /\ Keeps(jobs')
  BY <1>2, TypeInvGood DEF Keeps, Exists
<1>7. worker' \in [Workers -> Work] /\ WorkersPresent'
  BY <1>2, <1>3, <1>4, <1>5, <1>6, WorkerMoves DEF Present
<1>8. queue' \in [JobTypes -> Seq(SUBSET Claim)]
  BY <1>1, <1>2, <1>3
<1>9. QueuePresent'
  <2>1. ASSUME NEW t \in JobTypes, NEW i \in DOMAIN queue'[t] PROVE Present(queue'[t][i])
    <3>1. CASE t # type
      BY <1>1, <1>2, <2>1, <3>1 DEF TypeInv, AllPresent, QueuePresent
    <3>2. CASE t = type
      BY <1>1, <1>2, <1>3, <2>1, <3>2 DEF TypeInv, AllPresent, QueuePresent
    <3> QED BY <3>1, <3>2
  <2> QED BY <1>2, <2>1 DEF QueuePresent, Present, Exists
<1>10. ClaimedPresent'
  BY <1>2, <1>6, ClaimedStays
<1>11. TypeOK'
  BY <1>2, <1>7, <1>8 DEF TypeInv, TypeOK, TablesTypeOK, EngineTypeOK
<1> QED BY <1>6, <1>7, <1>9, <1>10, <1>11 DEF TypeInv, AllPresent, Good

\* A batch that goes on loading.
LEMMA LoadingOn ==
  ASSUME TypeInv, Keeps(jobs'), NEW w \in Workers,
         NEW todo \in SUBSET worker[w].todo, NEW items \in Seq(Item),
         \A i \in DOMAIN items : Exists(items[i].claim.id),
         worker' = [worker EXCEPT ![w] = Loading(todo, items)],
         UNCHANGED <<turn, claimed, queue>>
  PROVE  EngineTypeOK' /\ AllPresent'
<1> DEFINE r == Loading(todo, items)
<1>1. todo \in SUBSET Claim /\ Present(todo)
  BY InHand DEF TypeInv, AllPresent, WorkersPresent, Present
<1>2. /\ r \in Work
      /\ r.todo \subseteq todo /\ Sound(r)
      /\ r.items = items \/ r.items = <<>>
  BY <1>1, LoadingType DEF Loading, NoWork, Sound
<1> HIDE DEF r
<1>3. Present(r.todo) /\ \A i \in DOMAIN r.items : Exists(r.items[i].claim.id)
  <2>1. DOMAIN <<>> = {}
    OBVIOUS
  <2> QED BY <1>1, <1>2, <2>1 DEF Present
<1> QED BY <1>2, <1>3, WorkerAlone DEF r

LEMMA LoadProductType == ASSUME TypeInv, NEW w \in Workers, LoadProduct(w) PROVE TypeInv'
<1> DEFINE items == worker[w].items
<1>1. PICK c \in worker[w].todo :
         worker' = [worker EXCEPT ![w] =
             Loading(@.todo \ {c},
                     Append(@.items, [claim |-> c, product |-> jobs[c.id].product,
                                      version |-> products[jobs[c.id].product].fp]))]
  BY DEF LoadProduct
<1> DEFINE item == [claim |-> c, product |-> jobs[c.id].product,
                    version |-> products[jobs[c.id].product].fp]
           more == Append(items, item)
<1>2. c \in Claim /\ Exists(c.id) /\ items \in Seq(Item)
  BY InHand DEF TypeInv, AllPresent, WorkersPresent, Present
<1>3. item \in Item
  <2>1. jobs[c.id].product \in Products
    BY <1>2 DEF TypeInv, Named, Exists, Claim
  <2>2. products[jobs[c.id].product] \in ProductRow
    BY <2>1 DEF TypeInv, TypeOK, TablesTypeOK
  <2> QED BY <1>2, <2>1, <2>2 DEF Item, ProductRow
<1>4. \A i \in DOMAIN items : Exists(items[i].claim.id)
  BY DEF TypeInv, AllPresent, WorkersPresent
<1>5. item.claim = c
  OBVIOUS
<1>6. worker' = [worker EXCEPT ![w] = Loading(worker[w].todo \ {c}, more)]
  <2>1. worker \in [Workers -> Work]
    BY DEF TypeInv, TypeOK, EngineTypeOK
  <2> QED BY <1>1, <2>1
<1> HIDE DEF item, items
<1>7. more \in Seq(Item) /\ \A i \in DOMAIN more : Exists(more[i].claim.id)
  <2>1. more \in Seq(Item)
    BY <1>2, <1>3
  <2>2. \A i \in DOMAIN more : more[i] = item \/ (i \in DOMAIN items /\ more[i] = items[i])
    BY <1>2, <1>3
  <2> QED BY <1>2, <1>4, <1>5, <2>1, <2>2
<1>8. Keeps(jobs') /\ UNCHANGED <<turn, claimed, queue>>
  BY DEF LoadProduct, Keeps, Exists
<1> HIDE DEF more
<1>9. EngineTypeOK' /\ AllPresent'
  BY <1>6, <1>7, <1>8, LoadingOn
<1> QED BY <1>9 DEF LoadProduct, TypeInv, TypeOK, TablesTypeOK, Named

LEMMA LoadFailsType == ASSUME TypeInv, NEW w \in Workers, LoadFails(w) PROVE TypeInv'
<1>1. PICK c \in worker[w].todo :
         /\ jobs' \in {jobs, Failure(c)}
         /\ worker' = [worker EXCEPT ![w] = Loading(@.todo \ {c}, @.items)]
  BY DEF LoadFails
<1>2. c \in Claim /\ Exists(c.id) /\ worker[w].items \in Seq(Item)
  BY InHand DEF TypeInv, AllPresent, WorkersPresent, Present
<1>3. Good(jobs') /\ Keeps(jobs')
  BY <1>1, <1>2, FailureWrites, TypeInvGood DEF Keeps, Exists
<1>4. worker' = [worker EXCEPT ![w] = Loading(worker[w].todo \ {c}, worker[w].items)]
  <2>1. worker \in [Workers -> Work]
    BY DEF TypeInv, TypeOK, EngineTypeOK
  <2> QED BY <1>1, <2>1
<1>5. EngineTypeOK' /\ AllPresent'
  BY <1>2, <1>3, <1>4, LoadingOn DEF LoadFails, TypeInv, AllPresent, WorkersPresent
<1>6. faults' \in 0..MaxFaults
  BY WriteFaults DEF LoadFails
<1> QED BY <1>3, <1>5, <1>6 DEF LoadFails, TypeInv, TypeOK, TablesTypeOK, Good

LEMMA CallWooType == ASSUME TypeInv, NEW w \in Workers, CallWoo(w) PROVE TypeInv'
<1> DEFINE items == worker[w].items
<1>1. PICK answer \in Answers(TypeOf(w), items) :
         /\ woo' = Accepted(TypeOf(w), items, answer)
         /\ worker' = [worker EXCEPT ![w] =
                         Results(items, Unsuccessful(TypeOf(w), items, answer))]
  BY DEF CallWoo
<1> DEFINE failed == Unsuccessful(TypeOf(w), items, answer)
           r == Results(items, failed)
<1>2. items \in Seq(Item) /\ failed \in SUBSET ProductsOf(items) /\ failed \in SUBSET Products
  BY InHand, UnsuccessfulSent
<1> HIDE DEF failed
<1>3. woo' \in [Products -> ShopItem]
  BY <1>1, <1>2, AcceptedType DEF TypeInv, TypeOK, TablesTypeOK
<1>4. \A i \in DOMAIN items : Exists(items[i].claim.id)
  BY DEF TypeInv, AllPresent, WorkersPresent
<1> HIDE DEF items
<1>5. /\ r \in Work
      /\ r.todo = {} /\ Sound(r)
      /\ r.items = items \/ r.items = <<>>
  BY <1>2, ResultsType DEF Results, NoWork, Sound
<1> HIDE DEF r
<1>6. Present(r.todo) /\ \A i \in DOMAIN r.items : Exists(r.items[i].claim.id)
  <2>1. DOMAIN <<>> = {}
    OBVIOUS
  <2> QED BY <1>4, <1>5, <2>1 DEF Present
<1>7. Good(jobs') /\ Keeps(jobs')
  BY TypeInvGood DEF CallWoo, Keeps, Exists
<1>8. EngineTypeOK' /\ AllPresent'
  BY <1>1, <1>5, <1>6, <1>7, WorkerAlone DEF CallWoo, failed, r
<1> QED BY <1>3, <1>7, <1>8 DEF CallWoo, TypeInv, TypeOK, TablesTypeOK, Good

\* A batch in its failure loop.
LEMMA AbortingOn ==
  ASSUME TypeInv, Keeps(jobs'), NEW w \in Workers,
         NEW left \in SUBSET ProductsOf(worker[w].items),
         worker' = [worker EXCEPT ![w] = Aborting(worker[w].items, left)],
         UNCHANGED <<turn, claimed, queue>>
  PROVE  EngineTypeOK' /\ AllPresent'
<1> DEFINE items == worker[w].items
           r == Aborting(items, left)
<1>1. items \in Seq(Item) /\ left \in SUBSET Products
  BY InHand
<1>2. \A i \in DOMAIN items : Exists(items[i].claim.id)
  BY DEF TypeInv, AllPresent, WorkersPresent
<1>3. left \subseteq ProductsOf(items)
  OBVIOUS
<1> HIDE DEF items
<1>4. /\ r \in Work
      /\ r.todo = {} /\ Sound(r)
      /\ r.items = items \/ r.items = <<>>
  BY <1>1, <1>3, AbortingType DEF Aborting, NoWork, Sound
<1> HIDE DEF r
<1>5. /\ Present(r.todo) /\ \A i \in DOMAIN r.items : Exists(r.items[i].claim.id)
  <2>1. DOMAIN <<>> = {}
    OBVIOUS
  <2> QED BY <1>2, <1>4, <2>1 DEF Present
<1> QED BY <1>4, <1>5, WorkerAlone DEF r, items

LEMMA CallFailsType == ASSUME TypeInv, NEW w \in Workers, CallFails(w) PROVE TypeInv'
<1> DEFINE items == worker[w].items
<1>1. PICK answer \in Answers(TypeOf(w), items) :
         woo' = Accepted(TypeOf(w), items, answer)
  BY DEF CallFails
<1>2. items \in Seq(Item)
  BY InHand
<1>3. woo' \in [Products -> ShopItem]
  BY <1>1, <1>2, AcceptedType DEF TypeInv, TypeOK, TablesTypeOK
<1>4. Good(jobs') /\ Keeps(jobs')
  BY TypeInvGood DEF CallFails, Keeps, Exists
<1>5. EngineTypeOK' /\ AllPresent'
  <2>1. worker' = [worker EXCEPT ![w] = Aborting(items, ProductsOf(items))]
    BY DEF CallFails
  <2>2. UNCHANGED <<turn, claimed, queue>>
    BY DEF CallFails
  <2> QED BY <1>4, <2>1, <2>2, AbortingOn
<1>6. faults' \in 0..MaxFaults
  BY WriteFaults DEF CallFails
<1> QED BY <1>3, <1>4, <1>5, <1>6 DEF CallFails, TypeInv, TypeOK, TablesTypeOK, Good

LEMMA AbortJobType == ASSUME TypeInv, NEW w \in Workers, AbortJob(w) PROVE TypeInv'
<1> DEFINE items == worker[w].items
<1>1. PICK p \in worker[w].failed :
         /\ Write(Failure(Owner(items, p)))
         /\ worker' = [worker EXCEPT ![w] = Aborting(items, @.failed \ {p})]
  BY DEF AbortJob, HandleJobFailure
<1>2. worker[w].failed \subseteq ProductsOf(items)
  BY DEF AbortJob, TypeInv, AllPresent, WorkersPresent, Sound
<1>3. Owner(items, p) \in Claim /\ Exists(Owner(items, p).id)
  BY <1>2, InHand
<1>4. Good(jobs') /\ Keeps(jobs')
  BY <1>1, <1>3, FailureWrites, WriteKeeps, TypeInvGood
<1>5. worker' = [worker EXCEPT ![w] = Aborting(items, worker[w].failed \ {p})]
  <2>1. worker \in [Workers -> Work]
    BY DEF TypeInv, TypeOK, EngineTypeOK
  <2> QED BY <1>1, <2>1
<1>6. EngineTypeOK' /\ AllPresent'
  <2>1. UNCHANGED <<turn, claimed, queue>>
    BY DEF AbortJob
  <2>2. worker[w].failed \ {p} \in SUBSET ProductsOf(items)
    BY <1>2
  <2> DEFINE left == worker[w].failed \ {p}
  <2> HIDE DEF left
  <2> QED BY <1>4, <1>5, <2>1, <2>2, AbortingOn DEF left
<1>7. faults' \in 0..MaxFaults
  BY <1>1, WriteFaults
<1> QED BY <1>4, <1>6, <1>7 DEF AbortJob, TypeInv, TypeOK, TablesTypeOK, Good

\* The result loop goes to its next item.
LEMMA NextItemOn ==
  ASSUME TypeInv, Keeps(jobs'), NEW w \in Workers, worker[w].items # <<>>,
         NextItem(w), UNCHANGED <<turn, claimed, queue>>
  PROVE  EngineTypeOK' /\ AllPresent'
<1> DEFINE items == worker[w].items
           rest == Tail(items)
           r == Results(rest, worker[w].failed)
<1>1. /\ items \in Seq(Item) /\ items # <<>> /\ worker[w].failed \in SUBSET Products
      /\ \A i \in DOMAIN items : Exists(items[i].claim.id)
  BY InHand DEF TypeInv, AllPresent, WorkersPresent
<1>2. worker' = [worker EXCEPT ![w] = r]
  <2>1. worker \in [Workers -> Work]
    BY DEF TypeInv, TypeOK, EngineTypeOK
  <2> QED BY <2>1 DEF NextItem
<1> HIDE DEF items
<1>3. /\ rest \in Seq(Item)
      /\ \A i \in DOMAIN rest : i + 1 \in DOMAIN items /\ rest[i] = items[i + 1]
  BY <1>1
<1> HIDE DEF rest
<1>4. /\ r \in Work
      /\ r.todo = {} /\ Sound(r)
      /\ r.items = rest \/ r.items = <<>>
  BY <1>1, <1>3, ResultsType DEF Results, NoWork, Sound
<1> HIDE DEF r
<1>5. Present(r.todo) /\ \A i \in DOMAIN r.items : Exists(r.items[i].claim.id)
  <2>1. DOMAIN <<>> = {}
    OBVIOUS
  <2> QED BY <1>1, <1>3, <1>4, <2>1 DEF Present
<1> QED BY <1>2, <1>4, <1>5, WorkerAlone

\* The item in hand belongs to a product of the batch.
LEMMA CurrentLoaded ==
  ASSUME TypeInv, NEW w \in Workers, worker[w].items # <<>>
  PROVE  Current(w) \in ProductsOf(worker[w].items)
<1>1. worker[w].items \in Seq(Item)
  BY InHand
<1>2. 1 \in DOMAIN worker[w].items /\ Head(worker[w].items) = worker[w].items[1]
  BY <1>1
<1> QED BY <1>2 DEF Current, ProductsOf

LEMMA RecordFailureType == ASSUME TypeInv, NEW w \in Workers, RecordFailure(w) PROVE TypeInv'
<1> DEFINE c == Owner(worker[w].items, Current(w))
<1>1. worker[w].items # <<>>
  BY DEF RecordFailure, TypeInv, AllPresent, WorkersPresent, Sound
<1>2. c \in Claim /\ Exists(c.id)
  BY <1>1, CurrentLoaded, InHand
<1>3. Write(Failure(c))
  BY DEF RecordFailure, HandleJobFailure
<1>4. Good(jobs') /\ Keeps(jobs')
  BY <1>2, <1>3, FailureWrites, WriteKeeps, TypeInvGood
<1>5. EngineTypeOK' /\ AllPresent'
  BY <1>1, <1>4, NextItemOn DEF RecordFailure
<1>6. faults' \in 0..MaxFaults
  BY <1>3, WriteFaults
<1> QED BY <1>4, <1>5, <1>6 DEF RecordFailure, TypeInv, TypeOK, TablesTypeOK, Good

LEMMA MarkSuccessType == ASSUME TypeInv, NEW w \in Workers, MarkSuccess(w) PROVE TypeInv'
<1> DEFINE c == Owner(worker[w].items, Current(w))
<1>1. worker[w].items # <<>>
  BY DEF MarkSuccess, TypeInv, AllPresent, WorkersPresent, Sound
<1>2. c \in Claim /\ Exists(c.id)
  BY <1>1, CurrentLoaded, InHand
<1>3. Write(UpdateJobStatus(jobs, c.id, "SUCCESS", c.retries))
  BY DEF MarkSuccess
<1>4. Good(jobs') /\ Keeps(jobs')
  BY <1>2, <1>3, SuccessWrites, WriteKeeps, TypeInvGood
<1>5. EngineTypeOK' /\ AllPresent'
  BY <1>1, <1>4, NextItemOn DEF MarkSuccess
<1>6. faults' \in 0..MaxFaults
  BY <1>3, WriteFaults
<1> QED BY <1>4, <1>5, <1>6 DEF MarkSuccess, TypeInv, TypeOK, TablesTypeOK, Good

LEMMA StoreWooIdType == ASSUME TypeInv, NEW w \in Workers, StoreWooId(w) PROVE TypeInv'
<1> DEFINE r == [worker[w] EXCEPT !.pc = "mark"]
<1>1. worker[w] \in Work /\ worker[w].items # <<>>
  BY DEF StoreWooId, TypeInv, TypeOK, EngineTypeOK, AllPresent, WorkersPresent, Sound
<1>2. Current(w) \in Products
  BY <1>1, CurrentLoaded, InHand
<1>3. products' \in [Products -> ProductRow]
  <2>1. products \in [Products -> ProductRow]
    BY DEF TypeInv, TypeOK, TablesTypeOK
  <2>2. products' = [products EXCEPT ![Current(w)].woo = TRUE] \/ products' = products
    BY DEF StoreWooId, UpdateWooID
  <2>3. [products[Current(w)] EXCEPT !.woo = TRUE] \in ProductRow
    BY <1>2, <2>1 DEF ProductRow
  <2> QED BY <1>2, <2>1, <2>2, <2>3
<1>4. Good(jobs') /\ Keeps(jobs')
  BY TypeInvGood DEF StoreWooId, Keeps, Exists
<1>5. worker' = [worker EXCEPT ![w] = r]
  <2>1. worker \in [Workers -> Work]
    BY DEF TypeInv, TypeOK, EngineTypeOK
  <2> QED BY <2>1 DEF StoreWooId
<1>6. /\ r \in Work /\ Sound(r)
      /\ r.todo = worker[w].todo /\ r.items = worker[w].items
  BY <1>1 DEF Work, Sound
<1> HIDE DEF r
<1>7. Present(r.todo) /\ \A i \in DOMAIN r.items : Exists(r.items[i].claim.id)
  BY <1>6 DEF TypeInv, AllPresent, WorkersPresent
<1>8. EngineTypeOK' /\ AllPresent'
  BY <1>4, <1>5, <1>6, <1>7, WorkerAlone DEF StoreWooId
<1>9. faults' \in 0..MaxFaults
  BY WriteFaults DEF StoreWooId
<1> QED BY <1>3, <1>4, <1>8, <1>9 DEF StoreWooId, TypeInv, TypeOK, TablesTypeOK, Good

LEMMA RecoverStaleType == ASSUME TypeInv, RecoverStale PROVE TypeInv'
<1>1. Good(jobs') /\ Keeps(jobs')
  BY RecoverWrites, TypeInvGood DEF RecoverStale
<1>2. EngineTypeOK' /\ AllPresent'
  BY <1>1, MemoryStays DEF RecoverStale, memory
<1> QED BY <1>1, <1>2 DEF RecoverStale, TypeInv, TypeOK, TablesTypeOK, Good

LEMMA TickType == ASSUME TypeInv, NEW j \in JobIds, Tick(j) PROVE TypeInv'
<1>1. jobs' = [jobs EXCEPT ![j].due = TRUE]
  BY DEF Tick, Elapse
<1>2. Good(jobs') /\ Keeps(jobs')
  BY <1>1, TypeInvGood DEF Good, Named, Keeps, Exists, JobRow
<1>3. EngineTypeOK' /\ AllPresent'
  BY <1>2, MemoryStays DEF Tick
<1> QED BY <1>2, <1>3 DEF Tick, Elapse, TypeInv, TypeOK, TablesTypeOK, Good

LEMMA CrashType == ASSUME TypeInv, Crash PROVE TypeInv'
<1>1. /\ turn' = "create" /\ claimed' = {}
      /\ queue' = [t \in JobTypes |-> <<>>] /\ worker' = [w \in Workers |-> NoWork]
  BY DEF Crash
<1>2. DOMAIN <<>> = {} /\ <<>> \in Seq(Item) /\ <<>> \in Seq(SUBSET Claim)
  OBVIOUS
<1>3. NoWork \in Work /\ NoWork.todo = {} /\ NoWork.items = <<>> /\ Sound(NoWork)
  BY <1>2 DEF NoWork, Work, Sound
<1>4. EngineTypeOK'
  BY <1>1, <1>2, <1>3 DEF EngineTypeOK, JobTypes
<1>5. ClaimedPresent' /\ QueuePresent'
  BY <1>1, <1>2 DEF ClaimedPresent, QueuePresent, Present
<1>6. WorkersPresent'
  BY <1>1, <1>2, <1>3 DEF WorkersPresent, Present
<1>7. crashes' \in 0..MaxCrashes
  BY TablesAssumption DEF Crash, TypeInv, TypeOK, TablesTypeOK
<1> QED BY <1>4, <1>5, <1>6, <1>7
        DEF Crash, TypeInv, TypeOK, TablesTypeOK, AllPresent, Named

LEMMA EnqueueType ==
  ASSUME TypeInv, NEW p \in Products, EnqueueCreate(p) \/ EnqueueUpdate(p)
  PROVE  TypeInv'
<1>1. CASE EnqueueCreate(p)
  <2>1. Good(jobs') /\ Keeps(jobs')
    BY <1>1, CreateWrites, TypeInvGood DEF EnqueueCreate, JobTypes
  <2>2. products' \in [Products -> ProductRow]
    BY <1>1 DEF EnqueueCreate, UpsertProduct, TypeInv, TypeOK, TablesTypeOK,
                ProductRow, Versions
  <2>3. EngineTypeOK' /\ AllPresent'
    BY <1>1, <2>1, MemoryStays DEF EnqueueCreate, memory
  <2> QED BY <1>1, <2>1, <2>2, <2>3 DEF EnqueueCreate, TypeInv, TypeOK, TablesTypeOK, Good
<1>2. CASE EnqueueUpdate(p)
  <2>1. Good(jobs') /\ Keeps(jobs')
    BY <1>2, CreateWrites, TypeInvGood DEF EnqueueUpdate, JobTypes
  <2>2. EngineTypeOK' /\ AllPresent'
    BY <1>2, <2>1, MemoryStays DEF EnqueueUpdate, memory
  <2> QED BY <1>2, <2>1, <2>2 DEF EnqueueUpdate, TypeInv, TypeOK, TablesTypeOK, Good
<1> QED BY <1>1, <1>2

LEMMA TypeStep == TypeInv /\ [Next]_vars => TypeInv'
<1> SUFFICES ASSUME TypeInv, [Next]_vars PROVE TypeInv'
  OBVIOUS
<1>1. ASSUME NEW w \in Workers, WorkerStep(w) PROVE TypeInv'
  BY <1>1, TakeTaskType, LoadProductType, LoadFailsType, CallWooType, CallFailsType,
     AbortJobType, RecordFailureType, StoreWooIdType, MarkSuccessType DEF WorkerStep
<1>2. CASE UNCHANGED vars
  BY <1>2 DEF vars, TypeInv, TypeOK, TablesTypeOK, EngineTypeOK, Named, AllPresent,
              ClaimedPresent, QueuePresent, WorkersPresent, Present, Exists
<1> QED
  BY <1>1, <1>2, ClaimJobsType, SubmitBatchType, RecoverStaleType, CrashType, TickType,
     EnqueueType DEF Next, EngineNext

LEMMA TypeInvCorrect == Spec => []TypeInv
  BY TypeInit, TypeStep, PTL DEF Spec

\* The tables and the engine's memory keep their types: a claim is always of a row
\* that is there and names a product, so that a batch can load it (processBatch).
THEOREM TypeCorrect == Spec => []TypeOK
<1>1. TypeInv => TypeOK
  BY DEF TypeInv
<1> QED BY <1>1, TypeInvCorrect, PTL

-----------------------------------------------------------------------------
(* The engine inserts no row and leaves every row its product and its type, *)
(* and so a job stays with the pool of its type, from the claim to the      *)
(* last item of its batch.                                                  *)

SameRows(tab) ==
    \A j \in JobIds : /\ tab[j].product = jobs[j].product
                      /\ tab[j].type = jobs[j].type
                      /\ tab[j].state = "ABSENT" <=> jobs[j].state = "ABSENT"

LEMMA RowsStay == SameRows(jobs)
  BY DEF SameRows

LEMMA FailureRows ==
  ASSUME TypeInv, NEW c \in Claim, Exists(c.id)
  PROVE  SameRows(Failure(c))
<1>1. c.id \in JobIds /\ jobs \in [JobIds -> JobRow] /\ \A j \in JobIds : jobs[j] \in JobRow
  BY DEF Claim, TypeInv, TypeOK, TablesTypeOK
<1>2. CASE c.retries + 1 >= MaxRetries
  <2>1. Failure(c) = [jobs EXCEPT ![c.id].state = "DEAD_LETTER", ![c.id].due = FALSE]
    BY <1>2 DEF Failure, MarkAsDeadLetter
  <2> QED BY <1>1, <2>1 DEF SameRows, Exists, JobRow
<1>3. CASE ~(c.retries + 1 >= MaxRetries)
  <2>1. Failure(c) = [jobs EXCEPT ![c.id].state = "PENDING", ![c.id].retries = @ + 1,
                                  ![c.id].due = FALSE]
    BY <1>3 DEF Failure, ScheduleRetry
  <2> QED BY <1>1, <2>1 DEF SameRows, Exists, JobRow
<1> QED BY <1>2, <1>3

LEMMA SuccessRows ==
  ASSUME TypeInv, NEW c \in Claim, Exists(c.id)
  PROVE  SameRows(UpdateJobStatus(jobs, c.id, "SUCCESS", c.retries))
<1>1. c.id \in JobIds /\ jobs \in [JobIds -> JobRow] /\ \A j \in JobIds : jobs[j] \in JobRow
  BY DEF Claim, TypeInv, TypeOK, TablesTypeOK
<1> QED BY <1>1 DEF SameRows, Exists, JobRow, UpdateJobStatus

LEMMA ClaimRows ==
  ASSUME TypeInv, NEW type, NEW S \in SUBSET Claimable(jobs, type)
  PROVE  SameRows(ClaimPendingJobs(jobs, S))
<1>1. \A j \in JobIds : jobs[j] \in JobRow
  BY DEF TypeInv, TypeOK, TablesTypeOK
<1> QED BY <1>1 DEF SameRows, ClaimPendingJobs, Claimable, JobRow

LEMMA RecoverRows == TypeInv => SameRows(RecoverStaleJobs(jobs))
<1> SUFFICES ASSUME TypeInv PROVE SameRows(RecoverStaleJobs(jobs))
  OBVIOUS
<1>1. \A j \in JobIds : jobs[j] \in JobRow
  BY DEF TypeInv, TypeOK, TablesTypeOK
<1> QED BY <1>1 DEF SameRows, RecoverStaleJobs, Stale, JobRow

\* The item in hand and the claim that answers for it.
LEMMA CurrentClaim ==
  ASSUME TypeInv, NEW w \in Workers, worker[w].pc \in {"record", "mark"}
  PROVE  /\ worker[w].items \in Seq(Item) /\ worker[w].items # <<>>
         /\ Current(w) \in ProductsOf(worker[w].items)
         /\ Owner(worker[w].items, Current(w)) \in Claim
         /\ Exists(Owner(worker[w].items, Current(w)).id)
<1>1. worker[w].items # <<>>
  BY DEF TypeInv, AllPresent, WorkersPresent, Sound
<1> QED BY <1>1, CurrentLoaded, InHand

LEMMA WorkerRows ==
  ASSUME TypeInv, NEW w \in Workers, WorkerStep(w)
  PROVE  SameRows(jobs')
<1>1. CASE TakeTask(w) \/ LoadProduct(w) \/ CallWoo(w) \/ CallFails(w) \/ StoreWooId(w)
  BY <1>1, RowsStay DEF TakeTask, LoadProduct, CallWoo, CallFails, StoreWooId
<1>2. CASE LoadFails(w)
  <2>1. PICK c \in worker[w].todo : jobs' \in {jobs, Failure(c)}
    BY <1>2 DEF LoadFails
  <2>2. c \in Claim /\ Exists(c.id)
    BY InHand DEF TypeInv, AllPresent, WorkersPresent, Present
  <2> QED BY <2>1, <2>2, RowsStay, FailureRows
<1>3. CASE AbortJob(w)
  <2>1. PICK p \in worker[w].failed : Write(Failure(Owner(worker[w].items, p)))
    BY <1>3 DEF AbortJob, HandleJobFailure
  <2>2. p \in ProductsOf(worker[w].items)
    BY <1>3 DEF AbortJob, TypeInv, AllPresent, WorkersPresent, Sound
  <2>3. Owner(worker[w].items, p) \in Claim /\ Exists(Owner(worker[w].items, p).id)
    BY <2>2, InHand
  <2> QED BY <2>1, <2>3, RowsStay, FailureRows DEF Write
<1>4. CASE RecordFailure(w)
  BY <1>4, CurrentClaim, RowsStay, FailureRows DEF RecordFailure, HandleJobFailure, Write
<1>5. CASE MarkSuccess(w)
  BY <1>5, CurrentClaim, RowsStay, SuccessRows DEF MarkSuccess, Write
<1> QED BY <1>1, <1>2, <1>3, <1>4, <1>5 DEF WorkerStep

LEMMA EngineRows == ASSUME TypeInv, EngineNext PROVE SameRows(jobs')
<1>1. CASE ClaimJobs
  BY <1>1, ClaimRows DEF ClaimJobs
<1>2. CASE RecoverStale
  BY <1>2, RecoverRows DEF RecoverStale
<1>3. CASE SubmitBatch \/ Crash
  BY <1>3, RowsStay DEF SubmitBatch, Crash
<1>4. ASSUME NEW j \in JobIds, Tick(j) PROVE SameRows(jobs')
  <2>1. jobs' = [jobs EXCEPT ![j].due = TRUE]
    BY <1>4 DEF Tick, Elapse
  <2>2. jobs \in [JobIds -> JobRow] /\ \A k \in JobIds : jobs[k] \in JobRow
    BY DEF TypeInv, TypeOK, TablesTypeOK
  <2> QED BY <2>1, <2>2 DEF SameRows, JobRow
<1> QED BY <1>1, <1>2, <1>3, <1>4, WorkerRows DEF EngineNext

\* The claims of a batch that is loaded or being loaded.
ClaimsIn(items) == {items[i].claim : i \in DOMAIN items}
InWork(r) == r.todo \cup ClaimsIn(r.items)

LEMMA InWorkPresent ==
  ASSUME TypeInv, NEW w \in Workers
  PROVE  InWork(worker[w]) \subseteq Claim /\ Present(InWork(worker[w]))
<1>1. /\ worker[w].todo \subseteq Claim /\ Present(worker[w].todo)
      /\ \A i \in DOMAIN worker[w].items :
           worker[w].items[i] \in Item /\ Exists(worker[w].items[i].claim.id)
  BY InHand DEF TypeInv, AllPresent, WorkersPresent
<1> QED BY <1>1 DEF InWork, ClaimsIn, Present, Item

LEMMA InWorkOf ==
  ASSUME NEW todo, NEW items, NEW S
  PROVE  /\ InWork(Loading(todo, items)) \subseteq todo \cup ClaimsIn(items)
         /\ InWork(Results(items, S)) \subseteq ClaimsIn(items)
         /\ InWork(Aborting(items, S)) \subseteq ClaimsIn(items)
<1>1. DOMAIN <<>> = {}
  OBVIOUS
<1> QED BY <1>1 DEF InWork, ClaimsIn, Loading, Results, Aborting, NoWork

LEMMA ClaimsInTail ==
  ASSUME NEW items \in Seq(Item), items # <<>>
  PROVE  ClaimsIn(Tail(items)) \subseteq ClaimsIn(items)
<1>1. \A i \in DOMAIN Tail(items) : i + 1 \in DOMAIN items /\ Tail(items)[i] = items[i + 1]
  OBVIOUS
<1> QED BY <1>1 DEF ClaimsIn

LEMMA ClaimsInAppend ==
  ASSUME NEW items \in Seq(Item), NEW item
  PROVE  ClaimsIn(Append(items, item)) \subseteq ClaimsIn(items) \cup {item.claim}
<1>1. \A i \in DOMAIN Append(items, item) :
        \/ Append(items, item)[i] = item
        \/ i \in DOMAIN items /\ Append(items, item)[i] = items[i]
  OBVIOUS
<1> QED BY <1>1 DEF ClaimsIn

\* A worker gets claims from its queue and from nowhere else.
LEMMA WorkerAlters ==
  ASSUME TypeInv, NEW w \in Workers, WorkerStep(w)
  PROVE  /\ \A v \in Workers \ {w} : worker'[v] = worker[v]
         /\ TakeTask(w) \/ InWork(worker'[w]) \subseteq InWork(worker[w])
<1> DEFINE items == worker[w].items
<1>1. worker \in [Workers -> Work] /\ items \in Seq(Item)
  BY InHand DEF TypeInv, TypeOK, EngineTypeOK
<1>2. ASSUME NEW S, worker' = [worker EXCEPT ![w] = Results(items, S)]
                    \/ worker' = [worker EXCEPT ![w] = Aborting(items, S)]
      PROVE  /\ \A v \in Workers \ {w} : worker'[v] = worker[v]
             /\ InWork(worker'[w]) \subseteq InWork(worker[w])
  BY <1>1, <1>2, InWorkOf DEF InWork
<1>3. CASE TakeTask(w)
  BY <1>1, <1>3 DEF TakeTask
<1>4. CASE LoadProduct(w)
  <2>1. PICK c, item :
          /\ c \in worker[w].todo
          /\ item.claim = c
          /\ worker' = [worker EXCEPT ![w] =
                          Loading(worker[w].todo \ {c}, Append(items, item))]
    BY <1>1, <1>4 DEF LoadProduct
  <2> DEFINE more == Append(items, item)
             todo == worker[w].todo \ {c}
  <2>2. ClaimsIn(more) \subseteq ClaimsIn(items) \cup {c}
    BY <1>1, <2>1, ClaimsInAppend
  <2>3. worker' = [worker EXCEPT ![w] = Loading(todo, more)]
    BY <2>1
  <2>4. todo \subseteq worker[w].todo /\ c \in worker[w].todo
    BY <2>1
  <2> HIDE DEF more, todo, items
  <2>5. worker'[w] = Loading(todo, more) /\ \A v \in Workers \ {w} : worker'[v] = worker[v]
    BY <1>1, <2>3
  <2>6. InWork(worker'[w]) \subseteq todo \cup ClaimsIn(more)
    BY <2>5, InWorkOf
  <2> QED BY <2>2, <2>4, <2>5, <2>6 DEF InWork, items
<1>5. CASE LoadFails(w)
  <2>1. PICK c \in worker[w].todo :
          worker' = [worker EXCEPT ![w] = Loading(worker[w].todo \ {c}, items)]
    BY <1>1, <1>5 DEF LoadFails
  <2> DEFINE todo == worker[w].todo \ {c}
  <2>2. todo \subseteq worker[w].todo
    OBVIOUS
  <2>3. worker' = [worker EXCEPT ![w] = Loading(todo, items)]
    BY <2>1
  <2> HIDE DEF todo, items
  <2>4. worker'[w] = Loading(todo, items) /\ \A v \in Workers \ {w} : worker'[v] = worker[v]
    BY <1>1, <2>3
  <2>5. InWork(worker'[w]) \subseteq todo \cup ClaimsIn(items)
    BY <2>4, InWorkOf
  <2> QED BY <2>2, <2>4, <2>5 DEF InWork, items
<1>6. CASE CallWoo(w) \/ CallFails(w)
  BY <1>2, <1>6 DEF CallWoo, CallFails
<1>7. CASE AbortJob(w)
  <2>1. \E S : worker' = [worker EXCEPT ![w] = Aborting(items, S)]
    BY <1>1, <1>7 DEF AbortJob
  <2> QED BY <1>2, <2>1
<1>8. CASE RecordFailure(w) \/ MarkSuccess(w)
  <2>1. items # <<>>
    BY <1>8, CurrentClaim DEF RecordFailure, MarkSuccess
  <2> DEFINE rest == Tail(items)
  <2>2. worker' = [worker EXCEPT ![w] = Results(rest, worker[w].failed)]
    BY <1>1, <1>8 DEF RecordFailure, MarkSuccess, NextItem
  <2>3. ClaimsIn(rest) \subseteq ClaimsIn(items)
    BY <1>1, <2>1, ClaimsInTail
  <2> HIDE DEF rest
  <2> QED BY <1>1, <2>2, <2>3, InWorkOf DEF InWork
<1>9. CASE StoreWooId(w)
  <2>1. worker' = [worker EXCEPT ![w] = [worker[w] EXCEPT !.pc = "mark"]]
    BY <1>1, <1>9 DEF StoreWooId
  <2>2. worker[w] \in Work
    BY <1>1
  <2> QED BY <1>1, <2>1, <2>2 DEF InWork, Work
<1> QED BY <1>3, <1>4, <1>5, <1>6, <1>7, <1>8, <1>9 DEF WorkerStep

\* A claim is in the hands of the pool of its type.
Kind(S, type) == \A c \in S : jobs[c.id].type = type

KindInv ==
    /\ Kind(claimed, Other(turn))
    /\ \A t \in JobTypes : \A i \in DOMAIN queue[t] : Kind(queue[t][i], t)
    /\ \A w \in Workers : Kind(InWork(worker[w]), TypeOf(w))

KeepsTypes == \A j \in JobIds : Exists(j) => jobs'[j].type = jobs[j].type

LEMMA KindInit == Init => KindInv
<1> SUFFICES ASSUME Init PROVE KindInv
  OBVIOUS
<1>1. /\ claimed = {} /\ \A t \in JobTypes : queue[t] = <<>>
      /\ \A w \in Workers : worker[w] = NoWork
  BY DEF Init, NoMemory
<1>2. DOMAIN <<>> = {}
  OBVIOUS
<1>3. InWork(NoWork) = {}
  BY <1>2 DEF InWork, ClaimsIn, NoWork
<1> QED BY <1>1, <1>2, <1>3 DEF KindInv, Kind

LEMMA KindKept ==
  ASSUME TypeInv, KindInv, KeepsTypes
  PROVE  /\ \A c \in claimed : jobs'[c.id].type = Other(turn)
         /\ \A t \in JobTypes : \A i \in DOMAIN queue[t] :
              \A c \in queue[t][i] : jobs'[c.id].type = t
         /\ \A w \in Workers : \A c \in InWork(worker[w]) : jobs'[c.id].type = TypeOf(w)
<1>1. ASSUME NEW c \in claimed PROVE jobs'[c.id].type = Other(turn)
  BY DEF TypeInv, TypeOK, EngineTypeOK, AllPresent, ClaimedPresent, Present, KindInv, Kind,
         KeepsTypes, Claim
<1>2. ASSUME NEW t \in JobTypes, NEW i \in DOMAIN queue[t], NEW c \in queue[t][i]
      PROVE  jobs'[c.id].type = t
  <2>1. queue[t][i] \in SUBSET Claim
    <3>1. queue[t] \in Seq(SUBSET Claim)
      BY DEF TypeInv, TypeOK, EngineTypeOK
    <3> QED BY <3>1
  <2> QED BY <2>1 DEF TypeInv, AllPresent, QueuePresent, Present, KindInv, Kind,
                      KeepsTypes, Claim
<1>3. ASSUME NEW w \in Workers, NEW c \in InWork(worker[w])
      PROVE  jobs'[c.id].type = TypeOf(w)
  BY InWorkPresent DEF Present, KindInv, Kind, KeepsTypes, Claim
<1> QED BY <1>1, <1>2, <1>3

LEMMA KindMemory ==
  ASSUME TypeInv, KindInv, KeepsTypes, UNCHANGED <<turn, claimed, queue, worker>>
  PROVE  KindInv'
  BY KindKept DEF KindInv, Kind

LEMMA ClaimJobsKind == ASSUME TypeInv, KindInv, KeepsTypes, ClaimJobs PROVE KindInv'
<1>1. PICK S \in SUBSET Claimable(jobs, turn) : claimed' = Snapshot(S) \/ claimed' = {}
  BY DEF ClaimJobs
<1>2. turn' = Other(turn) /\ UNCHANGED <<queue, worker>>
  BY DEF ClaimJobs
<1>3. turn \in JobTypes
  BY DEF TypeInv, TypeOK, EngineTypeOK
<1>4. Other(turn') = turn
  BY <1>2, <1>3 DEF Other, JobTypes
<1>5. \A c \in claimed' : c.id \in S
  BY <1>1 DEF Snapshot
<1>6. \A j \in S : j \in JobIds /\ Exists(j) /\ jobs[j].type = turn
  BY DEF Claimable, Exists
<1>7. \A c \in claimed' : jobs'[c.id].type = turn
  BY <1>5, <1>6 DEF KeepsTypes
<1> QED BY <1>2, <1>4, <1>7, KindKept DEF KindInv, Kind

LEMMA SubmitBatchKind == ASSUME TypeInv, KindInv, KeepsTypes, SubmitBatch PROVE KindInv'
<1> DEFINE type == Other(turn)
<1>1. PICK batch \in SUBSET claimed :
         /\ claimed' = claimed \ batch
         /\ \/ queue' = [queue EXCEPT ![type] = Append(@, batch)]
            \/ queue' = queue
  BY DEF SubmitBatch
<1>2. queue \in [JobTypes -> Seq(SUBSET Claim)] /\ batch \in SUBSET Claim
  BY DEF TypeInv, TypeOK, EngineTypeOK
<1>3. UNCHANGED <<turn, worker>>
  BY DEF SubmitBatch
<1>4. \A c \in claimed : jobs'[c.id].type = type
  BY KindKept
<1> HIDE DEF type
<1>5. ASSUME NEW t \in JobTypes, NEW i \in DOMAIN queue'[t], NEW c \in queue'[t][i]
      PROVE  jobs'[c.id].type = t
  <2>1. \/ i \in DOMAIN queue[t] /\ queue'[t][i] = queue[t][i]
        \/ t = type /\ queue'[t][i] = batch
    <3>1. queue[t] \in Seq(SUBSET Claim)
      BY <1>2
    <3>2. CASE queue' = queue \/ t # type
      BY <1>1, <1>2, <1>5, <3>2
    <3>3. CASE queue' = [queue EXCEPT ![type] = Append(@, batch)] /\ t = type
      <4>1. queue'[t] = Append(queue[t], batch)
        BY <1>2, <3>3
      <4> QED BY <1>2, <1>5, <3>1, <3>3, <4>1
    <3> QED BY <1>1, <3>2, <3>3
  <2> QED BY <1>4, <1>5, <2>1, KindKept
<1>6. \A c \in claimed' : jobs'[c.id].type = Other(turn')
  BY <1>1, <1>3, KindKept
<1> QED BY <1>3, <1>5, <1>6, KindKept DEF KindInv, Kind

LEMMA TakeTaskKind ==
  ASSUME TypeInv, KindInv, KeepsTypes, NEW w \in Workers, TakeTask(w)
  PROVE  KindInv'
<1> DEFINE type == TypeOf(w)
           batch == Head(queue[type])
<1>1. /\ queue \in [JobTypes -> Seq(SUBSET Claim)] /\ worker \in [Workers -> Work]
      /\ type \in JobTypes
  BY DEF TypeInv, TypeOK, EngineTypeOK, TypeOf, JobTypes
<1>2. /\ queue[type] # <<>> /\ queue[type] \in Seq(SUBSET Claim)
      /\ worker' = [worker EXCEPT ![w] = Loading(batch, <<>>)]
      /\ queue' = [queue EXCEPT ![type] = Tail(@)]
      /\ UNCHANGED <<turn, claimed>>
  BY <1>1 DEF TakeTask
<1>3. batch = queue[type][1] /\ 1 \in DOMAIN queue[type]
  BY <1>2
<1>4. \A c \in batch : jobs'[c.id].type = type
  BY <1>1, <1>3, KindKept
<1>5. ASSUME NEW t \in JobTypes, NEW i \in DOMAIN queue'[t], NEW c \in queue'[t][i]
      PROVE  jobs'[c.id].type = t
  <2>1. \E k \in DOMAIN queue[t] : queue'[t][i] = queue[t][k]
    <3>1. CASE t # type
      BY <1>1, <1>2, <1>5, <3>1
    <3>2. CASE t = type
      <4>1. i + 1 \in DOMAIN queue[t] /\ queue'[t][i] = queue[t][i + 1]
        BY <1>1, <1>2, <1>5, <3>2
      <4> QED BY <4>1
    <3> QED BY <3>1, <3>2
  <2> QED BY <1>5, <2>1, KindKept
<1> HIDE DEF type, batch
<1>6. InWork(worker'[w]) \subseteq batch
  <2>1. ClaimsIn(<<>>) = {}
    <3>1. DOMAIN <<>> = {}
      OBVIOUS
    <3> QED BY <3>1 DEF ClaimsIn
  <2> QED BY <1>1, <1>2, <2>1, InWorkOf
<1>7. \A v \in Workers \ {w} : worker'[v] = worker[v]
  BY <1>1, <1>2
<1>8. \A v \in Workers : \A c \in InWork(worker'[v]) : jobs'[c.id].type = TypeOf(v)
  BY <1>4, <1>6, <1>7, KindKept DEF type
<1> QED BY <1>2, <1>5, <1>8, KindKept DEF KindInv, Kind

LEMMA WorkerKind ==
  ASSUME TypeInv, KindInv, KeepsTypes, NEW w \in Workers, WorkerStep(w)
  PROVE  KindInv'
<1>1. CASE TakeTask(w)
  BY <1>1, TakeTaskKind
<1>2. CASE ~TakeTask(w)
  <2>1. UNCHANGED <<turn, claimed, queue>>
    BY <1>2 DEF WorkerStep, LoadProduct, LoadFails, CallWoo, CallFails, AbortJob,
                RecordFailure, StoreWooId, MarkSuccess
  <2>2. \A v \in Workers : InWork(worker'[v]) \subseteq InWork(worker[v])
    BY <1>2, WorkerAlters
  <2> QED BY <2>1, <2>2, KindKept DEF KindInv, Kind
<1> QED BY <1>1, <1>2

LEMMA EngineKind == ASSUME TypeInv, KindInv, EngineNext PROVE KindInv'
<1>1. KeepsTypes
  BY EngineRows DEF SameRows, KeepsTypes
<1>2. CASE RecoverStale
  BY <1>1, <1>2, KindMemory DEF RecoverStale
<1>3. CASE Crash
  <2>1. /\ turn' = "create" /\ claimed' = {}
        /\ \A t \in JobTypes : queue'[t] = <<>>
        /\ \A w \in Workers : worker'[w] = NoWork
    BY <1>3 DEF Crash
  <2>2. DOMAIN <<>> = {}
    OBVIOUS
  <2>3. InWork(NoWork) = {}
    BY <2>2 DEF InWork, ClaimsIn, NoWork
  <2> QED BY <2>1, <2>2, <2>3 DEF KindInv, Kind
<1>4. ASSUME NEW j \in JobIds, Tick(j) PROVE KindInv'
  BY <1>1, <1>4, KindMemory DEF Tick, memory
<1> QED BY <1>1, <1>2, <1>3, <1>4, ClaimJobsKind, SubmitBatchKind, WorkerKind DEF EngineNext
=============================================================================
