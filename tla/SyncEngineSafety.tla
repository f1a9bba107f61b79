-------------------------- MODULE SyncEngineSafety --------------------------
(***************************************************************************)
(* When the clock is prompt, a job is in one pair of hands and an ended    *)
(* job stays ended, for every instance of SyncEngine.                      *)
(*                                                                         *)
(* The inductive invariant follows a claim through the memory of the       *)
(* process.  A row that somebody holds is not due: the claim that took it  *)
(* cleared the flag and a prompt clock does not set it again, so neither   *)
(* ClaimPendingJobs nor RecoverStaleJobs can give it to somebody else.  A  *)
(* row whose outcome is not written yet is RUNNING; in the result loop the *)
(* row of a product that comes again already has the state it will be      *)
(* given once more.                                                        *)
(***************************************************************************)
EXTENDS SyncEngineProofs

Ids(S) == {c.id : c \in S}
Distinct(S) == \A c, d \in S : c.id = d.id => c = d

\* Of a worker's state: the products whose outcome is not recorded yet, and the
\* claims it will still write to (ClaimsOf).
Left(r) == IF r.pc = "abort" THEN r.failed ELSE ProductsOf(r.items)
HeldIn(r) == r.todo \cup {Owner(r.items, p) : p \in Left(r)}

Claimed(tab, j) == tab[j].state = "RUNNING" /\ ~tab[j].due

Outcome(r, p) == IF p \in r.failed THEN Verdict(Owner(r.items, p)) ELSE "SUCCESS"

DistinctIn(r) ==
    /\ Distinct(r.todo)
    /\ \A i, k \in DOMAIN r.items :
         r.items[i].claim.id = r.items[k].claim.id => i = k
    /\ \A c \in r.todo : \A i \in DOMAIN r.items : c.id # r.items[i].claim.id

Consistent(tab, r) ==
    /\ \A c \in r.todo : Claimed(tab, c.id)
    /\ \A p \in Left(r) :
         LET j == Owner(r.items, p).id IN
         \/ Claimed(tab, j)
         \/ /\ r.pc \in {"record", "mark"}
            /\ tab[j].state = Outcome(r, p) /\ ~tab[j].due
    /\ r.pc = "mark" => Head(r.items).product \notin r.failed

ClaimedInv == Distinct(claimed) /\ \A j \in Ids(claimed) : Claimed(jobs, j)

QueueInv ==
    \A t \in JobTypes : \A i \in DOMAIN queue[t] :
        Distinct(queue[t][i]) /\ \A j \in Ids(queue[t][i]) : Claimed(jobs, j)

WorkerInv ==
    \A w \in Workers : DistinctIn(worker[w]) /\ Consistent(jobs, worker[w])

\* No job is in two places.
Apart ==
    /\ \A t \in JobTypes : \A i \in DOMAIN queue[t] :
         Ids(claimed) \cap Ids(queue[t][i]) = {}
    /\ \A w \in Workers : Ids(claimed) \cap Ids(HeldIn(worker[w])) = {}
    /\ \A t, u \in JobTypes : \A i \in DOMAIN queue[t], k \in DOMAIN queue[u] :
         t # u \/ i # k => Ids(queue[t][i]) \cap Ids(queue[u][k]) = {}
    /\ \A t \in JobTypes : \A i \in DOMAIN queue[t] : \A w \in Workers :
         Ids(queue[t][i]) \cap Ids(HeldIn(worker[w])) = {}
    /\ \A v, w \in Workers :
         v # w => Ids(HeldIn(worker[v])) \cap Ids(HeldIn(worker[w])) = {}

HoldInv == TypeInv /\ ClaimedInv /\ QueueInv /\ WorkerInv /\ Apart

-----------------------------------------------------------------------------
LEMMA ClaimsOfHeldIn == \A w \in Workers : ClaimsOf(w) = HeldIn(worker[w])
  BY DEF ClaimsOf, Unrecorded, HeldIn, Left

\* What is held is a row that exists and is not due.
LEMMA HeldInRows ==
  ASSUME HoldInv, NEW w \in Workers
  PROVE  /\ HeldIn(worker[w]) \subseteq Claim
         /\ \A j \in Ids(HeldIn(worker[w])) :
              j \in JobIds /\ Exists(j) /\ ~jobs[j].due
<1>1. Left(worker[w]) \subseteq ProductsOf(worker[w].items)
  BY DEF Left, HoldInv, TypeInv, AllPresent, WorkersPresent, Sound
<1>2. /\ worker[w].todo \subseteq Claim
      /\ \A c \in worker[w].todo : Exists(c.id) /\ ~jobs[c.id].due
  BY InHand DEF HoldInv, TypeInv, AllPresent, WorkersPresent, Present,
                WorkerInv, Consistent, Claimed
<1>3. ASSUME NEW p \in Left(worker[w])
      PROVE  LET c == Owner(worker[w].items, p) IN
             c \in Claim /\ Exists(c.id) /\ ~jobs[c.id].due
  BY <1>1, InHand DEF HoldInv, WorkerInv, Consistent, Claimed
<1> QED BY <1>2, <1>3 DEF HeldIn, Ids, Claim

LEMMA HeldRows ==
  ASSUME HoldInv, NEW j, Held(j)
  PROVE  j \in JobIds /\ Exists(j) /\ ~jobs[j].due
<1>1. CASE \E c \in claimed : c.id = j
  BY <1>1 DEF HoldInv, TypeInv, TypeOK, EngineTypeOK, Claim, AllPresent, ClaimedPresent,
              Present, ClaimedInv, Claimed, Ids
<1>2. ASSUME NEW t \in JobTypes, NEW i \in DOMAIN queue[t],
             NEW c \in queue[t][i], c.id = j
      PROVE  j \in JobIds /\ Exists(j) /\ ~jobs[j].due
  <2>1. queue[t][i] \in SUBSET Claim
    <3>1. queue[t] \in Seq(SUBSET Claim)
      BY DEF HoldInv, TypeInv, TypeOK, EngineTypeOK
    <3> QED BY <3>1
  <2>2. Exists(j) /\ Claimed(jobs, j)
    BY <1>2 DEF HoldInv, TypeInv, AllPresent, QueuePresent, Present, QueueInv, Ids
  <2> QED BY <1>2, <2>1, <2>2 DEF Claim, Claimed
<1>3. ASSUME NEW w \in Workers, NEW c \in ClaimsOf(w), c.id = j
      PROVE  j \in JobIds /\ Exists(j) /\ ~jobs[j].due
  BY <1>3, ClaimsOfHeldIn, HeldInRows DEF Ids
<1> QED BY <1>1, <1>2, <1>3 DEF Held

LEMMA HeldIds ==
  /\ \A j \in Ids(claimed) : Held(j)
  /\ \A t \in JobTypes : \A i \in DOMAIN queue[t] : \A j \in Ids(queue[t][i]) : Held(j)
  /\ \A w \in Workers : \A j \in Ids(HeldIn(worker[w])) : Held(j)
  BY ClaimsOfHeldIn DEF Held, Ids

-----------------------------------------------------------------------------
(* What is kept when the rows of somebody's claims are left alone.         *)

LEMMA ClaimedKept ==
  ASSUME HoldInv, claimed' \subseteq claimed, \A j \in Ids(claimed) : jobs'[j] = jobs[j]
  PROVE  ClaimedInv'
  BY DEF HoldInv, ClaimedInv, Distinct, Ids, Claimed

LEMMA QueueKept ==
  ASSUME HoldInv, queue' = queue,
         \A t \in JobTypes : \A i \in DOMAIN queue[t] :
            \A j \in Ids(queue[t][i]) : jobs'[j] = jobs[j]
  PROVE  QueueInv'
  BY DEF HoldInv, QueueInv, Distinct, Ids, Claimed

LEMMA WorkerKept ==
  ASSUME HoldInv, NEW w \in Workers,
         \A j \in Ids(HeldIn(worker[w])) : jobs'[j] = jobs[j]
  PROVE  DistinctIn(worker[w]) /\ Consistent(jobs', worker[w])
<1>1. \A c \in worker[w].todo : jobs'[c.id] = jobs[c.id]
  BY DEF Ids, HeldIn
<1>2. \A p \in Left(worker[w]) :
        jobs'[Owner(worker[w].items, p).id] = jobs[Owner(worker[w].items, p).id]
  BY DEF Ids, HeldIn
<1> QED BY <1>1, <1>2 DEF HoldInv, WorkerInv, Consistent, Claimed

\* Claims that go nowhere new stay apart.
LEMMA ApartKept ==
  ASSUME HoldInv, queue' = queue, Ids(claimed') \subseteq Ids(claimed),
         \A w \in Workers : Ids(HeldIn(worker'[w])) \subseteq Ids(HeldIn(worker[w]))
  PROVE  Apart'
<1>1. ASSUME NEW t \in JobTypes, NEW i \in DOMAIN queue[t]
      PROVE  /\ Ids(claimed') \cap Ids(queue[t][i]) = {}
             /\ \A w \in Workers : Ids(queue[t][i]) \cap Ids(HeldIn(worker'[w])) = {}
  <2>1. /\ Ids(claimed) \cap Ids(queue[t][i]) = {}
        /\ \A w \in Workers : Ids(queue[t][i]) \cap Ids(HeldIn(worker[w])) = {}
    BY DEF HoldInv, Apart
  <2> QED BY <2>1
<1>2. \A w \in Workers : Ids(claimed') \cap Ids(HeldIn(worker'[w])) = {}
  <2>1. \A w \in Workers : Ids(claimed) \cap Ids(HeldIn(worker[w])) = {}
    BY DEF HoldInv, Apart
  <2> QED BY <2>1
<1>3. \A v, w \in Workers :
        v # w => Ids(HeldIn(worker'[v])) \cap Ids(HeldIn(worker'[w])) = {}
  <2>1. \A v, w \in Workers :
          v # w => Ids(HeldIn(worker[v])) \cap Ids(HeldIn(worker[w])) = {}
    BY DEF HoldInv, Apart
  <2> QED BY <2>1
<1>4. \A t, u \in JobTypes : \A i \in DOMAIN queue[t], k \in DOMAIN queue[u] :
        t # u \/ i # k => Ids(queue[t][i]) \cap Ids(queue[u][k]) = {}
  BY DEF HoldInv, Apart
<1> QED BY <1>1, <1>2, <1>3, <1>4 DEF Apart

\* A step that leaves the memory and the rows of all claims alone.
LEMMA AllKept ==
  ASSUME HoldInv, TypeInv', UNCHANGED memory, \A j : Held(j) => jobs'[j] = jobs[j]
  PROVE  HoldInv'
<1>1. UNCHANGED <<turn, claimed, queue, worker>>
  BY DEF memory
<1>2. ClaimedInv'
  BY <1>1, ClaimedKept, HeldIds
<1>3. QueueInv'
  BY <1>1, QueueKept, HeldIds
<1>4. WorkerInv'
  BY <1>1, WorkerKept, HeldIds DEF WorkerInv
<1>5. Apart'
  BY <1>1, ApartKept
<1> QED BY <1>2, <1>3, <1>4, <1>5 DEF HoldInv

\* The step of a worker that takes no claim from anywhere.
HandsOnly(w) ==
    /\ UNCHANGED <<claimed, queue>> /\ \A v \in Workers \ {w} : worker'[v] = worker[v]
    /\ HeldIn(worker'[w]) \subseteq HeldIn(worker[w])

\* A step of one worker that takes no claim from anywhere and writes only rows it
\* holds.
LEMMA WorkerOn ==
  ASSUME HoldInv, TypeInv', NEW w \in Workers, NEW r,
         worker' = [worker EXCEPT ![w] = r], UNCHANGED <<claimed, queue>>,
         HeldIn(r) \subseteq HeldIn(worker[w]), DistinctIn(r), Consistent(jobs', r),
         \A j \in JobIds : j \notin Ids(HeldIn(worker[w])) => jobs'[j] = jobs[j]
  PROVE  HoldInv' /\ HandsOnly(w)
<1>1. worker \in [Workers -> Work]
  BY DEF HoldInv, TypeInv, TypeOK, EngineTypeOK
<1>2. worker'[w] = r /\ \A v \in Workers \ {w} : worker'[v] = worker[v]
  BY <1>1
<1>3. ClaimedInv'
  <2>1. \A j \in Ids(claimed) : jobs'[j] = jobs[j]
    BY HeldIds, HeldRows DEF HoldInv, Apart
  <2> QED BY <2>1, ClaimedKept
<1>4. QueueInv'
  <2>1. \A t \in JobTypes : \A i \in DOMAIN queue[t] :
          \A j \in Ids(queue[t][i]) : jobs'[j] = jobs[j]
    BY HeldIds, HeldRows DEF HoldInv, Apart
  <2> QED BY <2>1, QueueKept
<1>5. WorkerInv'
  <2>1. ASSUME NEW v \in Workers, v # w
        PROVE  DistinctIn(worker[v]) /\ Consistent(jobs', worker[v])
    <3>1. \A j \in Ids(HeldIn(worker[v])) : jobs'[j] = jobs[j]
      BY <2>1, HeldInRows DEF HoldInv, Apart
    <3> QED BY <3>1, WorkerKept
  <2> QED BY <1>2, <2>1 DEF WorkerInv
<1>6. Apart'
  <2>1. Ids(HeldIn(r)) \subseteq Ids(HeldIn(worker[w]))
    BY DEF Ids
  <2>2. \A v \in Workers : Ids(HeldIn(worker'[v])) \subseteq Ids(HeldIn(worker[v]))
    BY <1>2, <2>1
  <2> QED BY <2>2, ApartKept
<1>7. HandsOnly(w)
  BY <1>2 DEF HandsOnly
<1> QED BY <1>3, <1>4, <1>5, <1>6, <1>7 DEF HoldInv

-----------------------------------------------------------------------------
(* The steps.                                                              *)

LEMMA HoldInit == TypeInv /\ Init => HoldInv
<1> SUFFICES ASSUME TypeInv, Init PROVE HoldInv
  OBVIOUS
<1>1. /\ claimed = {}
      /\ \A t \in JobTypes : queue[t] = <<>>
      /\ \A w \in Workers : worker[w] = NoWork
  BY DEF Init, NoMemory
<1>2. DOMAIN <<>> = {}
  OBVIOUS
<1>3. HeldIn(NoWork) = {} /\ DistinctIn(NoWork) /\ Consistent(jobs, NoWork)
  BY <1>2 DEF HeldIn, Left, NoWork, ProductsOf, DistinctIn, Distinct, Consistent
<1>4. ClaimedInv /\ QueueInv
  BY <1>1, <1>2 DEF ClaimedInv, QueueInv, Distinct, Ids
<1>5. WorkerInv
  BY <1>1, <1>3 DEF WorkerInv
<1>6. Apart
  BY <1>1, <1>2, <1>3 DEF Apart, Ids
<1> QED BY <1>4, <1>5, <1>6 DEF HoldInv

\* Only rows that are due are claimed, so nobody holds them.
LEMMA ClaimJobsHold == ASSUME HoldInv, TypeInv', ClaimJobs PROVE HoldInv'
<1>1. PICK S \in SUBSET Claimable(jobs, turn) :
         /\ jobs' = ClaimPendingJobs(jobs, S)
         /\ claimed' = Snapshot(S) \/ claimed' = {}
  BY DEF ClaimJobs
<1>2. claimed = {} /\ UNCHANGED <<queue, worker>>
  BY DEF ClaimJobs
<1>3. /\ \A j \in S : Claimed(jobs', j)
      /\ \A j \in JobIds \ S : jobs'[j] = jobs[j]
  BY <1>1, ClaimWrites, TypeInvGood DEF HoldInv, Claimed
<1>4. \A j \in S : ~Held(j)
  BY HeldRows DEF Claimable
<1>5. \A j : Held(j) => jobs'[j] = jobs[j]
  BY <1>3, <1>4, HeldRows
<1>6. Ids(claimed') \subseteq S /\ Distinct(claimed')
  BY <1>1 DEF Snapshot, Ids, Distinct
<1>7. ClaimedInv'
  BY <1>3, <1>6 DEF ClaimedInv
<1>8. QueueInv'
  BY <1>2, <1>5, QueueKept, HeldIds
<1>9. WorkerInv'
  BY <1>2, <1>5, WorkerKept, HeldIds DEF WorkerInv
<1>10. Apart'
  <2>1. \A t \in JobTypes : \A i \in DOMAIN queue[t] :
          Ids(claimed') \cap Ids(queue[t][i]) = {}
    BY <1>4, <1>6, HeldIds
  <2>2. \A w \in Workers : Ids(claimed') \cap Ids(HeldIn(worker[w])) = {}
    BY <1>4, <1>6, HeldIds
  <2>3. /\ \A t, u \in JobTypes : \A i \in DOMAIN queue[t], k \in DOMAIN queue[u] :
             t # u \/ i # k => Ids(queue[t][i]) \cap Ids(queue[u][k]) = {}
        /\ \A t \in JobTypes : \A i \in DOMAIN queue[t] : \A w \in Workers :
             Ids(queue[t][i]) \cap Ids(HeldIn(worker[w])) = {}
        /\ \A v, w \in Workers :
             v # w => Ids(HeldIn(worker[v])) \cap Ids(HeldIn(worker[w])) = {}
    BY DEF HoldInv, Apart
  <2>4. queue' = queue /\ worker' = worker
    BY <1>2
  <2> QED BY <2>1, <2>2, <2>3, <2>4 DEF Apart
<1> QED BY <1>7, <1>8, <1>9, <1>10 DEF HoldInv

LEMMA SubmitBatchHold == ASSUME HoldInv, TypeInv', SubmitBatch PROVE HoldInv'
<1> DEFINE type == Other(turn)
<1>1. PICK batch \in SUBSET claimed :
         /\ claimed' = claimed \ batch
         /\ \/ queue' = [queue EXCEPT ![type] = Append(@, batch)]
            \/ queue' = queue
  BY DEF SubmitBatch
<1>2. UNCHANGED <<jobs, worker>>
  BY DEF SubmitBatch
<1>3. ClaimedInv' /\ WorkerInv'
  BY <1>1, <1>2, ClaimedKept, WorkerKept DEF WorkerInv
<1>4. Ids(claimed') \subseteq Ids(claimed) /\ Ids(batch) \subseteq Ids(claimed)
      /\ Ids(claimed') \cap Ids(batch) = {}
  BY <1>1 DEF HoldInv, ClaimedInv, Distinct, Ids
<1>5. CASE queue' = queue
  <2>1. QueueInv'
    BY <1>2, <1>5, QueueKept
  <2>2. Apart'
    BY <1>2, <1>4, <1>5, ApartKept
  <2> QED BY <1>3, <2>1, <2>2 DEF HoldInv
<1>6. CASE queue' = [queue EXCEPT ![type] = Append(@, batch)]
  <2>1. queue \in [JobTypes -> Seq(SUBSET Claim)] /\ type \in JobTypes
        /\ batch \in SUBSET Claim
    BY DEF HoldInv, TypeInv, TypeOK, EngineTypeOK, Other, JobTypes
  <2> DEFINE n == Len(queue[type]) + 1
  <2>2. /\ queue[type] \in Seq(SUBSET Claim)
        /\ queue'[type] = Append(queue[type], batch)
        /\ \A t \in JobTypes : t # type => queue'[t] = queue[t]
    BY <1>6, <2>1
  <2>3. /\ n \in DOMAIN queue'[type] /\ queue'[type][n] = batch
        /\ \A i \in DOMAIN queue'[type] :
             i # n => i \in DOMAIN queue[type] /\ queue'[type][i] = queue[type][i]
    BY <2>1, <2>2
  <2> HIDE DEF n, type
  \* Every batch but the new one was in the queue before, at the same place.
  <2>4. \A t \in JobTypes : \A i \in DOMAIN queue'[t] :
          \/ t = type /\ i = n /\ queue'[t][i] = batch
          \/ i \in DOMAIN queue[t] /\ queue'[t][i] = queue[t][i]
    BY <2>2, <2>3
  <2>5. QueueInv'
    <3>1. Distinct(batch) /\ \A j \in Ids(batch) : Claimed(jobs', j)
      BY <1>2, <1>4 DEF HoldInv, ClaimedInv, Distinct
    <3> QED BY <1>2, <2>4, <3>1 DEF HoldInv, QueueInv
  <2>6. Apart'
    <3>1. ASSUME NEW t \in JobTypes, NEW i \in DOMAIN queue'[t]
          PROVE  /\ Ids(claimed') \cap Ids(queue'[t][i]) = {}
                 /\ \A w \in Workers : Ids(queue'[t][i]) \cap Ids(HeldIn(worker'[w])) = {}
      BY <1>2, <1>4, <2>4 DEF HoldInv, Apart
    <3>2. \A w \in Workers : Ids(claimed') \cap Ids(HeldIn(worker'[w])) = {}
      BY <1>2, <1>4 DEF HoldInv, Apart
    <3>3. ASSUME NEW t \in JobTypes, NEW u \in JobTypes,
                 NEW i \in DOMAIN queue'[t], NEW k \in DOMAIN queue'[u],
                 t # u \/ i # k
          PROVE  Ids(queue'[t][i]) \cap Ids(queue'[u][k]) = {}
      <4>1. ASSUME NEW s \in JobTypes, NEW m \in DOMAIN queue[s]
            PROVE  Ids(batch) \cap Ids(queue[s][m]) = {}
        BY <1>4 DEF HoldInv, Apart
      <4>2. CASE t = type /\ i = n /\ queue'[t][i] = batch
        BY <2>4, <3>3, <4>1, <4>2
      <4>3. CASE u = type /\ k = n /\ queue'[u][k] = batch
        BY <2>4, <3>3, <4>1, <4>3
      <4>4. CASE /\ i \in DOMAIN queue[t] /\ queue'[t][i] = queue[t][i]
                 /\ k \in DOMAIN queue[u] /\ queue'[u][k] = queue[u][k]
        BY <3>3, <4>4 DEF HoldInv, Apart
      <4> QED BY <2>4, <4>2, <4>3, <4>4
    <3> QED BY <1>2, <3>1, <3>2, <3>3 DEF HoldInv, Apart
  <2> QED BY <1>3, <2>5, <2>6 DEF HoldInv
<1> QED BY <1>1, <1>5, <1>6

LEMMA TakeTaskHold == ASSUME HoldInv, TypeInv', NEW w \in Workers, TakeTask(w) PROVE HoldInv'
<1> DEFINE type == TypeOf(w)
           batch == Head(queue[type])
           r == Loading(batch, <<>>)
<1>1. queue \in [JobTypes -> Seq(SUBSET Claim)] /\ type \in JobTypes
      /\ worker \in [Workers -> Work]
  BY DEF HoldInv, TypeInv, TypeOK, EngineTypeOK, TypeOf, JobTypes
<1>2. /\ queue[type] \in Seq(SUBSET Claim) /\ queue[type] # <<>>
      /\ worker' = [worker EXCEPT ![w] = r]
      /\ queue' = [queue EXCEPT ![type] = Tail(@)]
      /\ UNCHANGED <<jobs, claimed>>
  BY <1>1 DEF TakeTask
<1>3. /\ 1 \in DOMAIN queue[type] /\ batch = queue[type][1]
      /\ \A i \in DOMAIN Tail(queue[type]) :
           /\ i + 1 \in DOMAIN queue[type] /\ i + 1 # 1 /\ i \in Int
           /\ Tail(queue[type])[i] = queue[type][i + 1]
  BY <1>2
<1> HIDE DEF type, batch
<1>4. DOMAIN <<>> = {}
  OBVIOUS
<1>5. /\ HeldIn(r) \subseteq batch
      /\ DistinctIn(r) /\ Consistent(jobs', r)
  <2>1. Distinct(batch) /\ \A j \in Ids(batch) : Claimed(jobs, j)
    BY <1>1, <1>3 DEF HoldInv, QueueInv
  <2>2. r.todo \subseteq batch /\ r.items = <<>> /\ r.pc \notin {"abort", "mark"}
    BY DEF Loading, NoWork
  <2> HIDE DEF r
  <2>3. Left(r) = {}
    BY <1>4, <2>2 DEF Left, ProductsOf
  <2>4. HeldIn(r) \subseteq batch
    BY <2>2, <2>3 DEF HeldIn
  <2>5. DistinctIn(r)
    BY <1>4, <2>1, <2>2 DEF DistinctIn, Distinct
  <2>6. Consistent(jobs', r)
    BY <1>2, <2>1, <2>2, <2>3 DEF Consistent, Ids
  <2> QED BY <2>4, <2>5, <2>6
<1> HIDE DEF r
<1>6. worker'[w] = r /\ \A v \in Workers \ {w} : worker'[v] = worker[v]
  BY <1>1, <1>2
<1>7. /\ queue'[type] = Tail(queue[type])
      /\ \A t \in JobTypes : t # type => queue'[t] = queue[t]
  BY <1>1, <1>2
<1> DEFINE was(t, i) == IF t = type THEN i + 1 ELSE i
\* Every batch left was in the queue before, and is not the one taken.
<1>8. ASSUME NEW t \in JobTypes, NEW i \in DOMAIN queue'[t]
      PROVE  /\ was(t, i) \in DOMAIN queue[t]
             /\ queue'[t][i] = queue[t][was(t, i)]
             /\ Ids(batch) \cap Ids(queue'[t][i]) = {}
  <2>1. CASE t = type
    <3>1. i \in DOMAIN Tail(queue[type]) /\ queue'[t] = Tail(queue[type])
      BY <1>7, <1>8, <2>1
    <3>2. /\ i + 1 \in DOMAIN queue[t] /\ queue'[t][i] = queue[t][i + 1] /\ i + 1 # 1
      BY <1>3, <2>1, <3>1
    <3>3. Ids(batch) \cap Ids(queue[t][i + 1]) = {}
      BY <1>1, <1>3, <2>1, <3>2 DEF HoldInv, Apart
    <3>4. was(t, i) = i + 1
      BY <2>1
    <3> QED BY <3>2, <3>3, <3>4
  <2>2. CASE t # type
    <3>1. i \in DOMAIN queue[t] /\ queue'[t][i] = queue[t][i]
      BY <1>7, <1>8, <2>2
    <3>2. Ids(batch) \cap Ids(queue[t][i]) = {}
      BY <1>1, <1>3, <2>2, <3>1 DEF HoldInv, Apart
    <3>3. was(t, i) = i
      BY <2>2
    <3> QED BY <3>1, <3>2, <3>3
  <2> QED BY <2>1, <2>2
<1>9. ASSUME NEW t \in JobTypes, NEW i \in DOMAIN queue'[t], NEW k \in DOMAIN queue'[t],
             was(t, i) = was(t, k)
      PROVE  i = k
  <2>1. CASE t = type
    <3>1. i \in Int /\ k \in Int
      BY <1>3, <1>7, <2>1
    <3> QED BY <1>9, <2>1, <3>1
  <2>2. CASE t # type
    BY <1>9, <2>2
  <2> QED BY <2>1, <2>2
<1> HIDE DEF was
<1>10. ClaimedInv'
  BY <1>2, ClaimedKept
<1>11. QueueInv'
  BY <1>2, <1>8 DEF HoldInv, QueueInv
<1>12. WorkerInv'
  BY <1>2, <1>5, <1>6, WorkerKept DEF WorkerInv
<1>13. Apart'
  <2>1. Ids(HeldIn(r)) \subseteq Ids(batch)
    BY <1>5 DEF Ids
  <2>2. /\ Ids(claimed) \cap Ids(batch) = {}
        /\ \A v \in Workers : Ids(batch) \cap Ids(HeldIn(worker[v])) = {}
    BY <1>1, <1>3 DEF HoldInv, Apart
  <2>3. ASSUME NEW t \in JobTypes, NEW i \in DOMAIN queue'[t]
        PROVE  /\ Ids(claimed') \cap Ids(queue'[t][i]) = {}
               /\ \A v \in Workers : Ids(queue'[t][i]) \cap Ids(HeldIn(worker'[v])) = {}
    <3>1. Ids(claimed) \cap Ids(queue'[t][i]) = {}
      BY <1>8 DEF HoldInv, Apart
    <3>2. ASSUME NEW v \in Workers, v # w
          PROVE  Ids(queue'[t][i]) \cap Ids(HeldIn(worker'[v])) = {}
      BY <1>6, <1>8, <3>2 DEF HoldInv, Apart
    <3>3. Ids(queue'[t][i]) \cap Ids(HeldIn(worker'[w])) = {}
      BY <1>6, <1>8, <2>1
    <3> QED BY <1>2, <3>1, <3>2, <3>3
  <2>4. ASSUME NEW t \in JobTypes, NEW u \in JobTypes,
               NEW i \in DOMAIN queue'[t], NEW k \in DOMAIN queue'[u],
               t # u \/ i # k
        PROVE  Ids(queue'[t][i]) \cap Ids(queue'[u][k]) = {}
    <3>1. t # u \/ was(t, i) # was(u, k)
      BY <1>9, <2>4
    <3> QED BY <1>8, <3>1 DEF HoldInv, Apart
  <2>5. \A v \in Workers : Ids(claimed') \cap Ids(HeldIn(worker'[v])) = {}
    BY <1>2, <1>6, <2>1, <2>2 DEF HoldInv, Apart
  <2>6. \A u, v \in Workers :
          u # v => Ids(HeldIn(worker'[u])) \cap Ids(HeldIn(worker'[v])) = {}
    BY <1>6, <2>1, <2>2 DEF HoldInv, Apart
  <2> QED BY <2>3, <2>4, <2>5, <2>6 DEF Apart
<1> QED BY <1>10, <1>11, <1>12, <1>13 DEF HoldInv

\* Two products of a batch are answered for by two jobs.
LEMMA OwnersDiffer ==
  ASSUME TypeInv, NEW w \in Workers, DistinctIn(worker[w]),
         NEW p \in ProductsOf(worker[w].items), NEW q \in ProductsOf(worker[w].items), p # q
  PROVE  Owner(worker[w].items, p).id # Owner(worker[w].items, q).id
<1> DEFINE items == worker[w].items
<1>1. items \in Seq(Item)
  BY InHand
<1>2. /\ \E i \in DOMAIN items : items[i].product = p /\ Owner(items, p) = items[i].claim
      /\ \E i \in DOMAIN items : items[i].product = q /\ Owner(items, q) = items[i].claim
  BY <1>1, OwnerType
<1> QED BY <1>2 DEF DistinctIn

\* A write to a row held by one worker leaves the rows held by the others.
LEMMA WritesHeld ==
  ASSUME HoldInv, NEW w \in Workers, NEW c \in HeldIn(worker[w]),
         NEW tab, NEW state, Writes(tab, c.id, state), jobs' = tab \/ jobs' = jobs
  PROVE  /\ \A j \in JobIds : j \notin Ids(HeldIn(worker[w])) => jobs'[j] = jobs[j]
         /\ \A j \in JobIds \ {c.id} : jobs'[j] = jobs[j]
         /\ \/ jobs'[c.id] = jobs[c.id]
            \/ jobs'[c.id].state = state /\ ~jobs'[c.id].due
  BY DEF Writes, Ids

LEMMA LoadProductHold ==
  ASSUME HoldInv, TypeInv', NEW w \in Workers, LoadProduct(w)
  PROVE  HoldInv' /\ HandsOnly(w)
<1> DEFINE items == worker[w].items
<1>1. PICK c \in worker[w].todo :
         worker' = [worker EXCEPT ![w] =
             Loading(@.todo \ {c},
                     Append(@.items, [claim |-> c, product |-> jobs[c.id].product,
                                      version |-> products[jobs[c.id].product].fp]))]
  BY DEF LoadProduct
<1> DEFINE item == [claim |-> c, product |-> jobs[c.id].product,
                    version |-> products[jobs[c.id].product].fp]
           more == Append(items, item)
           todo == worker[w].todo \ {c}
           r == Loading(todo, more)
<1>2. worker' = [worker EXCEPT ![w] = r]
  <2>1. worker \in [Workers -> Work]
    BY DEF HoldInv, TypeInv, TypeOK, EngineTypeOK
  <2> QED BY <1>1, <2>1
<1>3. worker[w].pc = "load" /\ UNCHANGED <<jobs, claimed, queue>>
  BY DEF LoadProduct
<1>4. c \in Claim /\ Exists(c.id) /\ items \in Seq(Item)
  BY InHand DEF HoldInv, TypeInv, AllPresent, WorkersPresent, Present
<1>5. item \in Item /\ item.claim = c
  <2>1. jobs[c.id].product \in Products
    BY <1>4 DEF HoldInv, TypeInv, Named, Exists, Claim
  <2>2. products[jobs[c.id].product] \in ProductRow
    BY <2>1 DEF HoldInv, TypeInv, TypeOK, TablesTypeOK
  <2> QED BY <1>4, <2>1, <2>2 DEF Item, ProductRow
<1>6. DistinctIn(worker[w]) /\ Consistent(jobs, worker[w])
  BY DEF HoldInv, WorkerInv
<1>7. Left(worker[w]) = ProductsOf(items)
  BY <1>3 DEF Left
<1> HIDE DEF item, items
<1>8. /\ ProductsOf(more) = ProductsOf(items) \cup {item.product}
      /\ Owner(more, item.product) = c
      /\ \A p \in ProductsOf(items) \ {item.product} : Owner(more, p) = Owner(items, p)
  BY <1>4, <1>5, OwnerAppend
<1>9. /\ DOMAIN items = 1..Len(items) /\ DOMAIN more = 1..(Len(items) + 1)
      /\ Len(items) \in Nat
      /\ more[Len(items) + 1] = item
      /\ \A i \in DOMAIN items : more[i] = items[i]
      /\ more # <<>>
  BY <1>4, <1>5
<1> HIDE DEF more
<1>10. r.todo = todo /\ r.items = more /\ r.pc \in {"load", "call"}
  BY <1>9 DEF Loading
<1> HIDE DEF r
<1>11. Left(r) = ProductsOf(more)
  BY <1>10 DEF Left
<1>12. \A p \in Left(r) :
          \/ Owner(r.items, p) = c
          \/ p \in Left(worker[w]) /\ Owner(r.items, p) = Owner(items, p)
  BY <1>7, <1>8, <1>10, <1>11
<1>13. HeldIn(r) \subseteq HeldIn(worker[w])
  BY <1>10, <1>12 DEF HeldIn, items
<1>14. DistinctIn(r)
  <2>1. Distinct(r.todo)
    BY <1>6, <1>10 DEF DistinctIn, Distinct
  <2>2. \A i \in DOMAIN items : c.id # items[i].claim.id
    BY <1>6 DEF DistinctIn, items
  <2>3. \A i \in DOMAIN more : (i \in DOMAIN items /\ more[i] = items[i])
                               \/ (i = Len(items) + 1 /\ more[i] = item)
    BY <1>9
  <2>4. \A i, k \in DOMAIN more : more[i].claim.id = more[k].claim.id => i = k
    BY <1>5, <1>6, <2>2, <2>3 DEF DistinctIn, items
  <2>5. \A d \in todo : \A i \in DOMAIN more : d.id # more[i].claim.id
    BY <1>5, <1>6, <2>3 DEF DistinctIn, Distinct, items
  <2> QED BY <1>10, <2>1, <2>4, <2>5 DEF DistinctIn
<1>15. Consistent(jobs', r)
  <2>1. \A d \in worker[w].todo : Claimed(jobs, d.id)
    BY <1>6 DEF Consistent
  <2>2. \A p \in Left(worker[w]) : Claimed(jobs, Owner(items, p).id)
    BY <1>3, <1>6 DEF Consistent, items
  <2> QED BY <1>3, <1>10, <1>12, <2>1, <2>2 DEF Consistent
<1> QED BY <1>2, <1>3, <1>13, <1>14, <1>15, WorkerOn

LEMMA LoadFailsHold ==
  ASSUME HoldInv, TypeInv', NEW w \in Workers, LoadFails(w)
  PROVE  HoldInv' /\ HandsOnly(w)
<1> DEFINE items == worker[w].items
<1>1. PICK c \in worker[w].todo :
         /\ jobs' \in {jobs, Failure(c)}
         /\ worker' = [worker EXCEPT ![w] = Loading(@.todo \ {c}, @.items)]
  BY DEF LoadFails
<1> DEFINE todo == worker[w].todo \ {c}
           r == Loading(todo, items)
<1>2. worker' = [worker EXCEPT ![w] = r]
  <2>1. worker \in [Workers -> Work]
    BY DEF HoldInv, TypeInv, TypeOK, EngineTypeOK
  <2> QED BY <1>1, <2>1
<1>3. worker[w].pc = "load" /\ UNCHANGED <<claimed, queue>>
  BY DEF LoadFails
<1>4. c \in Claim /\ Exists(c.id) /\ c \in HeldIn(worker[w])
      /\ worker[w].todo \subseteq Claim
  BY InHand DEF HoldInv, TypeInv, AllPresent, WorkersPresent, Present, HeldIn
<1>5. Writes(Failure(c), c.id, Verdict(c))
  BY <1>4, FailureWrites, TypeInvGood DEF HoldInv
<1>6. /\ \A j \in JobIds : j \notin Ids(HeldIn(worker[w])) => jobs'[j] = jobs[j]
      /\ \A j \in JobIds \ {c.id} : jobs'[j] = jobs[j]
  BY <1>1, <1>4, <1>5, WritesHeld
<1>7. DistinctIn(worker[w]) /\ Consistent(jobs, worker[w])
  BY DEF HoldInv, WorkerInv
<1>8. Left(worker[w]) = ProductsOf(items)
  BY <1>3 DEF Left
<1>9. /\ r.todo \subseteq todo /\ r.pc \in {"load", "call", "idle"}
      /\ r.items = items \/ r.items = <<>>
  BY DEF Loading, NoWork
<1>10. DOMAIN <<>> = {}
  OBVIOUS
<1> HIDE DEF r
<1>11. Left(r) \subseteq Left(worker[w]) /\ (r.items = items \/ Left(r) = {})
  BY <1>8, <1>9, <1>10 DEF Left, ProductsOf
<1>12. HeldIn(r) \subseteq HeldIn(worker[w])
  BY <1>9, <1>11 DEF HeldIn
<1>13. DistinctIn(r)
  BY <1>7, <1>9, <1>10 DEF DistinctIn, Distinct
<1>14. Consistent(jobs', r)
  <2>1. \A d \in todo : Claimed(jobs', d.id)
    BY <1>4, <1>6, <1>7 DEF Consistent, Claimed, DistinctIn, Distinct, Claim
  <2>2. \A p \in ProductsOf(items) : Owner(items, p) \in Claim /\ Owner(items, p).id # c.id
    <3>1. ASSUME NEW p \in ProductsOf(items)
          PROVE  \E i \in DOMAIN items : Owner(items, p) = items[i].claim
      BY InHand, OwnerType DEF HoldInv
    <3> QED BY <1>7, <3>1, InHand DEF HoldInv, DistinctIn
  <2>3. \A p \in Left(worker[w]) : Claimed(jobs', Owner(items, p).id)
    BY <1>3, <1>6, <1>7, <1>8, <2>2 DEF Consistent, Claimed, Claim
  <2> QED BY <1>9, <1>11, <2>1, <2>3 DEF Consistent
<1> QED BY <1>2, <1>3, <1>6, <1>12, <1>13, <1>14, WorkerOn

\* The call is answered: the loop over the results starts from what was loaded.
LEMMA CallWooHold ==
  ASSUME HoldInv, TypeInv', NEW w \in Workers, CallWoo(w)
  PROVE  HoldInv' /\ HandsOnly(w)
<1> DEFINE items == worker[w].items
<1>1. PICK answer \in Answers(TypeOf(w), items) :
         worker' = [worker EXCEPT ![w] =
                      Results(items, Unsuccessful(TypeOf(w), items, answer))]
  BY DEF CallWoo
<1> DEFINE failed == Unsuccessful(TypeOf(w), items, answer)
           r == Results(items, failed)
<1> HIDE DEF failed
<1>2. worker[w].pc = "call" /\ UNCHANGED <<jobs, claimed, queue>>
  BY DEF CallWoo
<1>3. DistinctIn(worker[w]) /\ Consistent(jobs, worker[w])
  BY DEF HoldInv, WorkerInv
<1>4. Left(worker[w]) = ProductsOf(items)
  BY <1>2 DEF Left
<1>5. /\ r.todo = {} /\ r.pc \in {"idle", "record"}
      /\ r.items = items \/ r.items = <<>>
  BY DEF Results, NoWork
<1>6. DOMAIN <<>> = {}
  OBVIOUS
<1> HIDE DEF r
<1>7. Left(r) \subseteq Left(worker[w]) /\ (r.items = items \/ Left(r) = {})
  BY <1>4, <1>5, <1>6 DEF Left, ProductsOf
<1>8. HeldIn(r) \subseteq HeldIn(worker[w])
  BY <1>5, <1>7 DEF HeldIn
<1>9. DistinctIn(r)
  BY <1>3, <1>5, <1>6 DEF DistinctIn, Distinct
<1>10. Consistent(jobs', r)
  BY <1>2, <1>3, <1>5, <1>7 DEF Consistent
<1>11. worker' = [worker EXCEPT ![w] = r] /\ \A j \in JobIds : jobs'[j] = jobs[j]
  BY <1>1, <1>2 DEF failed, r
<1> QED BY <1>2, <1>8, <1>9, <1>10, <1>11, WorkerOn

\* The failure loop, with the jobs of these products left.
LEMMA AbortingHold ==
  ASSUME HoldInv, NEW w \in Workers, worker[w].pc \in {"call", "abort"},
         NEW left \in SUBSET Left(worker[w]), NEW tab,
         \A p \in left : tab[Owner(worker[w].items, p).id] = jobs[Owner(worker[w].items, p).id]
  PROVE  LET r == Aborting(worker[w].items, left) IN
         HeldIn(r) \subseteq HeldIn(worker[w]) /\ DistinctIn(r) /\ Consistent(tab, r)
<1> DEFINE items == worker[w].items
           r == Aborting(items, left)
<1>1. DistinctIn(worker[w]) /\ Consistent(jobs, worker[w])
  BY DEF HoldInv, WorkerInv
<1>2. DOMAIN <<>> = {}
  OBVIOUS
<1>3. /\ r.todo = {} /\ r.pc \in {"idle", "abort"}
      /\ r.items = items \/ r.items = <<>>
      /\ r.pc = "abort" => r.failed = left /\ r.items = items
      /\ r.pc = "idle" => r.items = <<>>
  BY DEF Aborting, NoWork
<1> HIDE DEF r
<1>4. Left(r) \subseteq left /\ (r.items = items \/ Left(r) = {})
  BY <1>2, <1>3 DEF Left, ProductsOf
<1>5. HeldIn(r) \subseteq HeldIn(worker[w])
  BY <1>3, <1>4 DEF HeldIn
<1>6. DistinctIn(r)
  BY <1>1, <1>2, <1>3 DEF DistinctIn, Distinct
<1>7. \A p \in Left(worker[w]) : Claimed(jobs, Owner(items, p).id)
  BY <1>1 DEF Consistent
<1>8. Consistent(tab, r)
  BY <1>3, <1>4, <1>7 DEF Consistent, Claimed
<1> QED BY <1>5, <1>6, <1>8 DEF r

LEMMA CallFailsHold ==
  ASSUME HoldInv, TypeInv', NEW w \in Workers, CallFails(w)
  PROVE  HoldInv' /\ HandsOnly(w)
<1> DEFINE items == worker[w].items
           r == Aborting(items, ProductsOf(items))
<1>1. /\ worker[w].pc = "call" /\ UNCHANGED <<jobs, claimed, queue>>
      /\ worker' = [worker EXCEPT ![w] = r]
  BY DEF CallFails
<1>2. ProductsOf(items) \in SUBSET Left(worker[w])
  BY <1>1 DEF Left
<1>3. HeldIn(r) \subseteq HeldIn(worker[w]) /\ DistinctIn(r) /\ Consistent(jobs', r)
  BY <1>1, <1>2, AbortingHold
<1>4. \A j \in JobIds : jobs'[j] = jobs[j]
  BY <1>1
<1> HIDE DEF r
<1> QED BY <1>1, <1>3, <1>4, WorkerOn

LEMMA AbortJobHold ==
  ASSUME HoldInv, TypeInv', NEW w \in Workers, AbortJob(w)
  PROVE  HoldInv' /\ HandsOnly(w)
<1> DEFINE items == worker[w].items
<1>1. PICK p \in worker[w].failed :
         /\ HandleJobFailure(Owner(items, p))
         /\ worker' = [worker EXCEPT ![w] = Aborting(items, @.failed \ {p})]
  BY DEF AbortJob
<1> DEFINE left == worker[w].failed \ {p}
           r == Aborting(items, left)
           c == Owner(items, p)
<1>2. worker[w].pc = "abort" /\ UNCHANGED <<claimed, queue>>
  BY DEF AbortJob
<1>3. worker' = [worker EXCEPT ![w] = r]
  <2>1. worker \in [Workers -> Work]
    BY DEF HoldInv, TypeInv, TypeOK, EngineTypeOK
  <2> QED BY <1>1, <2>1
<1>4. Left(worker[w]) = worker[w].failed /\ worker[w].failed \subseteq ProductsOf(items)
  BY <1>2 DEF Left, HoldInv, TypeInv, AllPresent, WorkersPresent, Sound
<1>5. c \in Claim /\ Exists(c.id) /\ c \in HeldIn(worker[w])
  BY <1>4, InHand DEF HoldInv, HeldIn
<1>6. Writes(Failure(c), c.id, Verdict(c))
  BY <1>5, FailureWrites, TypeInvGood DEF HoldInv
<1>7. jobs' = Failure(c) \/ jobs' = jobs
  BY <1>1 DEF HandleJobFailure, Write
<1>8. /\ \A j \in JobIds : j \notin Ids(HeldIn(worker[w])) => jobs'[j] = jobs[j]
      /\ \A j \in JobIds \ {c.id} : jobs'[j] = jobs[j]
  BY <1>5, <1>6, <1>7, WritesHeld
<1>9. \A q \in left : Owner(items, q).id \in JobIds /\ Owner(items, q).id # c.id
  <2>1. ASSUME NEW q \in left PROVE Owner(items, q).id # c.id
    BY <1>4, OwnersDiffer DEF HoldInv, WorkerInv
  <2>2. ASSUME NEW q \in left PROVE Owner(items, q).id \in JobIds
    BY <1>4, InHand DEF HoldInv, Claim
  <2> QED BY <2>1, <2>2
<1>10. left \in SUBSET Left(worker[w])
  BY <1>4
<1>11. \A q \in left : jobs'[Owner(items, q).id] = jobs[Owner(items, q).id]
  BY <1>8, <1>9
<1> HIDE DEF left
<1>12. HeldIn(r) \subseteq HeldIn(worker[w]) /\ DistinctIn(r) /\ Consistent(jobs', r)
  BY <1>2, <1>10, <1>11, AbortingHold
<1> HIDE DEF r
<1> QED BY <1>2, <1>3, <1>8, <1>12, WorkerOn

\* The result loop writes the outcome of its next item, or fails to.
LEMMA NextItemHold ==
  ASSUME HoldInv, TypeInv', NEW w \in Workers, worker[w].pc \in {"record", "mark"},
         NextItem(w), UNCHANGED <<claimed, queue>>,
         NEW tab, jobs' = tab \/ jobs' = jobs,
         Writes(tab, Owner(worker[w].items, Current(w)).id, Outcome(worker[w], Current(w)))
  PROVE  HoldInv' /\ HandsOnly(w)
<1> DEFINE items == worker[w].items
           failed == worker[w].failed
           now == Current(w)
           c == Owner(items, now)
           rest == Tail(items)
           r == Results(rest, failed)
<1>1. items \in Seq(Item) /\ items # <<>> /\ now \in ProductsOf(items)
  BY CurrentLoaded, InHand DEF HoldInv, TypeInv, AllPresent, WorkersPresent, Sound
<1>2. worker' = [worker EXCEPT ![w] = r]
  <2>1. worker \in [Workers -> Work]
    BY DEF HoldInv, TypeInv, TypeOK, EngineTypeOK
  <2> QED BY <2>1 DEF NextItem
<1>3. DistinctIn(worker[w]) /\ Consistent(jobs, worker[w])
  BY DEF HoldInv, WorkerInv
<1>4. Left(worker[w]) = ProductsOf(items)
  BY DEF Left
<1>5. c \in Claim /\ Exists(c.id) /\ c \in HeldIn(worker[w])
  BY <1>1, <1>4, InHand DEF HoldInv, HeldIn
<1>6. /\ \A j \in JobIds : j \notin Ids(HeldIn(worker[w])) => jobs'[j] = jobs[j]
      /\ \A j \in JobIds \ {c.id} : jobs'[j] = jobs[j]
      /\ \/ jobs'[c.id] = jobs[c.id]
         \/ jobs'[c.id].state = Outcome(worker[w], now) /\ ~jobs'[c.id].due
  BY <1>5, WritesHeld
<1>7. /\ ProductsOf(rest) \subseteq ProductsOf(items)
      /\ \A p \in ProductsOf(rest) : Owner(rest, p) = Owner(items, p)
  BY <1>1, OwnerTail
<1>8. \A i \in DOMAIN rest :
         i \in Int /\ i + 1 \in DOMAIN items /\ rest[i] = items[i + 1]
  BY <1>1
<1>9. DOMAIN <<>> = {}
  OBVIOUS
<1> HIDE DEF rest, c, now
<1>10. /\ r.todo = {}
       /\ \/ r.pc = "idle" /\ r.items = <<>>
          \/ r.pc = "record" /\ r.items = rest /\ r.failed = failed
  BY DEF Results, NoWork
<1> HIDE DEF r
<1>11. \A p \in Left(r) : /\ r.pc = "record" /\ r.items = rest /\ r.failed = failed
                          /\ p \in ProductsOf(items) /\ Owner(r.items, p) = Owner(items, p)
  BY <1>7, <1>9, <1>10 DEF Left, ProductsOf
<1>12. HeldIn(r) \subseteq HeldIn(worker[w])
  BY <1>4, <1>10, <1>11 DEF HeldIn
<1>13. DistinctIn(r)
  <2>1. \A i, k \in DOMAIN rest : rest[i].claim.id = rest[k].claim.id => i = k
    BY <1>3, <1>8 DEF DistinctIn
  <2> QED BY <1>9, <1>10, <2>1 DEF DistinctIn, Distinct
<1>14. ASSUME NEW p \in Left(r)
       PROVE  LET j == Owner(items, p).id IN
              \/ Claimed(jobs', j)
              \/ jobs'[j].state = Outcome(r, p) /\ ~jobs'[j].due
  <2> DEFINE j == Owner(items, p).id
  <2>1. Outcome(r, p) = Outcome(worker[w], p)
    BY <1>11 DEF Outcome
  <2>2. \/ Claimed(jobs, j)
        \/ jobs[j].state = Outcome(worker[w], p) /\ ~jobs[j].due
    BY <1>3, <1>4, <1>11 DEF Consistent
  <2>3. CASE p = now
    BY <1>6, <2>1, <2>2, <2>3 DEF c, Claimed
  <2>4. CASE p # now
    <3>1. j # c.id
      BY <1>1, <1>3, <1>11, <2>4, OwnersDiffer DEF HoldInv, c
    <3>2. j \in JobIds
      BY <1>11, InHand DEF HoldInv, Claim
    <3> QED BY <1>6, <2>1, <2>2, <3>1, <3>2 DEF Claimed
  <2> QED BY <2>3, <2>4
<1>15. Consistent(jobs', r)
  BY <1>10, <1>11, <1>14 DEF Consistent
<1> QED BY <1>2, <1>6, <1>12, <1>13, <1>15, WorkerOn

LEMMA RecordFailureHold ==
  ASSUME HoldInv, TypeInv', NEW w \in Workers, RecordFailure(w)
  PROVE  HoldInv' /\ HandsOnly(w)
<1> DEFINE c == Owner(worker[w].items, Current(w))
<1>1. /\ worker[w].pc = "record" /\ Current(w) \in worker[w].failed
      /\ NextItem(w) /\ UNCHANGED <<claimed, queue>>
      /\ jobs' = Failure(c) \/ jobs' = jobs
  BY DEF RecordFailure, Refused, HandleJobFailure, Write
<1>2. worker[w].items # <<>>
  BY <1>1 DEF HoldInv, TypeInv, AllPresent, WorkersPresent, Sound
<1>3. c \in Claim /\ Exists(c.id)
  BY <1>2, CurrentLoaded, InHand DEF HoldInv
<1>4. Writes(Failure(c), c.id, Verdict(c))
  BY <1>3, FailureWrites, TypeInvGood DEF HoldInv
<1>5. Outcome(worker[w], Current(w)) = Verdict(c)
  BY <1>1 DEF Outcome
<1> QED BY <1>1, <1>4, <1>5, NextItemHold

LEMMA MarkSuccessHold ==
  ASSUME HoldInv, TypeInv', NEW w \in Workers, MarkSuccess(w)
  PROVE  HoldInv' /\ HandsOnly(w)
<1> DEFINE c == Owner(worker[w].items, Current(w))
           tab == UpdateJobStatus(jobs, c.id, "SUCCESS", c.retries)
<1>1. /\ worker[w].pc \in {"record", "mark"}
      /\ NextItem(w) /\ UNCHANGED <<claimed, queue>>
      /\ jobs' = tab \/ jobs' = jobs
  BY DEF MarkSuccess, Write
<1>2. Current(w) \notin worker[w].failed
  BY DEF MarkSuccess, Refused, HoldInv, WorkerInv, Consistent, Current
<1>3. worker[w].items # <<>>
  BY <1>1 DEF HoldInv, TypeInv, AllPresent, WorkersPresent, Sound
<1>4. c \in Claim /\ Exists(c.id)
  BY <1>3, CurrentLoaded, InHand DEF HoldInv
<1>5. Writes(tab, c.id, "SUCCESS")
  BY <1>4, SuccessWrites, TypeInvGood DEF HoldInv
<1>6. Outcome(worker[w], Current(w)) = "SUCCESS"
  BY <1>2 DEF Outcome
<1> HIDE DEF tab
<1> QED BY <1>1, <1>5, <1>6, NextItemHold

LEMMA StoreWooIdHold ==
  ASSUME HoldInv, TypeInv', NEW w \in Workers, StoreWooId(w)
  PROVE  HoldInv' /\ HandsOnly(w)
<1> DEFINE r == [worker[w] EXCEPT !.pc = "mark"]
<1>1. /\ worker[w].pc = "record" /\ Head(worker[w].items).product \notin worker[w].failed
      /\ UNCHANGED <<jobs, claimed, queue>>
  BY DEF StoreWooId, Refused, Current
<1>2. worker' = [worker EXCEPT ![w] = r] /\ worker[w] \in Work
  <2>1. worker \in [Workers -> Work]
    BY DEF HoldInv, TypeInv, TypeOK, EngineTypeOK
  <2> QED BY <2>1 DEF StoreWooId
<1>3. /\ r.todo = worker[w].todo /\ r.items = worker[w].items
      /\ r.failed = worker[w].failed /\ r.pc = "mark"
  BY <1>2 DEF Work
<1> HIDE DEF r
<1>4. Left(r) = Left(worker[w]) /\ HeldIn(r) = HeldIn(worker[w])
  BY <1>1, <1>3 DEF Left, HeldIn
<1>5. DistinctIn(worker[w]) /\ Consistent(jobs, worker[w])
  BY DEF HoldInv, WorkerInv
<1>6. DistinctIn(r)
  BY <1>3, <1>5 DEF DistinctIn
<1>7. Consistent(jobs', r)
  BY <1>1, <1>3, <1>4, <1>5 DEF Consistent, Outcome
<1>8. \A j \in JobIds : jobs'[j] = jobs[j]
  BY <1>1
<1> QED BY <1>1, <1>2, <1>4, <1>6, <1>7, <1>8, WorkerOn

-----------------------------------------------------------------------------
(* The stale loop, the clock, new jobs and the end of the process.         *)

LEMMA RecoverStaleHold == ASSUME HoldInv, TypeInv', RecoverStale PROVE HoldInv'
<1>1. UNCHANGED memory
  BY DEF RecoverStale, memory
<1>2. \A j \in JobIds \ Stale(jobs) : jobs'[j] = jobs[j]
  BY RecoverWrites, TypeInvGood DEF RecoverStale, HoldInv
<1>3. \A j : Held(j) => j \in JobIds \ Stale(jobs)
  BY HeldRows DEF Stale
<1> QED BY <1>1, <1>2, <1>3, AllKept

\* Here is where the clock has to be prompt.
LEMMA TickHold ==
  ASSUME HoldInv, TypeInv', Prompt, NEW j \in JobIds, Tick(j)
  PROVE  HoldInv'
<1>1. UNCHANGED memory /\ ~Held(j) /\ jobs' = [jobs EXCEPT ![j].due = TRUE]
  BY DEF Tick, Elapse
<1>2. jobs \in [JobIds -> JobRow]
  BY DEF HoldInv, TypeInv, TypeOK, TablesTypeOK
<1>3. \A k : Held(k) => jobs'[k] = jobs[k]
  BY <1>1, <1>2, HeldRows
<1> QED BY <1>1, <1>3, AllKept

LEMMA EnqueueHold ==
  ASSUME HoldInv, TypeInv', NEW p \in Products, EnqueueCreate(p) \/ EnqueueUpdate(p)
  PROVE  HoldInv'
<1>1. UNCHANGED memory
  BY DEF EnqueueCreate, EnqueueUpdate, memory
<1>2. \A j \in JobIds : Exists(j) => jobs'[j] = jobs[j]
  BY CreateWrites, TypeInvGood DEF EnqueueCreate, EnqueueUpdate, HoldInv, JobTypes
<1>3. \A j : Held(j) => jobs'[j] = jobs[j]
  BY <1>2, HeldRows
<1> QED BY <1>1, <1>3, AllKept

LEMMA CrashHold == ASSUME HoldInv, TypeInv', Crash PROVE HoldInv'
<1>1. /\ claimed' = {}
      /\ queue' = [t \in JobTypes |-> <<>>] /\ worker' = [w \in Workers |-> NoWork]
  BY DEF Crash
<1>2. DOMAIN <<>> = {}
  OBVIOUS
<1>3. HeldIn(NoWork) = {} /\ DistinctIn(NoWork) /\ Consistent(jobs', NoWork)
  BY <1>2 DEF HeldIn, Left, NoWork, ProductsOf, DistinctIn, Distinct, Consistent
<1>4. ClaimedInv' /\ QueueInv'
  BY <1>1, <1>2 DEF ClaimedInv, QueueInv, Distinct, Ids
<1>5. WorkerInv'
  BY <1>1, <1>3 DEF WorkerInv
<1>6. Apart'
  BY <1>1, <1>2, <1>3 DEF Apart, Ids
<1> QED BY <1>4, <1>5, <1>6 DEF HoldInv

LEMMA HoldStep == ASSUME Prompt PROVE HoldInv /\ [Next]_vars => HoldInv'
<1> SUFFICES ASSUME HoldInv, [Next]_vars PROVE HoldInv'
  OBVIOUS
<1>1. TypeInv'
  BY TypeStep DEF HoldInv
<1>2. ASSUME NEW w \in Workers, WorkerStep(w) PROVE HoldInv'
  BY <1>1, <1>2, TakeTaskHold, LoadProductHold, LoadFailsHold, CallWooHold, CallFailsHold,
     AbortJobHold, RecordFailureHold, StoreWooIdHold, MarkSuccessHold DEF WorkerStep
<1>3. CASE UNCHANGED vars
  <2>1. UNCHANGED memory /\ jobs' = jobs
    BY <1>3 DEF vars, memory
  <2> QED BY <1>1, <2>1, AllKept
<1> QED
  BY <1>1, <1>2, <1>3, ClaimJobsHold, SubmitBatchHold, RecoverStaleHold, CrashHold,
     TickHold, EnqueueHold DEF Next, EngineNext

LEMMA HoldInvCorrect == ASSUME Prompt PROVE Spec => []HoldInv
<1>1. Init => HoldInv
  BY TypeInit, HoldInit
<1> QED BY <1>1, HoldStep, PTL DEF Spec

\* On a prompt clock two pool goroutines never have the same job to write
\* (ClaimPendingJobs, RecoverStaleJobs, processBatch).
THEOREM HolderIsUnique == ASSUME Prompt PROVE Spec => []OneHolder
<1>1. HoldInv => OneHolder
  BY ClaimsOfHeldIn DEF HoldInv, Apart, OneHolder, Ids
<1> QED BY <1>1, HoldInvCorrect, PTL

-----------------------------------------------------------------------------
(* An ended job stays ended.                                               *)

Ended(j) == IsTerminal(jobs[j].state)
Stays(j) == Ended(j) => jobs'[j].state = jobs[j].state

\* A row that is being processed has not ended, and one whose outcome is already
\* written is given the same outcome again.
LEMMA WriteStays ==
  ASSUME NEW tab, NEW i, NEW state, Writes(tab, i, state), jobs' = tab \/ jobs' = jobs,
         Claimed(jobs, i) \/ jobs[i].state = state
  PROVE  \A j \in JobIds : Stays(j)
  BY DEF Writes, Claimed, Stays, Ended, IsTerminal

LEMMA WorkerStays ==
  ASSUME HoldInv, NEW w \in Workers, WorkerStep(w)
  PROVE  \A j \in JobIds : Stays(j)
<1> DEFINE items == worker[w].items
           now == Owner(items, Current(w))
<1>1. DistinctIn(worker[w]) /\ Consistent(jobs, worker[w])
  BY DEF HoldInv, WorkerInv
<1>2. CASE TakeTask(w) \/ LoadProduct(w) \/ CallWoo(w) \/ CallFails(w) \/ StoreWooId(w)
  BY <1>2 DEF TakeTask, LoadProduct, CallWoo, CallFails, StoreWooId, Stays
<1>3. CASE LoadFails(w)
  <2>1. PICK c \in worker[w].todo : jobs' \in {jobs, Failure(c)}
    BY <1>3 DEF LoadFails
  <2>2. c \in Claim /\ Exists(c.id) /\ Claimed(jobs, c.id)
    BY <1>1, InHand DEF HoldInv, TypeInv, AllPresent, WorkersPresent, Present, Consistent
  <2>3. Writes(Failure(c), c.id, Verdict(c))
    BY <2>2, FailureWrites, TypeInvGood DEF HoldInv
  <2> QED BY <2>1, <2>2, <2>3, WriteStays
<1>4. CASE AbortJob(w)
  <2>1. PICK p \in worker[w].failed : HandleJobFailure(Owner(items, p))
    BY <1>4 DEF AbortJob
  <2>2. worker[w].pc = "abort" /\ p \in ProductsOf(items)
    BY <1>4, <2>1 DEF AbortJob, HoldInv, TypeInv, AllPresent, WorkersPresent, Sound
  <2> DEFINE c == Owner(items, p)
  <2>3. c \in Claim /\ Exists(c.id) /\ Claimed(jobs, c.id)
    <3>1. p \in Left(worker[w])
      BY <2>1, <2>2 DEF Left
    <3> QED BY <1>1, <2>2, <3>1, InHand DEF HoldInv, Consistent
  <2>4. Writes(Failure(c), c.id, Verdict(c))
    BY <2>3, FailureWrites, TypeInvGood DEF HoldInv
  <2>5. jobs' = Failure(c) \/ jobs' = jobs
    BY <2>1 DEF HandleJobFailure, Write
  <2> QED BY <2>3, <2>4, <2>5, WriteStays
<1>5. ASSUME worker[w].pc \in {"record", "mark"}
      PROVE  /\ now \in Claim /\ Exists(now.id)
             /\ \/ Claimed(jobs, now.id)
                \/ jobs[now.id].state = Outcome(worker[w], Current(w))
  <2>1. Current(w) \in ProductsOf(items)
    BY <1>5, CurrentLoaded DEF HoldInv, TypeInv, AllPresent, WorkersPresent, Sound
  <2>2. Left(worker[w]) = ProductsOf(items)
    BY <1>5 DEF Left
  <2> QED BY <1>1, <2>1, <2>2, InHand DEF HoldInv, Consistent
<1>6. CASE RecordFailure(w)
  <2>1. /\ worker[w].pc = "record" /\ Current(w) \in worker[w].failed
        /\ jobs' = Failure(now) \/ jobs' = jobs
    BY <1>6 DEF RecordFailure, Refused, HandleJobFailure, Write
  <2>2. Writes(Failure(now), now.id, Verdict(now))
    BY <1>5, <2>1, FailureWrites, TypeInvGood DEF HoldInv
  <2>3. Outcome(worker[w], Current(w)) = Verdict(now)
    BY <2>1 DEF Outcome
  <2> QED BY <1>5, <2>1, <2>2, <2>3, WriteStays
<1>7. CASE MarkSuccess(w)
  <2> DEFINE tab == UpdateJobStatus(jobs, now.id, "SUCCESS", now.retries)
  <2>1. /\ worker[w].pc \in {"record", "mark"}
        /\ jobs' = tab \/ jobs' = jobs
    BY <1>7 DEF MarkSuccess, Write
  <2>2. Writes(tab, now.id, "SUCCESS")
    BY <1>5, <2>1, SuccessWrites, TypeInvGood DEF HoldInv
  <2>3. Outcome(worker[w], Current(w)) = "SUCCESS"
    BY <1>1, <1>7 DEF MarkSuccess, Refused, Consistent, Current, Outcome
  <2> HIDE DEF tab
  <2> QED BY <1>5, <2>1, <2>2, <2>3, WriteStays
<1> QED BY <1>2, <1>3, <1>4, <1>6, <1>7 DEF WorkerStep

LEMMA FinalStep ==
  HoldInv /\ [Next]_vars =>
    [\A j \in JobIds : IsTerminal(jobs[j].state) => jobs'[j].state = jobs[j].state]_vars
<1> SUFFICES ASSUME HoldInv, Next PROVE \A j \in JobIds : Stays(j)
  BY DEF Stays, Ended
<1>1. CASE ClaimJobs
  <2>1. PICK S \in SUBSET Claimable(jobs, turn) : jobs' = ClaimPendingJobs(jobs, S)
    BY <1>1 DEF ClaimJobs
  <2>2. \A j \in JobIds \ S : jobs'[j] = jobs[j]
    BY <2>1, ClaimWrites, TypeInvGood DEF HoldInv
  <2> QED BY <2>1, <2>2 DEF Claimable, Stays, Ended, IsTerminal
<1>2. CASE RecoverStale
  <2>1. \A j \in JobIds \ Stale(jobs) : jobs'[j] = jobs[j]
    BY <1>2, RecoverWrites, TypeInvGood DEF RecoverStale, HoldInv
  <2> QED BY <2>1 DEF Stale, Stays, Ended, IsTerminal
<1>3. CASE SubmitBatch \/ Crash
  BY <1>3 DEF SubmitBatch, Crash, Stays
<1>4. ASSUME NEW w \in Workers, WorkerStep(w) PROVE \A j \in JobIds : Stays(j)
  BY <1>4, WorkerStays
<1>5. ASSUME NEW j \in JobIds, Tick(j) PROVE \A k \in JobIds : Stays(k)
  <2>1. jobs \in [JobIds -> JobRow]
    BY DEF HoldInv, TypeInv, TypeOK, TablesTypeOK
  <2> QED BY <1>5, <2>1 DEF Tick, Elapse, Stays, JobRow
<1>6. ASSUME NEW p \in Products, EnqueueCreate(p) \/ EnqueueUpdate(p)
      PROVE  \A j \in JobIds : Stays(j)
  <2>1. \A j \in JobIds : Exists(j) => jobs'[j] = jobs[j]
    BY <1>6, CreateWrites, TypeInvGood DEF EnqueueCreate, EnqueueUpdate, HoldInv, JobTypes
  <2> QED BY <2>1 DEF Exists, Stays, Ended, IsTerminal
<1> QED BY <1>1, <1>2, <1>3, <1>4, <1>5, <1>6 DEF Next, EngineNext

\* On a prompt clock no statement moves a job out of SUCCESS or DEAD_LETTER: the
\* statements that write an outcome are only run for rows that have not ended, or
\* that have ended with that outcome (UpdateJobStatus, ScheduleRetry,
\* MarkAsDeadLetter).
THEOREM EndedIsEnded == ASSUME Prompt PROVE Spec => TerminalIsFinal
  BY HoldInvCorrect, FinalStep, PTL DEF Spec, TerminalIsFinal

=============================================================================
