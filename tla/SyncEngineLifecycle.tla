------------------------ MODULE SyncEngineLifecycle -------------------------
(***************************************************************************)
(* On a prompt clock SyncEngine implements JobLifecycle, for any number of *)
(* products, jobs, workers, failures and restarts, as long as no batch of  *)
(* the update pool holds two jobs of one product; batches of one job never *)
(* do, and no batch of the create pool ever does.                          *)
(*                                                                         *)
(* The abstract job counts its attempts, the engine decides on the retry   *)
(* count of a claim made long before.  So the invariant is that a claim in *)
(* anybody's hands is of a RUNNING row with the count of the claim: nobody *)
(* else writes the row (HoldInv), and the one write of its holder is the   *)
(* last thing the holder does with it.  Two jobs of one product in a batch *)
(* break that: the second writes what the first has written already.       *)
(***************************************************************************)
EXTENDS SyncEngineSafety, SyncEngineRecords

-----------------------------------------------------------------------------
(* The moves of a row.                                                     *)

LifeRow(r) ==
    /\ r.state \in {"ABSENT", "PENDING", "RUNNING", "SUCCESS", "DEAD_LETTER"}
    /\ r.retries \in 0..(MaxRetries - 1)
    /\ r.state = "ABSENT" => r.retries = 0

Turns ==
    {<<"ABSENT", "PENDING">>, <<"PENDING", "RUNNING">>, <<"RUNNING", "SUCCESS">>,
     <<"RUNNING", "PENDING">>}

Moves(r, q) ==
    \/ q.state = r.state /\ q.retries = r.retries
    \/ <<r.state, q.state>> \in Turns /\ q.retries = r.retries
    \/ /\ r.state = "RUNNING" /\ q.state = "PENDING"
       /\ r.retries + 1 < MaxRetries /\ q.retries = r.retries + 1
    \/ /\ r.state = "RUNNING" /\ q.state = "DEAD_LETTER"
       /\ r.retries + 1 = MaxRetries /\ q.retries = r.retries

LEMMA MovesLife ==
  ASSUME NEW r, NEW q, LifeRow(r), Moves(r, q)
  PROVE  LifeRow(q)
  BY TablesAssumption DEF LifeRow, Moves, Turns

\* The rows move as the lifecycle's jobs do.
LEMMA MovesNext ==
  ASSUME \A j \in JobIds : LifeRow(jobs[j]) /\ Moves(jobs[j], jobs'[j])
  PROVE  Lifecycle!LifecycleNext
<1> DEFINE life == [j \in JobIds |-> [state |-> jobs[j].state, retries |-> jobs[j].retries]]
           next == [j \in JobIds |-> [state |-> jobs'[j].state, retries |-> jobs'[j].retries]]
<1>1. \A j \in JobIds : LifeRow(jobs'[j])
  BY MovesLife
<1>2. next \in [JobIds -> Lifecycle!Lives]
  BY <1>1 DEF LifeRow, Lifecycle!Lives
<1>3. ASSUME NEW j \in JobIds
      PROVE  \/ next[j] = life[j]
             \/ Lifecycle!Insert(j) \/ Lifecycle!Begin(j) \/ Lifecycle!Succeed(j)
             \/ Lifecycle!Lose(j) \/ Lifecycle!Retry(j) \/ Lifecycle!Bury(j)
  BY DEF Moves, Turns, Lifecycle!Insert, Lifecycle!Begin, Lifecycle!Succeed, Lifecycle!Lose,
     Lifecycle!Retry, Lifecycle!Bury, Lifecycle!Becomes
<1> QED BY <1>2, <1>3 DEF Lifecycle!LifecycleNext

-----------------------------------------------------------------------------
(* The attempts.                                                           *)

\* The claims in anybody's hands.
Holds(c) ==
    \/ c \in claimed
    \/ \E t \in JobTypes : \E i \in DOMAIN queue[t] : c \in queue[t][i]
    \/ \E w \in Workers : c \in HeldIn(worker[w])

Open(tab, c) == tab[c.id].state = "RUNNING" /\ tab[c.id].retries = c.retries

AttemptInv ==
    /\ \A j \in JobIds : LifeRow(jobs[j])
    /\ \A c : Holds(c) => Open(jobs, c)

NoTwins(w) ==
    \A i, k \in DOMAIN worker[w].items :
        worker[w].items[i].product = worker[w].items[k].product => i = k

\* The one write that ends an attempt.
Ends(tab, c) ==
    \/ tab = Failure(c)
    \/ tab = UpdateJobStatus(jobs, c.id, "SUCCESS", c.retries)

LEMMA EndsMoves ==
  ASSUME TypeInv, AttemptInv, NEW c \in Claim, Holds(c), NEW tab, Ends(tab, c)
  PROVE  /\ \A j \in JobIds : Moves(jobs[j], tab[j])
         /\ \A j \in JobIds \ {c.id} : tab[j] = jobs[j]
<1>1. c.id \in JobIds /\ c.retries \in Nat /\ jobs \in [JobIds -> JobRow] /\ Open(jobs, c)
  BY DEF Claim, TypeInv, TypeOK, TablesTypeOK, AttemptInv
<1>2. LifeRow(jobs[c.id]) /\ jobs[c.id] \in JobRow /\ MaxRetries \in Nat
  BY <1>1, TablesAssumption DEF AttemptInv
<1>3. CASE tab = Failure(c) /\ c.retries + 1 >= MaxRetries
  <2>1. tab = [jobs EXCEPT ![c.id].state = "DEAD_LETTER", ![c.id].due = FALSE]
    BY <1>3 DEF Failure, MarkAsDeadLetter
  <2>2. /\ tab[c.id].state = "DEAD_LETTER" /\ tab[c.id].retries = jobs[c.id].retries
        /\ \A j \in JobIds \ {c.id} : tab[j] = jobs[j]
    BY <1>1, <1>2, <2>1 DEF JobRow
  <2>3. jobs[c.id].retries + 1 = MaxRetries
    BY <1>1, <1>2, <1>3 DEF Open, LifeRow
  <2> QED BY <1>1, <2>2, <2>3 DEF Moves, Open
<1>4. CASE tab = Failure(c) /\ ~(c.retries + 1 >= MaxRetries)
  <2>1. tab = [jobs EXCEPT ![c.id].state = "PENDING", ![c.id].retries = @ + 1,
                           ![c.id].due = FALSE]
    BY <1>4 DEF Failure, ScheduleRetry
  <2>2. /\ tab[c.id].state = "PENDING" /\ tab[c.id].retries = jobs[c.id].retries + 1
        /\ \A j \in JobIds \ {c.id} : tab[j] = jobs[j]
    BY <1>1, <1>2, <2>1 DEF JobRow
  <2> QED BY <1>1, <1>2, <1>4, <2>2 DEF Moves, Open
<1>5. CASE tab = UpdateJobStatus(jobs, c.id, "SUCCESS", c.retries)
  <2>1. /\ tab[c.id].state = "SUCCESS" /\ tab[c.id].retries = c.retries
        /\ \A j \in JobIds \ {c.id} : tab[j] = jobs[j]
    BY <1>1, <1>2, <1>5 DEF UpdateJobStatus, JobRow
  <2> QED BY <1>1, <2>1 DEF Moves, Open, Turns
<1> QED BY <1>3, <1>4, <1>5 DEF Ends

\* Nobody's rows are written and nobody gets a claim.
LEMMA AttemptsKept ==
  ASSUME HoldInv, AttemptInv, \A c : Holds(c)' => Holds(c) /\ jobs'[c.id] = jobs[c.id]
  PROVE  \A c : Holds(c)' => Open(jobs', c)
  BY DEF AttemptInv, Open

LEMMA HoldsHeld ==
  /\ \A c : Holds(c) => Held(c.id)
  /\ UNCHANGED memory => \A c : Holds(c)' <=> Holds(c)
  BY ClaimsOfHeldIn DEF Holds, Held, memory

LEMMA MemoryAttempts ==
  ASSUME HoldInv, AttemptInv, UNCHANGED memory, \A j : Held(j) => jobs'[j] = jobs[j]
  PROVE  \A c : Holds(c)' => Open(jobs', c)
  BY HoldsHeld, AttemptsKept

\* A worker ends an attempt and lets go of the claim.
LEMMA HandsAttempts ==
  ASSUME HoldInv, AttemptInv, NEW w \in Workers, HandsOnly(w),
         NEW d \in HeldIn(worker[w]),
         \/ jobs' = jobs
         \/ Ends(jobs', d) /\ \A c \in HeldIn(worker'[w]) : c.id # d.id
  PROVE  /\ \A j \in JobIds : Moves(jobs[j], jobs'[j])
         /\ \A c : Holds(c)' => Open(jobs', c)
<1>1. d \in Claim /\ Holds(d)
  BY HeldInRows DEF Holds
<1>2. /\ \A j \in JobIds : Moves(jobs[j], jobs'[j])
      /\ jobs' = jobs \/ \A j \in JobIds \ {d.id} : jobs'[j] = jobs[j]
  BY <1>1, EndsMoves DEF Moves, HoldInv
<1>3. ASSUME NEW c, Holds(c)' PROVE Holds(c) /\ jobs'[c.id] = jobs[c.id]
  <2>1. Holds(c)
    BY <1>3 DEF Holds, HandsOnly
  <2>2. c.id \in JobIds
    BY <2>1, HoldsHeld, HeldRows
  <2>3. ASSUME jobs' # jobs PROVE c.id # d.id
    <3>1. CASE c \in claimed
      BY <3>1 DEF HoldInv, Apart, Ids
    <3>2. ASSUME NEW t \in JobTypes, NEW i \in DOMAIN queue[t], c \in queue[t][i]
          PROVE  c.id # d.id
      BY <3>2 DEF HoldInv, Apart, Ids
    <3>3. ASSUME NEW v \in Workers, c \in HeldIn(worker'[v]) PROVE c.id # d.id
      <4>1. CASE v = w
        BY <2>3, <3>3, <4>1
      <4>2. CASE v # w
        <5>1. c \in HeldIn(worker[v])
          BY <3>3, <4>2 DEF HandsOnly
        <5> QED BY <4>2, <5>1 DEF HoldInv, Apart, Ids
      <4> QED BY <4>1, <4>2
    <3> QED BY <1>3, <3>1, <3>2, <3>3 DEF Holds, HandsOnly
  <2> QED BY <1>2, <2>1, <2>2, <2>3
<1> QED BY <1>2, <1>3, AttemptsKept

\* What a worker holds after each kind of step.
LEMMA NothingHeld == DOMAIN <<>> = {} /\ ProductsOf(<<>>) = {} /\ HeldIn(NoWork) = {}
<1>1. DOMAIN <<>> = {}
  OBVIOUS
<1> QED BY <1>1 DEF HeldIn, Left, NoWork, ProductsOf

LEMMA HeldLoading ==
  ASSUME NEW todo, NEW items, NEW c \in HeldIn(Loading(todo, items))
  PROVE  c \in todo \/ \E p \in ProductsOf(items) : c = Owner(items, p)
  BY NothingHeld DEF HeldIn, Left, Loading

LEMMA HeldResults ==
  ASSUME NEW items, NEW S, NEW c \in HeldIn(Results(items, S))
  PROVE  \E p \in ProductsOf(items) : c = Owner(items, p)
  BY NothingHeld DEF HeldIn, Left, Results

LEMMA HeldAborting ==
  ASSUME NEW items, NEW S, NEW c \in HeldIn(Aborting(items, S))
  PROVE  \E p \in S : c = Owner(items, p)
  BY NothingHeld DEF HeldIn, Left, Aborting

\* The rows move, and what is held afterwards is an open attempt.
Goes == /\ \A j \in JobIds : Moves(jobs[j], jobs'[j])
        /\ \A c : Holds(c)' => Open(jobs', c)

LEMMA Untouched ==
  ASSUME HoldInv, AttemptInv, UNCHANGED jobs, \A c : Holds(c)' => Holds(c)
  PROVE  Goes
  BY DEF Goes, Moves, AttemptInv, Open

LEMMA LoadFailsGoes ==
  ASSUME HoldInv, AttemptInv, NEW w \in Workers, LoadFails(w), HandsOnly(w)
  PROVE  Goes
<1> DEFINE items == worker[w].items
<1>1. PICK c \in worker[w].todo :
         /\ jobs' \in {jobs, Failure(c)}
         /\ worker' = [worker EXCEPT ![w] = Loading(worker[w].todo \ {c}, items)]
  BY DEF LoadFails, HoldInv, TypeInv, TypeOK, EngineTypeOK
<1> DEFINE todo == worker[w].todo \ {c}
<1>2. worker'[w] = Loading(todo, items)
  BY <1>1 DEF HoldInv, TypeInv, TypeOK, EngineTypeOK
<1>3. DistinctIn(worker[w]) /\ c \in HeldIn(worker[w]) /\ items \in Seq(Item)
  BY InHand DEF HoldInv, WorkerInv, HeldIn
<1>4. \A d \in todo : d.id # c.id
  BY <1>3 DEF DistinctIn, Distinct
<1>5. \A p \in ProductsOf(items) : Owner(items, p).id # c.id
  <2>1. \A i \in DOMAIN items : items[i].claim.id # c.id
    BY <1>3 DEF DistinctIn
  <2> QED BY <1>3, <2>1, OwnerType
<1> HIDE DEF todo, items
<1>6. \A d \in HeldIn(worker'[w]) : d.id # c.id
  BY <1>2, <1>4, <1>5, HeldLoading
<1> QED BY <1>1, <1>3, <1>6, HandsAttempts DEF Ends, Goes

LEMMA AbortJobGoes ==
  ASSUME HoldInv, AttemptInv, NEW w \in Workers, AbortJob(w), HandsOnly(w)
  PROVE  Goes
<1> DEFINE items == worker[w].items
<1>1. PICK p \in worker[w].failed :
         /\ HandleJobFailure(Owner(items, p))
         /\ worker' = [worker EXCEPT ![w] = Aborting(items, worker[w].failed \ {p})]
  BY DEF AbortJob, HoldInv, TypeInv, TypeOK, EngineTypeOK
<1> DEFINE left == worker[w].failed \ {p}
           c == Owner(items, p)
<1>2. Left(worker[w]) = worker[w].failed /\ worker[w].failed \subseteq ProductsOf(items)
  BY DEF AbortJob, Left, HoldInv, TypeInv, AllPresent, WorkersPresent, Sound
<1>3. c \in HeldIn(worker[w])
  BY <1>2 DEF HeldIn
<1>4. \A q \in left : Owner(items, q).id # c.id
  BY <1>2, OwnersDiffer DEF HoldInv, WorkerInv
<1>5. worker'[w] = Aborting(items, left)
  BY <1>1 DEF HoldInv, TypeInv, TypeOK, EngineTypeOK
<1>6. jobs' = jobs \/ Ends(jobs', c)
  BY <1>1 DEF HandleJobFailure, Write, Ends
<1> HIDE DEF left, items, c
<1>7. \A d \in HeldIn(worker'[w]) : d.id # c.id
  BY <1>4, <1>5, HeldAborting
<1> QED BY <1>3, <1>6, <1>7, HandsAttempts DEF Goes

\* The result loop is done with a product when it has written its job, for the
\* product does not come again.
LEMMA NextItemGoes ==
  ASSUME HoldInv, AttemptInv, NEW w \in Workers, NoTwins(w), HandsOnly(w), NextItem(w),
         worker[w].pc \in {"record", "mark"},
         jobs' = jobs \/ Ends(jobs', Owner(worker[w].items, Current(w)))
  PROVE  Goes
<1> DEFINE items == worker[w].items
           rest == Tail(items)
           now == Current(w)
           c == Owner(items, now)
<1>1. items \in Seq(Item) /\ items # <<>> /\ now \in ProductsOf(items)
  BY CurrentClaim DEF HoldInv
<1>2. worker'[w] = Results(rest, worker[w].failed)
  BY DEF NextItem, HoldInv, TypeInv, TypeOK, EngineTypeOK
<1>3. c \in HeldIn(worker[w])
  BY <1>1 DEF HeldIn, Left
<1>4. now \notin ProductsOf(rest)
  <2>1. \A i \in DOMAIN rest : i + 1 \in DOMAIN items /\ rest[i] = items[i + 1] /\ i + 1 # 1
    BY <1>1
  <2>2. 1 \in DOMAIN items /\ now = items[1].product
    BY <1>1 DEF Current
  <2> HIDE DEF rest, now
  <2> QED BY <2>1, <2>2 DEF ProductsOf, NoTwins
<1>5. ASSUME NEW p \in ProductsOf(rest) PROVE Owner(rest, p).id # c.id
  <2>1. p \in ProductsOf(items) /\ Owner(rest, p) = Owner(items, p)
    BY <1>1, OwnerTail
  <2> HIDE DEF rest, now
  <2> QED BY <1>1, <1>4, <2>1, OwnersDiffer DEF HoldInv, WorkerInv
<1> HIDE DEF rest, now, items
<1>6. \A d \in HeldIn(worker'[w]) : d.id # c.id
  BY <1>2, <1>5, HeldResults
<1>7. jobs' = jobs \/ Ends(jobs', c)
  BY DEF items, now
<1> HIDE DEF c
<1> QED BY <1>3, <1>6, <1>7, HandsAttempts DEF Goes

LEMMA WorkerGoes ==
  ASSUME HoldInv, TypeInv', AttemptInv, NEW w \in Workers, NoTwins(w), WorkerStep(w)
  PROVE  Goes
<1>1. CASE TakeTask(w)
  <2> DEFINE type == TypeOf(w)
             batch == Head(queue[type])
  <2>1. /\ type \in JobTypes /\ queue[type] \in Seq(SUBSET Claim) /\ queue[type] # <<>>
        /\ worker'[w] = Loading(batch, <<>>)
        /\ \A v \in Workers \ {w} : worker'[v] = worker[v]
        /\ queue'[type] = Tail(queue[type])
        /\ \A t \in JobTypes \ {type} : queue'[t] = queue[t]
        /\ UNCHANGED <<jobs, claimed>>
    BY <1>1 DEF TakeTask, HoldInv, TypeInv, TypeOK, EngineTypeOK, TypeOf, JobTypes
  <2>2. /\ 1 \in DOMAIN queue[type] /\ batch = queue[type][1]
        /\ \A i \in DOMAIN Tail(queue[type]) :
             i + 1 \in DOMAIN queue[type] /\ Tail(queue[type])[i] = queue[type][i + 1]
    BY <2>1
  <2> HIDE DEF batch, type
  <2>3. HeldIn(worker'[w]) \subseteq batch
    BY <2>1, NothingHeld, HeldLoading
  <2>4. ASSUME NEW c, Holds(c)' PROVE Holds(c)
    <3>1. CASE \E v \in Workers : c \in HeldIn(worker'[v])
      BY <2>1, <2>2, <2>3, <3>1 DEF Holds
    <3>2. ASSUME NEW t \in JobTypes, NEW i \in DOMAIN queue'[t], c \in queue'[t][i]
          PROVE  Holds(c)
      <4>1. CASE t = type
        BY <2>1, <2>2, <3>2, <4>1 DEF Holds
      <4>2. CASE t # type
        BY <2>1, <3>2, <4>2 DEF Holds
      <4> QED BY <4>1, <4>2
    <3> QED BY <2>1, <2>4, <3>1, <3>2 DEF Holds
  <2> QED BY <2>1, <2>4, Untouched
<1>2. CASE LoadProduct(w) \/ CallWoo(w) \/ CallFails(w) \/ StoreWooId(w)
  <2>1. HandsOnly(w)
    BY <1>2, LoadProductHold, CallWooHold, CallFailsHold, StoreWooIdHold
  <2>2. UNCHANGED jobs
    BY <1>2 DEF LoadProduct, CallWoo, CallFails, StoreWooId
  <2>3. \A c : Holds(c)' => Holds(c)
    BY <2>1 DEF Holds, HandsOnly
  <2> QED BY <2>2, <2>3, Untouched
<1>3. CASE LoadFails(w)
  BY <1>3, LoadFailsHold, LoadFailsGoes
<1>4. CASE AbortJob(w)
  BY <1>4, AbortJobHold, AbortJobGoes
<1>5. CASE RecordFailure(w)
  <2>1. jobs' = jobs \/ Ends(jobs', Owner(worker[w].items, Current(w)))
    BY <1>5 DEF RecordFailure, HandleJobFailure, Write, Ends
  <2> QED BY <1>5, <2>1, RecordFailureHold, NextItemGoes DEF RecordFailure
<1>6. CASE MarkSuccess(w)
  <2>1. jobs' = jobs \/ Ends(jobs', Owner(worker[w].items, Current(w)))
    BY <1>6 DEF MarkSuccess, Write, Ends
  <2> QED BY <1>6, <2>1, MarkSuccessHold, NextItemGoes DEF MarkSuccess
<1> QED BY <1>1, <1>2, <1>3, <1>4, <1>5, <1>6 DEF WorkerStep

-----------------------------------------------------------------------------
(* The steps of the loops, the clock, new jobs and the end of the process. *)

LEMMA ClaimJobsGoes == ASSUME HoldInv, AttemptInv, ClaimJobs PROVE Goes
<1>1. PICK S \in SUBSET Claimable(jobs, turn) :
         jobs' = ClaimPendingJobs(jobs, S) /\ (claimed' = Snapshot(S) \/ claimed' = {})
  BY DEF ClaimJobs
<1>2. /\ \A j \in S : /\ jobs'[j].state = "RUNNING" /\ jobs'[j].retries = jobs[j].retries
                      /\ jobs[j].state = "PENDING" /\ jobs[j].due /\ j \in JobIds
      /\ \A j \in JobIds \ S : jobs'[j] = jobs[j]
  BY <1>1 DEF ClaimPendingJobs, Claimable, HoldInv, TypeInv, TypeOK, TablesTypeOK, JobRow
<1>3. \A j \in JobIds : Moves(jobs[j], jobs'[j])
  BY <1>2 DEF Moves, Turns
<1>4. ASSUME NEW c, Holds(c)' PROVE Open(jobs', c)
  <2>1. CASE c \in claimed'
    BY <1>1, <1>2, <2>1 DEF Snapshot, Open
  <2>2. CASE c \notin claimed'
    <3>1. Holds(c)
      BY <1>4, <2>2 DEF Holds, ClaimJobs
    <3>2. c.id \in JobIds \ S
      BY <1>2, <3>1, HoldsHeld, HeldRows
    <3> QED BY <1>2, <3>1, <3>2 DEF AttemptInv, Open
  <2> QED BY <2>1, <2>2
<1> QED BY <1>3, <1>4 DEF Goes

LEMMA SubmitBatchGoes == ASSUME HoldInv, AttemptInv, SubmitBatch PROVE Goes
<1> DEFINE type == Other(turn)
<1>1. PICK batch \in SUBSET claimed :
         /\ claimed' = claimed \ batch
         /\ queue' = [queue EXCEPT ![type] = Append(@, batch)] \/ queue' = queue
  BY DEF SubmitBatch
<1>2. UNCHANGED <<jobs, worker>> /\ queue \in [JobTypes -> Seq(SUBSET Claim)]
  BY DEF SubmitBatch, HoldInv, TypeInv, TypeOK, EngineTypeOK
<1> HIDE DEF type
<1>3. ASSUME NEW t \in JobTypes, NEW i \in DOMAIN queue'[t]
      PROVE  queue'[t][i] = batch \/ (i \in DOMAIN queue[t] /\ queue'[t][i] = queue[t][i])
  <2>1. CASE queue' = queue
    BY <2>1
  <2>2. CASE queue' = [queue EXCEPT ![type] = Append(@, batch)] /\ t = type
    <3>1. queue'[t] = Append(queue[t], batch) /\ queue[t] \in Seq(SUBSET Claim)
      BY <1>2, <2>2
    <3> QED BY <3>1
  <2>3. CASE queue' = [queue EXCEPT ![type] = Append(@, batch)] /\ t # type
    <3>1. queue'[t] = queue[t]
      BY <1>2, <2>3
    <3> QED BY <3>1
  <2> QED BY <1>1, <2>1, <2>2, <2>3
<1>4. \A c : Holds(c)' => Holds(c)
  BY <1>1, <1>2, <1>3 DEF Holds
<1> QED BY <1>2, <1>4, Untouched

\* A job inserted beside the engine.
LEMMA FeedsGoes == ASSUME HoldInv, AttemptInv, RecordInv, Feeds PROVE Goes
<1>1. UNCHANGED memory
  BY DEF Feeds, memory
<1>2. \A j : Held(j) => jobs'[j] = jobs[j]
  BY FeedsRows, HeldRows DEF Exists
<1>3. CASE UNCHANGED jobs
  <2>1. \A j \in JobIds : Moves(jobs[j], jobs'[j])
    BY <1>3 DEF Moves
  <2> QED BY <1>1, <1>2, <2>1, MemoryAttempts DEF Goes
<1>4. CASE ~UNCHANGED jobs
  <2>1. PICK p \in Products, type \in JobTypes :
          Room(jobs) /\ jobs' = CreateJob(jobs, p, type)
    BY <1>4 DEF Feeds
  <2> DEFINE n == NextId(jobs)
  <2>2. n \in JobIds /\ jobs[n].state = "ABSENT"
    BY <2>1, NextIdFree
  <2>3. /\ jobs'[n].state = "PENDING" /\ jobs'[n].retries = 0
        /\ \A j \in JobIds \ {n} : jobs'[j] = jobs[j]
    BY <2>1, <2>2 DEF CreateJob, HoldInv, TypeInv, TypeOK, TablesTypeOK
  <2> HIDE DEF n
  <2>4. \A j \in JobIds : Moves(jobs[j], jobs'[j])
    BY <2>2, <2>3 DEF Moves, Turns, AttemptInv, LifeRow
  <2> QED BY <1>1, <1>2, <2>4, MemoryAttempts DEF Goes
<1> QED BY <1>3, <1>4

\* Nor does it disturb what is held.
LEMMA FeedsHold == ASSUME HoldInv, RecordInv, Feeds PROVE HoldInv'
<1>1. TypeInv' /\ UNCHANGED memory
  BY FeedsType DEF Feeds, memory
<1>2. \A j : Held(j) => jobs'[j] = jobs[j]
  BY FeedsRows, HeldRows DEF Exists
<1> QED BY <1>1, <1>2, AllKept

LEMMA RecoverStaleGoes == ASSUME HoldInv, AttemptInv, RecoverStale PROVE Goes
<1>1. /\ \A j \in Stale(jobs) :
           /\ jobs'[j].state = "PENDING" /\ jobs'[j].retries = jobs[j].retries
           /\ jobs[j].state = "RUNNING" /\ jobs[j].due
      /\ \A j \in JobIds \ Stale(jobs) : jobs'[j] = jobs[j]
  BY DEF RecoverStale, RecoverStaleJobs, Stale, HoldInv, TypeInv, TypeOK, TablesTypeOK, JobRow
<1>2. \A j \in JobIds : Moves(jobs[j], jobs'[j])
  BY <1>1 DEF Moves, Turns
<1>3. UNCHANGED memory
  BY DEF RecoverStale, memory
<1>4. \A j : Held(j) => jobs'[j] = jobs[j]
  BY <1>1, HeldRows
<1> QED BY <1>2, <1>3, <1>4, MemoryAttempts DEF Goes

LEMMA TickGoes ==
  ASSUME HoldInv, AttemptInv, Prompt, NEW i \in JobIds, Tick(i)
  PROVE  Goes
<1>1. ~Held(i) /\ jobs' = [jobs EXCEPT ![i].due = TRUE] /\ UNCHANGED memory
  BY DEF Tick, Elapse
<1>2. jobs \in [JobIds -> JobRow] /\ \A j \in JobIds : jobs[j] \in JobRow
  BY DEF HoldInv, TypeInv, TypeOK, TablesTypeOK
<1>3. \A j \in JobIds : Moves(jobs[j], jobs'[j])
  BY <1>1, <1>2 DEF Moves, JobRow
<1>4. \A j : Held(j) => jobs'[j] = jobs[j]
  BY <1>1, <1>2, HeldRows
<1> QED BY <1>1, <1>3, <1>4, MemoryAttempts DEF Goes

LEMMA CrashGoes == ASSUME HoldInv, AttemptInv, Crash PROVE Goes
<1>1. DOMAIN <<>> = {} /\ HeldIn(NoWork) = {}
  BY NothingHeld
<1>2. \A c : ~Holds(c)'
  BY <1>1 DEF Crash, Holds
<1> QED BY <1>2, Untouched DEF Crash

LEMMA AttemptInit == Init => AttemptInv
<1> SUFFICES ASSUME Init PROVE AttemptInv
  OBVIOUS
<1>1. DOMAIN <<>> = {} /\ HeldIn(NoWork) = {}
  BY NothingHeld
<1>2. \A c : ~Holds(c)
  BY <1>1 DEF Init, NoMemory, Holds
<1>3. \A j \in JobIds : LifeRow(jobs[j])
  BY TablesAssumption DEF Init, TablesInit, NoJob, LifeRow
<1> QED BY <1>2, <1>3 DEF AttemptInv

LEMMA StutterGoes == ASSUME HoldInv, AttemptInv, UNCHANGED vars PROVE Goes
<1>1. UNCHANGED <<jobs, claimed, queue, worker>>
  BY DEF vars
<1>2. \A c : Holds(c)' => Holds(c)
  BY <1>1 DEF Holds
<1> QED BY <1>1, <1>2, Untouched

LEMMA EngineGoes ==
  ASSUME Prompt, HoldInv, AttemptInv, \A w \in Workers : NoTwins(w), EngineNext
  PROVE  Goes
<1>1. TypeInv'
  BY TypeStep DEF HoldInv, Next
<1> QED BY <1>1, WorkerGoes, ClaimJobsGoes, SubmitBatchGoes, RecoverStaleGoes, TickGoes,
           CrashGoes DEF EngineNext

LEMMA AttemptStep ==
  ASSUME Prompt, HoldInv, AttemptInv, RecordInv, \A w \in Workers : NoTwins(w), [Next]_vars
  PROVE  Goes /\ AttemptInv'
<1>1. Goes
  BY EngineGoes, EnqueueFeeds, FeedsGoes, StutterGoes DEF Next
<1>2. AttemptInv'
  BY <1>1, MovesLife DEF Goes, AttemptInv
<1> QED BY <1>1, <1>2

-----------------------------------------------------------------------------
(* Which batches hold two jobs of one product.                             *)

\* A product has one create job: it is inserted with the row.
OneCreate ==
    \A j, k \in JobIds :
        /\ Exists(j) /\ Exists(k) /\ jobs[j].type = "create" /\ jobs[k].type = "create"
        /\ jobs[j].product = jobs[k].product
        => j = k

LEMMA EnqueueRows ==
  ASSUME RecordInv, NEW p \in Products, EnqueueCreate(p) \/ EnqueueUpdate(p)
  PROVE  \A j \in JobIds :
           \/ jobs'[j] = jobs[j]
           \/ /\ ~Exists(j) /\ \A k \in JobIds \ {j} : jobs'[k] = jobs[k]
              /\ jobs'[j].product = p
              /\ jobs'[j].type = "create" => EnqueueCreate(p)
<1>1. PICK type \in JobTypes : /\ Room(jobs) /\ jobs' = CreateJob(jobs, p, type)
                               /\ type = "create" => EnqueueCreate(p)
  <2>1. CASE EnqueueCreate(p)
    BY <2>1 DEF EnqueueCreate, JobTypes
  <2>2. CASE EnqueueUpdate(p)
    <3>1. /\ Room(jobs) /\ jobs' = CreateJob(jobs, p, "update")
          /\ "update" # "create" /\ "update" \in JobTypes
      BY <2>2 DEF EnqueueUpdate, JobTypes
    <3> QED BY <3>1
  <2> QED BY <2>1, <2>2
<1> DEFINE n == NextId(jobs)
<1>2. n \in JobIds /\ ~Exists(n)
  BY <1>1, NextIdFree DEF Exists
<1>3. /\ jobs'[n].product = p /\ jobs'[n].type = type
      /\ \A j \in JobIds \ {n} : jobs'[j] = jobs[j]
  BY <1>1, <1>2 DEF CreateJob, RecordInv, TypeInv, TypeOK, TablesTypeOK
<1> HIDE DEF n
<1> QED BY <1>1, <1>2, <1>3

LEMMA OneCreateStep ==
  ASSUME RecordInv, OneCreate, [Next]_vars
  PROVE  OneCreate'
<1>1. TypeInv
  BY DEF RecordInv
<1>2. ASSUME SameRows(jobs') PROVE OneCreate'
  BY <1>2 DEF SameRows, OneCreate, Exists
<1>3. CASE EngineNext
  BY <1>1, <1>2, <1>3, EngineRows
<1>4. CASE UNCHANGED vars
  BY <1>2, <1>4, RowsStay DEF vars
<1>5. ASSUME NEW p \in Products, EnqueueCreate(p) \/ EnqueueUpdate(p) PROVE OneCreate'
  <2>1. \A j \in JobIds :
          \/ jobs'[j] = jobs[j]
          \/ /\ ~Exists(j) /\ \A k \in JobIds \ {j} : jobs'[k] = jobs[k]
             /\ jobs'[j].product = p
             /\ jobs'[j].type = "create" => EnqueueCreate(p)
    BY <1>5, EnqueueRows
  <2>2. EnqueueCreate(p) => \A j \in JobIds : Exists(j) => jobs[j].product # p
    BY DEF EnqueueCreate, RecordInv, RowsKnown
  <2> QED BY <2>1, <2>2 DEF OneCreate, Exists
<1> QED BY <1>3, <1>4, <1>5 DEF Next

LEMMA KindStep == ASSUME RecordInv, KindInv, [Next]_vars PROVE KindInv'
<1>1. TypeInv
  BY DEF RecordInv
<1>2. CASE EngineNext
  BY <1>1, <1>2, EngineKind
<1>3. CASE UNCHANGED vars
  <2>1. KeepsTypes /\ UNCHANGED <<turn, claimed, queue, worker>>
    BY <1>3 DEF vars, KeepsTypes
  <2> QED BY <1>1, <2>1, KindMemory
<1>4. ASSUME NEW p \in Products, EnqueueCreate(p) \/ EnqueueUpdate(p) PROVE KindInv'
  BY <1>4, EnqueueFeeds, FeedsKind
<1> QED BY <1>2, <1>3, <1>4 DEF Next

BatchInv == HoldInv /\ RecordInv /\ KindInv /\ OneCreate

LEMMA BatchInit == Init => BatchInv
<1> SUFFICES ASSUME Init PROVE BatchInv
  OBVIOUS
<1>1. HoldInv /\ RecordInv /\ KindInv
  BY TypeInit, HoldInit, RecordInit, KindInit
<1>2. OneCreate
  BY DEF Init, TablesInit, NoJob, OneCreate, Exists
<1> QED BY <1>1, <1>2 DEF BatchInv

LEMMA BatchStep == ASSUME Prompt PROVE BatchInv /\ [Next]_vars => BatchInv'
  BY HoldStep, RecordStep, KindStep, OneCreateStep DEF BatchInv

\* So a batch of the create pool never repeats a product.
LEMMA CreatesDiffer ==
  ASSUME BatchInv, NEW w \in CreateWorkers
  PROVE  NoTwins(w)
<1> DEFINE items == worker[w].items
<1>1. w \in Workers /\ TypeOf(w) = "create"
  BY DEF Workers, TypeOf
<1>2. \A i \in DOMAIN items :
         /\ items[i].claim.id \in JobIds /\ Exists(items[i].claim.id)
         /\ jobs[items[i].claim.id].type = "create"
         /\ items[i].product = jobs[items[i].claim.id].product
  BY <1>1, HandHonest DEF BatchInv, Item, Claim, Loaded, KindInv, Kind, InWork, ClaimsIn
<1>3. \A i, k \in DOMAIN items : items[i].claim.id = items[k].claim.id => i = k
  BY <1>1 DEF BatchInv, HoldInv, WorkerInv, DistinctIn
<1> QED BY <1>2, <1>3 DEF NoTwins, BatchInv, OneCreate

\* With batches of one, nor does a batch of the update pool.
Single(S) == \A c, d \in S : c = d

SingleInv ==
    /\ IsFiniteSet(claimed)
    /\ \A i \in DOMAIN queue["update"] : Single(queue["update"][i])
    /\ \A w \in UpdateWorkers : Single(InWork(worker[w]))

LEMMA SingleBatch ==
  ASSUME NEW S, IsFiniteSet(S), NEW batch \in SUBSET S, Cardinality(batch) = AtMost(1, S)
  PROVE  Single(batch)
<1>1. IsFiniteSet(batch) /\ Cardinality(batch) \in Nat /\ Cardinality(S) \in Nat
  BY FS_Subset, FS_CardinalityType
<1>2. Cardinality(batch) = 0 \/ Cardinality(batch) = 1
  BY <1>1 DEF AtMost
<1>3. batch = {} \/ \E x : batch = {x}
  BY <1>1, <1>2, FS_EmptySet, FS_Singleton
<1> QED BY <1>3 DEF Single

LEMMA SnapshotFinite == ASSUME NEW S \in SUBSET JobIds PROVE IsFiniteSet(Snapshot(S))
<1>1. IsFiniteSet(JobIds)
  BY TablesAssumption, FS_Interval DEF JobIds
<1>2. IsFiniteSet(S)
  BY <1>1, FS_Subset
<1> DEFINE f == [j \in S |-> [id |-> j, retries |-> jobs[j].retries]]
<1>3. f \in Surjection(S, Snapshot(S))
  BY DEF Snapshot, Surjection
<1> QED BY <1>2, <1>3, FS_Surjection

LEMMA SingleStep ==
  ASSUME UpdateBatchSize = 1, TypeInv, SingleInv, [Next]_vars
  PROVE  SingleInv'
<1>1. CASE UNCHANGED <<claimed, queue, worker>>
  BY <1>1 DEF SingleInv
<1>2. CASE ClaimJobs
  <2>1. PICK S \in SUBSET JobIds : claimed' = Snapshot(S) \/ claimed' = {}
    BY <1>2 DEF ClaimJobs, Claimable
  <2>2. IsFiniteSet(claimed')
    BY <2>1, SnapshotFinite, FS_EmptySet
  <2> QED BY <1>2, <2>2 DEF ClaimJobs, SingleInv
<1>3. CASE SubmitBatch
  <2> DEFINE type == Other(turn)
  <2>1. PICK batch \in SUBSET claimed :
          /\ Cardinality(batch) = AtMost(BatchSize(type), claimed)
          /\ claimed' = claimed \ batch
          /\ queue' = [queue EXCEPT ![type] = Append(@, batch)] \/ queue' = queue
    BY <1>3 DEF SubmitBatch
  <2>2. IsFiniteSet(claimed')
    <3>1. claimed' \in SUBSET claimed
      BY <2>1
    <3> QED BY <3>1, FS_Subset DEF SingleInv
  <2>3. type = "update" => Single(batch)
    BY <2>1, SingleBatch DEF SingleInv, BatchSize
  <2>4. queue["update"] \in Seq(SUBSET Claim) /\ queue \in [JobTypes -> Seq(SUBSET Claim)]
    BY DEF TypeInv, TypeOK, EngineTypeOK, JobTypes
  <2> HIDE DEF type
  <2>5. \/ queue'["update"] = queue["update"]
        \/ type = "update" /\ queue'["update"] = Append(queue["update"], batch)
    BY <2>1, <2>4 DEF JobTypes
  <2>6. \A i \in DOMAIN Append(queue["update"], batch) :
           \/ Append(queue["update"], batch)[i] = batch
           \/ /\ i \in DOMAIN queue["update"]
              /\ Append(queue["update"], batch)[i] = queue["update"][i]
    BY <2>4
  <2> QED BY <1>3, <2>2, <2>3, <2>5, <2>6 DEF SubmitBatch, SingleInv
<1>4. CASE Crash
  <2>1. DOMAIN <<>> = {} /\ IsFiniteSet({})
    BY FS_EmptySet
  <2> QED BY <1>4, <2>1 DEF Crash, SingleInv, Single, InWork, ClaimsIn, NoWork, JobTypes, Workers
<1>5. ASSUME NEW w \in Workers, WorkerStep(w) PROVE SingleInv'
  <2>1. UNCHANGED claimed
    BY <1>5 DEF WorkerStep, TakeTask, LoadProduct, LoadFails, CallWoo, CallFails, AbortJob,
                RecordFailure, StoreWooId, MarkSuccess
  <2>2. /\ \A v \in Workers \ {w} : worker'[v] = worker[v]
        /\ TakeTask(w) \/ InWork(worker'[w]) \subseteq InWork(worker[w])
    BY <1>5, WorkerAlters
  <2>3. CASE TakeTask(w)
    <3> DEFINE type == TypeOf(w)
               batch == Head(queue[type])
    <3>1. /\ type \in JobTypes /\ queue[type] \in Seq(SUBSET Claim) /\ queue[type] # <<>>
          /\ worker'[w] = Loading(batch, <<>>)
          /\ queue'[type] = Tail(queue[type])
          /\ \A t \in JobTypes \ {type} : queue'[t] = queue[t]
      BY <2>3 DEF TakeTask, TypeInv, TypeOK, EngineTypeOK, TypeOf, JobTypes
    <3>2. /\ 1 \in DOMAIN queue[type] /\ batch = queue[type][1]
          /\ \A i \in DOMAIN Tail(queue[type]) :
               i + 1 \in DOMAIN queue[type] /\ Tail(queue[type])[i] = queue[type][i + 1]
      BY <3>1
    <3>3. w \in UpdateWorkers => type = "update"
      BY EngineAssumption DEF TypeOf
    <3> HIDE DEF batch, type
    <3>4. InWork(worker'[w]) \subseteq batch
      <4>1. ClaimsIn(<<>>) = {}
        BY NothingHeld DEF ClaimsIn
      <4> QED BY <3>1, <4>1, InWorkOf
    <3>5. \A i \in DOMAIN queue'["update"] : Single(queue'["update"][i])
      <4>1. CASE type = "update"
        <5>1. queue'["update"] = Tail(queue["update"])
          BY <3>1, <4>1
        <5>2. TAKE i \in DOMAIN queue'["update"]
        <5>3. /\ i + 1 \in DOMAIN queue["update"]
              /\ queue'["update"][i] = queue["update"][i + 1]
          BY <3>2, <4>1, <5>1
        <5> QED BY <5>3 DEF SingleInv
      <4>2. CASE type # "update"
        BY <3>1, <4>2 DEF SingleInv, JobTypes
      <4> QED BY <4>1, <4>2
    <3>6. w \in UpdateWorkers => Single(InWork(worker'[w]))
      BY <3>2, <3>3, <3>4 DEF SingleInv, Single
    <3> QED BY <2>1, <2>2, <3>5, <3>6 DEF SingleInv, Workers
  <2>4. CASE ~TakeTask(w)
    <3>1. UNCHANGED queue
      BY <1>5, <2>4 DEF WorkerStep, LoadProduct, LoadFails, CallWoo, CallFails, AbortJob,
                        RecordFailure, StoreWooId, MarkSuccess
    <3>2. \A v \in UpdateWorkers : Single(InWork(worker'[v]))
      BY <2>2, <2>4 DEF SingleInv, Single, Workers
    <3> QED BY <2>1, <3>1, <3>2 DEF SingleInv
  <2> QED BY <2>3, <2>4
<1>6. CASE RecoverStale \/ (\E j \in JobIds : Tick(j)) \/ UNCHANGED vars
           \/ \E p \in Products : EnqueueCreate(p) \/ EnqueueUpdate(p)
  BY <1>1, <1>6 DEF RecoverStale, Tick, memory, vars, EnqueueCreate, EnqueueUpdate
<1> QED BY <1>2, <1>3, <1>4, <1>5, <1>6 DEF Next, EngineNext

LEMMA SingleInit == Init => SingleInv
<1>1. DOMAIN <<>> = {} /\ IsFiniteSet({})
  BY FS_EmptySet
<1> QED BY <1>1 DEF Init, NoMemory, SingleInv, Single, InWork, ClaimsIn, NoWork, JobTypes, Workers

LEMMA UpdatesDiffer ==
  ASSUME HoldInv, SingleInv, NEW w \in UpdateWorkers
  PROVE  NoTwins(w)
<1>1. \A i \in DOMAIN worker[w].items : worker[w].items[i].claim \in InWork(worker[w])
  BY DEF InWork, ClaimsIn
<1>2. \A i, k \in DOMAIN worker[w].items :
         worker[w].items[i].claim = worker[w].items[k].claim
  BY <1>1 DEF SingleInv, Single
<1> QED BY <1>2 DEF HoldInv, WorkerInv, DistinctIn, NoTwins, Workers

-----------------------------------------------------------------------------
(* The refinement.                                                         *)

\* No batch of the update pool holds two jobs of one product.
Untwinned == \A w \in UpdateWorkers : NoTwins(w)

LEMMA LifeInit == Init => Lifecycle!LifecycleInit
  BY DEF Init, TablesInit, NoJob, Lifecycle!LifecycleInit, Lifecycle!Unborn

LEMMA LifeStep ==
  ASSUME Prompt
  PROVE  BatchInv /\ AttemptInv /\ Untwinned /\ [Next]_vars =>
           /\ AttemptInv'
           /\ [Lifecycle!LifecycleNext]_([j \in JobIds |->
                 [state |-> jobs[j].state, retries |-> jobs[j].retries]])
<1> SUFFICES ASSUME BatchInv, AttemptInv, Untwinned, [Next]_vars
             PROVE  AttemptInv' /\ Lifecycle!LifecycleNext
  OBVIOUS
<1>1. \A w \in Workers : NoTwins(w)
  BY CreatesDiffer DEF Untwinned, Workers
<1>2. Goes /\ AttemptInv'
  BY <1>1, AttemptStep DEF BatchInv
<1> QED BY <1>2, MovesNext DEF Goes, AttemptInv

\* On a prompt clock, as long as no update batch holds two jobs of one product, every
\* job lives the life of JobLifecycle: each failed attempt is counted once, a lost one
\* not at all, the attempt that reaches the limit is the last and what has ended stays
\* ended (ClaimPendingJobs, handleJobFailure, UpdateJobStatus, RecoverStaleJobs).
THEOREM EngineLifecycle ==
  ASSUME Prompt
  PROVE  Spec /\ []Untwinned => ImplementsLifecycle
<1>1. Init => BatchInv /\ AttemptInv /\ Lifecycle!LifecycleInit
  BY BatchInit, AttemptInit, LifeInit
<1> QED BY <1>1, BatchStep, LifeStep, PTL
        DEF Spec, ImplementsLifecycle, Lifecycle!LifecycleSpec

\* Batches of one job meet the condition (SYNC_UPDATE_BATCH_SIZE = 1).
THEOREM EngineLifecycleSingly ==
  ASSUME Prompt, UpdateBatchSize = 1
  PROVE  Spec => ImplementsLifecycle
<1>1. Init => BatchInv /\ SingleInv
  BY BatchInit, SingleInit
<1>2. BatchInv /\ SingleInv /\ [Next]_vars => BatchInv' /\ SingleInv'
  BY BatchStep, SingleStep DEF BatchInv, HoldInv
<1>3. BatchInv /\ SingleInv => Untwinned
  BY UpdatesDiffer DEF Untwinned, BatchInv
<1> QED BY <1>1, <1>2, <1>3, EngineLifecycle, PTL DEF Spec
=============================================================================
