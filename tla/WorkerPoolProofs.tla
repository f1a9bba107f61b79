-------------------------- MODULE WorkerPoolProofs --------------------------
(***************************************************************************)
(* Proofs about WorkerPool, for every set of goroutines and callers and    *)
(* every number of tasks.                                                  *)
(***************************************************************************)
EXTENDS WorkerPool, TLAPS, FiniteSetTheorems

(***************************************************************************)
(* Type correctness.  That accepted never passes calls needs the callers   *)
(* counted that are between the two halves of Submit; that only tasks end  *)
(* needs a busy goroutine to have one.                                     *)
(***************************************************************************)
Checked == {c \in Callers : caller[c] = "checked"}

Counted == IsFiniteSet(Checked) /\ accepted + Cardinality(Checked) <= calls

Assigned == \A w \in Workers : Busy(w) => worker[w].task \in Tasks

TypeInv == TypeOK /\ Counted /\ Assigned

LEMMA CapacityType == Capacity \in Nat
  BY PoolAssumption, FS_CardinalityType DEF Capacity

LEMMA TypeInit == Init => TypeInv
<1> SUFFICES ASSUME Init PROVE TypeInv
  OBVIOUS
<1>1. Checked = {}
  BY DEF Init, Checked
<1>2. Counted
  BY <1>1, FS_EmptySet DEF Counted, Init
<1>3. chan \in Seq(Tasks) /\ Len(chan) <= Capacity
  BY CapacityType DEF Init
<1>4. worker \in [Workers -> [pc : {"off", "free", "busy", "gone"},
                              task : 0..MaxTasks]]
  BY PoolAssumption DEF Init, Doing
<1>5. /\ caller \in [Callers -> {"out", "checked", "waiting", "panic"}]
      /\ holder \in Callers \cup {Nobody}
      /\ ended \in SUBSET Tasks
  BY DEF Init
<1>6. calls \in 0..MaxTasks /\ accepted \in 0..calls
  BY PoolAssumption DEF Init
<1>7. /\ closed \in BOOLEAN /\ cancelled \in BOOLEAN /\ shut \in BOOLEAN
      /\ guarded \in BOOLEAN
  BY DEF Init
<1>8. TypeOK
  BY <1>3, <1>4, <1>5, <1>6, <1>7 DEF TypeOK
<1>9. Assigned
  BY DEF Init, Assigned, Busy, Doing
<1> QED BY <1>2, <1>8, <1>9 DEF TypeInv

\* A caller that takes a ticket in SubmitCheck, or gives one back.
LEMMA CheckIn ==
  ASSUME TypeInv, NEW c \in Callers, caller[c] = "out",
         caller' = [caller EXCEPT ![c] = "checked"]
  PROVE  IsFiniteSet(Checked') /\ Cardinality(Checked') = Cardinality(Checked) + 1
<1>1. Checked' = Checked \cup {c} /\ c \notin Checked
  BY DEF TypeInv, TypeOK, Checked
<1> QED BY <1>1, FS_AddElement DEF TypeInv, Counted

LEMMA CheckOut ==
  ASSUME TypeInv, NEW c \in Callers, NEW pc,
         caller[c] = "checked", pc # "checked",
         caller' = [caller EXCEPT ![c] = pc]
  PROVE  IsFiniteSet(Checked') /\ Cardinality(Checked') = Cardinality(Checked) - 1
<1>1. Checked' = Checked \ {c} /\ c \in Checked
  BY DEF TypeInv, TypeOK, Checked
<1> QED BY <1>1, FS_RemoveElement DEF TypeInv, Counted

LEMMA CheckSame ==
  ASSUME TypeInv, NEW c \in Callers, NEW pc,
         caller[c] # "checked", pc # "checked",
         caller' = [caller EXCEPT ![c] = pc]
  PROVE  Checked' = Checked
  BY DEF TypeInv, TypeOK, Checked

LEMMA TypeStep == TypeInv /\ [Next]_vars => TypeInv'
<1> SUFFICES ASSUME TypeInv, [Next]_vars PROVE TypeInv'
  OBVIOUS
<1> USE CapacityType, PoolAssumption DEF TypeInv
<1>0. /\ IsFiniteSet(Checked) /\ Cardinality(Checked) \in Nat
      /\ accepted + Cardinality(Checked) <= calls
      /\ accepted \in Nat /\ calls \in Nat
  BY FS_CardinalityType DEF Counted, TypeOK
<1>1. ASSUME NEW w \in Workers, WorkerStep(w) PROVE TypeInv'
  <2>1. Checked' = Checked /\ UNCHANGED <<accepted, calls>>
    BY <1>1 DEF WorkerStep, Receive, Finish, Exit, Checked
  <2>2. Counted'
    BY <2>1, <1>0 DEF Counted
  <2>3. CASE Receive(w)
    <3>1. chan \in Seq(Tasks) /\ chan # <<>>
      BY <2>3 DEF Receive, TypeOK
    <3>2. Head(chan) \in Tasks /\ Tail(chan) \in Seq(Tasks)
          /\ Len(Tail(chan)) <= Capacity
      BY <3>1 DEF TypeOK
    <3>3. TypeOK'
      BY <2>3, <3>2 DEF Receive, TypeOK, Tasks
    <3>4. Assigned'
      BY <2>3, <3>2 DEF Receive, TypeOK, Assigned, Busy
    <3> QED BY <2>2, <3>3, <3>4
  <2>4. CASE Finish(w)
    <3>1. worker[w].task \in Tasks
      BY <2>4 DEF Finish, Is, Assigned, Busy
    <3>2. TypeOK'
      BY <2>4, <3>1 DEF Finish, TypeOK, Doing
    <3>3. Assigned'
      BY <2>4 DEF Finish, TypeOK, Assigned, Busy, Doing
    <3> QED BY <2>2, <3>2, <3>3
  <2>5. CASE Exit(w)
    <3>1. TypeOK'
      BY <2>5 DEF Exit, TypeOK, Doing
    <3>2. Assigned'
      BY <2>5 DEF Exit, TypeOK, Assigned, Busy, Doing
    <3> QED BY <2>2, <3>1, <3>2
  <2> QED BY <1>1, <2>3, <2>4, <2>5 DEF WorkerStep
<1>2. ASSUME NEW c \in Callers, CallerStep(c) PROVE TypeInv'
  <2>1. CASE Start(c)
    <3>1. Checked' = Checked
      BY <2>1 DEF Start, Checked
    <3>2. Assigned'
      BY <2>1 DEF Start, Assigned, Busy, Doing
    <3> QED BY <1>0, <2>1, <3>1, <3>2 DEF Start, TypeOK, Counted, Doing
  <2>2. CASE SubmitCheck(c)
    <3>1. IsFiniteSet(Checked') /\ Cardinality(Checked') = Cardinality(Checked) + 1
      BY <2>2, CheckIn DEF SubmitCheck, Enter, At
    <3> QED BY <1>0, <2>2, <3>1 DEF SubmitCheck, TypeOK, Counted, Assigned, Busy, Inside
  <2>3. CASE SubmitSend(c)
    <3>1. IsFiniteSet(Checked') /\ Cardinality(Checked') = Cardinality(Checked) - 1
      BY <2>3, CheckOut DEF SubmitSend, At, Return
    <3>2. Cardinality(Checked) >= 1
      BY <1>0, <3>1, FS_CardinalityType
    <3>3. accepted' \in Tasks /\ accepted' <= calls /\ Counted'
      BY <1>0, <2>3, <3>1, <3>2 DEF SubmitSend, TypeOK, Counted, Assigned, Busy, Tasks
    <3>4. chan' \in Seq(Tasks) /\ Len(chan') <= Capacity
      BY <2>3, <3>3 DEF SubmitSend, TypeOK
    <3> QED BY <1>0, <2>3, <3>3, <3>4 DEF SubmitSend, TypeOK, Assigned, Busy, Return, Leave
  <2>4. CASE SubmitRefused(c)
    <3>1. IsFiniteSet(Checked') /\ Cardinality(Checked') = Cardinality(Checked) - 1
      BY <2>4, CheckOut DEF SubmitRefused, At, Return
    <3> QED BY <1>0, <2>4, <3>1 DEF SubmitRefused, TypeOK, Counted, Assigned, Busy, Return, Leave
  <2>5. CASE SubmitPanics(c)
    <3>1. IsFiniteSet(Checked') /\ Cardinality(Checked') = Cardinality(Checked) - 1
      BY <2>5, CheckOut DEF SubmitPanics, At
    <3> QED BY <1>0, <2>5, <3>1 DEF SubmitPanics, TypeOK, Counted, Assigned, Busy
  <2>6. CASE StopBegin(c)
    <3>1. Checked' = Checked
      BY <2>6, CheckSame DEF StopBegin, Enter, At
    <3> QED BY <1>0, <2>6, <3>1 DEF StopBegin, TypeOK, Counted, Assigned, Busy, Inside
  <2>7. CASE StopCancel(c)
    <3>1. Checked' = Checked
      BY <2>7 DEF StopCancel, Checked
    <3> QED BY <1>0, <2>7, <3>1 DEF StopCancel, TypeOK, Counted, Assigned, Busy
  <2>8. CASE StopFinish(c)
    <3>1. Checked' = Checked
      BY <2>8, CheckSame DEF StopFinish, At, Return
    <3> QED BY <1>0, <2>8, <3>1 DEF StopFinish, TypeOK, Counted, Assigned, Busy, Return, Leave
  <2> QED BY <1>2, <2>1, <2>2, <2>3, <2>4, <2>5, <2>6, <2>7, <2>8 DEF CallerStep
<1>3. CASE UNCHANGED vars
  BY <1>3 DEF vars, TypeOK, Counted, Checked, Assigned, Busy
<1> QED BY <1>1, <1>2, <1>3 DEF Next, Over

LEMMA TypeInvCorrect == Spec => []TypeInv
  BY TypeInit, TypeStep, PTL DEF Spec

\* The state of the pool and of its callers always has its type; in
\* particular the channel never holds more than 2 * workers tasks and Submit
\* answers true at most once for each call (NewWorkerPool, Submit).
THEOREM TypeCorrect == Spec => []TypeOK
<1>1. TypeInv => TypeOK
  BY DEF TypeInv
<1> QED BY <1>1, TypeInvCorrect, PTL

-----------------------------------------------------------------------------
(***************************************************************************)
(* Stop in stages: closed, then cancelled, then shut; and with runMutex    *)
(* held by whoever is inside a call, nobody is in Submit when the channel  *)
(* is closed.                                                              *)
(***************************************************************************)
Stages ==
    /\ shut => cancelled
    /\ cancelled => closed
    /\ \A c \in Callers : caller[c] = "waiting" => closed

Alone ==
    guarded => \A c \in Callers :
        /\ caller[c] # "panic"
        /\ caller[c] \in {"checked", "waiting"} => holder = c
        /\ caller[c] = "checked" => ~shut

Drained == shut => \A w \in Workers : worker[w].pc \in {"off", "gone"}

StopInv == TypeOK /\ Stages /\ Alone /\ Drained

LEMMA StopInit == TypeOK /\ Init => StopInv
  BY DEF Init, StopInv, Stages, Alone, Drained, Doing

LEMMA StopStep == StopInv /\ TypeOK' /\ [Next]_vars => StopInv'
<1> SUFFICES ASSUME StopInv, TypeOK', [Next]_vars PROVE StopInv'
  OBVIOUS
<1> USE DEF StopInv
<1>1. ASSUME NEW w \in Workers, WorkerStep(w) PROVE StopInv'
  <2>1. UNCHANGED <<closed, cancelled, shut, caller, holder, guarded>>
    BY <1>1 DEF WorkerStep, Receive, Finish, Exit
  <2>2. Stages' /\ Alone'
    BY <2>1 DEF Stages, Alone
  <2>3. Drained'
    <3>1. CASE Receive(w) \/ Finish(w)
      BY <3>1, <2>1 DEF Receive, Finish, Is, Drained
    <3>2. CASE Exit(w)
      BY <3>2, <2>1 DEF Exit, Drained, Doing, TypeOK
    <3> QED BY <1>1, <3>1, <3>2 DEF WorkerStep
  <2> QED BY <2>2, <2>3
<1>2. ASSUME NEW c \in Callers, CallerStep(c) PROVE StopInv'
  <2>1. CASE Start(c)
    BY <2>1 DEF Start, Stages, Alone, Drained
  <2>2. CASE SubmitCheck(c)
    <3>1. Stages' /\ Drained'
      BY <2>2 DEF SubmitCheck, Enter, At, Stages, Drained, TypeOK
    <3>2. Alone'
      BY <2>2, PoolAssumption
         DEF SubmitCheck, Enter, At, Inside, Stages, Alone, TypeOK
    <3> QED BY <3>1, <3>2
  <2>3. CASE SubmitSend(c)
    <3>1. Stages' /\ Drained'
      BY <2>3 DEF SubmitSend, At, Return, Stages, Drained, TypeOK
    <3>2. Alone'
      BY <2>3 DEF SubmitSend, At, Return, Leave, Alone, TypeOK
    <3> QED BY <3>1, <3>2
  <2>4. CASE SubmitRefused(c)
    <3>1. Stages' /\ Drained'
      BY <2>4 DEF SubmitRefused, At, Return, Stages, Drained, TypeOK
    <3>2. Alone'
      BY <2>4 DEF SubmitRefused, At, Return, Leave, Alone, TypeOK
    <3> QED BY <3>1, <3>2
  <2>5. CASE SubmitPanics(c)
    <3>1. Stages' /\ Drained'
      BY <2>5 DEF SubmitPanics, At, Stages, Drained, TypeOK
    <3>2. ~guarded
      BY <2>5 DEF SubmitPanics, At, Alone
    <3>3. Alone'
      BY <2>5, <3>2 DEF SubmitPanics, Alone
    <3> QED BY <3>1, <3>3
  <2>6. CASE StopBegin(c)
    <3>1. Stages' /\ Drained'
      BY <2>6 DEF StopBegin, Enter, At, Stages, Drained, TypeOK
    <3>2. Alone'
      BY <2>6, PoolAssumption DEF StopBegin, Enter, At, Inside, Alone, TypeOK
    <3> QED BY <3>1, <3>2
  <2>7. CASE StopCancel(c)
    BY <2>7 DEF StopCancel, At, Stages, Alone, Drained
  <2>8. CASE StopFinish(c)
    <3>1. Stages'
      BY <2>8 DEF StopFinish, At, Return, Stages, TypeOK
    <3>2. Drained'
      BY <2>8 DEF StopFinish, Drained
    <3>3. ASSUME guarded, NEW d \in Callers, d # c PROVE caller[d] = "out"
      BY <2>8, <3>3 DEF StopFinish, At, Alone, TypeOK
    <3>4. Alone'
      BY <2>8, <3>3 DEF StopFinish, Return, Leave, Alone, TypeOK
    <3> QED BY <3>1, <3>2, <3>4
  <2> QED BY <1>2, <2>1, <2>2, <2>3, <2>4, <2>5, <2>6, <2>7, <2>8 DEF CallerStep
<1>3. CASE UNCHANGED vars
  BY <1>3 DEF vars, Stages, Alone, Drained
<1> QED BY <1>1, <1>2, <1>3 DEF Next, Over

LEMMA StopCorrect == Spec => []StopInv
  BY TypeCorrect, StopInit, StopStep, PTL DEF Spec

\* With the engine's runMutex around Submit and Stop no task is ever sent to a
\* closed channel, however many goroutines submit and stop.
THEOREM PanicFree == Spec => []NoPanic
<1>1. StopInv => NoPanic
  BY DEF StopInv, Alone, NoPanic
<1> QED BY <1>1, StopCorrect, PTL

\* Once Stop has closed the channel every goroutine has returned and none is
\* started again, with or without runMutex.
THEOREM StopLeavesNobody == Spec => []StopIsFinal
<1>1. StopInv => StopIsFinal
  BY DEF StopInv, Stages, Drained, StopIsFinal
<1> QED BY <1>1, StopCorrect, PTL

-----------------------------------------------------------------------------
(***************************************************************************)
(* Where an accepted task is.  The channel never holds a task twice, and   *)
(* no two goroutines have the same one.                                    *)
(***************************************************************************)
Elements(s) == {s[i] : i \in DOMAIN s}
NoRepeats(s) == \A i, j \in DOMAIN s : s[i] = s[j] => i = j

\* Sending a task that is not in the channel.
LEMMA Sent ==
  ASSUME NEW S, NEW s \in Seq(S), NEW t \in S
  PROVE  /\ Elements(Append(s, t)) = Elements(s) \cup {t}
         /\ NoRepeats(s) /\ t \notin Elements(s) => NoRepeats(Append(s, t))
<1> DEFINE a == Append(s, t)
<1>1. /\ a \in Seq(S) /\ Len(s) \in Nat
      /\ DOMAIN s = 1..Len(s) /\ DOMAIN a = 1..(Len(s) + 1)
      /\ \A i \in 1..Len(s) : a[i] = s[i]
      /\ a[Len(s) + 1] = t
  OBVIOUS
<1> HIDE DEF a
<1>2. Elements(a) = Elements(s) \cup {t}
  BY <1>1 DEF Elements
<1>3. NoRepeats(s) /\ t \notin Elements(s) => NoRepeats(a)
  BY <1>1 DEF Elements, NoRepeats
<1> QED BY <1>2, <1>3 DEF a

\* Receiving the first task of a channel that has no task twice.
LEMMA Received ==
  ASSUME NEW S, NEW s \in Seq(S), s # <<>>, NoRepeats(s)
  PROVE  /\ Elements(Tail(s)) = Elements(s) \ {Head(s)}
         /\ Head(s) \in Elements(s)
         /\ NoRepeats(Tail(s))
<1> DEFINE r == Tail(s)
<1>1. /\ Len(s) \in Nat \ {0}
      /\ DOMAIN s = 1..Len(s) /\ DOMAIN r = 1..(Len(s) - 1)
      /\ \A i \in 1..(Len(s) - 1) : r[i] = s[i + 1]
      /\ Head(s) = s[1]
  OBVIOUS
<1> HIDE DEF r
<1>2. Elements(r) \subseteq Elements(s) \ {Head(s)}
  BY <1>1 DEF Elements, NoRepeats
<1>3. ASSUME NEW x \in Elements(s), x # Head(s) PROVE x \in Elements(r)
  <2>1. PICK i \in 1..Len(s) : s[i] = x
    BY <1>1 DEF Elements
  <2>2. i - 1 \in 1..(Len(s) - 1) /\ r[i - 1] = x
    BY <1>1, <1>3, <2>1
  <2> QED BY <1>1, <2>2 DEF Elements
<1>4. Head(s) \in Elements(s)
  BY <1>1 DEF Elements
<1>5. NoRepeats(r)
  BY <1>1 DEF NoRepeats
<1> QED BY <1>2, <1>3, <1>4, <1>5 DEF r

LEMMA NoRepeatsCounts ==
  ASSUME NEW S, NEW s \in Seq(S), NoRepeats(s)
  PROVE  Cardinality(Elements(s)) = Len(s)
<1>0. Len(s) \in Nat /\ DOMAIN s = 1..Len(s)
  OBVIOUS
<1>1. s \in Bijection(1..Len(s), Elements(s))
  <2>1. s \in [1..Len(s) -> Elements(s)]
    BY <1>0 DEF Elements
  <2>2. s \in Injection(1..Len(s), Elements(s))
    BY <1>0, <2>1 DEF NoRepeats, Injection, IsInjective
  <2>3. s \in Surjection(1..Len(s), Elements(s))
    BY <1>0, <2>1 DEF Elements, Surjection
  <2> QED BY <2>2, <2>3 DEF Bijection
<1>2. ExistsBijection(1..Len(s), Elements(s))
  BY <1>1 DEF ExistsBijection
<1>3. IsFiniteSet(1..Len(s)) /\ Cardinality(1..Len(s)) = Len(s)
  BY <1>0, FS_Interval
<1> QED BY <1>2, <1>3, FS_Bijection

Placed ==
    /\ 1..accepted = Elements(chan) \cup Running \cup ended
    /\ Elements(chan) \cap Running = {}
    /\ Elements(chan) \cap ended = {}
    /\ Running \cap ended = {}
    /\ NoRepeats(chan)
    /\ \A v, w \in Workers :
         Busy(v) /\ Busy(w) /\ worker[v].task = worker[w].task => v = w

OnceInv == TypeInv /\ Placed

LEMMA OnceInit == TypeInv /\ Init => OnceInv
<1> SUFFICES ASSUME TypeInv, Init PROVE Placed
  BY DEF OnceInv
<1>1. \A w \in Workers : ~Busy(w)
  BY DEF Init, Busy, Doing
<1>2. Running = {} /\ Elements(chan) = {} /\ ended = {} /\ 1..accepted = {}
  BY <1>1 DEF Init, Running, Elements
<1>3. NoRepeats(chan)
  BY DEF Init, NoRepeats
<1> QED BY <1>1, <1>2, <1>3 DEF Placed

\* No goroutine is busy before Start: a Start changes nobody's task.
LEMMA OnceStep == OnceInv /\ TypeInv' /\ [Next]_vars => OnceInv'
<1> SUFFICES ASSUME OnceInv, TypeInv', [Next]_vars PROVE Placed'
  BY DEF OnceInv
<1> USE DEF OnceInv
<1>0. chan \in Seq(Tasks) /\ worker \in [Workers -> [pc : {"off", "free", "busy", "gone"},
                                                     task : 0..MaxTasks]]
  BY DEF TypeInv, TypeOK
<1>1. ASSUME NEW w \in Workers, Receive(w) PROVE Placed'
  <2> DEFINE t == Head(chan)
  <2>1. chan # <<>> /\ t \in Tasks /\ chan' = Tail(chan)
    BY <1>0, <1>1 DEF Receive
  <2>2. /\ Elements(chan') = Elements(chan) \ {t}
        /\ t \in Elements(chan)
        /\ NoRepeats(chan')
    BY <1>0, <2>1, Received DEF Placed
  <2>3. /\ ~Busy(w)
        /\ Busy(w)' /\ worker'[w].task = t
        /\ \A v \in Workers \ {w} : worker'[v] = worker[v]
    BY <1>0, <1>1 DEF Receive, Is, Busy
  <2>4. Running' = Running \cup {t}
    BY <2>1, <2>3 DEF Running, Busy
  <2>5. t \notin Running /\ t \notin ended
    BY <2>2 DEF Placed
  <2>6. \A v \in Workers : Busy(v) => worker[v].task # t
    BY <2>1, <2>5 DEF Running
  <2>7. \A u, v \in Workers :
          Busy(u)' /\ Busy(v)' /\ worker'[u].task = worker'[v].task => u = v
    BY <2>3, <2>6 DEF Placed, Busy
  <2> QED BY <1>1, <2>2, <2>4, <2>5, <2>7 DEF Placed, Receive
<1>2. ASSUME NEW w \in Workers, Finish(w) PROVE Placed'
  <2> DEFINE t == worker[w].task
  <2>1. Busy(w) /\ t \in Tasks
    BY <1>2 DEF Finish, Is, Busy, TypeInv, Assigned
  <2>2. /\ ~Busy(w)'
        /\ \A v \in Workers \ {w} : worker'[v] = worker[v]
    BY <1>0, <1>2 DEF Finish, Busy, Doing
  <2>3. \A v \in Workers \ {w} : Busy(v) => worker[v].task # t
    BY <2>1 DEF Placed
  <2>4. Running' = Running \ {t} /\ t \in Running
    BY <2>1, <2>2, <2>3 DEF Running, Busy
  <2>5. \A u, v \in Workers :
          Busy(u)' /\ Busy(v)' /\ worker'[u].task = worker'[v].task => u = v
    BY <2>2 DEF Placed, Busy
  <2> QED BY <1>2, <2>4, <2>5 DEF Placed, Finish
<1>3. ASSUME NEW w \in Workers, Exit(w) PROVE Placed'
  <2>1. \A v \in Workers : /\ Busy(v)' <=> Busy(v)
                           /\ Busy(v) => worker'[v] = worker[v]
    BY <1>0, <1>3 DEF Exit, Is, Busy, Doing
  <2>2. Running' = Running
    BY <2>1 DEF Running
  <2> QED BY <1>3, <2>1, <2>2 DEF Placed, Exit
<1>4. ASSUME NEW c \in Callers, Start(c) PROVE Placed'
  <2>1. \A v \in Workers : ~Busy(v) /\ ~Busy(v)'
    BY <1>4 DEF Start, Busy, Doing
  <2>2. Running' = Running
    BY <2>1 DEF Running
  <2> QED BY <1>4, <2>1, <2>2 DEF Placed, Start
<1>5. ASSUME NEW c \in Callers, SubmitSend(c) PROVE Placed'
  <2> DEFINE t == accepted + 1
  <2>1. /\ accepted \in Nat /\ accepted' = t /\ t \in Tasks
        /\ chan' = Append(chan, t) /\ UNCHANGED <<worker, ended>>
    BY <1>5 DEF SubmitSend, TypeInv, TypeOK, Tasks
  <2>2. t \notin Elements(chan) /\ t \notin Running /\ t \notin ended
    BY <2>1 DEF Placed
  <2>3. Elements(chan') = Elements(chan) \cup {t} /\ NoRepeats(chan')
    BY <1>0, <2>1, <2>2, Sent DEF Placed
  <2>4. 1..accepted' = (1..accepted) \cup {t}
    BY <2>1
  <2>5. Running' = Running /\ \A v \in Workers : Busy(v)' <=> Busy(v)
    BY <2>1 DEF Running, Busy
  <2> QED BY <2>1, <2>2, <2>3, <2>4, <2>5 DEF Placed
<1>6. ASSUME UNCHANGED <<chan, worker, accepted, ended>> PROVE Placed'
  <2>1. Running' = Running /\ \A v \in Workers : Busy(v)' <=> Busy(v)
    BY <1>6 DEF Running, Busy
  <2> QED BY <1>6, <2>1 DEF Placed
<1>7. ASSUME NEW c \in Callers,
             \/ SubmitCheck(c) \/ SubmitRefused(c) \/ SubmitPanics(c)
             \/ StopBegin(c) \/ StopCancel(c) \/ StopFinish(c)
      PROVE  Placed'
  BY <1>6, <1>7 DEF SubmitCheck, SubmitRefused, SubmitPanics,
                    StopBegin, StopCancel, StopFinish
<1>8. CASE UNCHANGED vars
  BY <1>6, <1>8 DEF vars
<1> QED
  BY <1>1, <1>2, <1>3, <1>4, <1>5, <1>7, <1>8
     DEF Next, WorkerStep, CallerStep, Over

\* An accepted task is never lost, copied or run twice: whatever Submit, Stop
\* and the goroutines do to each other, it is in the channel, with one
\* goroutine, or over.
THEOREM TasksOnce == Spec => []EachTaskOnce
<1>1. OnceInv => EachTaskOnce
  <2> SUFFICES ASSUME OnceInv PROVE EachTaskOnce
    OBVIOUS
  <2>1. Elements(chan) = Queued
    BY DEF Elements, Queued
  <2>2. Cardinality(Queued) = Len(chan)
    BY <2>1, NoRepeatsCounts DEF OnceInv, TypeInv, TypeOK, Placed
  <2>3. \A v, w \in Workers : Busy(v) /\ worker[v] = worker[w] => v = w
    BY DEF OnceInv, Placed, Busy
  <2> QED BY <2>1, <2>2, <2>3 DEF OnceInv, Placed, EachTaskOnce
<1> QED BY <1>1, TypeInvCorrect, OnceInit, OnceStep, PTL DEF Spec
=============================================================================
