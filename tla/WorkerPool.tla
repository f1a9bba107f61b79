----------------------------- MODULE WorkerPool -----------------------------
(***************************************************************************)
(* internal/sync/worker_pool.go: a fixed set of goroutines reading tasks   *)
(* from a bounded channel, Submit that never blocks, and Stop that cancels *)
(* the pool's context, waits for the goroutines and closes the channel.    *)
(*                                                                         *)
(* Submit checks `closed' under the pool's mutex and sends after releasing *)
(* it, so a Stop may run in between.  The engine calls both with its       *)
(* runMutex held; guarded says whether the callers modelled do.            *)
(***************************************************************************)
EXTENDS Naturals, Sequences, FiniteSets

CONSTANTS
    Workers,    \* the pool's goroutines
    Callers,    \* goroutines that call Start, Submit and Stop
    Nobody,     \* the holder of a free runMutex
    MaxTasks    \* bound: calls of Submit

ASSUME PoolAssumption ==
    /\ IsFiniteSet(Workers)
    /\ Nobody \notin Callers
    /\ MaxTasks \in Nat

VARIABLES
    closed,     \* p.closed
    cancelled,  \* p.ctx is done
    shut,       \* p.taskChan is closed
    chan,       \* the tasks in p.taskChan, numbered in the order they were sent
    worker,     \* a goroutine: off, free (in its select), busy with a task, gone
    caller,     \* a caller: out, checked (in Submit), waiting (in Stop), panic
    guarded,    \* the callers take the engine's runMutex around each call
    holder,     \* who holds the engine's runMutex
    calls,      \* calls of Submit so far
    accepted,   \* how many tasks Submit has answered true for
    ended       \* the tasks that have run to their end

vars == <<closed, cancelled, shut, chan, worker, caller, guarded, holder, calls,
          accepted, ended>>

Capacity == 2 * Cardinality(Workers)
Tasks == 1..MaxTasks
Doing(pc) == [pc |-> pc, task |-> 0]
Busy(w) == worker[w].pc = "busy"
Running == {t \in Tasks : \E w \in Workers : Busy(w) /\ worker[w].task = t}
Queued == {chan[i] : i \in DOMAIN chan}

\* Type invariant.
TypeOK ==
    /\ closed \in BOOLEAN /\ cancelled \in BOOLEAN /\ shut \in BOOLEAN
    /\ chan \in Seq(Tasks) /\ Len(chan) <= Capacity
    /\ worker \in [Workers -> [pc : {"off", "free", "busy", "gone"},
                             task : 0..MaxTasks]]
    /\ caller \in [Callers -> {"out", "checked", "waiting", "panic"}]
    /\ guarded \in BOOLEAN
    /\ holder \in Callers \cup {Nobody}
    /\ calls \in 0..MaxTasks
    /\ accepted \in 0..calls
    /\ ended \in SUBSET Tasks

Init ==
    /\ closed = FALSE /\ cancelled = FALSE /\ shut = FALSE
    /\ chan = <<>>
    /\ worker = [w \in Workers |-> Doing("off")]
    /\ caller = [c \in Callers |-> "out"]
    /\ guarded \in BOOLEAN
    /\ holder = Nobody
    /\ calls = 0
    /\ accepted = 0
    /\ ended = {}

\* A panic ends the process: nobody takes another step.
Dead == \E c \in Callers : caller[c] = "panic"
At(c, pc) == ~Dead /\ caller[c] = pc
Is(w, pc) == ~Dead /\ worker[w].pc = pc

-----------------------------------------------------------------------------
(* The caller's side.  A call begins with runMutex, when there is one, and *)
(* gives it back when it returns.                                          *)

Enter(c) == At(c, "out") /\ (guarded => holder = Nobody)
\* Mutant: runMutex is not taken.
InsideFree(c) == UNCHANGED holder
Inside(c) == holder' = IF guarded THEN c ELSE holder
Leave(c) == holder' = IF guarded THEN Nobody ELSE holder
Return(c) == caller' = [caller EXCEPT ![c] = "out"] /\ Leave(c)

Start(c) ==
    /\ Enter(c)
    /\ ~closed
    /\ \A w \in Workers : worker[w].pc = "off"    \* e.running is false
    /\ worker' = [w \in Workers |-> Doing("free")]
    /\ UNCHANGED <<closed, cancelled, shut, chan, caller, holder, calls,
                   accepted, ended, guarded>>

\* Submit up to the release of the pool's mutex.
SubmitCheck(c) ==
    /\ Enter(c)
    /\ calls < MaxTasks /\ ~closed
    /\ caller' = [caller EXCEPT ![c] = "checked"]
    /\ Inside(c)
    /\ calls' = calls + 1
    /\ UNCHANGED <<closed, cancelled, shut, chan, worker, accepted, ended,
                   guarded>>

\* Submit on a closed pool changes nothing and answers false.

\* The select of Submit.  Its ready cases are chosen at random, and a send
\* to a closed channel is ready and panics; default answers false when no
\* other case is ready.
\* Mutant: the channel has no bound.
SubmitSendUnbounded(c) ==
    /\ At(c, "checked")
    /\ ~shut
    /\ accepted' = accepted + 1
    /\ chan' = Append(chan, accepted')
    /\ Return(c)
    /\ UNCHANGED <<closed, cancelled, shut, worker, calls, ended, guarded>>

SubmitSend(c) ==
    /\ At(c, "checked")
    /\ ~shut /\ Len(chan) < Capacity
    /\ accepted' = accepted + 1
    /\ chan' = Append(chan, accepted')
    /\ Return(c)
    /\ UNCHANGED <<closed, cancelled, shut, worker, calls, ended, guarded>>

SubmitRefused(c) ==
    /\ At(c, "checked")
    /\ cancelled \/ (~shut /\ Len(chan) = Capacity)
    /\ Return(c)
    /\ UNCHANGED <<closed, cancelled, shut, chan, worker, calls, accepted,
                   ended, guarded>>

SubmitPanics(c) ==
    /\ At(c, "checked")
    /\ shut
    /\ caller' = [caller EXCEPT ![c] = "panic"]
    /\ UNCHANGED <<closed, cancelled, shut, chan, worker, holder, calls,
                   accepted, ended, guarded>>

\* Stop: the first caller sets closed, cancels and waits; the others return.
StopBegin(c) ==
    /\ Enter(c)
    /\ ~closed
    /\ closed' = TRUE
    /\ caller' = [caller EXCEPT ![c] = "waiting"]
    /\ Inside(c)
    /\ UNCHANGED <<cancelled, shut, chan, worker, calls, accepted, ended,
                   guarded>>

StopCancel(c) ==
    /\ At(c, "waiting") /\ ~cancelled
    /\ cancelled' = TRUE
    /\ UNCHANGED <<closed, shut, chan, worker, caller, holder, calls,
                   accepted, ended, guarded>>

\* Mutant: Stop does not wait for the goroutines.
StopFinishAtOnce(c) ==
    /\ At(c, "waiting") /\ cancelled
    /\ shut' = TRUE
    /\ Return(c)
    /\ UNCHANGED <<closed, cancelled, chan, worker, calls, accepted, ended,
                   guarded>>

\* wg.Wait has returned: every goroutine started has returned.
StopFinish(c) ==
    /\ At(c, "waiting") /\ cancelled
    /\ \A w \in Workers : worker[w].pc \in {"off", "gone"}
    /\ shut' = TRUE
    /\ Return(c)
    /\ UNCHANGED <<closed, cancelled, chan, worker, calls, accepted, ended,
                   guarded>>

-----------------------------------------------------------------------------
(* worker: its select takes a ready case at random, so a goroutine may go   *)
(* on with queued tasks after the context is cancelled.                    *)

Receive(w) ==
    /\ Is(w, "free")
    /\ chan # <<>>
    /\ worker' = [worker EXCEPT ![w] = [pc |-> "busy", task |-> Head(chan)]]
    /\ chan' = Tail(chan)
    /\ UNCHANGED <<closed, cancelled, shut, caller, holder, calls, accepted,
                   ended, guarded>>

\* Mutant: a task goes back to the channel when it ends.
FinishAgain(w) ==
    /\ Is(w, "busy")
    /\ ended' = ended \cup {worker[w].task}
    /\ chan' = Append(chan, worker[w].task)
    /\ worker' = [worker EXCEPT ![w] = Doing("free")]
    /\ UNCHANGED <<closed, cancelled, shut, caller, holder, calls, accepted,
                   guarded>>

Finish(w) ==
    /\ Is(w, "busy")
    /\ ended' = ended \cup {worker[w].task}
    /\ worker' = [worker EXCEPT ![w] = Doing("free")]
    /\ UNCHANGED <<closed, cancelled, shut, chan, caller, holder, calls,
                   accepted, guarded>>

\* Mutants: the goroutine does not watch the context; it leaves when it finds
\* no task.
ExitWhenShut(w) ==
    /\ Is(w, "free")
    /\ shut /\ chan = <<>>
    /\ worker' = [worker EXCEPT ![w] = Doing("gone")]
    /\ UNCHANGED <<closed, cancelled, shut, chan, caller, holder, calls,
                   accepted, ended, guarded>>

ExitWhenEmpty(w) ==
    /\ Is(w, "free")
    /\ cancelled \/ chan = <<>>
    /\ worker' = [worker EXCEPT ![w] = Doing("gone")]
    /\ UNCHANGED <<closed, cancelled, shut, chan, caller, holder, calls,
                   accepted, ended, guarded>>

Exit(w) ==
    /\ Is(w, "free")
    /\ cancelled \/ (shut /\ chan = <<>>)
    /\ worker' = [worker EXCEPT ![w] = Doing("gone")]
    /\ UNCHANGED <<closed, cancelled, shut, chan, caller, holder, calls,
                   accepted, ended, guarded>>

WorkerStep(w) == Receive(w) \/ Finish(w) \/ Exit(w)

CallerStep(c) ==
    \/ Start(c)
    \/ SubmitCheck(c) \/ SubmitSend(c) \/ SubmitRefused(c) \/ SubmitPanics(c)
    \/ StopBegin(c) \/ StopCancel(c) \/ StopFinish(c)

\* After a panic, and after Stop, there is nothing left to do.
Over ==
    /\ Dead \/ (shut /\ \A c \in Callers : caller[c] = "out")
    /\ UNCHANGED vars

Next ==
    \/ \E w \in Workers : WorkerStep(w)
    \/ \E c \in Callers : CallerStep(c)
    \/ Over

Spec == Init /\ [][Next]_vars

\* Goroutines are scheduled, tasks end, and a call in progress goes on.
Fairness ==
    /\ \A w \in Workers : WF_vars(WorkerStep(w))
    /\ \A c \in Callers :
         WF_vars(SubmitSend(c) \/ SubmitRefused(c) \/ StopCancel(c) \/ StopFinish(c))

FairSpec == Spec /\ Fairness

-----------------------------------------------------------------------------
(* Properties.                                                             *)

\* Submit never sends to a closed channel, given callers that hold runMutex as
\* the engine's do: without it a Stop may close the channel between the two
\* halves of Submit, and the select does not help (the comment above Submit).
NoPanic == guarded => \A c \in Callers : caller[c] # "panic"

\* Stop returns with no goroutine left, and none starts a task afterwards:
\* shutdown may release what the tasks use.
StopIsFinal ==
    shut => /\ cancelled
            /\ \A w \in Workers : worker[w].pc \in {"off", "gone"}

\* An accepted task is in the channel, with exactly one goroutine, or over,
\* and never in two of these places or taken twice.
EachTaskOnce ==
    /\ 1..accepted = Queued \cup Running \cup ended
    /\ Queued \cap Running = {} /\ Queued \cap ended = {} /\ Running \cap ended = {}
    /\ Cardinality(Queued) = Len(chan)
    /\ \A v, w \in Workers : Busy(v) /\ worker[v] = worker[w] => v = w

\* Stop returns, whatever is queued and whoever was inside Submit.
StopReturns ==
    \A c \in Callers : caller[c] = "waiting" ~> caller[c] = "out" \/ Dead

\* A pool that was started and is never stopped runs what it accepted.
AcceptedRuns ==
    \A t \in Tasks :
        t <= accepted /\ (\E w \in Workers : worker[w].pc # "off")
            ~> t \in ended \/ closed \/ Dead
=============================================================================
