---------------------------- MODULE JobLifecycle ----------------------------
(***************************************************************************)
(* What the queue of sync jobs promises of each job, with no tables,       *)
(* workers, batches or failures in it: attempts follow one another, each   *)
(* failed attempt is counted exactly once, an attempt that was lost with   *)
(* its process is not counted, the attempt that reaches the limit is the   *)
(* last, and what has ended stays ended.                                   *)
(***************************************************************************)
EXTENDS Naturals

CONSTANTS Jobs, MaxRetries

VARIABLE life       \* life[j]: the state of job j and its failed attempts

Lives == [state : {"ABSENT", "PENDING", "RUNNING", "SUCCESS", "DEAD_LETTER"},
          retries : 0..(MaxRetries - 1)]

Unborn == [state |-> "ABSENT", retries |-> 0]

LifecycleInit == life = [j \in Jobs |-> Unborn]

Becomes(j, from, to) ==
    life[j].state = from /\ life'[j] = [life[j] EXCEPT !.state = to]

Insert(j)  == Becomes(j, "ABSENT", "PENDING")
Begin(j)   == Becomes(j, "PENDING", "RUNNING")
Succeed(j) == Becomes(j, "RUNNING", "SUCCESS")
Lose(j)    == Becomes(j, "RUNNING", "PENDING")

Retry(j) ==
    /\ life[j].state = "RUNNING"
    /\ life[j].retries + 1 < MaxRetries
    /\ life'[j] = [state |-> "PENDING", retries |-> life[j].retries + 1]

Bury(j) ==
    /\ life[j].retries + 1 = MaxRetries
    /\ Becomes(j, "RUNNING", "DEAD_LETTER")

\* One statement may claim or recover several jobs at once.
LifecycleNext ==
    /\ life' \in [Jobs -> Lives]
    /\ \A j \in Jobs :
         \/ life'[j] = life[j]
         \/ Insert(j) \/ Begin(j) \/ Succeed(j) \/ Lose(j) \/ Retry(j) \/ Bury(j)

LifecycleSpec == LifecycleInit /\ [][LifecycleNext]_life
=============================================================================
