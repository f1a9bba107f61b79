\* Two goroutines, three callers that may each submit or stop; more tasks than
\* the channel and the goroutines hold together.
SPECIFICATION FairSpec
CONSTANTS
    Workers = {w1, w2}
    Callers = {a, b, c}
    Nobody = Nobody
    MaxTasks = 7
INVARIANTS TypeOK NoPanic StopIsFinal EachTaskOnce
PROPERTIES StopReturns AcceptedRuns
