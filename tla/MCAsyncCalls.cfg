\* Two jobs, five calls: nested direct calls, stops and deletions in and
\* out of calls, and calls scheduled while fire() drains the queue.
CONSTANTS
    j1 = j1
    j2 = j2
    Jobs <- MCJobs
    MaxCalls = 5
SPECIFICATION Spec
INVARIANTS
    TypeOK
    NoCallIntoDeadJob
PROPERTIES
    QueueIsFifo
    CallsDelivered
    StoppedJobReaped
