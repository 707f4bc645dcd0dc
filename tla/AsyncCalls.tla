----------------------------- MODULE AsyncCalls -----------------------------
(***************************************************************************)
(* The asynchronous call machinery of squid: AsyncCallQueue, the intrusive *)
(* singly linked list of scheduled calls (src/base/AsyncCallQueue.cc), and *)
(* the AsyncJob protocol that every call to a job goes through            *)
(* (src/base/AsyncJob.cc): canBeCalled, callStart, the method, callEnd,   *)
(* and the out-of-band mustStop and deleteThis.                            *)
(*                                                                         *)
(* The event loop is single-threaded.  Code runs either in a call (stack  *)
(* non-empty: the jobs whose methods are on the C++ stack, innermost      *)
(* last) or at the top level of an event handler outside fire().  While   *)
(* fire() drains the queue nothing else runs between two calls.  Each     *)
(* step below is a piece of code that runs without yielding.              *)
(*                                                                         *)
(* AsyncCall::make and the job dialers are not under src/: they are       *)
(* modelled from spec.md 4.A (a call to a job that is gone is cancelled,  *)
(* otherwise canBeCalled, callStart, the method, callEnd).                *)
(***************************************************************************)
EXTENDS Naturals, Sequences, FiniteSets

CONSTANTS
    Jobs,       \* job objects
    MaxCalls    \* calls created in one behaviour

VARIABLES
    q,        \* AsyncCallQueue: [head, tail, nxt] with nxt[c] = c->theNext
    target,   \* target[c]: the job that call c dials
    ncalls,   \* calls created so far; call ids are 1..ncalls
    firing,   \* the event loop is inside AsyncCallQueue::fire()
    job,      \* "none" (not created), "alive", "deleted"
    stop,     \* stop[j]: stopReason != NULL
    doneAll,  \* doneAll[j]: the job's own completion test
    stack,    \* jobs with a call in progress (inCall != NULL), innermost last
    outcome   \* history: "unused", "queued", "made" or "cancelled"

vars == <<q, target, ncalls, firing, job, stop, doneAll, stack, outcome>>

Nil == 0
CallIds == 1..MaxCalls

SeqSet(s) == {s[i] : i \in 1..Len(s)}

\* The queue as the list it links: from theHead along theNext.
RECURSIVE Walk(_, _)
Walk(c, k) == IF c = Nil \/ k = 0 THEN <<>> ELSE <<c>> \o Walk(q.nxt[c], k - 1)

Queued == Walk(q.head, MaxCalls)

\* Bug variant: appending does not move theTail.
scheduleKeepsTail(s, c) ==
    IF s.head # Nil THEN [s EXCEPT !.nxt[s.tail] = c]
    ELSE [s EXCEPT !.head = c, !.tail = c]

\* AsyncCallQueue::schedule: append at theTail, or start the list.
schedule(s, c) ==
    IF s.head # Nil THEN [s EXCEPT !.nxt[s.tail] = c, !.tail = c]
    ELSE [s EXCEPT !.head = c, !.tail = c]

\* The first half of AsyncCallQueue::fireNext: unlink theHead.
unlinkHead(s) ==
    LET c == s.head
    IN  [s EXCEPT !.head = s.nxt[c], !.nxt[c] = Nil,
                  !.tail = IF s.tail = c THEN Nil ELSE s.tail]

\* AsyncJob::done: stopReason overrides everything else.
done(j) == stop[j] \/ doneAll[j]

\* Code may run: inside a call, or in an event handler outside fire().
Running == stack # <<>> \/ ~firing

\* CallJobHere / ScheduleCallHere: create a call to j and schedule it.
ScheduleCall(j) ==
    /\ Running
    /\ ncalls < MaxCalls
    /\ LET c == ncalls + 1
       IN  /\ ncalls' = c
           /\ target' = [target EXCEPT ![c] = j]
           /\ q' = schedule(q, c)
           /\ outcome' = [outcome EXCEPT ![c] = "queued"]

\* AsyncJob::Start: a new job; its start() is scheduled.
Start(j) ==
    /\ job[j] = "none"
    /\ job' = [job EXCEPT ![j] = "alive"]
    /\ ScheduleCall(j)
    /\ UNCHANGED <<firing, stop, doneAll, stack>>

\* Code holding a (possibly stale) CbcPointer schedules a call to j.
CallJob(j) ==
    /\ job[j] # "none"
    /\ ScheduleCall(j)
    /\ UNCHANGED <<firing, job, stop, doneAll, stack>>

\* The event loop calls fire() with calls queued.
fire ==
    /\ ~firing /\ stack = <<>> /\ q.head # Nil
    /\ firing' = TRUE
    /\ UNCHANGED <<q, target, ncalls, job, stop, doneAll, stack, outcome>>

\* Bug variant: the loop stops while one call is still queued.
fireReturnsAtTail ==
    /\ firing /\ stack = <<>> /\ (q.head = Nil \/ q.head = q.tail)
    /\ firing' = FALSE
    /\ UNCHANGED <<q, target, ncalls, job, stop, doneAll, stack, outcome>>

\* The loop of fire() finds the queue empty and returns.
fireReturns ==
    /\ firing /\ stack = <<>> /\ q.head = Nil
    /\ firing' = FALSE
    /\ UNCHANGED <<q, target, ncalls, job, stop, doneAll, stack, outcome>>

\* Bug variant: canBeCalled does not refuse a job already in a call.
DialsReentrant(j) == job[j] = "alive"

\* AsyncCall::make through the job dialer: the call is made only when the
\* job still exists and AsyncJob::canBeCalled accepts it (no call of the
\* job in progress); callStart then sets inCall.
Dials(j) == job[j] = "alive" /\ j \notin SeqSet(stack)

\* AsyncCallQueue::fireNext: unlink theHead and make the call.
fireNext ==
    /\ firing /\ stack = <<>> /\ q.head # Nil
    /\ LET c == q.head
           j == target[c]
       IN  /\ q' = unlinkHead(q)
           /\ IF Dials(j)
              THEN /\ stack' = Append(stack, j)
                   /\ outcome' = [outcome EXCEPT ![c] = "made"]
              ELSE /\ outcome' = [outcome EXCEPT ![c] = "cancelled"]
                   /\ UNCHANGED stack
    /\ UNCHANGED <<target, ncalls, firing, job, stop, doneAll>>

\* Code creates a call to j and calls its make() synchronously instead of
\* scheduling it ("comm used to do that"): refused, and cancelled, while
\* j is in a call or gone.
DirectCall(j) ==
    /\ Running
    /\ job[j] # "none"
    /\ ncalls < MaxCalls
    /\ LET c == ncalls + 1
       IN  /\ ncalls' = c
           /\ target' = [target EXCEPT ![c] = j]
           /\ IF Dials(j)
              THEN /\ stack' = Append(stack, j)
                   /\ outcome' = [outcome EXCEPT ![c] = "made"]
              ELSE /\ outcome' = [outcome EXCEPT ![c] = "cancelled"]
                   /\ UNCHANGED stack
    /\ UNCHANGED <<q, firing, job, stop, doneAll>>

\* The method of the innermost call reaches the job's own done condition:
\* doneAll() (AsyncJob.cc:124-127, overridden by kids) turns true.
Finish ==
    /\ stack # <<>>
    /\ doneAll' = [doneAll EXCEPT ![stack[Len(stack)]] = TRUE]
    /\ UNCHANGED <<q, target, ncalls, firing, job, stop, stack, outcome>>

\* AsyncJob::mustStop, from any code: records the first reason.  Outside
\* a call of j nothing more happens: the job stalls until a later call.
mustStop(j) ==
    /\ Running
    /\ job[j] = "alive"
    /\ stop' = [stop EXCEPT ![j] = TRUE]
    /\ UNCHANGED <<q, target, ncalls, firing, job, doneAll, stack, outcome>>

\* Bug variant: done() consults only the job's own doneAll, not stopReason.
callEndIgnoresStop(thrown) ==
    /\ stack # <<>>
    /\ LET j == stack[Len(stack)]
       IN  /\ stop' = [stop EXCEPT ![j] = @ \/ thrown]
           /\ job' = [job EXCEPT ![j] = IF doneAll[j] THEN "deleted" ELSE @]
    /\ stack' = SubSeq(stack, 1, Len(stack) - 1)
    /\ UNCHANGED <<q, target, ncalls, firing, doneAll, outcome>>

\* AsyncJob::callEnd for the innermost call: a done() job runs swanSong
\* and is deleted, otherwise inCall is cleared.  With callException the
\* method threw and mustStop("exception") is recorded first.
callEnd(thrown) ==
    /\ stack # <<>>
    /\ LET j == stack[Len(stack)]
       IN  /\ stop' = [stop EXCEPT ![j] = @ \/ thrown]
           /\ job' = [job EXCEPT ![j] = IF stop'[j] \/ doneAll[j] THEN "deleted" ELSE @]
    /\ stack' = SubSeq(stack, 1, Len(stack) - 1)
    /\ UNCHANGED <<q, target, ncalls, firing, doneAll, outcome>>

\* Bug variant: the in-call test is skipped and the job deleted at once.
deleteThisIgnoresInCall(j) ==
    /\ Running
    /\ job[j] = "alive"
    /\ stop' = [stop EXCEPT ![j] = TRUE]
    /\ job' = [job EXCEPT ![j] = "deleted"]
    /\ UNCHANGED <<q, target, ncalls, firing, doneAll, stack, outcome>>

\* AsyncJob::deleteThis: record the reason; in a call of j the call
\* wrapper deletes it, otherwise a fake call goes through callEnd, where
\* done() holds, and the job is deleted now.
deleteThis(j) ==
    /\ Running
    /\ job[j] = "alive"
    /\ stop' = [stop EXCEPT ![j] = TRUE]
    /\ job' = IF j \in SeqSet(stack) THEN job ELSE [job EXCEPT ![j] = "deleted"]
    /\ UNCHANGED <<q, target, ncalls, firing, doneAll, stack, outcome>>

\* Every call is created: the event loop has nothing left to do.
Idle ==
    /\ ncalls = MaxCalls /\ ~firing /\ stack = <<>> /\ q.head = Nil
    /\ UNCHANGED vars

Init ==
    /\ q = [head |-> Nil, tail |-> Nil, nxt |-> [c \in CallIds |-> Nil]]
    /\ target = [c \in CallIds |-> CHOOSE j \in Jobs : TRUE]
    /\ ncalls = 0
    /\ firing = FALSE
    /\ job = [j \in Jobs |-> "none"]
    /\ stop = [j \in Jobs |-> FALSE]
    /\ doneAll = [j \in Jobs |-> FALSE]
    /\ stack = <<>>
    /\ outcome = [c \in CallIds |-> "unused"]

Next ==
    \/ \E j \in Jobs : Start(j) \/ CallJob(j) \/ DirectCall(j) \/ mustStop(j) \/ deleteThis(j)
    \/ fire \/ fireNext \/ fireReturns
    \/ Finish
    \/ \E thrown \in BOOLEAN : callEnd(thrown)
    \/ Idle

\* The event loop calls fire() on every iteration, between any two event
\* handlers, so fire is strongly fair; fire() loops until the queue is
\* empty, and a method returns or throws.
Fairness ==
    /\ SF_vars(fire) /\ WF_vars(fireNext) /\ WF_vars(fireReturns)
    /\ WF_vars(\E thrown \in BOOLEAN : callEnd(thrown))

Spec == Init /\ [][Next]_vars /\ Fairness

TypeOK ==
    /\ q.head \in CallIds \cup {Nil} /\ q.tail \in CallIds \cup {Nil}
    /\ q.nxt \in [CallIds -> CallIds \cup {Nil}]
    /\ target \in [CallIds -> Jobs]
    /\ ncalls \in 0..MaxCalls
    /\ firing \in BOOLEAN
    /\ job \in [Jobs -> {"none", "alive", "deleted"}]
    /\ stop \in [Jobs -> BOOLEAN] /\ doneAll \in [Jobs -> BOOLEAN]
    \* inCall is one pointer per job: a job is in at most one call.
    /\ stack \in Seq(Jobs)
    /\ \A i, k \in 1..Len(stack) : i # k => stack[i] # stack[k]
    /\ outcome \in [CallIds -> {"unused", "queued", "made", "cancelled"}]

\* The linked list with its tail pointer behaves as the FIFO of spec.md
\* 4.A: schedule appends, fireNext takes the oldest call.
AF == INSTANCE CallFifo WITH pending <- Queued

\* The queue implements the abstract FIFO.
QueueIsFifo == AF!Spec

\* No job is deleted while one of its methods is still on the stack, and
\* no method runs on a deleted job: deleteThis, mustStop and a throw
\* inside nested calls all leave deletion to the outermost callEnd.
NoCallIntoDeadJob ==
    \A i \in 1..Len(stack) : job[stack[i]] = "alive"

\* Every scheduled call is eventually made or cancelled: fire() drains
\* the queue, including the calls scheduled while it runs.
CallsDelivered ==
    \A c \in CallIds : outcome[c] = "queued" ~> outcome[c] \in {"made", "cancelled"}

\* A job told to stop (mustStop, deleteThis in a call, or an exception)
\* that still has a call queued is eventually deleted.  mustStop outside a
\* call only records the reason ("will STALL"): it is the callEnd of that
\* later call, where done() sees stopReason, that reaps the job.
StoppedJobReaped ==
    \A j \in Jobs, c \in CallIds :
        (job[j] = "alive" /\ stop[j] /\ outcome[c] = "queued" /\ target[c] = j)
            ~> job[j] = "deleted"
=============================================================================
