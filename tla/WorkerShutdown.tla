---------------------------- MODULE WorkerShutdown ----------------------------
(***************************************************************************)
(* One worker process from its start to its end: the listener of the inbox *)
(* queue, which makes interrupted messages durable again                   *)
(* (runtime/shutdown-requeue-message-queue.ts), the scheduler              *)
(* (graphql/worker-scheduler.ts, WorkerJobRunner in worker-jobs.ts), the   *)
(* runtime that joins the two (graphql/worker-runtime.ts), and main        *)
(* (graphql/worker.ts), which closes what they use.                        *)
(*                                                                         *)
(* The queue that the listener delegates to is Fedify's: it deletes a      *)
(* message before it calls the handler, and stops taking messages once the *)
(* signal is aborted.  Promises that have settled are variables, and each  *)
(* continuation is an action of its own: the order of two that could run   *)
(* is left open.                                                           *)
(***************************************************************************)
EXTENDS Naturals, FiniteSets

CONSTANTS
    Message,      \* messages in the inbox
    Job,          \* jobs of the scheduler
    MaxFailures   \* bound: failed attempts to enqueue

ASSUME WorkerShutdownAssumption == MaxFailures \in Nat

VARIABLES
    requested,    \* a signal asked the process to shut down
    aborted,      \* the runtime's AbortController
    inbox,        \* the messages in the inbox table
    handling,     \* the call of #handle for each message
    handler,      \* handlerCompletion of each message
    requeue,      \* requeueCompletion of each message's last attempt
    failures,     \* attempts to enqueue that failed
    delegate,     \* the promise of Fedify's listener
    queue, scheduler, \* the promises of the two services
    jobs,         \* the jobs under way
    registered,   \* the cron handles have been created
    process       \* where runWorkerRuntime and main are

listener == <<inbox, handling, handler, requeue, failures, delegate>>
cron == <<scheduler, jobs, registered>>
runtime == <<requested, aborted, process>>
vars == <<listener, queue, cron, runtime>>

Settled == {"ended", "aborted", "failed"}
Active == {"received", "racing", "enqueueing", "retrying", "delaying"}

TypeOK ==
    /\ requested \in BOOLEAN /\ aborted \in BOOLEAN
    /\ requested => aborted
    /\ inbox \subseteq Message
    /\ handling \in [Message -> {"none", "returned", "thrown"} \cup Active]
    /\ handler \in [Message -> {"none", "running", "completed", "failed"}]
    /\ requeue \in [Message -> {"none", "sent", "requeued", "failed"}]
    /\ failures \in 0..MaxFailures
    /\ {delegate, queue} \subseteq {"running"} \cup Settled
    /\ scheduler \in {"running", "failing"} \cup Settled
    /\ jobs \subseteq Job /\ registered \in BOOLEAN
    /\ process \in {"running", "draining", "closing", "closed"}

Init ==
    /\ requested = FALSE /\ aborted = FALSE
    /\ inbox = Message
    /\ handling = [m \in Message |-> "none"]
    /\ handler = [m \in Message |-> "none"]
    /\ requeue = [m \in Message |-> "none"]
    /\ failures = 0
    /\ delegate = "running" /\ queue = "running" /\ scheduler = "running"
    /\ jobs = {} /\ registered = FALSE
    /\ process = "running"

-----------------------------------------------------------------------------
(* Fedify's queue, and the handler of a message. *)

Dequeue(m) ==
    /\ delegate = "running" /\ ~aborted /\ m \in inbox
    /\ inbox' = inbox \ {m}
    /\ handling' = [handling EXCEPT ![m] = "received"]
    /\ UNCHANGED <<handler, requeue, failures, delegate, queue, cron, runtime>>

HandlerEnds(m, how) ==
    /\ handler[m] = "running"
    /\ process = "closed" => how = "failed"
    /\ handler' = [handler EXCEPT ![m] = how]
    /\ UNCHANGED <<inbox, handling, requeue, failures, delegate, queue, cron, runtime>>

(* It stops when the signal is aborted, with or without an AbortError; it  *)
(* may also stop or fail by itself, and does not wait for handlers then.   *)
DelegateSettles(how) ==
    /\ delegate = "running"
    /\ \A m \in Message : handling[m] # "received"
    /\ how # "failed" =>
          \A m \in Message : handling[m] \in {"none", "returned", "thrown"}
    /\ delegate' = how
    /\ UNCHANGED <<inbox, handling, handler, requeue, failures, queue, cron, runtime>>

-----------------------------------------------------------------------------
(* #handle *)

Send(m) == requeue' = [requeue EXCEPT ![m] = "sent"]
Moves(m, to) == handling' = [handling EXCEPT ![m] = to]

Receive(m) ==
    /\ handling[m] = "received"
    /\ IF aborted
       THEN Moves(m, "enqueueing") /\ Send(m) /\ UNCHANGED handler
       ELSE /\ Moves(m, "racing") /\ UNCHANGED requeue
            /\ handler' = [handler EXCEPT ![m] = "running"]
    /\ UNCHANGED <<inbox, failures, delegate, queue, cron, runtime>>

(* The handler wins the race against the abort ... *)
Completes(m) ==
    /\ handling[m] = "racing" /\ handler[m] = "completed"
    /\ Moves(m, "returned")
    /\ UNCHANGED <<inbox, handler, requeue, failures, delegate, queue, cron, runtime>>

(* ... or fails before it: Fedify's own retries are in the handler.        *)
Throws(m) ==
    /\ handling[m] = "racing" /\ handler[m] = "failed" /\ ~aborted
    /\ Moves(m, "thrown")
    /\ UNCHANGED <<inbox, handler, requeue, failures, delegate, queue, cron, runtime>>

\* mutant: only when the handler has failed
Mutant_Interrupted(m) ==
    /\ handling[m] = "racing" /\ aborted /\ handler[m] = "failed"
    /\ Moves(m, "enqueueing") /\ Send(m)
    /\ UNCHANGED <<inbox, handler, failures, delegate, queue, cron, runtime>>
Interrupted(m) ==
    /\ handling[m] = "racing" /\ aborted
    /\ Moves(m, "enqueueing") /\ Send(m)
    /\ UNCHANGED <<inbox, handler, failures, delegate, queue, cron, runtime>>

(* An attempt to enqueue: a failed one may have stored the message.        *)
EnqueueSucceeds(m) ==
    /\ requeue[m] = "sent" /\ process # "closed"
    /\ requeue' = [requeue EXCEPT ![m] = "requeued"]
    /\ inbox' = inbox \cup {m}
    /\ UNCHANGED <<handling, handler, failures, delegate, queue, cron, runtime>>

EnqueueFails(m, stored) ==
    /\ requeue[m] = "sent"
    /\ \/ process = "closed" /\ ~stored /\ UNCHANGED failures
       \/ process # "closed" /\ failures < MaxFailures /\ failures' = failures + 1
    /\ requeue' = [requeue EXCEPT ![m] = "failed"]
    /\ inbox' = IF stored THEN inbox \cup {m} ELSE inbox
    /\ UNCHANGED <<handling, handler, delegate, queue, cron, runtime>>

(* #makeDurable: the message is safe once its handler completed, even if   *)
(* the attempt to enqueue is still under way, or once it is enqueued.      *)
\* mutant: once its handler ended in any way
Mutant_Safe(m) == handler[m] \in {"completed", "failed"} \/ requeue[m] = "requeued"
Safe(m) == handler[m] = "completed" \/ requeue[m] = "requeued"

MadeDurable(m) ==
    /\ \/ handling[m] = "enqueueing" /\ Safe(m)
       \/ handling[m] = "retrying" /\ handler[m] = "completed"
    /\ Moves(m, "returned")
    /\ UNCHANGED <<inbox, handler, requeue, failures, delegate, queue, cron, runtime>>

(* A failed attempt is repeated: at once when the handler that was waited  *)
(* for did not end in time, after the delay when it failed or none ran.    *)
NotRequeued(m) ==
    /\ handling[m] = "enqueueing" /\ requeue[m] = "failed"
    /\ handler[m] # "completed"
    /\ Moves(m, IF handler[m] = "running" THEN "retrying" ELSE "delaying")
    /\ UNCHANGED <<inbox, handler, requeue, failures, delegate, queue, cron, runtime>>

HandlerFailed(m) ==
    /\ handling[m] = "retrying" /\ handler[m] = "failed"
    /\ Moves(m, "delaying")
    /\ UNCHANGED <<inbox, handler, requeue, failures, delegate, queue, cron, runtime>>

Retry(m) ==
    /\ handling[m] \in {"retrying", "delaying"}
    /\ Moves(m, "enqueueing") /\ Send(m)
    /\ UNCHANGED <<inbox, handler, failures, delegate, queue, cron, runtime>>

(* The end of listen: also a listener whose delegate failed awaits the     *)
(* handlers that are still active.                                         *)
\* mutant: the delegate waits for the handlers
Mutant_Drained == TRUE
Drained == \A m \in Message : handling[m] \notin Active

QueueSettles ==
    /\ queue = "running" /\ delegate \in Settled /\ Drained
    /\ queue' = delegate
    /\ UNCHANGED <<listener, cron, runtime>>

-----------------------------------------------------------------------------
(* The scheduler: an abort stops its cron handles at once. *)

Stopped == aborted \/ scheduler # "running"

Register ==
    /\ scheduler = "running" /\ ~registered /\ ~aborted
    /\ \/ registered' = TRUE /\ UNCHANGED scheduler
       \/ scheduler' = "failing" /\ UNCHANGED registered
    /\ UNCHANGED <<listener, queue, jobs, runtime>>

(* A tick of a job whose last one is still under way is skipped; handles   *)
(* created before one that fails may fire too.                             *)
CronFires(j) ==
    /\ ~Stopped /\ j \notin jobs
    /\ jobs' = jobs \cup {j}
    /\ UNCHANGED <<listener, queue, scheduler, registered, runtime>>

(* A job that fails is logged. *)
JobEnds(j) ==
    /\ j \in jobs
    /\ jobs' = jobs \ {j}
    /\ UNCHANGED <<listener, queue, scheduler, registered, runtime>>

SchedulerSettles ==
    /\ scheduler \in {"running", "failing"} /\ Stopped /\ jobs = {}
    /\ scheduler' = IF scheduler = "failing" THEN "failed" ELSE "ended"
    /\ UNCHANGED <<listener, queue, jobs, registered, runtime>>

-----------------------------------------------------------------------------
(* runWorkerRuntime, and the end of main. *)

(* The handlers of signals are removed when the runtime has ended.         *)
\* mutant: the controller is not aborted
Mutant_RequestShutdown ==
    /\ process \in {"running", "draining"} /\ ~requested
    /\ requested' = TRUE
    /\ UNCHANGED <<listener, queue, cron, aborted, process>>
RequestShutdown ==
    /\ process \in {"running", "draining"} /\ ~requested
    /\ requested' = TRUE /\ aborted' = TRUE
    /\ UNCHANGED <<listener, queue, cron, process>>

(* The first service that settles, however it does, aborts the other; the  *)
(* errors that are reported in the end are left out.                       *)
FirstSettles ==
    /\ process = "running" /\ (queue \in Settled \/ scheduler \in Settled)
    /\ aborted' = TRUE
    /\ process' = "draining"
    /\ UNCHANGED <<listener, queue, cron, requested>>

Join ==
    /\ process = "draining" /\ queue \in Settled /\ scheduler \in Settled
    /\ process' = "closing"
    /\ UNCHANGED <<listener, queue, cron, requested, aborted>>

(* The heartbeat, the runtime's resources and the logs, in this order.     *)
Close ==
    /\ process = "closing"
    /\ process' = "closed"
    /\ UNCHANGED <<listener, queue, cron, requested, aborted>>

Continuation(m) ==
    \/ Receive(m) \/ Completes(m) \/ Throws(m) \/ Interrupted(m)
    \/ MadeDurable(m) \/ NotRequeued(m) \/ HandlerFailed(m) \/ Retry(m)

Next ==
    \/ \E m \in Message :
        \/ Dequeue(m) \/ Continuation(m) \/ EnqueueSucceeds(m)
        \/ \E how \in {"completed", "failed"} : HandlerEnds(m, how)
        \/ \E b \in BOOLEAN : EnqueueFails(m, b)
    \/ \E how \in Settled : DelegateSettles(how)
    \/ QueueSettles \/ Register \/ SchedulerSettles
    \/ \E j \in Job : CronFires(j) \/ JobEnds(j)
    \/ RequestShutdown
    \/ FirstSettles \/ Join \/ Close

Spec == Init /\ [][Next]_vars

(* Promises that have settled are continued, timers fire, jobs end, an     *)
(* attempt to enqueue gets an answer, and Fedify's listener stops when the *)
(* signal is aborted; but a handler may run forever.                       *)
Fairness ==
    /\ \A m \in Message :
        /\ WF_vars(Continuation(m))
        /\ WF_vars(EnqueueSucceeds(m))
    /\ WF_vars(aborted /\ \E how \in {"ended", "aborted"} : DelegateSettles(how))
    /\ WF_vars(QueueSettles) /\ WF_vars(SchedulerSettles)
    /\ \A j \in Job : WF_vars(JobEnds(j))
    /\ WF_vars(FirstSettles)
    /\ WF_vars(Join) /\ WF_vars(Close)

FairSpec == Spec /\ Fairness

-----------------------------------------------------------------------------
(* Properties. *)

(* No message is lost to a shutdown: what the queue has deleted is handled *)
(* to the end, or back in the inbox, or in the hands of a call that the    *)
(* process still waits for.  Only a handler that failed while nothing was  *)
(* being shut down has thrown its message back at Fedify.                  *)
NothingLost ==
    \A m \in Message :
        \/ m \in inbox
        \/ handler[m] = "completed"
        \/ handling[m] = "thrown"
        \/ handling[m] \in Active /\ process \in {"running", "draining"}

(* Nothing is closed under anything that needs it: no job of the scheduler *)
(* and no message that is not durable is under way, whichever service      *)
(* stopped, or failed, first.                                              *)
ClosesAfterDrain ==
    process \in {"closing", "closed"} =>
        jobs = {} /\ \A m \in Message : handling[m] \notin Active

(* A shutdown that was requested ends, however long handlers run and       *)
(* although attempts to make their messages durable fail for a while.      *)
ShutdownEnds == requested ~> process = "closed"

=============================================================================
