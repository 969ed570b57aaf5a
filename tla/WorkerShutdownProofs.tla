------------------------- MODULE WorkerShutdownProofs -------------------------
(***************************************************************************)
(* Proofs about the end of a worker process, for any messages and jobs and *)
(* any number of failed attempts to enqueue.                               *)
(***************************************************************************)
EXTENDS WorkerShutdown, TLAPS

(* A message that no call has been made for is where it was.               *)
Untouched == \A m \in Message : handling[m] = "none" => m \in inbox

(* Only an abort makes the process enqueue; from then on nothing is taken  *)
(* from the inbox, so that what was enqueued stays.                        *)
Requeued ==
    \A m \in Message :
        /\ requeue[m] # "none" => aborted
        /\ handling[m] \in {"enqueueing", "retrying", "delaying"} => aborted
        /\ requeue[m] = "requeued" => m \in inbox

(* A call returns for one of two reasons.                                  *)
Returned ==
    \A m \in Message :
        handling[m] = "returned" => handler[m] = "completed" \/ m \in inbox

(* A service that has settled has nothing under way, and can start nothing. *)
QueueDone == queue \in Settled => delegate \in Settled /\ Drained
SchedulerDone == scheduler \in Settled => jobs = {}

(* The process closes what the services use when both have settled.        *)
BothDone ==
    process \in {"closing", "closed"} => queue \in Settled /\ scheduler \in Settled

IInv == /\ TypeOK /\ Untouched /\ Requeued /\ Returned
        /\ QueueDone /\ SchedulerDone /\ BothDone

-----------------------------------------------------------------------------

LEMMA InitInv == Init => IInv
<1>. SUFFICES ASSUME Init PROVE IInv
  OBVIOUS
<1>1. TypeOK
  <2>1. failures \in 0..MaxFailures
    BY WorkerShutdownAssumption DEF Init
  <2>2. /\ handling \in [Message -> {"none", "returned", "thrown"} \cup Active]
        /\ handler \in [Message -> {"none", "running", "completed", "failed"}]
        /\ requeue \in [Message -> {"none", "sent", "requeued", "failed"}]
    BY DEF Init
  <2>3. /\ requested \in BOOLEAN /\ aborted \in BOOLEAN /\ registered \in BOOLEAN
        /\ requested => aborted
        /\ inbox \subseteq Message /\ jobs \subseteq Job
    BY DEF Init
  <2>4. /\ {delegate, queue} \subseteq {"running"} \cup Settled
        /\ scheduler \in {"running", "failing"} \cup Settled
        /\ process \in {"running", "draining", "closing", "closed"}
    BY DEF Init
  <2>. QED
    BY <2>1, <2>2, <2>3, <2>4 DEF TypeOK
<1>2. Untouched /\ Requeued /\ Returned
  BY DEF Init, Untouched, Requeued, Returned
<1>3. QueueDone /\ SchedulerDone /\ BothDone
  BY DEF Init, QueueDone, SchedulerDone, BothDone, Settled
<1>. QED
  BY <1>1, <1>2, <1>3 DEF IInv

(* The steps of the listener: of the inbox, its handlers and their calls.  *)
Listens ==
    \/ \E m \in Message :
        \/ Dequeue(m) \/ Continuation(m) \/ EnqueueSucceeds(m)
        \/ \E how \in {"completed", "failed"} : HandlerEnds(m, how)
        \/ \E b \in BOOLEAN : EnqueueFails(m, b)
    \/ \E how \in Settled : DelegateSettles(how)

LEMMA ListenerSteps == ASSUME IInv, Listens PROVE IInv'
<1>. USE DEF IInv
<1>1. ASSUME NEW m \in Message, Dequeue(m) PROVE IInv'
  <2>. USE <1>1 DEF Dequeue
  <2>1. TypeOK'
    BY DEF TypeOK, cron, runtime, Active
  <2>2. (Untouched /\ Requeued /\ Returned)'
    BY DEF TypeOK, Untouched, Requeued, Returned, cron, runtime
  <2>3. (QueueDone /\ SchedulerDone /\ BothDone)'
    BY DEF QueueDone, SchedulerDone, BothDone, Settled, cron, runtime
  <2>. QED
    BY <2>1, <2>2, <2>3
<1>2. ASSUME NEW m \in Message, Continuation(m) PROVE IInv'
  <2>. USE DEF Moves, Send, cron, runtime
  <2>1. CASE Receive(m)
    <3>1. TypeOK'
      BY <2>1 DEF Receive, TypeOK, Active
    <3>2. (Untouched /\ Requeued /\ Returned)'
      BY <2>1 DEF Receive, TypeOK, Untouched, Requeued, Returned
    <3>3. (QueueDone /\ SchedulerDone /\ BothDone)'
      BY <2>1 DEF Receive, TypeOK, QueueDone, Drained, SchedulerDone, BothDone, Active
    <3>. QED
      BY <3>1, <3>2, <3>3
  <2>2. CASE Completes(m)
    <3>1. TypeOK'
      BY <2>2 DEF Completes, TypeOK
    <3>2. (Untouched /\ Requeued /\ Returned)'
      BY <2>2 DEF Completes, TypeOK, Untouched, Requeued, Returned
    <3>3. (QueueDone /\ SchedulerDone /\ BothDone)'
      BY <2>2 DEF Completes, TypeOK, QueueDone, Drained, SchedulerDone, BothDone, Active
    <3>. QED
      BY <3>1, <3>2, <3>3
  <2>3. CASE Throws(m)
    <3>1. TypeOK'
      BY <2>3 DEF Throws, TypeOK
    <3>2. (Untouched /\ Requeued /\ Returned)'
      BY <2>3 DEF Throws, TypeOK, Untouched, Requeued, Returned
    <3>3. (QueueDone /\ SchedulerDone /\ BothDone)'
      BY <2>3 DEF Throws, TypeOK, QueueDone, Drained, SchedulerDone, BothDone, Active
    <3>. QED
      BY <3>1, <3>2, <3>3
  <2>4. CASE Interrupted(m)
    <3>1. TypeOK'
      BY <2>4 DEF Interrupted, TypeOK, Active
    <3>2. (Untouched /\ Requeued /\ Returned)'
      BY <2>4 DEF Interrupted, TypeOK, Untouched, Requeued, Returned
    <3>3. (QueueDone /\ SchedulerDone /\ BothDone)'
      BY <2>4 DEF Interrupted, TypeOK, QueueDone, Drained, SchedulerDone, BothDone, Active
    <3>. QED
      BY <3>1, <3>2, <3>3
  <2>5. CASE MadeDurable(m)
    <3>1. TypeOK'
      BY <2>5 DEF MadeDurable, TypeOK
    <3>2. (Untouched /\ Requeued /\ Returned)'
      BY <2>5 DEF MadeDurable, Safe, TypeOK, Untouched, Requeued, Returned
    <3>3. (QueueDone /\ SchedulerDone /\ BothDone)'
      BY <2>5 DEF MadeDurable, TypeOK, QueueDone, Drained, SchedulerDone, BothDone, Active
    <3>. QED
      BY <3>1, <3>2, <3>3
  <2>6. CASE NotRequeued(m) \/ HandlerFailed(m)
    <3>1. TypeOK'
      BY <2>6 DEF NotRequeued, HandlerFailed, TypeOK, Active
    <3>2. (Untouched /\ Requeued /\ Returned)'
      BY <2>6 DEF NotRequeued, HandlerFailed, TypeOK, Untouched, Requeued, Returned
    <3>3. (QueueDone /\ SchedulerDone /\ BothDone)'
      BY <2>6 DEF NotRequeued, HandlerFailed, TypeOK, QueueDone, Drained,
                  SchedulerDone, BothDone, Active
    <3>. QED
      BY <3>1, <3>2, <3>3
  <2>7. CASE Retry(m)
    <3>1. TypeOK'
      BY <2>7 DEF Retry, TypeOK, Active
    <3>2. (Untouched /\ Requeued /\ Returned)'
      BY <2>7 DEF Retry, TypeOK, Untouched, Requeued, Returned
    <3>3. (QueueDone /\ SchedulerDone /\ BothDone)'
      BY <2>7 DEF Retry, TypeOK, QueueDone, Drained, SchedulerDone, BothDone, Active
    <3>. QED
      BY <3>1, <3>2, <3>3
  <2>. QED
    BY <1>2, <2>1, <2>2, <2>3, <2>4, <2>5, <2>6, <2>7 DEF Continuation
<1>3. ASSUME NEW m \in Message, EnqueueSucceeds(m) PROVE IInv'
  <2>1. TypeOK'
    BY <1>3 DEF EnqueueSucceeds, TypeOK, cron, runtime
  <2>2. (Untouched /\ Requeued /\ Returned)'
    BY <1>3 DEF EnqueueSucceeds, TypeOK, Untouched, Requeued, Returned, cron, runtime
  <2>3. (QueueDone /\ SchedulerDone /\ BothDone)'
    BY <1>3 DEF EnqueueSucceeds, QueueDone, Drained, SchedulerDone, BothDone, cron, runtime
  <2>. QED
    BY <2>1, <2>2, <2>3
<1>4. ASSUME NEW m \in Message, NEW b \in BOOLEAN, EnqueueFails(m, b) PROVE IInv'
  <2>1. TypeOK'
    BY <1>4, WorkerShutdownAssumption DEF EnqueueFails, TypeOK, cron, runtime
  <2>2. (Untouched /\ Requeued /\ Returned)'
    BY <1>4 DEF EnqueueFails, TypeOK, Untouched, Requeued, Returned, cron, runtime
  <2>3. (QueueDone /\ SchedulerDone /\ BothDone)'
    BY <1>4 DEF EnqueueFails, QueueDone, Drained, SchedulerDone, BothDone, cron, runtime
  <2>. QED
    BY <2>1, <2>2, <2>3
<1>5. ASSUME NEW m \in Message, NEW how \in {"completed", "failed"}, HandlerEnds(m, how)
      PROVE IInv'
  <2>1. TypeOK'
    BY <1>5 DEF HandlerEnds, TypeOK, cron, runtime
  <2>2. (Untouched /\ Requeued /\ Returned)'
    BY <1>5 DEF HandlerEnds, TypeOK, Untouched, Requeued, Returned, cron, runtime
  <2>3. (QueueDone /\ SchedulerDone /\ BothDone)'
    BY <1>5 DEF HandlerEnds, QueueDone, Drained, SchedulerDone, BothDone, cron, runtime
  <2>. QED
    BY <2>1, <2>2, <2>3
<1>6. ASSUME NEW how \in Settled, DelegateSettles(how) PROVE IInv'
  <2>1. TypeOK'
    BY <1>6 DEF DelegateSettles, TypeOK, cron, runtime
  <2>2. (Untouched /\ Requeued /\ Returned)'
    BY <1>6 DEF DelegateSettles, Untouched, Requeued, Returned, cron, runtime
  <2>3. (QueueDone /\ SchedulerDone /\ BothDone)'
    BY <1>6 DEF DelegateSettles, QueueDone, Drained, SchedulerDone, BothDone, cron, runtime
  <2>. QED
    BY <2>1, <2>2, <2>3
<1>. QED
  BY <1>1, <1>2, <1>3, <1>4, <1>5, <1>6 DEF Listens

(* The steps of the scheduler, the runtime and main.                       *)
Runs ==
    \/ QueueSettles \/ Register \/ SchedulerSettles
    \/ \E j \in Job : CronFires(j) \/ JobEnds(j)
    \/ RequestShutdown
    \/ FirstSettles \/ Join \/ Close

LEMMA RuntimeSteps == ASSUME IInv, Runs PROVE IInv'
<1>. USE DEF IInv, listener, cron, runtime
<1>1. CASE QueueSettles
  <2>1. TypeOK'
    BY <1>1 DEF QueueSettles, TypeOK
  <2>2. (Untouched /\ Requeued /\ Returned)'
    BY <1>1 DEF QueueSettles, Untouched, Requeued, Returned
  <2>3. (QueueDone /\ SchedulerDone /\ BothDone)'
    BY <1>1 DEF QueueSettles, QueueDone, Drained, SchedulerDone, BothDone
  <2>. QED
    BY <2>1, <2>2, <2>3
<1>2. CASE Register \/ SchedulerSettles
  <2>1. TypeOK'
    <3>1. /\ scheduler' \in {"running", "failing"} \cup Settled
          /\ registered' \in BOOLEAN
      BY <1>2 DEF Register, SchedulerSettles, TypeOK, Settled
    <3>2. UNCHANGED <<listener, queue, jobs, runtime>>
      BY <1>2 DEF Register, SchedulerSettles
    <3>. QED
      BY <3>1, <3>2 DEF TypeOK
  <2>2. (Untouched /\ Requeued /\ Returned)'
    BY <1>2 DEF Register, SchedulerSettles, Untouched, Requeued, Returned
  <2>3. (QueueDone /\ SchedulerDone /\ BothDone)'
    BY <1>2 DEF Register, SchedulerSettles, QueueDone, Drained, SchedulerDone,
                BothDone, Settled
  <2>. QED
    BY <2>1, <2>2, <2>3
<1>3. ASSUME NEW j \in Job, CronFires(j) \/ JobEnds(j) PROVE IInv'
  <2>1. TypeOK'
    BY <1>3 DEF CronFires, JobEnds, TypeOK
  <2>2. (Untouched /\ Requeued /\ Returned)'
    BY <1>3 DEF CronFires, JobEnds, Untouched, Requeued, Returned
  <2>3. (QueueDone /\ SchedulerDone /\ BothDone)'
    BY <1>3 DEF CronFires, JobEnds, Stopped, QueueDone, Drained, SchedulerDone,
                BothDone, Settled
  <2>. QED
    BY <2>1, <2>2, <2>3
<1>4. CASE RequestShutdown
  <2>1. TypeOK'
    BY <1>4 DEF RequestShutdown, TypeOK
  <2>2. (Untouched /\ Requeued /\ Returned)'
    BY <1>4 DEF RequestShutdown, Untouched, Requeued, Returned
  <2>3. (QueueDone /\ SchedulerDone /\ BothDone)'
    BY <1>4 DEF RequestShutdown, QueueDone, Drained, SchedulerDone, BothDone
  <2>. QED
    BY <2>1, <2>2, <2>3
<1>5. CASE FirstSettles \/ Join \/ Close
  <2>1. TypeOK'
    <3>1. /\ process' \in {"running", "draining", "closing", "closed"}
      BY <1>5 DEF FirstSettles, Join, Close
    <3>2. aborted' \in BOOLEAN /\ (requested => aborted')
      BY <1>5, Zenon DEF FirstSettles, Join, Close, TypeOK
    <3>3. UNCHANGED <<inbox, handling, handler, requeue, failures, delegate, queue,
                      scheduler, jobs, registered, requested>>
      BY <1>5 DEF FirstSettles, Join, Close
    <3>. QED
      BY <3>1, <3>2, <3>3, Zenon DEF TypeOK
  <2>2. (Untouched /\ Requeued /\ Returned)'
    BY <1>5 DEF FirstSettles, Join, Close, Untouched, Requeued, Returned
  <2>3. (QueueDone /\ SchedulerDone /\ BothDone)'
    BY <1>5 DEF FirstSettles, Join, Close, QueueDone, Drained, SchedulerDone, BothDone
  <2>. QED
    BY <2>1, <2>2, <2>3
<1>. QED
  BY <1>1, <1>2, <1>3, <1>4, <1>5 DEF Runs

LEMMA StutterInv == ASSUME IInv, UNCHANGED vars PROVE IInv'
  BY DEF IInv, TypeOK, Untouched, Requeued, Returned, QueueDone, Drained,
         SchedulerDone, BothDone, vars, listener, cron, runtime

LEMMA Inductive == Spec => []IInv
<1>1. IInv /\ [Next]_vars => IInv'
  <2>. SUFFICES ASSUME IInv, [Next]_vars PROVE IInv'
    OBVIOUS
  <2>1. CASE Listens
    BY <2>1, ListenerSteps
  <2>2. CASE Runs
    BY <2>2, RuntimeSteps
  <2>3. CASE UNCHANGED vars
    BY <2>3, StutterInv
  <2>. QED
    BY <2>1, <2>2, <2>3 DEF Next, Listens, Runs
<1>. QED
  BY InitInv, <1>1, PTL DEF Spec

-----------------------------------------------------------------------------

(* Type correctness of the runtime, the listener and the scheduler.        *)
THEOREM ShutdownTypeCorrect == Spec => []TypeOK
<1>1. IInv => TypeOK
  BY DEF IInv
<1>. QED
  BY <1>1, Inductive, PTL

(* A message that Fedify's queue has deleted is never lost, whatever       *)
(* handlers, attempts to enqueue and services do (#handle, #makeDurable).  *)
THEOREM ShutdownLosesNothing == Spec => []NothingLost
<1>1. IInv => NothingLost
  <2>. SUFFICES ASSUME IInv, NEW m \in Message
                PROVE  \/ m \in inbox
                       \/ handler[m] = "completed"
                       \/ handling[m] = "thrown"
                       \/ handling[m] \in Active /\ process \in {"running", "draining"}
    BY DEF NothingLost
  <2>1. CASE handling[m] = "none"
    BY <2>1 DEF IInv, Untouched
  <2>2. CASE handling[m] = "returned"
    BY <2>2 DEF IInv, Returned
  <2>3. CASE handling[m] \in Active
    BY <2>3 DEF IInv, TypeOK, BothDone, QueueDone, Drained
  <2>. QED
    BY <2>1, <2>2, <2>3 DEF IInv, TypeOK
<1>. QED
  BY <1>1, Inductive, PTL

(* Resources are closed only when both services have drained               *)
(* (runWorkerRuntime, main), although they settle in any order.            *)
THEOREM ShutdownClosesLast == Spec => []ClosesAfterDrain
<1>1. IInv => ClosesAfterDrain
  BY DEF IInv, BothDone, QueueDone, Drained, SchedulerDone, ClosesAfterDrain
<1>. QED
  BY <1>1, Inductive, PTL

=============================================================================
