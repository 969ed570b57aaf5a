----------------------------- MODULE TaskQueue -----------------------------
(***************************************************************************)
(* The application.task queue (federation/outbox-queue.ts, #processTask):  *)
(* durable background work whose handler is never abandoned.  A deadline,  *)
(* a shutdown or a doubtful lease cancels the handler, and the listener    *)
(* waits for it to end before it acknowledges the row.                     *)
(*                                                                         *)
(* One tick is one heartbeat interval: every running handler of a process  *)
(* that is not stalled has one heartbeat between two ticks.                *)
(***************************************************************************)
EXTENDS OutboxTable, FiniteSets

CONSTANTS
    Sends,         \* the tasks the application may enqueue: event and key
    Worker, NoWorker,
    NoRow,
    Concurrency,   \* claim loops per worker
    MaxAttempts,   \* maximumProcessingAttempts
    MaxFaults,     \* bound: crashes, stalls, stops and failed statements
    MayReplay      \* bound: the rows the operator may replay, once each

ASSUME TaskQueueAssumption ==
    /\ \A s \in Sends : s.event \in Row /\ s.key \in Key \cup {NoKey}
    /\ NoWorker \notin Worker
    /\ NoRow \notin Row
    /\ Concurrency \in Nat \ {0}
    /\ MaxAttempts \in Nat \ {0}
    /\ MaxFaults \in Nat
    /\ Lease > 2   \* the heartbeat is shorter than half the lease

VARIABLES
    run,           \* what each lease token's claim has come to
    mode,          \* whether each worker is up, stalled or stopping
    faults,        \* how many disruptions there have been
    interruptions, \* last_error.details.interruptions of each row
    starts         \* history: handler starts of each row, since its replay

vars == <<row, sequence, run, mode, faults, interruptions, starts>>

(* cause: what aborted the execution's signal, the first cause wins;       *)
(* age: ticks since the last renewal, counted up to Lease;                 *)
(* late: ticks since the last heartbeat: 1 when the next one is due, and 2 *)
(* when it was missed, which takes a stall.                                *)
RunRecord ==
    [state : {"free", "chosen", "running", "settling"},
     event : Row \cup {NoRow}, worker : Worker \cup {NoWorker},
     cause : {"none", "shutdown", "deadline", "lease"},
     result : {"none", "success", "error", "invalid"},
     age : 0..Lease, late : 0..2]

FreeRun ==
    [state |-> "free", event |-> NoRow, worker |-> NoWorker, cause |-> "none",
     result |-> "none", age |-> 0, late |-> 0]

TypeOK ==
    /\ TableTypeOK
    /\ run \in [Token -> RunRecord]
    /\ mode \in [Worker -> {"up", "stalled", "stopping"}]
    /\ faults \in Nat
    /\ interruptions \in [Row -> Nat]
    /\ starts \in [Row -> Nat]

Init ==
    /\ TableInit
    /\ run = [t \in Token |-> FreeRun]
    /\ mode = [w \in Worker |-> "up"]
    /\ faults = 0
    /\ interruptions = [e \in Row |-> 0]
    /\ starts = [e \in Row |-> 0]

Event(t) == run[t].event
Awake(t) == mode[run[t].worker] # "stalled"
Fault == faults < MaxFaults /\ faults' = faults + 1
Ends(t) == run' = [run EXCEPT ![t] = FreeRun]

-----------------------------------------------------------------------------
(* The producer: the task commits, or rolls back, with the state change    *)
(* that dispatched it.                                                     *)

AppEnqueue(s) ==
    /\ InsertRoot(s.event, s.key, NoInbox)
    /\ UNCHANGED <<run, mode, faults, interruptions, starts>>

AppCommit(e) ==
    /\ Uncommitted(e)
    /\ row' = [row EXCEPT ![e] = Published(e)]
    /\ UNCHANGED <<sequence, run, mode, faults, interruptions, starts>>

AppRollback(e) ==
    /\ Uncommitted(e)
    /\ row' = [row EXCEPT ![e] = AbsentRow(e)]
    /\ UNCHANGED <<sequence, run, mode, faults, interruptions, starts>>

-----------------------------------------------------------------------------
(* Claiming, and the checks before the handler is started. *)

Occupied(w) == {t \in Token : run[t].state # "free" /\ run[t].worker = w}
Fresh(t) == run[t].state = "free" /\ \A e \in Row : row[e].token # t

(* The candidate is the first one; SKIP LOCKED passes over the rows that   *)
(* claims still under way are about to lock.                               *)
Locked(e) == \E t \in Token : run[t].state = "chosen" /\ run[t].event = e
First(e) == \A a \in Row : Claimable(a) /\ Before(a, e) => Locked(a)

Select(w, t, e) ==
    /\ mode[w] = "up"
    /\ Fresh(t) /\ Cardinality(Occupied(w)) < Concurrency
    /\ Claimable(e) /\ First(e)
    /\ run' = [run EXCEPT ![t] = [FreeRun EXCEPT !.state = "chosen",
                                                 !.event = e, !.worker = w]]
    /\ UNCHANGED <<row, sequence, mode, faults, interruptions, starts>>

Unclaimed(t) ==
    /\ run[t].state = "chosen" /\ ~Due(Event(t))
    /\ Ends(t)
    /\ UNCHANGED <<row, sequence, mode, faults, interruptions, starts>>

\* mutant: the attempts spent by terminated workers are not counted
Mutant_SpentNever(e) == FALSE
(* The attempts of an earlier claim were spent by workers that died. *)
Spent(e) == row[e].attempts >= MaxAttempts

(* A listener that is stopping releases the row at once; a row claimed     *)
(* once too often is failed without running its handler.                   *)
Take(t) ==
    /\ run[t].state = "chosen" /\ Due(Event(t))
    /\ LET e == Event(t)
           stopping == mode[run[t].worker] = "stopping"
           refused == stopping \/ Spent(e)
       IN /\ row' = [row EXCEPT ![e] = ClaimedRow(e, t)]
          /\ run' = [run EXCEPT
                       ![t].state = IF refused THEN "settling" ELSE "running",
                       ![t].cause = IF stopping THEN "shutdown" ELSE "none",
                       ![t].result = IF ~stopping /\ Spent(e) THEN "invalid"
                                     ELSE "none",
                       ![t].late = 0]
          /\ starts' = IF refused THEN starts
                       ELSE [starts EXCEPT ![e] = @ + 1]
    /\ UNCHANGED <<sequence, mode, faults, interruptions>>

-----------------------------------------------------------------------------
(* The execution. *)

Running(t) == run[t].state = "running" /\ Awake(t)

Cause(t, c) == IF run[t].cause = "none" THEN c ELSE run[t].cause

(* The deadline aborts the signal of the execution. *)
Deadline(t) ==
    /\ Running(t) /\ run[t].cause = "none"
    /\ run' = [run EXCEPT ![t].cause = "deadline"]
    /\ UNCHANGED <<row, sequence, mode, faults, interruptions, starts>>

\* mutant: the execution is cancelled only when the lease has run out
Mutant_Unsafe(t) == run[t].age >= Lease
(* No renewal for so long that the next one might come too late. *)
Unsafe(t) == run[t].age >= Lease - 1

(* The heartbeat, when its statement reaches the database: it renews the   *)
(* lease, or learns that the lease is lost.                                *)
Heartbeat(t) ==
    LET e == Event(t) IN
    /\ Running(t) /\ run[t].late > 0
    /\ IF Holds(e, t)
       THEN /\ row' = [row EXCEPT ![e] = RenewedRow(e)]
            /\ run' = [run EXCEPT
                         ![t].late = 0, ![t].age = 0,
                         ![t].cause = IF Unsafe(t) THEN Cause(t, "lease") ELSE @]
       ELSE /\ run' = [run EXCEPT ![t].late = 0,
                                  ![t].cause = Cause(t, "lease")]
            /\ UNCHANGED row
    /\ UNCHANGED <<sequence, mode, faults, interruptions, starts>>

(* The heartbeat, when its statement fails: only the age is checked. *)
HeartbeatFails(t) ==
    /\ Running(t) /\ run[t].late > 0
    /\ Fault
    /\ run' = [run EXCEPT ![t].late = 0,
                          ![t].cause = IF Unsafe(t) THEN Cause(t, "lease") ELSE @]
    /\ UNCHANGED <<row, sequence, mode, interruptions, starts>>

(* The handler ends, and the enqueues it started have: it returned, it     *)
(* threw, or Fedify dropped the message before it reached the handler.     *)
HandlerEnds(t, result) ==
    /\ Running(t)
    /\ run' = [run EXCEPT
                 ![t].state = "settling",
                 ![t].result = IF run[t].cause = "none" THEN result ELSE "error"]
    /\ UNCHANGED <<row, sequence, mode, faults, interruptions, starts>>

-----------------------------------------------------------------------------
(* The acknowledgement. *)

Released(t) == run[t].cause = "shutdown"

\* mutant: an interruption on the last attempt is final
Mutant_Finished(t) ==
    run[t].result = "invalid" \/ row[Event(t)].attempts >= MaxAttempts
Finished(t) ==
    /\ ~Released(t)
    /\ run[t].result = "invalid" \/ row[Event(t)].attempts >= MaxAttempts

Settle(t, w) ==
    LET e == Event(t)
        settled == IF run[t].result = "success" THEN CompletedRow(e)
                   ELSE IF Finished(t) THEN FailedRow(e)
                   ELSE IF Released(t) THEN ReleasedRow(e)
                   ELSE RetriedRow(e, w, TRUE)
    IN /\ run[t].state = "settling" /\ Awake(t)
       /\ row' = IF Holds(e, t) THEN [row EXCEPT ![e] = settled] ELSE row
       /\ interruptions' = IF Holds(e, t) /\ Released(t)
                           THEN [interruptions EXCEPT ![e] = @ + 1]
                           ELSE interruptions
       /\ Ends(t)
       /\ UNCHANGED <<sequence, mode, faults, starts>>

(* The statement fails: the listener logs the error and polls again; the   *)
(* row waits for its lease to expire.                                      *)
SettleFails(t) ==
    /\ run[t].state = "settling" /\ Awake(t)
    /\ Fault
    /\ Ends(t)
    /\ UNCHANGED <<row, sequence, mode, interruptions, starts>>

-----------------------------------------------------------------------------
(* The environment. *)

(* Statements take less than a tick, and timers fire. *)
Tick ==
    /\ \E e \in Row : row[e].wait > 0 \/ row[e].lease > 0
    /\ \A t \in Token :
         /\ run[t].state # "chosen"
         /\ run[t].state # "free" /\ Awake(t) =>
              run[t].state = "running" /\ run[t].late = 0
    /\ TableTick
    /\ run' = [t \in Token |->
                 IF run[t].state = "running"
                 THEN [run[t] EXCEPT !.age = IF @ < Lease THEN @ + 1 ELSE @,
                                      !.late = IF @ < 2 THEN @ + 1 ELSE @]
                 ELSE run[t]]
    /\ UNCHANGED <<sequence, mode, faults, interruptions, starts>>

Gone(w) ==
    /\ run' = [t \in Token |-> IF t \in Occupied(w) THEN FreeRun ELSE run[t]]
    /\ mode' = [mode EXCEPT ![w] = "up"]
    /\ UNCHANGED <<row, sequence, interruptions, starts>>

Crash(w) == Fault /\ Gone(w)

Stall(w) ==
    /\ mode[w] = "up" /\ Fault
    /\ mode' = [mode EXCEPT ![w] = "stalled"]
    /\ UNCHANGED <<row, sequence, run, interruptions, starts>>

Wake(w) ==
    /\ mode[w] = "stalled"
    /\ mode' = [mode EXCEPT ![w] = "up"]
    /\ UNCHANGED <<row, sequence, run, faults, interruptions, starts>>

(* SIGTERM aborts the executions that nothing has cancelled before; the    *)
(* process exits when its listeners have returned.                         *)
Stop(w) ==
    /\ mode[w] = "up" /\ Fault
    /\ mode' = [mode EXCEPT ![w] = "stopping"]
    /\ run' = [t \in Token |->
                 IF t \in Occupied(w) /\ run[t].state = "running"
                 THEN [run[t] EXCEPT !.cause = Cause(t, "shutdown")]
                 ELSE run[t]]
    /\ UNCHANGED <<row, sequence, interruptions, starts>>

Exit(w) ==
    /\ mode[w] = "stopping" /\ Occupied(w) = {}
    /\ Gone(w)
    /\ UNCHANGED faults

(* replayApplicationTask, from the operator's command line. *)
Replay(e) ==
    /\ e \in MayReplay /\ Replayable(e) /\ ~row[e].replayed
    /\ row' = [row EXCEPT ![e] = ReplayedRow(e)]
    /\ starts' = [starts EXCEPT ![e] = 0]
    /\ UNCHANGED <<sequence, run, mode, faults, interruptions>>

(* The daily prune job leaves dead tasks to the operator. *)
Prune(e) ==
    /\ Prunable(e, TRUE)
    /\ row' = [row EXCEPT ![e] = PrunedRow(e)]
    /\ UNCHANGED <<sequence, run, mode, faults, interruptions, starts>>

-----------------------------------------------------------------------------
Execution(t) ==
    \/ Deadline(t) \/ Heartbeat(t) \/ HeartbeatFails(t)
    \/ \E r \in {"success", "error", "invalid"} : HandlerEnds(t, r)
    \/ \E w \in 1..MaxWait : Settle(t, w)
    \/ SettleFails(t)

Next ==
    \/ \E s \in Sends : AppEnqueue(s)
    \/ \E e \in Row : AppCommit(e) \/ AppRollback(e) \/ Replay(e) \/ Prune(e)
    \/ \E w \in Worker, t \in Token, e \in Row : Select(w, t, e)
    \/ \E t \in Token : Take(t) \/ Unclaimed(t) \/ Execution(t)
    \/ Tick
    \/ \E w \in Worker : Crash(w) \/ Stall(w) \/ Wake(w) \/ Stop(w) \/ Exit(w)

Spec == Init /\ [][Next]_vars

-----------------------------------------------------------------------------
(* Properties. *)

Settled(e) == row[e].status \in {"completed", "dead", "deleted"}
Cancelled(t) == run[t].cause # "none"

(* Tasks of one ordering key are executed in the order in which their      *)
(* transactions committed, unless an operator replays one.                 *)
KeyOrder ==
    \A a, b \in Row :
        /\ SameKey(a, b) /\ Before(a, b)
        /\ Visible(a) /\ ~row[a].replayed
        /\ row[b].status = "processing"
        => Settled(a)

(* DEPLOYMENT.md: terminations "cannot cause unlimited execution", and a   *)
(* graceful shutdown spends no attempt: a task's handler is started at     *)
(* most maximumProcessingAttempts times, and once more for each recorded   *)
(* interruption.                                                           *)
ExecutionBudget ==
    \A e \in Row : starts[e] <= MaxAttempts + interruptions[e]

(* DEPLOYMENT.md: the lease is renewed while a cancelled handler drains,   *)
(* "avoiding overlap with a still-live worker", and a handler that cannot  *)
(* renew is cancelled before its lease expires.  Whatever renewals and     *)
(* acknowledgements fail, a handler nobody cancelled has a live lease as   *)
(* long as its process runs its heartbeats.                                *)
UncancelledIsLeased ==
    \A t \in Token :
        run[t].state = "running" /\ ~Cancelled(t) /\ Awake(t) /\ run[t].late < 2
        => Holds(Event(t), t) /\ Leased(Event(t))

(* Two handlers that nobody cancelled never run at once for one row, or    *)
(* for two rows of one ordering key, unless one worker is stalled, or has  *)
(* woken and not yet had its heartbeat; replayed rows excepted.            *)
NoOverlap ==
    \A t, u \in Token :
        /\ t # u
        /\ \A v \in {t, u} : /\ run[v].state = "running" /\ ~Cancelled(v)
                             /\ Awake(v) /\ run[v].late < 2
                             /\ ~row[Event(v)].replayed
        => Event(t) # Event(u) /\ ~SameKey(Event(t), Event(u))

(* A dead task stays, for the operator to inspect and replay.              *)
DeadIsKept ==
    [][\A e \in Row : row[e].status = "dead" =>
          row'[e].status \in {"dead", "pending"} /\ row'[e].payload]_vars

(* A graceful shutdown never kills a task: a task dies only when it is     *)
(* invalid or its last attempt failed, or was cancelled by its deadline or *)
(* by its lease before the shutdown began.                                 *)
ShutdownNeverKills ==
    [][\A t \in Token :
          /\ run[t].state = "settling" /\ run[t].cause = "shutdown"
          /\ run'[t].state = "free" /\ row[Event(t)].status = "processing"
          => row'[Event(t)].status # "dead"]_vars

Fairness ==
    /\ \A e \in Row : WF_vars(AppCommit(e) \/ AppRollback(e))
    /\ \A w \in Worker :
         /\ WF_vars(Wake(w))
         /\ WF_vars(Exit(w))
         /\ WF_vars(\E t \in Token, e \in Row : Select(w, t, e))
    /\ \A t \in Token :
         /\ WF_vars(Take(t) \/ Unclaimed(t))
         /\ WF_vars(Heartbeat(t))
         /\ WF_vars(\E r \in {"success", "error"} : HandlerEnds(t, r))
         /\ WF_vars(\E w \in 1..MaxWait : Settle(t, w))
    /\ WF_vars(Tick)

FairSpec == Spec /\ Fairness

(* Every committed task is completed or dead in the end.                   *)
EverySettles == \A e \in Row : row[e].status = "pending" ~> Settled(e)

-----------------------------------------------------------------------------
(* The abstract queue: the rows the application enqueues, whose uncommitted *)
(* rows nobody can see.                                                     *)
Enqueued == {s.event : s \in Sends}

Promise == INSTANCE MessageQueue WITH
    Message <- Enqueued,
    state <- [e \in Enqueued |->
                CASE ~Visible(e) -> "absent"
                  [] row[e].status = "pending" -> "waiting"
                  [] row[e].status = "processing" -> "held"
                  [] OTHER -> "settled"],
    ahead <- [e \in Enqueued |->
                {a \in Enqueued : Visible(a) /\ Visible(e) /\ SameKey(a, e)
                                 /\ Before(a, e)}],
    key <- [e \in Enqueued |-> IF Visible(e) THEN row[e].key ELSE NoKey],
    reopened <- {e \in Enqueued : row[e].replayed}

(* Whatever workers crash, stall, time out, lose a lease or claim in a      *)
(* race, the task queue hands the tasks of one ordering key out in the    *)
(* order in which the transactions that enqueued them committed, and        *)
(* settles only what it handed out.                                         *)
KeepsPromise == Promise!Spec

=============================================================================
