--------------------------- MODULE TaskQueueProofs ---------------------------
(***************************************************************************)
(* What holds of TaskQueue for every number of tasks, workers, claim       *)
(* loops, tokens and faults: the order of tasks with one ordering key, the *)
(* absence of overlapping executions, the bound on executions, and that    *)
(* the queue implements MessageQueue.  The inductive invariant relates the *)
(* age of a lease, as its worker counts it, to the lease in the table, and *)
(* the sequence numbers of rows to the advisory locks and claims.          *)
(***************************************************************************)
EXTENDS TaskQueue, OutboxTableLemmas

-----------------------------------------------------------------------------
(* The inductive invariant: the executions. *)

(* A run that is not free is the execution of a row by a worker; one that  *)
(* has only chosen its row has nothing to show yet.                        *)
RunShape ==
    \A t \in Token :
        /\ run[t].state # "free" => run[t].event \in Row /\ run[t].worker \in Worker
        /\ run[t].state = "chosen" => run[t].age = 0 /\ run[t].cause = "none"

(* A row's token belongs to the execution of the row, or to one that its   *)
(* process forgot.                                                         *)
TokenOwned ==
    \A t \in Token, e \in Row : row[e].token = t =>
        \/ run[t].state = "free"
        \/ run[t].state \in {"running", "settling"} /\ run[t].event = e

(* The age a worker counts is that of the lease in the table: an execution *)
(* can have lost its row only when its age says that the lease has expired. *)
AgeIsLeases ==
    \A t \in Token : run[t].state = "running" =>
        /\ run[t].age < Lease => Holds(Event(t), t)
        /\ Holds(Event(t), t) => row[Event(t)].lease = Lease - run[t].age

(* A heartbeat that missed no beat leaves no lease to run out before the   *)
(* next one, unless it cancels the execution.                              *)
AgeIsSafe ==
    \A t \in Token :
        run[t].state = "running" /\ ~Cancelled(t) /\ run[t].late < 2
        => run[t].age <= Lease - 2 + run[t].late

-----------------------------------------------------------------------------
(* The inductive invariant: the rows and their order. *)

(* A row that was never published has no history. *)
Unpublished ==
    \A e \in Row : row[e].status \in {"absent", "uncommitted"} =>
        row[e].attempts = 0 /\ ~row[e].replayed

(* The application inserts every row, with a sequence number of its own.   *)
Sequenced ==
    /\ \A e \in Row : row[e].status # "absent" =>
          e \in Enqueued /\ row[e].pos = 0 /\ row[e].seq \in 1..sequence
    /\ \A a, b \in Row :
          a # b /\ row[a].status # "absent" /\ row[b].status # "absent"
          => row[a].seq # row[b].seq

(* The advisory lock: a row whose transaction is open is the last one of   *)
(* its key.                                                                *)
LastOfKey ==
    \A a, b \in Row :
        a # b /\ Uncommitted(a) /\ row[b].status # "absent" /\ SameKey(a, b)
        => row[b].seq < row[a].seq

(* Every task before b of its key is settled, or was replayed.             *)
Cleared(b) ==
    \A a \in Row :
        SameKey(a, b) /\ Before(a, b) /\ Visible(a) /\ ~row[a].replayed
        => Settled(a)

(* A claim finds the tasks before its own settled, when its snapshot is    *)
(* taken, and they stay so.                                                *)
ClaimsInOrder ==
    /\ \A b \in Row : row[b].status = "processing" => Cleared(b)
    /\ \A t \in Token : run[t].state = "chosen" =>
          Visible(Event(t)) /\ Cleared(Event(t))

(* What is not completed can be tried again. *)
PayloadKept ==
    \A e \in Row :
        row[e].status \in {"uncommitted", "pending", "processing", "dead"}
        => row[e].payload

(* A start spends an attempt; only an interruption gives one back.         *)
StartsSpent == \A e \in Row : starts[e] <= row[e].attempts + interruptions[e]

IInv ==
    /\ TypeOK /\ RunShape /\ TokenOwned
    /\ AgeIsLeases /\ AgeIsSafe
    /\ Unpublished /\ Sequenced /\ LastOfKey /\ ClaimsInOrder
    /\ PayloadKept /\ StartsSpent /\ ExecutionBudget

-----------------------------------------------------------------------------
(* How a step may change the table: nothing, the clock, or one row. *)

Only(e) == \A x \in Row \ {e} : row'[x] = row[x]

Kept(e) ==
    /\ SameOrigin(row'[e], row[e]) /\ row'[e].replayed = row[e].replayed
    /\ row[e].payload /\ row'[e].status # "completed" => row'[e].payload

Counts == <<starts, interruptions>>

Inserts(e) ==
    /\ row[e].status = "absent" /\ row'[e].status = "uncommitted"
    /\ row'[e].token = NoToken /\ e \in Enqueued
    /\ KeyLockFree(row'[e].key, {})
    /\ row'[e].seq = sequence + 1 /\ sequence' = sequence + 1 /\ row'[e].pos = 0
    /\ row'[e].attempts = 0 /\ row'[e].payload
    /\ row'[e].replayed = row[e].replayed
    /\ UNCHANGED Counts

Publishes(e) ==
    /\ row[e].status = "uncommitted" /\ row'[e].status = "pending"
    /\ row'[e].token = NoToken /\ Kept(e) /\ row'[e].attempts = row[e].attempts
    /\ UNCHANGED <<sequence, Counts>>

Drops(e) ==
    /\ row[e].status = "uncommitted" /\ row'[e].status = "absent"
    /\ row'[e].token = NoToken /\ row'[e].attempts = 0 /\ ~row'[e].replayed
    /\ UNCHANGED <<sequence, Counts>>

Claims(e, t) ==
    /\ run[t].state = "chosen" /\ run[t].event = e /\ Due(e)
    /\ run'[t].state \in {"running", "settling"} /\ run'[t].event = e
    /\ run'[t].age = run[t].age /\ run'[t].late = 0
    /\ row'[e].status = "processing" /\ row'[e].token = t /\ row'[e].lease = Lease
    /\ Kept(e) /\ row'[e].attempts = row[e].attempts + 1
    /\ \/ starts' = starts
       \/ row[e].attempts < MaxAttempts /\ starts' = [starts EXCEPT ![e] = @ + 1]
    /\ UNCHANGED <<sequence, interruptions>>

Renews(e, t) ==
    /\ run[t].state = "running" /\ run[t].event = e /\ Holds(e, t)
    /\ run'[t].state = "running" /\ run'[t].event = e
    /\ run'[t].age = 0
    /\ row'[e].status = "processing" /\ row'[e].token = t /\ row'[e].lease = Lease
    /\ Kept(e) /\ row'[e].attempts = row[e].attempts
    /\ UNCHANGED <<sequence, Counts>>

Gives(e, t) ==
    /\ run[t].state = "settling" /\ run[t].event = e /\ Holds(e, t)
    /\ run'[t].state = "free" /\ \A u \in Token \ {t} : run'[u] = run[u]
    /\ row'[e].status \in {"pending", "dead", "completed"} /\ row'[e].token = NoToken
    /\ run[t].cause = "shutdown" => row'[e].status # "dead"
    /\ Kept(e)
    /\ \/ row'[e].attempts = row[e].attempts /\ interruptions'[e] >= interruptions[e]
       \/ /\ row'[e].attempts = Refunded(row[e].attempts)
          /\ interruptions'[e] = interruptions[e] + 1
    /\ \A x \in Row \ {e} : interruptions'[x] = interruptions[x]
    /\ UNCHANGED <<sequence, starts>>

Replays(e) ==
    /\ row[e].status = "dead" /\ row'[e].status = "pending"
    /\ row'[e].token = NoToken /\ row'[e].replayed
    /\ SameOrigin(row'[e], row[e]) /\ row'[e].payload = row[e].payload
    /\ row'[e].attempts = 0 /\ starts' = [starts EXCEPT ![e] = 0]
    /\ UNCHANGED <<sequence, interruptions>>

Prunes(e) ==
    /\ row[e].status = "completed" /\ row'[e].status = "deleted"
    /\ row'[e].token = NoToken /\ Kept(e) /\ row'[e].attempts = row[e].attempts
    /\ UNCHANGED <<sequence, Counts>>

Changes(e) ==
    \/ Inserts(e) \/ Publishes(e) \/ Drops(e) \/ Replays(e) \/ Prunes(e)
    \/ \E t \in Token : Claims(e, t) \/ Renews(e, t) \/ Gives(e, t)

TableStep ==
    \/ row' = row /\ UNCHANGED <<sequence, Counts>>
    \/ \E e \in Row : Only(e) /\ Changes(e)

-----------------------------------------------------------------------------
(* How a step may change an execution. *)

Begins(t) ==
    /\ Fresh(t) /\ row' = row
    /\ run'[t].state = "chosen" /\ run'[t].event \in Row /\ Claimable(run'[t].event)
    /\ run'[t].age = 0 /\ run'[t].cause = "none"

SameTask(t) == run'[t].event = run[t].event /\ run'[t].state = run[t].state

Beats(t) ==
    /\ run[t].state = "running" /\ SameTask(t) /\ run'[t].late = 0
    /\ \/ Renews(Event(t), t)
       \/ /\ row' = row /\ run'[t].age = run[t].age
          /\ run'[t].cause # "none" \/ run[t].age < Lease - 1

Aborts(t) ==
    /\ run[t].state = "running" /\ SameTask(t) /\ row' = row
    /\ run'[t].cause # "none" /\ run'[t].age = run[t].age

Finishes(t) ==
    /\ run[t].state = "running" /\ run'[t].state = "settling"
    /\ run'[t].event = run[t].event /\ row' = row

RunStep(t) ==
    \/ run'[t] = run[t] \/ run'[t].state = "free"
    \/ Begins(t) \/ Claims(Event(t), t) \/ Beats(t) \/ Aborts(t) \/ Finishes(t)

(* The clock moves nothing but the instants, and the ages of executions.   *)
Ages ==
    /\ UNCHANGED <<sequence, Counts>>
    /\ \A e \in Row : /\ row'[e].status = row[e].status /\ row'[e].token = row[e].token
                      /\ Kept(e) /\ row'[e].attempts = row[e].attempts
                      /\ row'[e].lease = Less(row[e].lease)
    /\ \A t \in Token :
         \/ run[t].state # "running" /\ run'[t] = run[t]
         \/ /\ run[t].state = "running" /\ SameTask(t)
            /\ run'[t].cause = run[t].cause
            /\ run'[t].age = IF run[t].age < Lease THEN run[t].age + 1 ELSE run[t].age
            /\ run'[t].late = IF run[t].late < 2 THEN run[t].late + 1 ELSE run[t].late

Evolves == TableStep /\ \A t \in Token : RunStep(t)

(* A step that gives one row a new value. *)
LEMMA OneRow ==
    ASSUME row \in [Row -> TypedRow], NEW e \in Row, NEW r \in TypedRow,
           row' = [row EXCEPT ![e] = r]
    PROVE  row' \in [Row -> TypedRow] /\ row'[e] = r /\ Only(e)
  BY DEF Only

(* A step that gives one run a new value. *)
LEMMA OneRun ==
    ASSUME run \in [Token -> RunRecord], NEW t \in Token, NEW r \in RunRecord,
           run' = [run EXCEPT ![t] = r]
    PROVE  /\ run' \in [Token -> RunRecord] /\ run'[t] = r
           /\ \A u \in Token \ {t} : run'[u] = run[u]
  OBVIOUS

LEMMA FreeRunType ==
    FreeRun \in RunRecord /\ FreeRun.state = "free" /\ FreeRun.age = 0
    /\ FreeRun.cause = "none" /\ FreeRun.late = 0
  BY OutboxTableAssumption DEF FreeRun, RunRecord

(* A claim takes the row the run has chosen. *)
LEMMA TakeStep ==
    ASSUME IInv, NEW t \in Token, Take(t)
    PROVE  /\ row' \in [Row -> TypedRow]
           /\ Event(t) \in Row /\ Only(Event(t)) /\ Claims(Event(t), t)
  <1> DEFINE e == run[t].event
  <1>1. /\ row \in [Row -> TypedRow] /\ run \in [Token -> RunRecord] /\ RunShape
    BY DEF IInv, TypeOK, TableTypeOK
  <1>2. e \in Row /\ run[t].state = "chosen" /\ Due(e)
    BY <1>1 DEF Take, RunShape, Event
  <1>3. /\ row' = [row EXCEPT ![e] = ClaimedRow(e, t)]
        /\ UNCHANGED <<sequence, interruptions>>
        /\ \/ starts' = starts
           \/ ~Spent(e) /\ starts' = [starts EXCEPT ![e] = @ + 1]
    BY DEF Take, Event
  <1>4. /\ run'[t].state \in {"running", "settling"} /\ run'[t].event = e
        /\ run'[t].age = run[t].age /\ run'[t].late = 0
    BY <1>1, <1>2 DEF Take, RunRecord
  <1>5. row' \in [Row -> TypedRow] /\ row'[e] = ClaimedRow(e, t) /\ Only(e)
    BY <1>1, <1>2, <1>3, ClaimedRowType, OneRow
  <1>6. ~Spent(e) => row[e].attempts < MaxAttempts
    BY <1>1, <1>2, RowFields, TaskQueueAssumption DEF Spent
  <1>7. Claims(e, t)
    BY <1>1, <1>2, <1>3, <1>4, <1>5, <1>6, ClaimedRowType DEF Claims, Kept
  <1> QED BY <1>2, <1>5, <1>7 DEF Event

(* A heartbeat renews the lease it still holds, and touches no other row. *)
LEMMA HeartbeatStep ==
    ASSUME IInv, NEW t \in Token, Heartbeat(t)
    PROVE  /\ Event(t) \in Row /\ UNCHANGED <<sequence, Counts>>
           /\ \/ row' = row /\ ~Holds(Event(t), t)
              \/ /\ row' \in [Row -> TypedRow]
                 /\ Only(Event(t)) /\ Renews(Event(t), t)
  <1> DEFINE e == run[t].event
  <1>1. /\ row \in [Row -> TypedRow] /\ run \in [Token -> RunRecord] /\ RunShape
    BY DEF IInv, TypeOK, TableTypeOK
  <1>2. e \in Row /\ run[t].state = "running" /\ UNCHANGED <<sequence, Counts>>
    BY <1>1 DEF Heartbeat, Running, RunShape, Counts
  <1>3. CASE Holds(e, t)
    <2>1. row' = [row EXCEPT ![e] = RenewedRow(e)] /\ row[e].status = "processing"
          /\ row[e].token = t
      BY <1>3 DEF Heartbeat, Event, Holds
    <2>2. run'[t].state = "running" /\ run'[t].event = e /\ run'[t].age = 0
      BY <1>1, <1>2, <1>3 DEF Heartbeat, Event, RunRecord
    <2>3. row' \in [Row -> TypedRow] /\ row'[e] = RenewedRow(e) /\ Only(e)
      BY <1>1, <1>2, <2>1, RenewedRowType, OneRow
    <2>4. Renews(e, t)
      BY <1>1, <1>2, <1>3, <2>1, <2>2, <2>3, RenewedRowType DEF Renews, Kept
    <2> QED BY <1>2, <2>3, <2>4 DEF Event
  <1>4. CASE ~Holds(e, t)
    BY <1>2, <1>4 DEF Heartbeat, Event
  <1> QED BY <1>3, <1>4

(* Every step but a tick changes the table in one of these ways. *)
LEMMA RowSteps ==
    ASSUME IInv, [Next]_vars
    PROVE  Tick \/ (row' \in [Row -> TypedRow] /\ TableStep)
  <1> DEFINE Goal == row' \in [Row -> TypedRow] /\ TableStep
  <1>1. /\ row \in [Row -> TypedRow] /\ sequence \in Nat
        /\ run \in [Token -> RunRecord]
        /\ starts \in [Row -> Nat] /\ interruptions \in [Row -> Nat]
        /\ RunShape
    BY DEF IInv, TypeOK, TableTypeOK
  <1>2. row' = row /\ UNCHANGED <<sequence, Counts>> => Goal
    BY <1>1 DEF TableStep
  <1>3. ASSUME NEW s \in Sends, AppEnqueue(s)
        PROVE  Goal
    <2> DEFINE e == s.event
               r == InsertedRow(e, s.key, e, NoInbox, sequence + 1, 0, 0)
    <2>1. /\ e \in Row /\ s.key \in Key \cup {NoKey} /\ e \in Enqueued
          /\ NoInbox \in Inbox \cup {NoInbox} /\ sequence + 1 \in Nat /\ 0 \in Nat
      BY <1>1, TaskQueueAssumption DEF Enqueued
    <2>2. /\ row[e].status = "absent" /\ KeyLockFree(s.key, {})
          /\ sequence' = sequence + 1 /\ row' = [row EXCEPT ![e] = r]
          /\ UNCHANGED Counts
      BY <1>3 DEF AppEnqueue, InsertRoot, Counts
    <2> HIDE DEF e
    <2>3. r \in NewRow(e)
      BY <1>1, <2>1, InsertedRowType
    <2>4. /\ r.key = s.key /\ r.seq = sequence + 1 /\ r.pos = 0
          /\ r.payload /\ r.attempts = 0 /\ r.replayed = row[e].replayed
      BY <2>1, InsertedRowColumns, InsertedRowPayload
    <2> HIDE DEF r
    <2>5. row' \in [Row -> TypedRow] /\ row'[e] = r /\ Only(e)
      BY <1>1, <2>1, <2>2, <2>3, OneRow DEF NewRow
    <2>6. Inserts(e)
      BY <2>1, <2>2, <2>3, <2>4, <2>5 DEF Inserts, NewRow
    <2> QED BY <2>1, <2>5, <2>6 DEF TableStep, Changes
  <1>4. ASSUME NEW e \in Row, AppCommit(e)
        PROVE  Goal
    <2>1. /\ Uncommitted(e) /\ row' = [row EXCEPT ![e] = Published(e)]
          /\ UNCHANGED <<sequence, Counts>>
      BY <1>4 DEF AppCommit, Counts
    <2>2. row' \in [Row -> TypedRow] /\ row'[e] = Published(e) /\ Only(e)
      BY <1>1, <2>1, PublishedType, OneRow
    <2>3. Publishes(e)
      BY <1>1, <2>1, <2>2, PublishedType DEF Publishes, Kept, Uncommitted
    <2> QED BY <2>2, <2>3 DEF TableStep, Changes
  <1>5. ASSUME NEW e \in Row, AppRollback(e)
        PROVE  Goal
    <2>1. /\ Uncommitted(e) /\ row' = [row EXCEPT ![e] = AbsentRow(e)]
          /\ UNCHANGED <<sequence, Counts>>
      BY <1>5 DEF AppRollback, Counts
    <2>2. row' \in [Row -> TypedRow] /\ row'[e] = AbsentRow(e) /\ Only(e)
      BY <1>1, <2>1, AbsentRowType, OneRow
    <2>3. AbsentRow(e).attempts = 0 /\ ~AbsentRow(e).replayed
      BY Zenon DEF AbsentRow
    <2>4. Drops(e)
      BY <1>1, <2>1, <2>2, <2>3, AbsentRowType DEF Drops, Uncommitted
    <2> QED BY <2>2, <2>4 DEF TableStep, Changes
  <1>6. ASSUME NEW t \in Token, Take(t)
        PROVE  Goal
    BY <1>1, <1>6, TakeStep DEF TableStep, Changes
  <1>7. ASSUME NEW t \in Token, Heartbeat(t)
        PROVE  Goal
    BY <1>2, <1>7, HeartbeatStep DEF TableStep, Changes
  <1>8. ASSUME NEW t \in Token, NEW w \in 1..MaxWait, Settle(t, w)
        PROVE  Goal
    <2> DEFINE e == run[t].event
               settled == IF run[t].result = "success" THEN CompletedRow(e)
                          ELSE IF Finished(t) THEN FailedRow(e)
                          ELSE IF Released(t) THEN ReleasedRow(e)
                          ELSE RetriedRow(e, w, TRUE)
    <2>1. /\ e \in Row /\ run[t].state = "settling" /\ w \in 0..MaxWait
          /\ TRUE \in BOOLEAN /\ UNCHANGED <<sequence, starts>>
      BY <1>1, <1>8, OutboxTableAssumption DEF Settle, RunShape
    <2>2. CASE Holds(e, t)
      <3>1. row' = [row EXCEPT ![e] = settled]
        BY <1>8, <2>2 DEF Settle, Event
      <3>2. interruptions' = IF Released(t) THEN [interruptions EXCEPT ![e] = @ + 1]
                             ELSE interruptions
        BY <1>8, <2>2 DEF Settle, Event
      <3>3. run'[t].state = "free" /\ \A u \in Token \ {t} : run'[u] = run[u]
        BY <1>1, <1>8, FreeRunType DEF Settle, Ends
      <3>4. /\ settled \in TypedRow /\ settled.token = NoToken
            /\ settled.status \in {"pending", "dead", "completed"}
            /\ run[t].cause = "shutdown" => settled.status # "dead"
            /\ SameOrigin(settled, row[e]) /\ settled.replayed = row[e].replayed
            /\ row[e].payload /\ settled.status # "completed" => settled.payload
            /\ \/ settled.attempts = row[e].attempts
               \/ Released(t) /\ settled.attempts = Refunded(row[e].attempts)
        <4>1. CASE run[t].result = "success"
          <5>1. settled = CompletedRow(e)
            BY <4>1
          <5> HIDE DEF settled
          <5> QED BY <1>1, <2>1, <5>1, CompletedRowType
        <4>2. CASE run[t].result # "success" /\ Finished(t)
          <5>1. settled = FailedRow(e) /\ run[t].cause # "shutdown"
            BY <4>2 DEF Finished, Released
          <5> HIDE DEF settled
          <5> QED BY <1>1, <2>1, <5>1, FailedRowType
        <4>3. CASE run[t].result # "success" /\ ~Finished(t) /\ Released(t)
          <5>1. settled = ReleasedRow(e)
            BY <4>3
          <5> HIDE DEF settled
          <5> QED BY <1>1, <2>1, <4>3, <5>1, ReleasedRowType
        <4>4. CASE run[t].result # "success" /\ ~Finished(t) /\ ~Released(t)
          <5>1. settled = RetriedRow(e, w, TRUE)
            BY <4>4
          <5> HIDE DEF settled
          <5> QED BY <1>1, <2>1, <5>1, RetriedRowType
        <4> QED BY <4>1, <4>2, <4>3, <4>4
      <3> HIDE DEF settled
      <3>5. row' \in [Row -> TypedRow] /\ row'[e] = settled /\ Only(e)
        BY <1>1, <2>1, <3>1, <3>4, OneRow
      <3>6. /\ \A x \in Row \ {e} : interruptions'[x] = interruptions[x]
            /\ interruptions'[e] >= interruptions[e]
            /\ Released(t) => interruptions'[e] = interruptions[e] + 1
        BY <1>1, <2>1, <3>2
      <3>7. Gives(e, t)
        BY <2>1, <2>2, <3>3, <3>4, <3>5, <3>6 DEF Gives, Kept
      <3> QED BY <2>1, <3>5, <3>7 DEF TableStep, Changes
    <2>3. CASE ~Holds(e, t)
      BY <1>2, <1>8, <2>1, <2>3 DEF Settle, Event, Counts
    <2> QED BY <2>2, <2>3
  <1>9. ASSUME NEW e \in Row, Replay(e)
         PROVE  Goal
    <2>1. /\ row[e].status = "dead" /\ row' = [row EXCEPT ![e] = ReplayedRow(e)]
          /\ starts' = [starts EXCEPT ![e] = 0] /\ UNCHANGED <<sequence, interruptions>>
      BY <1>9 DEF Replay, Replayable
    <2>2. row' \in [Row -> TypedRow] /\ row'[e] = ReplayedRow(e) /\ Only(e)
      BY <1>1, <2>1, ReplayedRowType, OneRow
    <2>3. Replays(e)
      BY <1>1, <2>1, <2>2, ReplayedRowType DEF Replays
    <2> QED BY <2>2, <2>3 DEF TableStep, Changes
  <1>10. ASSUME NEW e \in Row, Prune(e)
         PROVE  Goal
    <2>1. /\ row[e].status = "completed" /\ Prunable(e, TRUE)
          /\ row' = [row EXCEPT ![e] = PrunedRow(e)] /\ UNCHANGED <<sequence, Counts>>
      BY <1>10 DEF Prune, Prunable, Counts
    <2>2. row' \in [Row -> TypedRow] /\ row'[e] = PrunedRow(e) /\ Only(e)
      BY <1>1, <2>1, PrunedRowType, OneRow
    <2>3. Prunes(e)
      BY <1>1, <2>1, <2>2, PrunedRowType DEF Prunes, Kept
    <2> QED BY <2>2, <2>3 DEF TableStep, Changes
  <1>11. ASSUME \/ \E w \in Worker, t \in Token, e \in Row : Select(w, t, e)
                \/ \E t \in Token :
                     \/ Unclaimed(t) \/ Deadline(t) \/ HeartbeatFails(t) \/ SettleFails(t)
                     \/ \E r \in {"success", "error", "invalid"} : HandlerEnds(t, r)
                \/ \E w \in Worker :
                     Crash(w) \/ Stall(w) \/ Wake(w) \/ Stop(w) \/ Exit(w)
                \/ UNCHANGED vars
         PROVE  Goal
    <2>1. row' = row /\ UNCHANGED <<sequence, Counts>>
      BY <1>11 DEF Select, Unclaimed, Deadline, HeartbeatFails, SettleFails,
         HandlerEnds, Crash, Stall, Wake, Stop, Exit, Gone, vars, Counts
    <2> QED BY <1>2, <2>1
  <1> HIDE DEF Goal
  <1>12. Tick \/ Goal
    BY <1>3, <1>4, <1>5, <1>6, <1>7, <1>8, <1>9, <1>10, <1>11 DEF Next, Execution
  <1> QED BY <1>12, Zenon DEF Goal

(* What a tick does. *)
LEMMA TickStep ==
    ASSUME IInv, Tick
    PROVE  /\ row' \in [Row -> TypedRow] /\ run' \in [Token -> RunRecord]
           /\ RunShape' /\ Ages
  <1> DEFINE later(t) == [run[t] EXCEPT !.age = IF @ < Lease THEN @ + 1 ELSE @,
                                        !.late = IF @ < 2 THEN @ + 1 ELSE @]
             Older(t) == IF run[t].state = "running" THEN later(t) ELSE run[t]
  <1>1. /\ row \in [Row -> TypedRow] /\ run \in [Token -> RunRecord] /\ RunShape
    BY DEF IInv, TypeOK, TableTypeOK
  <1>2. /\ TableTick /\ UNCHANGED <<sequence, Counts>>
        /\ run' = [t \in Token |-> Older(t)]
    BY DEF Tick, Counts
  <1>3. ASSUME NEW t \in Token
        PROVE  /\ later(t) \in RunRecord
               /\ later(t).event = run[t].event /\ later(t).state = run[t].state
               /\ later(t).worker = run[t].worker /\ later(t).cause = run[t].cause
               /\ later(t).age = IF run[t].age < Lease THEN run[t].age + 1 ELSE run[t].age
               /\ later(t).late = IF run[t].late < 2 THEN run[t].late + 1 ELSE run[t].late
    <2> DEFINE age == IF run[t].age < Lease THEN run[t].age + 1 ELSE run[t].age
               late == IF run[t].late < 2 THEN run[t].late + 1 ELSE run[t].late
    <2>1. run[t] \in RunRecord /\ Lease \in Nat
      BY <1>1, OutboxTableAssumption
    <2>2. run[t].age \in 0..Lease /\ run[t].late \in 0..2
      BY <2>1 DEF RunRecord
    <2>3. age \in 0..Lease /\ late \in 0..2
      BY <2>1, <2>2
    <2>4. later(t) = [run[t] EXCEPT !.age = age, !.late = late]
      OBVIOUS
    <2> HIDE DEF age, late, later
    <2>5. later(t) \in RunRecord
      BY <2>1, <2>3, <2>4, Zenon DEF RunRecord
    <2>6. /\ later(t).event = run[t].event /\ later(t).state = run[t].state
          /\ later(t).worker = run[t].worker /\ later(t).cause = run[t].cause
          /\ later(t).age = age /\ later(t).late = late
      BY <2>1, <2>4, Zenon DEF RunRecord
    <2> QED BY <2>5, <2>6 DEF age, late
  <1> HIDE DEF later
  <1>4. run' \in [Token -> RunRecord]
    BY <1>1, <1>2, <1>3
  <1>5. \A t \in Token : run'[t] = Older(t)
    BY <1>2
  <1>6. RunShape'
    BY <1>1, <1>3, <1>5 DEF RunShape
  <1>7. row' \in [Row -> TypedRow] /\ Ages
    BY <1>1, <1>2, <1>3, <1>5, TickType DEF Ages, Kept, SameTask
  <1> QED BY <1>4, <1>6, <1>7

(* Every other step changes every execution in one of these ways. *)
LEMMA RunSteps ==
    ASSUME IInv, [Next]_vars
    PROVE  \/ Tick
           \/ /\ run' \in [Token -> RunRecord] /\ RunShape'
              /\ \A t \in Token : RunStep(t)
  <1> DEFINE Goal == /\ run' \in [Token -> RunRecord] /\ RunShape'
                     /\ \A t \in Token : RunStep(t)
  <1>1. /\ row \in [Row -> TypedRow] /\ run \in [Token -> RunRecord] /\ RunShape
        /\ mode \in [Worker -> {"up", "stalled", "stopping"}]
    BY DEF IInv, TypeOK, TableTypeOK
  <1>2. run' = run => Goal
    BY <1>1 DEF RunStep, RunShape
  <1>3. ASSUME NEW t \in Token, Ends(t)
        PROVE  Goal
    <2>1. /\ run' \in [Token -> RunRecord] /\ run'[t] = FreeRun
          /\ \A u \in Token \ {t} : run'[u] = run[u]
      BY <1>1, <1>3, FreeRunType, OneRun DEF Ends
    <2> QED BY <1>1, <2>1, FreeRunType DEF RunStep, RunShape
  <1>4. ASSUME NEW t \in Token, NEW r \in RunRecord,
               run' = [run EXCEPT ![t] = r], run'[t] = r => RunStep(t),
               r.event \in Row, r.worker \in Worker,
               r.state = "chosen" => r.age = 0 /\ r.cause = "none"
        PROVE  Goal
    <2>1. /\ run' \in [Token -> RunRecord] /\ run'[t] = r
          /\ \A u \in Token \ {t} : run'[u] = run[u]
      BY <1>1, <1>4, OneRun
    <2> QED BY <1>1, <1>4, <2>1 DEF RunStep, RunShape
  <1>5. ASSUME NEW w \in Worker, NEW t \in Token, NEW e \in Row, Select(w, t, e)
        PROVE  Goal
    <2> DEFINE r == [FreeRun EXCEPT !.state = "chosen", !.event = e, !.worker = w]
    <2>1. r \in RunRecord /\ r.state = "chosen" /\ r.event = e /\ r.worker = w
          /\ r.age = 0 /\ r.cause = "none"
      BY FreeRunType DEF RunRecord
    <2>2. run' = [run EXCEPT ![t] = r] /\ Fresh(t) /\ Claimable(e) /\ row' = row
      BY <1>5 DEF Select
    <2> HIDE DEF r
    <2> QED BY <1>4, <2>1, <2>2 DEF RunStep, Begins
  <1>6. ASSUME NEW t \in Token, Take(t)
        PROVE  Goal
    <2>1. Claims(Event(t), t) /\ Event(t) \in Row
      BY <1>6, TakeStep
    <2>2. run[t] \in RunRecord /\ run[t].state = "chosen" /\ run[t].worker \in Worker
      BY <1>1, <1>6 DEF Take, RunShape
    <2> DEFINE stopping == mode[run[t].worker] = "stopping"
               state == IF stopping \/ Spent(Event(t)) THEN "settling" ELSE "running"
               cause == IF stopping THEN "shutdown" ELSE "none"
               result == IF ~stopping /\ Spent(Event(t)) THEN "invalid" ELSE "none"
               r == [run[t] EXCEPT !.state = state, !.cause = cause,
                                   !.result = result, !.late = 0]
    <2>3. /\ state \in {"free", "chosen", "running", "settling"} /\ state # "chosen"
          /\ cause \in {"none", "shutdown", "deadline", "lease"}
          /\ result \in {"none", "success", "error", "invalid"} /\ 0 \in 0..2
      OBVIOUS
    <2>4. run' = [run EXCEPT ![t] = r]
      BY <1>1, <1>6, <2>2 DEF Take
    <2> HIDE DEF state, cause, result
    <2>5. r \in RunRecord /\ r.event = Event(t) /\ r.worker = run[t].worker
          /\ r.state = state
      BY <2>2, <2>3, Zenon DEF RunRecord, Event
    <2> HIDE DEF r
    <2> QED BY <1>4, <2>1, <2>2, <2>3, <2>4, <2>5 DEF RunStep
  <1>7. ASSUME NEW t \in Token, Heartbeat(t)
        PROVE  Goal
    <2>1. /\ UNCHANGED <<sequence, Counts>>
          /\ \/ row' = row /\ ~Holds(Event(t), t)
             \/ Renews(Event(t), t)
      BY <1>7, HeartbeatStep
    <2>2. /\ run[t] \in RunRecord /\ run[t].state = "running"
          /\ run[t].event \in Row /\ run[t].worker \in Worker
      BY <1>1, <1>7 DEF Heartbeat, Running, RunShape
    <2> DEFINE held == Holds(Event(t), t)
               age == IF held THEN 0 ELSE run[t].age
               cause == IF ~held \/ Unsafe(t) THEN Cause(t, "lease") ELSE run[t].cause
               r == [run[t] EXCEPT !.late = 0, !.age = age, !.cause = cause]
    <2>3. /\ age \in 0..Lease /\ 0 \in 0..2
          /\ cause \in {"none", "shutdown", "deadline", "lease"}
          /\ ~held => cause # "none"
      BY <2>2, OutboxTableAssumption DEF RunRecord, Cause
    <2>4. run' = [run EXCEPT ![t] = r]
      BY <1>7, Zenon DEF Heartbeat
    <2> HIDE DEF cause
    <2>5. CASE held
      <3>1. age = 0 /\ Renews(Event(t), t)
        BY <2>1, <2>5 DEF Renews
      <3>2. r \in RunRecord /\ r.event = run[t].event /\ r.worker = run[t].worker
            /\ r.state = run[t].state /\ r.late = 0
        BY <2>2, <2>3, Zenon DEF RunRecord
      <3> HIDE DEF r
      <3> QED BY <1>4, <2>2, <2>4, <3>1, <3>2 DEF RunStep, Beats, SameTask
    <2>6. CASE ~held
      <3>1. age = run[t].age /\ row' = row /\ cause # "none"
        BY <2>1, <2>3, <2>6 DEF Renews
      <3> HIDE DEF age
      <3>2. r \in RunRecord /\ r.event = run[t].event /\ r.worker = run[t].worker
            /\ r.state = run[t].state /\ r.late = 0 /\ r.age = age /\ r.cause = cause
        BY <2>2, <2>3, Zenon DEF RunRecord
      <3> HIDE DEF r
      <3> QED BY <1>4, <2>2, <2>4, <3>1, <3>2 DEF RunStep, Beats, SameTask
    <2> QED BY <2>5, <2>6
  <1>8. ASSUME NEW t \in Token, HeartbeatFails(t)
        PROVE  Goal
    <2>1. /\ run[t] \in RunRecord /\ run[t].state = "running" /\ row' = row
          /\ run[t].event \in Row /\ run[t].worker \in Worker
      BY <1>1, <1>8 DEF HeartbeatFails, Running, RunShape
    <2> DEFINE cause == IF Unsafe(t) THEN Cause(t, "lease") ELSE run[t].cause
               r == [run[t] EXCEPT !.late = 0, !.cause = cause]
    <2>2. /\ 0 \in 0..2 /\ cause \in {"none", "shutdown", "deadline", "lease"}
          /\ cause # "none" \/ run[t].age < Lease - 1
      BY <2>1, OutboxTableAssumption DEF RunRecord, Cause, Unsafe
    <2>3. run' = [run EXCEPT ![t] = r]
      BY <1>1, <1>8, <2>1 DEF HeartbeatFails, RunRecord
    <2> HIDE DEF cause
    <2>4. r \in RunRecord /\ r.event = run[t].event /\ r.worker = run[t].worker
          /\ r.state = run[t].state /\ r.late = 0 /\ r.age = run[t].age
          /\ r.cause = cause
      BY <2>1, <2>2, Zenon DEF RunRecord
    <2> HIDE DEF r
    <2> QED BY <1>4, <2>1, <2>2, <2>3, <2>4 DEF RunStep, Beats, SameTask
  <1>9. ASSUME NEW t \in Token, Deadline(t)
        PROVE  Goal
    <2>1. /\ run[t] \in RunRecord /\ run[t].state = "running" /\ row' = row
          /\ run[t].event \in Row /\ run[t].worker \in Worker
      BY <1>1, <1>9 DEF Deadline, Running, RunShape
    <2> DEFINE r == [run[t] EXCEPT !.cause = "deadline"]
    <2>2. run' = [run EXCEPT ![t] = r]
      BY <1>1, <1>9, <2>1 DEF Deadline
    <2>3. r \in RunRecord /\ r.event = run[t].event /\ r.worker = run[t].worker
          /\ r.state = run[t].state /\ r.age = run[t].age /\ r.cause = "deadline"
      BY <2>1 DEF RunRecord
    <2> HIDE DEF r
    <2> QED BY <1>4, <2>1, <2>2, <2>3 DEF RunStep, Aborts, SameTask
  <1>10. ASSUME NEW t \in Token, NEW result \in {"success", "error", "invalid"},
                HandlerEnds(t, result)
         PROVE  Goal
    <2>1. /\ run[t] \in RunRecord /\ run[t].state = "running" /\ row' = row
          /\ run[t].event \in Row /\ run[t].worker \in Worker
      BY <1>1, <1>10 DEF HandlerEnds, Running, RunShape
    <2> DEFINE outcome == IF run[t].cause = "none" THEN result ELSE "error"
               r == [run[t] EXCEPT !.state = "settling", !.result = outcome]
    <2>2. outcome \in {"success", "error", "invalid"}
      OBVIOUS
    <2>3. run' = [run EXCEPT ![t] = r]
      BY <1>1, <1>10, <2>1 DEF HandlerEnds
    <2> HIDE DEF outcome
    <2>4. r \in RunRecord /\ r.event = run[t].event /\ r.worker = run[t].worker
          /\ r.state = "settling"
      BY <2>1, <2>2 DEF RunRecord
    <2> HIDE DEF r
    <2> QED BY <1>4, <2>1, <2>3, <2>4 DEF RunStep, Finishes
  <1>11. ASSUME NEW w \in Worker, Gone(w)
         PROVE  Goal
    <2>1. \A t \in Token : run'[t] = run[t] \/ run'[t] = FreeRun
      BY <1>11 DEF Gone
    <2>2. run' \in [Token -> RunRecord]
      BY <1>1, <1>11, FreeRunType DEF Gone
    <2> QED BY <1>1, <2>1, <2>2, FreeRunType DEF RunStep, RunShape
  <1>12. ASSUME NEW w \in Worker, Stop(w)
         PROVE  Goal
    <2> DEFINE r(t) == [run[t] EXCEPT !.cause = Cause(t, "shutdown")]
    <2>1. ASSUME NEW t \in Token
          PROVE  /\ r(t) \in RunRecord
                 /\ r(t).event = run[t].event /\ r(t).worker = run[t].worker
                 /\ r(t).state = run[t].state /\ r(t).age = run[t].age
                 /\ r(t).cause # "none"
      <3>1. run[t] \in RunRecord
        BY <1>1
      <3>2. /\ Cause(t, "shutdown") \in {"none", "shutdown", "deadline", "lease"}
            /\ Cause(t, "shutdown") # "none"
        BY <3>1 DEF RunRecord, Cause
      <3> QED BY <3>1, <3>2, Zenon DEF RunRecord
    <2>2. /\ row' = row
          /\ run' = [t \in Token |-> IF t \in Occupied(w) /\ run[t].state = "running"
                                    THEN r(t) ELSE run[t]]
      BY <1>12 DEF Stop
    <2> HIDE DEF r
    <2>3. \A t \in Token : \/ run'[t] = run[t]
                           \/ run[t].state = "running" /\ run'[t] = r(t)
      BY <2>2
    <2>4. run' \in [Token -> RunRecord]
      BY <1>1, <2>1, <2>2
    <2> QED BY <1>1, <2>1, <2>2, <2>3, <2>4 DEF RunStep, Aborts, SameTask, RunShape
  <1>13. ASSUME \/ \E s \in Sends : AppEnqueue(s)
                \/ \E e \in Row : AppCommit(e) \/ AppRollback(e) \/ Replay(e) \/ Prune(e)
                \/ \E w \in Worker : Stall(w) \/ Wake(w)
                \/ UNCHANGED vars
         PROVE  Goal
    <2>1. run' = run
      BY <1>13 DEF AppEnqueue, AppCommit, AppRollback, Replay, Prune, Stall, Wake, vars
    <2> QED BY <1>2, <2>1
  <1>14. ASSUME NEW t \in Token,
                Unclaimed(t) \/ SettleFails(t) \/ \E w \in 1..MaxWait : Settle(t, w)
         PROVE  Goal
    <2>1. Ends(t)
      BY <1>14 DEF Unclaimed, SettleFails, Settle
    <2> QED BY <1>3, <2>1
  <1>15. ASSUME NEW w \in Worker, Crash(w) \/ Exit(w)
         PROVE  Goal
    BY <1>11, <1>15 DEF Crash, Exit
  <1> HIDE DEF Goal
  <1>16. Tick \/ Goal
    BY <1>5, <1>6, <1>7, <1>8, <1>9, <1>10, <1>12, <1>13, <1>14, <1>15
       DEF Next, Execution
  <1> QED BY <1>16, Zenon DEF Goal

(* The types of the variables that count and of those of the workers.      *)
LEMMA OtherTypes ==
    ASSUME IInv, [Next]_vars
    PROVE  /\ sequence' \in Nat /\ faults' \in Nat
           /\ mode' \in [Worker -> {"up", "stalled", "stopping"}]
           /\ starts' \in [Row -> Nat] /\ interruptions' \in [Row -> Nat]
  <1> DEFINE Modes == {"up", "stalled", "stopping"}
             Goal == /\ sequence' \in Nat /\ faults' \in Nat /\ mode' \in [Worker -> Modes]
                     /\ starts' \in [Row -> Nat] /\ interruptions' \in [Row -> Nat]
  <1>1. /\ sequence \in Nat /\ faults \in Nat /\ mode \in [Worker -> Modes]
        /\ starts \in [Row -> Nat] /\ interruptions \in [Row -> Nat] /\ RunShape
    BY DEF IInv, TypeOK, TableTypeOK
  <1>2. ASSUME NEW s \in Sends, AppEnqueue(s)
        PROVE  Goal
    BY <1>1, <1>2 DEF AppEnqueue, InsertRoot
  <1>3. ASSUME NEW e \in Row, AppCommit(e) \/ AppRollback(e) \/ Replay(e) \/ Prune(e)
        PROVE  Goal
    <2>1. /\ UNCHANGED <<sequence, mode, faults, interruptions>>
          /\ starts' = starts \/ starts' = [starts EXCEPT ![e] = 0]
      BY <1>3 DEF AppCommit, AppRollback, Replay, Prune
    <2> QED BY <1>1, <2>1
  <1>4. ASSUME NEW t \in Token, Take(t)
        PROVE  Goal
    <2>1. Event(t) \in Row /\ UNCHANGED <<sequence, mode, faults, interruptions>>
      BY <1>1, <1>4 DEF Take, RunShape, Event
    <2>2. starts' = starts \/ starts' = [starts EXCEPT ![Event(t)] = @ + 1]
      BY <1>4 DEF Take
    <2> QED BY <1>1, <2>1, <2>2
  <1>5. ASSUME NEW t \in Token, NEW w \in 1..MaxWait, Settle(t, w)
        PROVE  Goal
    <2>1. Event(t) \in Row /\ UNCHANGED <<sequence, mode, faults, starts>>
      BY <1>1, <1>5 DEF Settle, RunShape, Event
    <2>2. \/ interruptions' = interruptions
          \/ interruptions' = [interruptions EXCEPT ![Event(t)] = @ + 1]
      BY <1>5 DEF Settle
    <2> QED BY <1>1, <2>1, <2>2
  <1>6. ASSUME \/ \E w \in Worker, t \in Token, e \in Row : Select(w, t, e)
               \/ \E t \in Token :
                     \/ Unclaimed(t) \/ Deadline(t) \/ Heartbeat(t) \/ HeartbeatFails(t)
                     \/ SettleFails(t)
                     \/ \E r \in {"success", "error", "invalid"} : HandlerEnds(t, r)
               \/ Tick \/ UNCHANGED vars
        PROVE  Goal
    <2>1. UNCHANGED <<sequence, mode, Counts>> /\ (faults' = faults \/ faults' = faults + 1)
      BY <1>6 DEF Select, Unclaimed, Deadline, Heartbeat, HeartbeatFails, SettleFails,
         HandlerEnds, Tick, Fault, vars, Counts
    <2> QED BY <1>1, <2>1 DEF Counts
  <1>7. ASSUME NEW w \in Worker, Crash(w) \/ Stall(w) \/ Wake(w) \/ Stop(w) \/ Exit(w)
        PROVE  Goal
    <2>1. /\ UNCHANGED <<sequence, Counts>> /\ (faults' = faults \/ faults' = faults + 1)
          /\ \E m \in Modes : mode' = [mode EXCEPT ![w] = m]
      BY <1>7 DEF Crash, Stall, Wake, Stop, Exit, Gone, Fault, Counts
    <2> QED BY <1>1, <2>1 DEF Counts
  <1> HIDE DEF Goal
  <1>8. Goal
    BY <1>2, <1>3, <1>4, <1>5, <1>6, <1>7 DEF Next, Execution
  <1> QED BY <1>8 DEF Goal

(* A step is a tick, or leaves every instant alone.                        *)
LEMMA Steps ==
    ASSUME IInv, [Next]_vars
    PROVE  TypeOK' /\ RunShape' /\ (Ages \/ Evolves)
  <1>1. CASE Tick
    BY <1>1, TickStep, OtherTypes DEF TypeOK, TableTypeOK
  <1>2. CASE ~Tick
    BY <1>2, RowSteps, RunSteps, OtherTypes DEF TypeOK, TableTypeOK, Evolves
  <1> QED BY <1>1, <1>2

-----------------------------------------------------------------------------
(* Every step preserves the invariant, conjunct by conjunct. *)

Rests(x) ==
    /\ row'[x].status = row[x].status /\ row'[x].token = row[x].token
    /\ Kept(x) /\ row'[x].attempts = row[x].attempts
    /\ starts'[x] = starts[x] /\ interruptions'[x] = interruptions[x]

(* A step leaves a row alone, or changes it, and then no other.            *)
LEMMA RowFate ==
    ASSUME IInv, TypeOK', Ages \/ Evolves
    PROVE  /\ \A x \in Row : Rests(x) \/ (Changes(x) /\ Only(x))
           /\ sequence' = sequence \/ sequence' = sequence + 1
  <1>1. CASE Ages
    BY <1>1 DEF Ages, Rests, Counts
  <1>2. CASE Evolves
    <2>1. CASE row' = row /\ UNCHANGED <<sequence, Counts>>
      BY <2>1 DEF Rests, Kept, SameOrigin, Counts
    <2>2. ASSUME NEW e \in Row, Only(e), Changes(e)
          PROVE  /\ \A x \in Row : Rests(x) \/ (Changes(x) /\ Only(x))
                 /\ sequence' = sequence \/ sequence' = sequence + 1
      <3>1. sequence' = sequence \/ sequence' = sequence + 1
        BY <2>2 DEF Changes, Inserts, Publishes, Drops, Claims, Renews, Gives, Replays,
           Prunes, Counts
      <3>2. \A x \in Row \ {e} : starts'[x] = starts[x] /\ interruptions'[x] = interruptions[x]
        BY <2>2 DEF Changes, Inserts, Publishes, Drops, Claims, Renews, Gives, Replays,
           Prunes, Counts, IInv, TypeOK
      <3>3. \A x \in Row \ {e} : Rests(x)
        BY <2>2, <3>2 DEF Only, Rests, Kept, SameOrigin
      <3> QED BY <2>2, <3>1, <3>3
    <2> QED BY <1>2, <2>1, <2>2 DEF Evolves, TableStep
  <1> QED BY <1>1, <1>2

(* What is visible stays visible, with the key and the place it has.       *)
LEMMA VisibleStays ==
    ASSUME IInv, TypeOK', Ages \/ Evolves, NEW x \in Row
    PROVE  /\ Visible(x) => Visible(x)' /\ SameOrigin(row'[x], row[x])
           /\ row[x].status # "absent" /\ row'[x].status # "absent" =>
                SameOrigin(row'[x], row[x])
           /\ Visible(x)' => Visible(x) \/ Publishes(x)
           /\ row'[x].replayed = row[x].replayed \/ row'[x].replayed \/ ~Visible(x)'
  <1>1. Rests(x) \/ Changes(x)
    BY RowFate
  <1>2. row[x].status \in Status
    BY RowFields DEF IInv, TypeOK, TableTypeOK
  <1>3. CASE Rests(x)
    BY <1>3 DEF Rests, Kept, Visible
  <1>4. CASE Inserts(x) \/ Publishes(x) \/ Drops(x) \/ Replays(x) \/ Prunes(x)
    BY <1>4 DEF Inserts, Publishes, Drops, Replays, Prunes, Kept, Visible
  <1>5. ASSUME NEW t \in Token, Claims(x, t) \/ Renews(x, t) \/ Gives(x, t)
        PROVE  /\ Visible(x) /\ Visible(x)' /\ SameOrigin(row'[x], row[x])
               /\ row'[x].replayed = row[x].replayed
    BY <1>5 DEF Claims, Due, Renews, Gives, Holds, Kept, Visible
  <1> QED BY <1>1, <1>3, <1>4, <1>5 DEF Changes

(* A row keeps the key and the place it was inserted with. *)
LEMMA PresentStays ==
    ASSUME IInv, TypeOK', Ages \/ Evolves, NEW x \in Row, row'[x].status # "absent"
    PROVE  \/ row[x].status # "absent" /\ SameOrigin(row'[x], row[x])
           \/ Inserts(x) /\ Only(x)
  <1>1. CASE row[x].status # "absent"
    BY <1>1, VisibleStays
  <1>2. CASE row[x].status = "absent"
    BY <1>2, RowFate DEF Rests, Changes, Inserts, Publishes, Drops, Claims, Due,
       Renews, Gives, Holds, Replays, Prunes
  <1> QED BY <1>1, <1>2

(* A token stays with the execution of its row.                            *)
LEMMA KeepsTokenOwned ==
    ASSUME IInv, TypeOK', Ages \/ Evolves
    PROVE  TokenOwned'
  <1> SUFFICES ASSUME NEW t \in Token, NEW e \in Row, row'[e].token = t
               PROVE  \/ run'[t].state = "free"
                      \/ run'[t].state \in {"running", "settling"} /\ run'[t].event = e
    BY DEF TokenOwned
  <1>1. Rests(e) \/ Changes(e)
    BY RowFate
  <1>2. CASE row[e].token = t
    <2>1. \/ run[t].state = "free"
          \/ run[t].state \in {"running", "settling"} /\ run[t].event = e
      BY <1>2 DEF IInv, TokenOwned
    <2>2. CASE Ages
      BY <2>1, <2>2 DEF Ages, SameTask
    <2>3. CASE Evolves
      BY <1>2, <2>1, <2>3 DEF Evolves, RunStep, Begins, Fresh, Claims, Beats, Aborts,
         Finishes, SameTask
    <2> QED BY <2>2, <2>3
  <1>3. CASE row[e].token # t
    <2>1. \E u \in Token : Claims(e, u) \/ Renews(e, u)
      BY <1>1, <1>3, ColumnTypes DEF Rests, Changes, Inserts, Publishes, Drops, Gives,
         Replays, Prunes
    <2> QED BY <1>3, <2>1 DEF Claims, Renews, Holds
  <1> QED BY <1>2, <1>3

(* The age of an execution and the lease of its row move together.         *)
LEMMA KeepsAgeIsLeases ==
    ASSUME IInv, TypeOK', Ages \/ Evolves
    PROVE  AgeIsLeases'
  <1> DEFINE HoldsNext(e, t) == row'[e].status = "processing" /\ row'[e].token = t
             InStep(e, t) == /\ run'[t].age < Lease => HoldsNext(e, t)
                             /\ HoldsNext(e, t) => row'[e].lease = Lease - run'[t].age
  <1> SUFFICES ASSUME NEW t \in Token, run'[t].state = "running"
               PROVE  InStep(run'[t].event, t)
    BY DEF AgeIsLeases, Event, Holds
  <1>1. /\ run \in [Token -> RunRecord] /\ run' \in [Token -> RunRecord]
        /\ row \in [Row -> TypedRow] /\ Lease \in Nat \ {0}
    BY OutboxTableAssumption DEF IInv, TypeOK, TableTypeOK
  <1>2. run[t].age \in 0..Lease /\ run'[t].age \in 0..Lease
    BY <1>1 DEF RunRecord
  <1>3. ASSUME NEW e \in Row, Claims(e, t) \/ Renews(e, t)
        PROVE  InStep(run'[t].event, t)
    <2>1. run'[t].event = e /\ run'[t].age = 0 /\ HoldsNext(e, t) /\ row'[e].lease = Lease
      BY <1>3 DEF Claims, Renews, IInv, RunShape
    <2> QED BY <1>1, <2>1
  <1>4. CASE run[t].state = "running" /\ SameTask(t)
    <2>1. PICK e \in Row : e = run[t].event
      BY <1>4 DEF IInv, RunShape
    <2>2. /\ run'[t].event = e /\ row[e].lease \in 0..Lease
          /\ run[t].age < Lease => Holds(e, t)
          /\ Holds(e, t) => row[e].lease = Lease - run[t].age
      BY <1>1, <1>4, <2>1, RowFields DEF IInv, AgeIsLeases, Event, SameTask
    <2>3. CASE Ages
      <3>1. /\ row'[e].status = row[e].status /\ row'[e].token = row[e].token
            /\ row'[e].lease = Less(row[e].lease)
            /\ run'[t].age = IF run[t].age < Lease THEN run[t].age + 1 ELSE run[t].age
        BY <1>4, <2>3 DEF Ages
      <3> QED BY <1>1, <1>2, <2>2, <3>1 DEF Holds, Less
    <2>4. CASE Evolves /\ ~Renews(e, t)
      <3>1. run'[t].age = run[t].age
        BY <1>4, <2>1, <2>4 DEF Evolves, RunStep, Begins, Claims, Beats, Aborts, Finishes,
           SameTask, Event
      <3>2. CASE row'[e] = row[e]
        BY <2>2, <3>1, <3>2 DEF Holds
      <3>3. CASE Changes(e)
        <4>1. CASE Holds(e, t)
          <5>1. PICK u \in Token : Claims(e, u) \/ Renews(e, u) \/ Gives(e, u)
            BY <3>3, <4>1 DEF Changes, Inserts, Publishes, Drops, Replays, Prunes, Holds
          <5>2. u # t /\ Claims(e, u)
            BY <1>4, <2>4, <4>1, <5>1 DEF Claims, Renews, Gives, Holds
          <5>3. row[e].lease = 0 /\ ~HoldsNext(e, t)
            BY <4>1, <5>2 DEF Claims, Due, Holds
          <5> QED BY <1>1, <1>2, <2>2, <3>1, <4>1, <5>3
        <4>2. CASE ~Holds(e, t)
          <5>1. SUFFICES ASSUME HoldsNext(e, t)
                         PROVE  FALSE
            BY <2>2, <3>1, <4>2
          <5>2. PICK u \in Token : Claims(e, u) \/ Renews(e, u)
            BY <3>3, <5>1, ColumnTypes DEF Changes, Inserts, Publishes, Drops, Gives,
               Replays, Prunes
          <5> QED BY <1>4, <4>2, <5>1, <5>2 DEF Claims, Renews
        <4> QED BY <4>1, <4>2
      <3> QED BY <2>4, <3>2, <3>3 DEF Evolves, TableStep, Only
    <2>5. CASE Renews(e, t)
      BY <1>3, <2>5
    <2> QED BY <2>3, <2>4, <2>5
  <1>5. CASE ~(run[t].state = "running" /\ SameTask(t))
    <2>1. Claims(Event(t), t)
      BY <1>5 DEF Ages, Evolves, RunStep, Begins, Beats, Aborts, Finishes, SameTask
    <2>2. Event(t) \in Row
      BY <2>1 DEF Claims, IInv, RunShape, Event
    <2> QED BY <1>3, <2>1, <2>2
  <1> QED BY <1>4, <1>5

(* A heartbeat that comes too late, or may, cancels the execution.         *)
LEMMA KeepsAgeIsSafe ==
    ASSUME IInv, TypeOK', Ages \/ Evolves
    PROVE  AgeIsSafe'
  <1> SUFFICES ASSUME NEW t \in Token, run'[t].state = "running",
                      run'[t].cause = "none", run'[t].late < 2
               PROVE  run'[t].age <= Lease - 2 + run'[t].late
    BY DEF AgeIsSafe, Cancelled
  <1>1. /\ run \in [Token -> RunRecord] /\ run' \in [Token -> RunRecord]
        /\ Lease \in Nat /\ Lease > 2
    BY OutboxTableAssumption, TaskQueueAssumption DEF IInv, TypeOK
  <1>2. /\ run[t].age \in 0..Lease /\ run'[t].age \in 0..Lease
        /\ run[t].late \in 0..2 /\ run'[t].late \in 0..2
    BY <1>1 DEF RunRecord
  <1>3. run[t].state = "running" /\ run[t].cause = "none" /\ run[t].late < 2
        => run[t].age <= Lease - 2 + run[t].late
    BY DEF IInv, AgeIsSafe, Cancelled
  <1>4. CASE Ages
    BY <1>1, <1>2, <1>3, <1>4 DEF Ages
  <1>5. CASE run'[t] = run[t]
    BY <1>3, <1>5
  <1>6. CASE Claims(Event(t), t)
    BY <1>1, <1>2, <1>6 DEF Claims, IInv, RunShape
  <1>7. CASE Beats(t)
    BY <1>1, <1>2, <1>7 DEF Beats, Renews
  <1> QED BY <1>4, <1>5, <1>6, <1>7 DEF Evolves, RunStep, Begins, Aborts, Finishes

(* Rows that were not published have no history yet.                       *)
LEMMA KeepsUnpublished ==
    ASSUME IInv, TypeOK', Ages \/ Evolves
    PROVE  Unpublished'
  <1> SUFFICES ASSUME NEW x \in Row, row'[x].status \in {"absent", "uncommitted"}
               PROVE  row'[x].attempts = 0 /\ ~row'[x].replayed
    BY DEF Unpublished
  <1>1. Rests(x) \/ Changes(x)
    BY RowFate
  <1>2. row[x].status \in {"absent", "uncommitted"} => row[x].attempts = 0 /\ ~row[x].replayed
    BY DEF IInv, Unpublished
  <1>3. CASE Rests(x)
    BY <1>2, <1>3 DEF Rests, Kept
  <1>4. CASE Changes(x)
    BY <1>2, <1>4 DEF Changes, Inserts, Publishes, Drops, Claims, Renews, Gives, Replays,
       Prunes
  <1> QED BY <1>1, <1>3, <1>4

(* Sequence numbers are drawn once. *)
LEMMA KeepsSequenced ==
    ASSUME IInv, TypeOK', Ages \/ Evolves
    PROVE  Sequenced'
  <1>1. /\ sequence \in Nat /\ row' \in [Row -> TypedRow]
        /\ sequence' = sequence \/ sequence' = sequence + 1
    BY RowFate DEF IInv, TypeOK, TableTypeOK
  <1>2. ASSUME NEW x \in Row, row'[x].status # "absent"
        PROVE  \/ row[x].status # "absent" /\ SameOrigin(row'[x], row[x])
               \/ Inserts(x) /\ Only(x)
    BY <1>2, PresentStays
  <1>3. ASSUME NEW x \in Row, row[x].status # "absent"
        PROVE  x \in Enqueued /\ row[x].pos = 0 /\ row[x].seq \in 1..sequence
    BY <1>3 DEF IInv, Sequenced
  <1>4. ASSUME NEW x \in Row, row'[x].status # "absent"
        PROVE  x \in Enqueued /\ row'[x].pos = 0 /\ row'[x].seq \in 1..sequence'
    <2>1. CASE row[x].status # "absent" /\ SameOrigin(row'[x], row[x])
      BY <1>1, <1>3, <2>1 DEF SameOrigin
    <2>2. CASE Inserts(x)
      BY <1>1, <2>2 DEF Inserts
    <2> QED BY <1>2, <1>4, <2>1, <2>2
  <1>5. ASSUME NEW a \in Row, NEW b \in Row, a # b,
               row'[a].status # "absent", row'[b].status # "absent"
        PROVE  row'[a].seq # row'[b].seq
    <2>1. ASSUME NEW x \in Row, NEW y \in Row, x # y, Inserts(x), Only(x),
                 row'[y].status # "absent"
          PROVE  row'[x].seq # row'[y].seq
      <3>1. row'[y] = row[y] /\ row[y].seq \in 1..sequence /\ row'[x].seq = sequence + 1
        BY <1>3, <2>1 DEF Only, Inserts
      <3> QED BY <1>1, <3>1
    <2>2. CASE /\ row[a].status # "absent" /\ SameOrigin(row'[a], row[a])
               /\ row[b].status # "absent" /\ SameOrigin(row'[b], row[b])
      BY <1>5, <2>2 DEF IInv, Sequenced, SameOrigin
    <2> QED BY <1>2, <1>5, <2>1, <2>2
  <1> QED BY <1>4, <1>5 DEF Sequenced

(* The row that holds the advisory lock stays the last of its key.         *)
LEMMA KeepsLastOfKey ==
    ASSUME IInv, TypeOK', Ages \/ Evolves
    PROVE  LastOfKey'
  <1> SUFFICES ASSUME NEW a \in Row, NEW b \in Row, a # b,
                      row'[a].status = "uncommitted", row'[b].status # "absent",
                      row'[a].key # NoKey, row'[a].key = row'[b].key
               PROVE  row'[b].seq < row'[a].seq
    BY DEF LastOfKey, Uncommitted, SameKey
  <1>1. \A x \in Row : row[x].status # "absent" => row[x].seq \in 1..sequence
    BY DEF IInv, Sequenced
  <1>2. sequence \in Nat
    BY DEF IInv, TypeOK, TableTypeOK
  <1>3. ASSUME NEW x \in Row, row'[x].status # "absent"
        PROVE  \/ row[x].status # "absent" /\ SameOrigin(row'[x], row[x])
               \/ Inserts(x) /\ Only(x)
    BY <1>3, PresentStays
  <1>4. CASE Inserts(a) /\ Only(a)
    <2>1. row'[b] = row[b] /\ row'[a].seq = sequence + 1
      BY <1>4 DEF Inserts, Only
    <2> QED BY <1>1, <1>2, <2>1
  <1>5. CASE Inserts(b) /\ Only(b)
    <2>1. row'[a] = row[a] /\ KeyLockFree(row'[b].key, {})
      BY <1>5 DEF Inserts, Only
    <2> QED BY <2>1 DEF KeyLockFree, Uncommitted
  <1>6. CASE /\ row[a].status # "absent" /\ SameOrigin(row'[a], row[a])
             /\ row[b].status # "absent" /\ SameOrigin(row'[b], row[b])
    <2>1. Rests(a) \/ Changes(a)
      BY RowFate
    <2>2. row[a].status = "uncommitted"
      BY <1>6, <2>1 DEF Rests, Changes, Inserts, Publishes, Drops, Claims, Renews, Gives,
         Replays, Prunes
    <2> QED BY <1>6, <2>2 DEF IInv, LastOfKey, Uncommitted, SameKey, SameOrigin
  <1> QED BY <1>3, <1>4, <1>5, <1>6

(* The tasks before a visible one that are settled, or were replayed, stay *)
(* so, and no other ever appears before it.                                *)
LEMMA ClearedStays ==
    ASSUME IInv, TypeOK', Ages \/ Evolves, NEW b \in Row, Visible(b), Cleared(b)
    PROVE  Visible(b)' /\ Cleared(b)'
  <1>1. Visible(b)' /\ SameOrigin(row'[b], row[b])
    BY VisibleStays
  <1> SUFFICES ASSUME NEW a \in Row, SameKey(a, b)', Before(a, b)', Visible(a)',
                      ~row'[a].replayed
               PROVE  Settled(a)'
    BY <1>1 DEF Cleared
  <1>2. Visible(a) \/ Publishes(a)
    BY VisibleStays
  <1>3. row[a].status # "absent" /\ SameOrigin(row'[a], row[a]) /\ row[b].status # "absent"
    BY <1>2, VisibleStays DEF Visible, Publishes
  <1>4. SameKey(a, b) /\ Before(a, b)
    BY <1>1, <1>3 DEF SameKey, Before, SameOrigin
  <1>5. CASE Publishes(a)
    <2>1. a # b /\ Uncommitted(a)
      BY <1>5 DEF Publishes, Uncommitted, Visible
    <2>2. row[b].seq < row[a].seq
      BY <1>3, <1>4, <2>1 DEF IInv, LastOfKey
    <2>3. row[a].seq \in Nat /\ row[b].seq \in Nat
      BY RowFields DEF IInv, TypeOK, TableTypeOK
    <2> QED BY <1>4, <2>2, <2>3 DEF Before
  <1>6. CASE Visible(a)
    <2>1. Rests(a) \/ Changes(a)
      BY RowFate
    <2>2. Settled(a) \/ row[a].replayed
      BY <1>4, <1>6 DEF Cleared
    <2>3. CASE Rests(a)
      BY <2>2, <2>3 DEF Rests, Kept, Settled
    <2>4. CASE Changes(a) /\ Settled(a)
      BY <2>4 DEF Changes, Inserts, Publishes, Drops, Claims, Due, Renews, Gives, Holds,
         Replays, Prunes, Settled
    <2>5. CASE Changes(a) /\ row[a].replayed
      BY <1>6, <2>5 DEF Changes, Inserts, Publishes, Drops, Claims, Renews, Gives, Replays,
         Prunes, Kept, Visible
    <2> QED BY <2>1, <2>2, <2>3, <2>4, <2>5
  <1> QED BY <1>2, <1>5, <1>6

(* What may be claimed is the first of its key.                            *)
LEMMA ClaimableIsCleared ==
    ASSUME NEW e \in Row, row \in [Row -> TypedRow], Claimable(e)
    PROVE  Visible(e) /\ Cleared(e)
  <1>1. Visible(e)
    BY DEF Claimable, Due, Visible
  <1>2. ASSUME NEW a \in Row, SameKey(a, e), Before(a, e), Visible(a)
        PROVE  Settled(a)
    <2>1. ~Open(a)
      BY <1>2 DEF Claimable, KeyHead, SameKey
    <2>2. row[a].status \in Status
      BY RowFields
    <2> QED BY <1>2, <2>1, <2>2 DEF Open, Visible, Settled, Status
  <1> QED BY <1>1, <1>2 DEF Cleared

(* Rows are claimed in the order of their keys.                            *)
LEMMA KeepsClaimsInOrder ==
    ASSUME IInv, TypeOK', Ages \/ Evolves
    PROVE  ClaimsInOrder'
  <1>1. row \in [Row -> TypedRow]
    BY DEF IInv, TypeOK, TableTypeOK
  <1>2. ASSUME NEW b \in Row, row'[b].status = "processing"
        PROVE  Cleared(b)'
    <2>1. Rests(b) \/ Changes(b)
      BY RowFate
    <2>2. CASE row[b].status = "processing"
      BY <2>2, ClearedStays DEF IInv, ClaimsInOrder, Visible
    <2>3. CASE row[b].status # "processing"
      <3>1. PICK t \in Token : Claims(b, t)
        BY <1>2, <2>1, <2>3 DEF Rests, Changes, Inserts, Publishes, Drops, Renews, Gives,
           Holds, Replays, Prunes
      <3>2. Visible(b) /\ Cleared(b)
        BY <3>1 DEF Claims, IInv, ClaimsInOrder, Event
      <3> QED BY <3>2, ClearedStays
    <2> QED BY <2>2, <2>3
  <1>3. ASSUME NEW t \in Token, run'[t].state = "chosen"
        PROVE  \E e \in Row : e = run'[t].event /\ Visible(e)' /\ Cleared(e)'
    <2>1. CASE run'[t] = run[t]
      <3>1. PICK e \in Row : e = run[t].event /\ Visible(e) /\ Cleared(e)
        BY <1>3, <2>1 DEF IInv, ClaimsInOrder, RunShape, Event
      <3> QED BY <2>1, <3>1, ClearedStays
    <2>2. CASE Begins(t) /\ Evolves
      <3>1. PICK e \in Row : e = run'[t].event /\ Claimable(e) /\ row' = row
        BY <2>2 DEF Begins
      <3>2. Visible(e) /\ Cleared(e)
        BY <1>1, <3>1, ClaimableIsCleared
      <3> QED BY <2>2, <3>1, <3>2, ClearedStays
    <2> QED BY <1>3, <2>1, <2>2 DEF Ages, Evolves, RunStep, Claims, Beats, Aborts,
       Finishes, SameTask
  <1>4. ASSUME NEW t \in Token, run'[t].state = "chosen"
        PROVE  (Visible(Event(t)) /\ Cleared(Event(t)))'
    <2>1. PICK e \in Row : e = run'[t].event /\ Visible(e)' /\ Cleared(e)'
      BY <1>3, <1>4
    <2> QED BY <2>1 DEF Event, Visible, Cleared, SameKey, Before, Settled
  <1> QED BY <1>2, <1>4 DEF ClaimsInOrder

(* What can be tried again has its payload. *)
LEMMA KeepsPayloadKept ==
    ASSUME IInv, TypeOK', Ages \/ Evolves
    PROVE  PayloadKept'
  <1> DEFINE Live == {"uncommitted", "pending", "processing", "dead"}
  <1> SUFFICES ASSUME NEW x \in Row, row'[x].status \in Live
               PROVE  row'[x].payload
    BY DEF PayloadKept
  <1>1. Rests(x) \/ Changes(x)
    BY RowFate
  <1>2. row[x].status \in Live => row[x].payload
    BY DEF IInv, PayloadKept
  <1>3. CASE Rests(x)
    BY <1>2, <1>3 DEF Rests, Kept
  <1>4. CASE Changes(x)
    BY <1>2, <1>4 DEF Changes, Inserts, Publishes, Drops, Claims, Due, Renews, Gives, Holds,
       Replays, Prunes, Kept
  <1> QED BY <1>1, <1>3, <1>4

(* A start is an attempt, and an attempt is refunded by an interruption;   *)
(* no start follows the last attempt.                                      *)
LEMMA KeepsBudget ==
    ASSUME IInv, TypeOK', Ages \/ Evolves
    PROVE  StartsSpent' /\ ExecutionBudget'
  <1> SUFFICES ASSUME NEW x \in Row
               PROVE  /\ starts'[x] <= row'[x].attempts + interruptions'[x]
                      /\ starts'[x] <= MaxAttempts + interruptions'[x]
    BY DEF StartsSpent, ExecutionBudget
  <1>1. Rests(x) \/ Changes(x)
    BY RowFate
  <1>2. /\ row[x].attempts \in Nat /\ row'[x].attempts \in Nat /\ MaxAttempts \in Nat
        /\ starts \in [Row -> Nat] /\ starts' \in [Row -> Nat]
        /\ interruptions[x] \in Nat /\ interruptions'[x] \in Nat
    BY TaskQueueAssumption DEF IInv, TypeOK, TableTypeOK, TypedRow, RowRecord
  <1>3. /\ starts[x] <= row[x].attempts + interruptions[x]
        /\ starts[x] <= MaxAttempts + interruptions[x]
    BY DEF IInv, StartsSpent, ExecutionBudget
  <1>4. row[x].status \in {"absent", "uncommitted"} => row[x].attempts = 0
    BY DEF IInv, Unpublished
  <1>5. CASE Rests(x)
    BY <1>2, <1>3, <1>5 DEF Rests
  <1>6. CASE Inserts(x) \/ Publishes(x) \/ Drops(x) \/ Prunes(x)
    <2>1. /\ starts'[x] = starts[x] /\ interruptions'[x] = interruptions[x]
          /\ row'[x].attempts = row[x].attempts
      BY <1>4, <1>6 DEF Inserts, Publishes, Drops, Prunes, Counts
    <2> QED BY <1>3, <2>1
  <1>7. CASE Replays(x)
    <2>1. starts'[x] = 0
      BY <1>2, <1>7 DEF Replays
    <2> QED BY <1>2, <2>1
  <1>8. ASSUME NEW t \in Token, Claims(x, t)
        PROVE  /\ starts'[x] <= row'[x].attempts + interruptions'[x]
               /\ starts'[x] <= MaxAttempts + interruptions'[x]
    <2>1. /\ interruptions'[x] = interruptions[x] /\ row'[x].attempts = row[x].attempts + 1
          /\ \/ starts'[x] = starts[x]
             \/ row[x].attempts < MaxAttempts /\ starts'[x] = starts[x] + 1
      BY <1>2, <1>8 DEF Claims
    <2> QED BY <1>2, <1>3, <2>1
  <1>9. ASSUME NEW t \in Token, Renews(x, t)
        PROVE  /\ starts'[x] <= row'[x].attempts + interruptions'[x]
               /\ starts'[x] <= MaxAttempts + interruptions'[x]
    <2>1. /\ interruptions'[x] = interruptions[x] /\ starts'[x] = starts[x]
          /\ row'[x].attempts = row[x].attempts
      BY <1>9 DEF Renews, Counts
    <2> QED BY <1>3, <2>1
  <1>10. ASSUME NEW t \in Token, Gives(x, t)
         PROVE  /\ starts'[x] <= row'[x].attempts + interruptions'[x]
                /\ starts'[x] <= MaxAttempts + interruptions'[x]
    <2>1. /\ starts'[x] = starts[x] /\ interruptions'[x] >= interruptions[x]
          /\ \/ row'[x].attempts = row[x].attempts
             \/ /\ row'[x].attempts = Refunded(row[x].attempts)
                /\ interruptions'[x] = interruptions[x] + 1
      BY <1>2, <1>10 DEF Gives
    <2>2. Refunded(row[x].attempts) + 1 >= row[x].attempts
      BY <1>2 DEF Refunded
    <2>3. starts[x] \in Nat
      BY <1>2
    <2> QED BY <1>2, <1>3, <2>1, <2>2, <2>3
  <1> QED BY <1>1, <1>5, <1>6, <1>7, <1>8, <1>9, <1>10 DEF Changes

-----------------------------------------------------------------------------
(* The invariant. *)

(* It holds of an empty table and idle workers. *)
LEMMA InitInvariant == Init => IInv
  <1> SUFFICES ASSUME Init
               PROVE  IInv
    OBVIOUS
  <1>1. /\ row = [e \in Row |-> AbsentRow(e)] /\ sequence = 0 /\ 0 \in Nat
        /\ run = [t \in Token |-> FreeRun] /\ faults = 0
        /\ mode = [w \in Worker |-> "up"]
        /\ starts = [e \in Row |-> 0] /\ interruptions = [e \in Row |-> 0]
    BY DEF Init, TableInit
  <1>2. \A e \in Row : /\ row[e] \in TypedRow /\ row[e].status = "absent"
                      /\ row[e].token = NoToken /\ row[e].attempts = 0
                      /\ ~row[e].replayed
    <2> SUFFICES ASSUME NEW e \in Row
                 PROVE  /\ AbsentRow(e) \in TypedRow /\ AbsentRow(e).status = "absent"
                        /\ AbsentRow(e).token = NoToken /\ AbsentRow(e).attempts = 0
                        /\ ~AbsentRow(e).replayed
      BY <1>1
    <2>1. AbsentRow(e).attempts = 0 /\ ~AbsentRow(e).replayed
      BY Zenon DEF AbsentRow
    <2> QED BY <2>1, AbsentRowType
  <1>3. \A t \in Token : run[t] = FreeRun
    BY <1>1
  <1>4. TypeOK
    BY <1>1, <1>2, FreeRunType DEF TypeOK, TableTypeOK
  <1>5. RunShape /\ AgeIsLeases /\ AgeIsSafe
    BY <1>3, FreeRunType DEF RunShape, AgeIsLeases, AgeIsSafe
  <1>6. TokenOwned
    BY <1>2, ColumnTypes DEF TokenOwned
  <1>7. Unpublished /\ Sequenced /\ LastOfKey /\ PayloadKept
    <2>1. Unpublished
      BY <1>2 DEF Unpublished
    <2>2. Sequenced /\ LastOfKey
      BY <1>2 DEF Sequenced, LastOfKey, Uncommitted
    <2>3. \A e \in Row : row[e].status \notin {"uncommitted", "pending", "processing", "dead"}
      BY <1>2
    <2> QED BY <2>1, <2>2, <2>3 DEF PayloadKept
  <1>8. ClaimsInOrder
    BY <1>2, <1>3, FreeRunType DEF ClaimsInOrder
  <1>9. StartsSpent /\ ExecutionBudget
    BY <1>1, <1>2, TaskQueueAssumption DEF StartsSpent, ExecutionBudget
  <1> QED BY <1>4, <1>5, <1>6, <1>7, <1>8, <1>9 DEF IInv

(* Every step preserves it. *)
LEMMA InductiveInvariant == IInv /\ [Next]_vars => IInv'
  <1> SUFFICES ASSUME IInv, [Next]_vars
               PROVE  IInv'
    OBVIOUS
  <1>1. TypeOK' /\ RunShape' /\ (Ages \/ Evolves)
    BY Steps
  <1> QED BY <1>1, KeepsTokenOwned, KeepsAgeIsLeases, KeepsAgeIsSafe, KeepsUnpublished,
     KeepsSequenced, KeepsLastOfKey, KeepsClaimsInOrder, KeepsPayloadKept, KeepsBudget
     DEF IInv

(* So that it always holds. *)
LEMMA Invariance == Spec => []IInv
  BY InitInvariant, InductiveInvariant, PTL DEF Spec

-----------------------------------------------------------------------------
(* The theorems about the properties of TaskQueue. *)

(* The variables of TaskQueue keep their types. *)
THEOREM TypeCorrect == Spec => []TypeOK
  <1>1. IInv => TypeOK
    BY DEF IInv
  <1> QED BY <1>1, Invariance, PTL

(* Tasks of one ordering key are executed in the order in which their      *)
(* transactions committed, however many workers claim, crash and stall,    *)
(* unless an operator replays one.                                         *)
THEOREM OrderWithinKey == Spec => []KeyOrder
  <1>1. IInv => KeyOrder
    BY DEF IInv, ClaimsInOrder, Cleared, KeyOrder
  <1> QED BY <1>1, Invariance, PTL

(* A task's handler is started at most maximumProcessingAttempts times,    *)
(* and once more for each recorded interruption.                           *)
THEOREM ExecutionIsBounded == Spec => []ExecutionBudget
  <1>1. IInv => ExecutionBudget
    BY DEF IInv
  <1> QED BY <1>1, Invariance, PTL

(* An execution whose age says its lease is alive has it. *)
LEMMA LeasedByAge ==
    ASSUME IInv, NEW t \in Token, run[t].state = "running", ~Cancelled(t),
           run[t].late < 2
    PROVE  Event(t) \in Row /\ Holds(Event(t), t) /\ row[Event(t)].lease > 0
  <1>1. /\ run[t] \in RunRecord /\ Lease \in Nat /\ Event(t) \in Row
    BY OutboxTableAssumption DEF IInv, TypeOK, RunShape, Event
  <1>2. run[t].age \in 0..Lease /\ run[t].late \in 0..2
    BY <1>1 DEF RunRecord
  <1>3. run[t].age <= Lease - 2 + run[t].late
    BY DEF IInv, AgeIsSafe
  <1>4. run[t].age < Lease
    BY <1>1, <1>2, <1>3
  <1>5. Holds(Event(t), t) /\ row[Event(t)].lease = Lease - run[t].age
    BY <1>4 DEF IInv, AgeIsLeases
  <1> QED BY <1>1, <1>2, <1>4, <1>5

(* Whatever renewals and acknowledgements fail, a handler that nobody      *)
(* cancelled has a live lease as long as its process runs its heartbeats.  *)
THEOREM UncancelledKeepsLease == Spec => []UncancelledIsLeased
  <1>1. IInv => UncancelledIsLeased
    BY LeasedByAge DEF UncancelledIsLeased, Leased, Holds
  <1> QED BY <1>1, Invariance, PTL

(* Handlers that nobody cancelled never overlap on a row or on an ordering *)
(* key, unless a worker is stalled or has just woken, or a row was         *)
(* replayed.                                                               *)
THEOREM NoOverlapHolds == Spec => []NoOverlap
  <1>1. ASSUME IInv
        PROVE  NoOverlap
    <2> SUFFICES ASSUME NEW t \in Token, NEW u \in Token, t # u,
                        \A v \in {t, u} : /\ run[v].state = "running" /\ ~Cancelled(v)
                                          /\ run[v].late < 2 /\ ~row[Event(v)].replayed
                 PROVE  Event(t) # Event(u) /\ ~SameKey(Event(t), Event(u))
      BY DEF NoOverlap
    <2>1. \A v \in {t, u} : Event(v) \in Row /\ Holds(Event(v), v)
      BY <1>1, LeasedByAge
    <2>2. Event(t) # Event(u)
      BY <2>1 DEF Holds
    <2>3. ASSUME NEW a \in Row, NEW b \in Row, a # b, SameKey(a, b), ~row[a].replayed,
                 row[a].status = "processing", row[b].status = "processing"
          PROVE  ~Before(a, b)
      BY <1>1, <2>3 DEF IInv, ClaimsInOrder, Cleared, Visible, Settled
    <2>4. ASSUME SameKey(Event(t), Event(u))
          PROVE  FALSE
      <3>1. row[Event(t)].seq # row[Event(u)].seq
        BY <1>1, <2>1, <2>2 DEF IInv, Sequenced, Holds
      <3>2. row[Event(t)].seq \in Nat /\ row[Event(u)].seq \in Nat
        BY <1>1, <2>1, RowFields DEF IInv, TypeOK, TableTypeOK
      <3>3. ~Before(Event(t), Event(u)) /\ ~Before(Event(u), Event(t))
        BY <2>1, <2>2, <2>3, <2>4 DEF SameKey, Holds
      <3> QED BY <3>1, <3>2, <3>3 DEF Before
    <2> QED BY <2>2, <2>4
  <1> QED BY <1>1, Invariance, PTL

(* A dead task stays, with its payload, until an operator replays it.      *)
THEOREM DeadStays == Spec => DeadIsKept
  <1>1. ASSUME IInv, [Next]_vars, NEW e \in Row, row[e].status = "dead"
        PROVE  row'[e].status \in {"dead", "pending"} /\ row'[e].payload
    <2>1. row[e].payload
      BY <1>1 DEF IInv, PayloadKept
    <2>2. Rests(e) \/ Changes(e)
      BY <1>1, Steps, RowFate
    <2>3. CASE Rests(e)
      BY <1>1, <2>1, <2>3 DEF Rests, Kept
    <2>4. CASE Changes(e)
      BY <1>1, <2>1, <2>4 DEF Changes, Inserts, Publishes, Drops, Claims, Due, Renews,
         Gives, Holds, Replays, Prunes
    <2> QED BY <2>2, <2>3, <2>4
  <1>2. IInv /\ [Next]_vars =>
          [\A e \in Row : row[e].status = "dead" =>
              row'[e].status \in {"dead", "pending"} /\ row'[e].payload]_vars
    BY <1>1
  <1> QED BY <1>2, Invariance, PTL DEF Spec, DeadIsKept

(* The acknowledgement of an execution that a shutdown interrupted never   *)
(* makes its task dead.                                                    *)
THEOREM ShutdownSpares == Spec => ShutdownNeverKills
  <1>1. ASSUME IInv, [Next]_vars, NEW t \in Token,
               run[t].state = "settling", run[t].cause = "shutdown",
               run'[t].state = "free", row[Event(t)].status = "processing"
        PROVE  row'[Event(t)].status # "dead"
    <2>1. Event(t) \in Row
      BY <1>1 DEF IInv, RunShape, Event
    <2>2. Rests(Event(t)) \/ Changes(Event(t))
      BY <1>1, <2>1, Steps, RowFate
    <2>3. ASSUME NEW u \in Token, Gives(Event(t), u)
          PROVE  row'[Event(t)].status # "dead"
      BY <1>1, <2>3 DEF Gives
    <2> QED BY <1>1, <2>2, <2>3 DEF Rests, Changes, Inserts, Publishes, Drops, Claims, Due,
       Renews, Replays, Prunes
  <1>2. IInv /\ [Next]_vars =>
          [\A t \in Token :
              /\ run[t].state = "settling" /\ run[t].cause = "shutdown"
              /\ run'[t].state = "free" /\ row[Event(t)].status = "processing"
              => row'[Event(t)].status # "dead"]_vars
    BY <1>1
  <1> QED BY <1>2, Invariance, PTL DEF Spec, ShutdownNeverKills

-----------------------------------------------------------------------------
(* The refinement of MessageQueue: the state that the mapping of Promise   *)
(* gives to a row, as functions of the rows the application enqueues.      *)

StateOf(e) == CASE ~Visible(e) -> "absent"
                [] row[e].status = "pending" -> "waiting"
                [] row[e].status = "processing" -> "held"
                [] OTHER -> "settled"

AheadOf(e) ==
    {a \in Enqueued : Visible(a) /\ Visible(e) /\ SameKey(a, e) /\ Before(a, e)}

KeyOf(e) == IF Visible(e) THEN row[e].key ELSE NoKey

States == [e \in Enqueued |-> StateOf(e)]
Aheads == [e \in Enqueued |-> AheadOf(e)]
Keys == [e \in Enqueued |-> KeyOf(e)]
Reopened == {e \in Enqueued : row[e].replayed}

(* A row that is not committed in a step keeps the rows ahead of it: what  *)
(* is committed later comes after it.                                      *)
LEMMA AheadStays ==
    ASSUME IInv, TypeOK', Ages \/ Evolves, NEW e \in Enqueued, ~Publishes(e)
    PROVE  AheadOf(e)' = AheadOf(e)
  <1>1. Enqueued \subseteq Row
    BY TaskQueueAssumption DEF Enqueued
  <1>2. CASE Visible(e)
    <2>1. Visible(e)' /\ SameOrigin(row'[e], row[e])
      BY <1>1, <1>2, VisibleStays
    <2>2. ASSUME NEW a \in Enqueued, Visible(a)
          PROVE  Visible(a)' /\ SameOrigin(row'[a], row[a])
      BY <1>1, <2>2, VisibleStays
    <2>3. ASSUME NEW a \in Enqueued, ~Visible(a), Visible(a)'
          PROVE  ~(SameKey(a, e)' /\ Before(a, e)')
      <3>1. Publishes(a) /\ Uncommitted(a) /\ a # e
        BY <1>1, <1>2, <2>3, VisibleStays DEF Publishes, Uncommitted
      <3>2. SameOrigin(row'[a], row[a])
        BY <3>1 DEF Publishes, Kept
      <3>3. row[a].seq \in Nat /\ row[e].seq \in Nat
        BY <1>1, RowFields DEF IInv, TypeOK, TableTypeOK
      <3>4. SameKey(a, e) => row[e].seq < row[a].seq
        BY <1>1, <1>2, <3>1 DEF IInv, LastOfKey, Visible
      <3> QED BY <2>1, <3>2, <3>3, <3>4 DEF SameKey, Before, SameOrigin
    <2>4. ASSUME NEW a \in Enqueued, Visible(a)
          PROVE  (SameKey(a, e) <=> SameKey(a, e)') /\ (Before(a, e) <=> Before(a, e)')
      BY <2>1, <2>2, <2>4 DEF SameKey, Before, SameOrigin
    <2> QED BY <1>2, <2>1, <2>2, <2>3, <2>4 DEF AheadOf
  <1>3. CASE ~Visible(e)
    <2>1. ~Visible(e)'
      BY <1>1, <1>3, VisibleStays
    <2> QED BY <1>3, <2>1 DEF AheadOf
  <1> QED BY <1>2, <1>3

(* A row is committed behind all the committed rows of its key.            *)
LEMMA AheadAtCommit ==
    ASSUME IInv, TypeOK', Ages \/ Evolves, NEW e \in Enqueued, Publishes(e), Only(e)
    PROVE  AheadOf(e)' = {a \in Enqueued : /\ row'[e].key # NoKey /\ Visible(a)
                                            /\ row[a].key = row'[e].key}
  <1>1. Enqueued \subseteq Row
    BY TaskQueueAssumption DEF Enqueued
  <1>2. /\ Uncommitted(e) /\ ~Visible(e) /\ Visible(e)' /\ SameOrigin(row'[e], row[e])
    BY DEF Publishes, Kept, Uncommitted, Visible
  <1>3. ~Before(e, e)'
    <2>1. row'[e].seq \in Nat /\ row'[e].pos \in Nat
      BY <1>1 DEF TypeOK, TableTypeOK, TypedRow, RowRecord
    <2> QED BY <2>1 DEF Before
  <1>4. ASSUME NEW a \in Enqueued, a # e
        PROVE  (Visible(a) /\ SameKey(a, e) /\ Before(a, e))'
               <=> row'[e].key # NoKey /\ Visible(a) /\ row[a].key = row'[e].key
    <2>1. row'[a] = row[a]
      BY <1>1, <1>4 DEF Only
    <2>2. Visible(a) /\ row[a].key # NoKey /\ row[a].key = row[e].key
          => row[a].seq < row[e].seq
      BY <1>1, <1>2, <1>4 DEF IInv, LastOfKey, SameKey, Visible
    <2> QED BY <1>2, <2>1, <2>2 DEF Visible, SameKey, Before, SameOrigin
  <1> QED BY <1>2, <1>3, <1>4 DEF AheadOf

(* A step of one row that the abstract queue does not see. *)
Silent(e) ==
    \/ Rests(e) \/ Inserts(e) \/ Drops(e) \/ Prunes(e)
    \/ \E t \in Token : Renews(e, t) \/ (Claims(e, t) /\ row[e].status = "processing")

(* Indeed it leaves the abstract state alone. *)
LEMMA SilentSteps ==
    ASSUME IInv, TypeOK', NEW e \in Row, Silent(e)
    PROVE  /\ StateOf(e)' = StateOf(e) /\ KeyOf(e)' = KeyOf(e)
           /\ row'[e].replayed = row[e].replayed
  <1>1. row[e].replayed \in BOOLEAN /\ row'[e].replayed \in BOOLEAN
    BY DEF IInv, TypeOK, TableTypeOK, TypedRow, RowRecord
  <1>2. CASE Rests(e)
    BY <1>2 DEF Rests, Kept, SameOrigin, StateOf, KeyOf, Visible
  <1>3. CASE Inserts(e)
    BY <1>3 DEF Inserts, StateOf, KeyOf, Visible
  <1>4. CASE Drops(e)
    BY <1>1, <1>4 DEF Drops, StateOf, KeyOf, Visible, IInv, Unpublished
  <1>5. CASE Prunes(e)
    BY <1>5 DEF Prunes, Kept, SameOrigin, StateOf, KeyOf, Visible
  <1>6. ASSUME NEW t \in Token, Renews(e, t) \/ (Claims(e, t) /\ row[e].status = "processing")
        PROVE  /\ StateOf(e)' = StateOf(e) /\ KeyOf(e)' = KeyOf(e)
               /\ row'[e].replayed = row[e].replayed
    BY <1>6 DEF Renews, Claims, Holds, Kept, SameOrigin, StateOf, KeyOf, Visible
  <1> QED BY <1>2, <1>3, <1>4, <1>5, <1>6 DEF Silent

(* Every other step is one of the abstract queue. *)
LEMMA PromiseStep ==
    ASSUME IInv, [Next]_vars
    PROVE  [Promise!Next]_(Promise!vars)
  <1>1. TypeOK' /\ (Ages \/ Evolves)
    BY Steps
  <1>2. Enqueued \subseteq Row
    BY TaskQueueAssumption DEF Enqueued
  <1>3. \A x \in Row : Rests(x) \/ (Changes(x) /\ Only(x))
    BY <1>1, RowFate
  <1>4. \A x \in Enqueued : ~Publishes(x) => AheadOf(x)' = AheadOf(x)
    BY <1>1, AheadStays
  <1>5. ASSUME \A x \in Enqueued : Silent(x)
        PROVE  UNCHANGED Promise!vars
    <2>1. \A x \in Enqueued : /\ StateOf(x)' = StateOf(x) /\ KeyOf(x)' = KeyOf(x)
                             /\ row'[x].replayed = row[x].replayed
      BY <1>1, <1>2, <1>5, SilentSteps
    <2>2. \A x \in Enqueued : AheadOf(x)' = AheadOf(x)
      BY <1>2, <1>4, <1>5 DEF Silent, Rests, Inserts, Drops, Prunes, Renews, Holds, Claims,
         Publishes
    <2>3. States' = States /\ Aheads' = Aheads /\ Keys' = Keys /\ Reopened' = Reopened
      BY <2>1, <2>2 DEF States, Aheads, Keys, Reopened
    <2> QED BY <2>3 DEF Promise!vars, States, Aheads, Keys, Reopened, StateOf, AheadOf, KeyOf
  <1>6. ASSUME NEW e \in Row, Changes(e), Only(e), ~Silent(e)
        PROVE  Promise!Next
    <2>1. e \in Enqueued
      BY <1>6 DEF IInv, Sequenced, Silent, Changes, Publishes, Claims, Due, Gives, Holds,
         Replays
    <2>2. ASSUME NEW x \in Enqueued \ {e}
          PROVE  /\ StateOf(x)' = StateOf(x) /\ KeyOf(x)' = KeyOf(x)
                 /\ row'[x].replayed = row[x].replayed /\ AheadOf(x)' = AheadOf(x)
      <3>1. row'[x] = row[x] /\ ~Publishes(x)
        BY <1>2, <1>6 DEF Only, Publishes
      <3> QED BY <1>4, <3>1 DEF StateOf, KeyOf, Visible
    <2>3. \/ Publishes(e) \/ Replays(e)
          \/ \E t \in Token : Claims(e, t) /\ row[e].status = "pending"
          \/ \E t \in Token : Gives(e, t)
      BY <1>6 DEF Changes, Silent, Claims, Due
    <2>4. /\ \A v : StateOf(e)' = v => States' = [States EXCEPT ![e] = v]
          /\ KeyOf(e)' = KeyOf(e) => Keys' = Keys
          /\ ~Publishes(e) => Aheads' = Aheads
          /\ row'[e].replayed = row[e].replayed => Reopened' = Reopened
      BY <1>4, <2>1, <2>2 DEF States, Keys, Aheads, Reopened
    <2>5. CASE Publishes(e)
      <3>1. /\ StateOf(e) = "absent" /\ StateOf(e)' = "waiting" /\ KeyOf(e)' = row'[e].key
            /\ row'[e].replayed = row[e].replayed
        BY <2>5 DEF Publishes, Kept, StateOf, KeyOf, Visible
      <3>2. /\ States' = [States EXCEPT ![e] = "waiting"] /\ States[e] = "absent"
            /\ Keys' = [Keys EXCEPT ![e] = row'[e].key] /\ Reopened' = Reopened
            /\ row'[e].key \in Key \cup {NoKey}
        <4>1. row'[e].key \in Key \cup {NoKey}
          BY <1>1, <1>2, <2>1 DEF TypeOK, TableTypeOK, TypedRow, RowRecord
        <4>2. Keys' = [Keys EXCEPT ![e] = row'[e].key]
          BY <2>1, <2>2, <3>1 DEF Keys
        <4> QED BY <2>1, <2>4, <3>1, <4>1, <4>2 DEF States
      <3>3. Aheads' = [Aheads EXCEPT ![e] =
                         {a \in Enqueued : /\ row'[e].key # NoKey /\ States[a] # "absent"
                                           /\ Keys[a] = row'[e].key}]
        <4>1. \A a \in Enqueued :
                 /\ States[a] # "absent" <=> Visible(a)
                 /\ Visible(a) => Keys[a] = row[a].key
          <5>1. ASSUME NEW a \in Enqueued
                PROVE  (StateOf(a) = "absent" <=> ~Visible(a))
            BY DEF StateOf, Visible
          <5>2. \A a \in Enqueued : Visible(a) => Keys[a] = row[a].key
            BY DEF Keys, KeyOf
          <5> QED BY <5>1, <5>2 DEF States
        <4>2. AheadOf(e)' = {a \in Enqueued : /\ row'[e].key # NoKey /\ Visible(a)
                                              /\ row[a].key = row'[e].key}
          BY <1>1, <1>6, <2>1, <2>5, AheadAtCommit
        <4>3. AheadOf(e)' = {a \in Enqueued : /\ row'[e].key # NoKey /\ States[a] # "absent"
                                              /\ Keys[a] = row'[e].key}
          BY <4>1, <4>2
        <4> HIDE <4>2
        <4> QED BY <2>1, <2>2, <4>3 DEF Aheads
      <3> QED BY <2>1, <3>2, <3>3 DEF Promise!Next, Promise!Commit, Promise!Become, States,
         Aheads, Keys, Reopened, StateOf, AheadOf, KeyOf
    <2>6. CASE Replays(e)
      <3>1. /\ StateOf(e) = "settled" /\ StateOf(e)' = "waiting" /\ KeyOf(e)' = KeyOf(e)
            /\ ~Publishes(e) /\ row'[e].replayed
        BY <2>6 DEF Replays, Publishes, SameOrigin, StateOf, KeyOf, Visible
      <3>2. /\ States' = [States EXCEPT ![e] = "waiting"] /\ States[e] = "settled"
            /\ Keys' = Keys /\ Reopened' = Reopened \cup {e} /\ Aheads' = Aheads
        <4>1. Reopened' = Reopened \cup {e}
          BY <2>1, <2>2, <3>1 DEF Reopened
        <4> QED BY <2>1, <2>4, <3>1, <4>1 DEF States
      <3> QED BY <2>1, <3>2 DEF Promise!Next, Promise!Reopen, Promise!Become, States,
         Aheads, Keys, Reopened, StateOf, AheadOf, KeyOf
    <2>7. ASSUME NEW t \in Token, Claims(e, t), row[e].status = "pending"
          PROVE  Promise!Next
      <3>1. /\ StateOf(e) = "waiting" /\ StateOf(e)' = "held" /\ KeyOf(e)' = KeyOf(e)
            /\ ~Publishes(e) /\ row'[e].replayed = row[e].replayed
        BY <2>7 DEF Claims, Publishes, Kept, SameOrigin, StateOf, KeyOf, Visible
      <3>2. /\ States' = [States EXCEPT ![e] = "held"] /\ States[e] = "waiting"
            /\ Keys' = Keys /\ Reopened' = Reopened /\ Aheads' = Aheads
        BY <2>1, <2>4, <3>1 DEF States
      <3>3. \A a \in Aheads[e] \ Reopened : States[a] = "settled"
        <4>1. Cleared(e)
          BY <2>7 DEF Claims, IInv, ClaimsInOrder, Event
        <4> SUFFICES ASSUME NEW a \in Enqueued, Visible(a), SameKey(a, e), Before(a, e),
                            ~row[a].replayed
                     PROVE  States[a] = "settled"
          BY <2>1 DEF Aheads, AheadOf, Reopened
        <4>2. Settled(a)
          BY <1>2, <4>1 DEF Cleared
        <4> QED BY <4>2 DEF States, StateOf, Settled, Visible
      <3> QED BY <2>1, <3>2, <3>3 DEF Promise!Next, Promise!Hand, Promise!Become, States,
         Aheads, Keys, Reopened, StateOf, AheadOf, KeyOf
    <2>8. ASSUME NEW t \in Token, Gives(e, t)
          PROVE  Promise!Next
      <3>1. /\ StateOf(e) = "held" /\ KeyOf(e)' = KeyOf(e)
            /\ StateOf(e)' = "waiting" \/ StateOf(e)' = "settled"
            /\ ~Publishes(e) /\ row'[e].replayed = row[e].replayed
        BY <2>8 DEF Gives, Holds, Publishes, Kept, SameOrigin, StateOf, KeyOf, Visible
      <3>2. /\ \/ States' = [States EXCEPT ![e] = "waiting"]
               \/ States' = [States EXCEPT ![e] = "settled"]
            /\ States[e] = "held"
            /\ Keys' = Keys /\ Reopened' = Reopened /\ Aheads' = Aheads
        BY <2>1, <2>4, <3>1 DEF States
      <3> QED BY <2>1, <3>2 DEF Promise!Next, Promise!Return, Promise!Settle, Promise!Become,
         States, Aheads, Keys, Reopened, StateOf, AheadOf, KeyOf
    <2> QED BY <2>3, <2>5, <2>6, <2>7, <2>8
  <1>7. CASE \A x \in Row : Silent(x)
    BY <1>2, <1>5, <1>7
  <1>8. CASE ~\A x \in Row : Silent(x)
    BY <1>3, <1>6, <1>8 DEF Silent
  <1> QED BY <1>7, <1>8

(* The mapping gives an empty queue at first. *)
LEMMA PromiseInit == Init => Promise!Init
  <1> SUFFICES ASSUME Init
               PROVE  Promise!Init
    OBVIOUS
  <1>1. Enqueued \subseteq Row
    BY TaskQueueAssumption DEF Enqueued
  <1>2. \A e \in Enqueued : row[e].status = "absent" /\ ~row[e].replayed
    BY <1>1, InitInvariant, AbsentRowType DEF IInv, Unpublished, Init, TableInit
  <1>3. /\ States = [e \in Enqueued |-> "absent"] /\ Aheads = [e \in Enqueued |-> {}]
        /\ Keys = [e \in Enqueued |-> NoKey] /\ Reopened = {}
    BY <1>2 DEF States, Aheads, Keys, Reopened, StateOf, AheadOf, KeyOf, Visible
  <1> QED BY <1>3 DEF Promise!Init, States, Aheads, Keys, Reopened, StateOf, AheadOf, KeyOf

(* Whatever workers crash, stall, lose a lease or claim in a race, the     *)
(* task queue is a MessageQueue: it hands the tasks of a key out in the    *)
(* order of their commits, and settles only what it handed out.            *)
THEOREM ImplementsMessageQueue == Spec => KeepsPromise
  BY PromiseInit, PromiseStep, Invariance, PTL DEF Spec, KeepsPromise, Promise!Spec

=============================================================================
