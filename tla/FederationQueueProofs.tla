----------------------- MODULE FederationQueueProofs -----------------------
(***************************************************************************)
(* What holds of FederationQueue for every number of rows, workers, tokens *)
(* and faults: types, lease ownership, fencing, and that nothing is        *)
(* acknowledged that was not delivered.  The inductive invariant relates   *)
(* the lease tokens of the table to the runs of the workers, and the       *)
(* uncommitted rows to the transactions of the fanout handlers.            *)
(***************************************************************************)
EXTENDS FederationQueue, OutboxTableLemmas

-----------------------------------------------------------------------------
(* The inductive invariant. *)

RunShape ==
    \A t \in Token : run[t].state # "free" =>
        run[t].event \in Row /\ run[t].worker \in Worker

(* A row's token belongs to the run that is waiting for its handler or     *)
(* about to acknowledge it, to one whose acknowledgement failed, or to one *)
(* whose process died.                                                     *)
TokenOwned ==
    \A t \in Token, e \in Row : row[e].token = t =>
        \/ run[t].state = "free"
        \/ run[t].state \in {"open", "settling", "zombie"} /\ run[t].event = e

(* The rows a handler enqueued are uncommitted deliveries of its fanout,   *)
(* and no two handlers share one.                                          *)
ChildrenPrivate ==
    /\ \A t \in Token : \A c \in run[t].children :
          c \in Delivery /\ Uncommitted(c) /\ row[c].group \in Fanout
    /\ \A t, u \in Token : t # u => run[t].children \cap run[u].children = {}

(* Success is concluded only of a delivery a remote inbox accepted. *)
SuccessWasSent ==
    \A t \in Token :
        /\ run[t].state = "settling" /\ run[t].outcome = "success"
        /\ run[t].event \in Delivery
        => run[t].event \in sent

IInv ==
    /\ TypeOK
    /\ RunShape
    /\ TokenOwned
    /\ ChildrenPrivate
    /\ SuccessWasSent
    /\ CompletedWasSent

-----------------------------------------------------------------------------
(* How a step may move a row: its life cycle. *)

Keeps(e) ==
    /\ row'[e].status = row[e].status /\ row'[e].token = row[e].token
    /\ row'[e].group = row[e].group

Inserts(e) ==
    /\ row[e].status = "absent" /\ row'[e].status \in {"uncommitted", "pending"}
    /\ row'[e].token = NoToken

Closes(e) ==
    /\ row[e].status = "uncommitted" /\ row'[e].status \in {"pending", "absent"}
    /\ row'[e].token = NoToken

Claims(e, t) ==
    /\ Due(e) /\ run[t].state = "chosen" /\ run[t].event = e
    /\ row'[e].status = "processing" /\ row'[e].token = t
    /\ run'[t].state = "open" /\ run'[t].event = e

Gives(e, t) ==
    /\ Holds(e, t) /\ row'[e].token = NoToken
    /\ row'[e].status \in {"pending", "dead", "completed"}
    /\ row'[e].status = "completed" /\ e \in Delivery => e \in sent
    /\ run'[t].state # run[t].state \/ run'[t].handler # run[t].handler

Retires(e) ==
    /\ row'[e].token = NoToken
    /\ \/ row[e].status = "dead" /\ row'[e].status \in {"pending", "deleted"}
       \/ row[e].status = "completed" /\ row'[e].status = "deleted"

Moves(e) ==
    \/ Keeps(e) \/ Inserts(e) \/ Closes(e) \/ Retires(e)
    \/ \E t \in Token : Claims(e, t) \/ Gives(e, t)

(* A delivery enqueued late is a new row that everybody sees. *)
LEMMA LateRowType ==
    ASSUME row \in [Row -> TypedRow], NEW e \in Row, NEW g \in Row,
           NEW k \in Key \cup {NoKey}, NEW i \in Inbox, NEW s \in Nat, NEW p \in Nat
    PROVE  /\ LateRow(e, k, g, i, s, p) \in TypedRow
           /\ LateRow(e, k, g, i, s, p).status = "pending"
           /\ LateRow(e, k, g, i, s, p).token = NoToken
           /\ LateRow(e, k, g, i, s, p).lease = 0
           /\ LateRow(e, k, g, i, s, p).group = g
           /\ LateRow(e, k, g, i, s, p).key = k
           /\ LateRow(e, k, g, i, s, p).seq = s
           /\ LateRow(e, k, g, i, s, p).pos = p
           /\ LateRow(e, k, g, i, s, p).inbox = i
           /\ LateRow(e, k, g, i, s, p).attempts = 0
           /\ LateRow(e, k, g, i, s, p).replayed = row[g].replayed
           /\ LateRow(e, k, g, i, s, p).payload
  <1> DEFINE new == InsertedRow(e, k, g, i, s, p, 0)
             r == [new EXCEPT !.status = "pending"]
  <1>1. i \in Inbox \cup {NoInbox}
    OBVIOUS
  <1>2. new \in NewRow(g)
    BY <1>1, InsertedRowType
  <1>3. /\ new.key = k /\ new.inbox = i /\ new.seq = s /\ new.pos = p
        /\ new.attempts = 0 /\ new.replayed = row[g].replayed /\ new.payload
    BY InsertedRowColumns, InsertedRowPayload
  <1>4. "pending" \in Status
    BY DEF Status
  <1>5. LateRow(e, k, g, i, s, p) = r
    BY DEF LateRow
  <1> HIDE DEF new
  <1>6. /\ new \in RowRecord /\ new.group = g /\ new.token = NoToken
        /\ new.lease \in 0..Lease /\ ~(new.lease > 0)
    BY <1>2 DEF NewRow, TypedRow, RowRecord
  <1>7. /\ r \in RowRecord /\ r.status = "pending" /\ r.token = new.token
        /\ r.group = new.group /\ r.inbox = new.inbox /\ r.replayed = new.replayed
        /\ r.attempts = new.attempts /\ r.payload = new.payload
        /\ r.lease = new.lease /\ r.key = new.key /\ r.seq = new.seq /\ r.pos = new.pos
    BY <1>4, <1>6, Zenon DEF RowRecord
  <1> HIDE DEF r
  <1> QED BY <1>3, <1>5, <1>6, <1>7, OutboxTableAssumption DEF TypedRow

(* A step that changes one row. *)
LEMMA OneRowMoves ==
    ASSUME row \in [Row -> TypedRow], NEW e \in Row, NEW r \in TypedRow,
           row' = [row EXCEPT ![e] = r], row'[e] = r => Moves(e)
    PROVE  row' \in [Row -> TypedRow] /\ \A x \in Row : Moves(x)
  <1>1. row' \in [Row -> TypedRow] /\ row'[e] = r
    OBVIOUS
  <1>2. \A x \in Row \ {e} : row'[x] = row[x]
    OBVIOUS
  <1> QED BY <1>1, <1>2 DEF Moves, Keeps

(* A step that ends transactions of fanout handlers without committing. *)
LEMMA RollbackMoves ==
    ASSUME row \in [Row -> TypedRow], ChildrenPrivate, NEW T \in SUBSET Token,
           row' = WithoutChildren(T)
    PROVE  row' \in [Row -> TypedRow] /\ \A e \in Row : Moves(e)
  <1>1. ASSUME NEW e \in Row
        PROVE  row'[e] \in TypedRow /\ Moves(e)
    <2>1. CASE \E t \in T : e \in run[t].children
      <3>1. row'[e] = AbsentRow(e)
        BY <2>1 DEF WithoutChildren
      <3>2. row[e].status = "uncommitted"
        BY <2>1 DEF ChildrenPrivate, Uncommitted
      <3> QED BY <3>1, <3>2, AbsentRowType DEF Moves, Closes
    <2>2. CASE ~\E t \in T : e \in run[t].children
      BY <2>2 DEF WithoutChildren, Moves, Keeps
    <2> QED BY <2>1, <2>2
  <1>2. row' = [e \in Row |-> row'[e]]
    BY DEF WithoutChildren
  <1> QED BY <1>1, <1>2

(* Every step moves every row along its life cycle. *)
LEMMA RowMoves ==
    ASSUME IInv, [Next]_vars
    PROVE  row' \in [Row -> TypedRow] /\ \A e \in Row : Moves(e)
  <1> DEFINE Goal == row' \in [Row -> TypedRow] /\ \A e \in Row : Moves(e)
  <1>1. /\ row \in [Row -> TypedRow] /\ sequence \in Nat
        /\ run \in [Token -> RunRecord]
        /\ ChildrenPrivate /\ RunShape /\ SuccessWasSent
    BY DEF IInv, TypeOK, TableTypeOK
  <1>2. row' = row => Goal
    BY <1>1 DEF Moves, Keeps
  <1>3. ASSUME NEW s \in Sends, AppEnqueue(s)
        PROVE  Goal
    <2>1. /\ s.event \in Row /\ s.key \in Key \cup {NoKey}
          /\ s.inbox \in Inbox \cup {NoInbox} /\ sequence + 1 \in Nat /\ 0 \in Nat
      BY <1>1, FederationQueueAssumption
    <2>2. /\ row[s.event].status = "absent"
          /\ row' = [row EXCEPT ![s.event] =
                InsertedRow(s.event, s.key, s.event, s.inbox, sequence + 1, 0, 0)]
      BY <1>3 DEF AppEnqueue, InsertRoot
    <2> DEFINE r == InsertedRow(s.event, s.key, s.event, s.inbox, sequence + 1, 0, 0)
    <2>3. r \in NewRow(s.event)
      BY <1>1, <2>1, InsertedRowType
    <2> HIDE DEF r
    <2> QED BY <1>1, <2>1, <2>2, <2>3, OneRowMoves DEF Moves, Inserts, NewRow, r
  <1>4. ASSUME NEW e \in Row, AppCommit(e)
        PROVE  Goal
    BY <1>1, <1>4, PublishedType, OneRowMoves DEF AppCommit, Moves, Closes, Uncommitted
  <1>5. ASSUME NEW e \in Row, AppRollback(e)
        PROVE  Goal
    BY <1>1, <1>5, AbsentRowType, OneRowMoves DEF AppRollback, Moves, Closes, Uncommitted
  <1>6. ASSUME NEW t \in Token, Take(t)
        PROVE  Goal
    <2>1. run[t].state = "chosen" /\ run[t].event \in Row
      BY <1>1, <1>6 DEF Take, RunShape
    <2>2. CASE Due(run[t].event)
      <3>1. /\ row' = [row EXCEPT ![run[t].event] = ClaimedRow(run[t].event, t)]
            /\ run' = [run EXCEPT ![t].state = "open",
                                  ![t].handler = mode[run[t].worker] # "stopping"]
        BY <1>6, <2>2 DEF Take
      <3>2. run'[t].state = "open" /\ run'[t].event = run[t].event
        BY <1>1, <3>1 DEF RunRecord
      <3>3. /\ ClaimedRow(run[t].event, t) \in TypedRow
            /\ ClaimedRow(run[t].event, t).status = "processing"
            /\ ClaimedRow(run[t].event, t).token = t
        BY <1>1, <2>1, ClaimedRowType
      <3>4. row'[run[t].event] = ClaimedRow(run[t].event, t)
        BY <1>1, <2>1, <3>1
      <3>5. Claims(run[t].event, t)
        BY <2>1, <2>2, <3>2, <3>3, <3>4 DEF Claims
      <3> QED BY <1>1, <2>1, <3>1, <3>3, <3>5, OneRowMoves DEF Moves
    <2>3. CASE ~Due(run[t].event)
      BY <1>2, <1>6, <2>3 DEF Take
    <2> QED BY <2>2, <2>3
  <1>7. ASSUME NEW t \in Token, NEW d \in Row, NEW i \in Recipients,
               FanoutEnqueue(t, d, i)
        PROVE  Goal
    <2> DEFINE e == run[t].event
               k == InboxKey[<<row[e].key, i>>]
               r == InsertedRow(d, k, e, i, row[e].seq, run[t].nextPosition, 0)
    <2>1. e \in Row
      BY <1>1, <1>7 DEF FanoutEnqueue, Handling, Waiting, RunShape
    <2>2. k \in Key \cup {NoKey} /\ i \in Inbox \cup {NoInbox}
      BY <1>1, <2>1, RowFields, FederationQueueAssumption
    <2>3. row[e].seq \in Nat /\ run[t].nextPosition \in Nat
      BY <1>1, <2>1, RowFields DEF RunRecord
    <2>4. row[d].status = "absent" /\ row' = [row EXCEPT ![d] = r]
      BY <1>7 DEF FanoutEnqueue, Event
    <2>5. r \in NewRow(e)
      BY <1>1, <2>1, <2>2, <2>3, InsertedRowType
    <2> HIDE DEF r
    <2> QED BY <1>1, <2>4, <2>5, OneRowMoves DEF Moves, Inserts, NewRow
  <1>8. ASSUME NEW t \in Token,
               Throw(t) \/ Timeout(t) \/ Abort(t) \/ AcknowledgeFails(t)
        PROVE  Goal
    BY <1>1, <1>8, RollbackMoves DEF Throw, Timeout, Abort, AcknowledgeFails
  <1>9. ASSUME NEW t \in Token, NEW w \in 0..MaxWait, NEW held \in BOOLEAN,
               Requeue(t, w, held)
        PROVE  Goal
    <2> DEFINE e == run[t].event
    <2>1. /\ e \in Row /\ run[t].state \in {"open", "settling", "zombie"}
          /\ run[t].handler
      BY <1>1, <1>9 DEF Requeue, RunShape, Event
    <2>2. CASE Holds(e, t)
      <3>1. run'[t].state # run[t].state \/ run'[t].handler # run[t].handler
        <4>1. CASE run[t].state = "settling"
          <5>1. run' = [run EXCEPT ![t].handler = FALSE]
            BY <1>9, <4>1 DEF Requeue
          <5> QED BY <1>1, <2>1, <5>1 DEF RunRecord
        <4>2. CASE run[t].state # "settling"
          <5>1. run' = [run EXCEPT ![t] = FreeRun]
            BY <1>9, <2>2, <4>2 DEF Requeue, Ends, Event
          <5> QED BY <1>1, <2>1, <5>1 DEF FreeRun
        <4> QED BY <4>1, <4>2
      <3>2. \/ row' = [row EXCEPT ![e] = FailedRow(e)]
            \/ row' = [row EXCEPT ![e] = RetriedRow(e, w, ~held)]
        BY <1>9, <2>2 DEF Requeue, Event
      <3>3. (~held) \in BOOLEAN
        OBVIOUS
      <3>4. /\ FailedRow(e) \in TypedRow /\ FailedRow(e).status = "dead"
            /\ FailedRow(e).token = NoToken
        BY <1>1, <2>1, FailedRowType
      <3>5. /\ RetriedRow(e, w, ~held) \in TypedRow
            /\ RetriedRow(e, w, ~held).status = "pending"
            /\ RetriedRow(e, w, ~held).token = NoToken
        BY <1>1, <2>1, <3>3, RetriedRowType
      <3>6. row'[e].token = NoToken /\ row'[e].status \in {"pending", "dead"}
        BY <1>1, <2>1, <3>2, <3>4, <3>5
      <3>7. Gives(e, t)
        BY <2>2, <3>1, <3>6, Zenon DEF Gives
      <3> QED BY <1>1, <2>1, <3>2, <3>4, <3>5, <3>7, OneRowMoves DEF Moves
    <2>3. CASE ~Holds(e, t)
      BY <1>2, <1>9, <2>3 DEF Requeue, Event
    <2> QED BY <2>2, <2>3
  <1>10. ASSUME NEW t \in Token, Acknowledge(t)
         PROVE  Goal
    <2> DEFINE e == run[t].event
    <2>1. e \in Row /\ run[t].state = "settling" /\ run[t].outcome = "success"
      BY <1>1, <1>10 DEF Acknowledge, RunShape
    <2>2. CASE Holds(e, t)
      <3>1. row' = [a \in Row |-> IF a = e THEN CompletedRow(a)
                                  ELSE IF a \in run[t].children THEN Published(a)
                                  ELSE row[a]]
        BY <1>10, <2>2 DEF Acknowledge, Event
      <3>2. run'[t].state # run[t].state
        BY <1>1, <1>10, <2>1 DEF Acknowledge, Ends, FreeRun
      <3>3. e \in Delivery => e \in sent
        BY <1>1, <2>1 DEF SuccessWasSent
      <3>4. ASSUME NEW a \in Row
            PROVE  row'[a] \in TypedRow /\ Moves(a)
        <4>1. CASE a = e
          BY <1>1, <2>1, <2>2, <3>1, <3>2, <3>3, <4>1, CompletedRowType
             DEF Moves, Gives
        <4>2. CASE a # e /\ a \in run[t].children
          BY <1>1, <3>1, <4>2, PublishedType
             DEF Moves, Closes, ChildrenPrivate, Uncommitted
        <4>3. CASE a # e /\ a \notin run[t].children
          BY <1>1, <3>1, <4>3 DEF Moves, Keeps
        <4> QED BY <4>1, <4>2, <4>3
      <3> QED BY <3>1, <3>4
    <2>3. CASE ~Holds(e, t)
      <3>1. row' = WithoutChildren({t})
        BY <1>10, <2>3 DEF Acknowledge, Event
      <3> QED BY <1>1, <3>1, RollbackMoves
    <2> QED BY <2>2, <2>3
  <1>11. ASSUME NEW t \in Token, NEW w \in 1..MaxWait, Reject(t, w)
         PROVE  Goal
    <2> DEFINE e == run[t].event
    <2>1. e \in Row /\ run[t].state = "settling" /\ w \in 0..MaxWait
      BY <1>1, <1>11, OutboxTableAssumption DEF Reject, RunShape
    <2>2. CASE Holds(e, t)
      <3>1. run'[t].state # run[t].state
        BY <1>1, <1>11, <2>1 DEF Reject, MovesOn, Ends, FreeRun, RunRecord
      <3>2. \/ row' = [row EXCEPT ![e] = FailedRow(e)]
            \/ row' = [row EXCEPT ![e] = RetriedRow(e, w, TRUE)]
        BY <1>11, <2>2 DEF Reject, Event
      <3>3. /\ FailedRow(e) \in TypedRow /\ FailedRow(e).status = "dead"
            /\ FailedRow(e).token = NoToken
        BY <1>1, <2>1, FailedRowType
      <3>4. /\ RetriedRow(e, w, TRUE) \in TypedRow
            /\ RetriedRow(e, w, TRUE).status = "pending"
            /\ RetriedRow(e, w, TRUE).token = NoToken
        BY <1>1, <2>1, RetriedRowType
      <3>5. row'[e].token = NoToken /\ row'[e].status \in {"pending", "dead"}
        BY <1>1, <2>1, <3>2, <3>3, <3>4
      <3>6. Gives(e, t)
        BY <2>2, <3>1, <3>5, Zenon DEF Gives
      <3> QED BY <1>1, <2>1, <3>2, <3>3, <3>4, <3>6, OneRowMoves DEF Moves
    <2>3. CASE ~Holds(e, t)
      BY <1>2, <1>11, <2>3 DEF Reject, Event
    <2> QED BY <2>2, <2>3
  <1>12. ASSUME NEW t \in Token, Renew(t)
         PROVE  Goal
    <2>1. /\ run[t].event \in Row /\ row[run[t].event].status = "processing"
          /\ row' = [row EXCEPT ![run[t].event] = RenewedRow(run[t].event)]
      BY <1>1, <1>12 DEF Renew, Heartbeats, Heartbeat, Holds, Event, RunShape
    <2> QED BY <1>1, <2>1, RenewedRowType, OneRowMoves DEF Moves, Keeps
  <1>13. ASSUME Tick
         PROVE  Goal
    BY <1>1, <1>13, TickType DEF Tick, Moves, Keeps
  <1>14. ASSUME NEW w \in Worker, Crash(w) \/ Exit(w)
         PROVE  Goal
    <2>1. row' = WithoutChildren(Of(w)) /\ Of(w) \in SUBSET Token
      BY <1>14 DEF Crash, Exit, Gone, Of
    <2> QED BY <1>1, <2>1, RollbackMoves
  <1>15. ASSUME NEW e \in Row, Replay(e)
         PROVE  Goal
    BY <1>1, <1>15, ReplayedRowType, OneRowMoves
       DEF Replay, Replayable, Moves, Retires
  <1>16. ASSUME NEW e \in Row, Prune(e)
         PROVE  Goal
    BY <1>1, <1>16, PrunedRowType, OneRowMoves DEF Prune, Prunable, Moves, Retires
  <1>17. ASSUME row' = row \/ UNCHANGED vars
         PROVE  Goal
    BY <1>2, <1>17 DEF vars
  <1>18. ASSUME NEW t \in Token,
                Success(t) \/ Permanent(t) \/ HandlerEnds(t) \/ RejectFails(t) \/
                RenewFails(t) \/ \E d \in Row : LateRecord(t, d)
         PROVE  Goal
    BY <1>2, <1>18
       DEF Success, Permanent, HandlerEnds, RejectFails, RenewFails, LateRecord
  <1>19. ASSUME NEW w \in Worker,
                Stall(w) \/ Wake(w) \/ Stop(w) \/
                \E t \in Token, e \in Row : Select(w, t, e)
         PROVE  Goal
    BY <1>2, <1>19 DEF Stall, Wake, Stop, Select
  <1>20. ASSUME NEW t \in Token, NEW d \in Row, NEW i \in Recipients,
                LateEnqueue(t, d, i)
         PROVE  Goal
    <2> DEFINE e == run[t].event
               k == InboxKey[<<row[e].key, i>>]
               r == LateRow(d, k, e, i, row[e].seq, run[t].nextPosition)
    <2>1. e \in Row
      BY <1>1, <1>20 DEF LateEnqueue, Abandoned, RunShape
    <2>2. k \in Key \cup {NoKey} /\ i \in Inbox
      BY <1>1, <2>1, RowFields, FederationQueueAssumption
    <2>3. row[e].seq \in Nat /\ run[t].nextPosition \in Nat
      BY <1>1, <2>1, RowFields DEF RunRecord
    <2>4. row[d].status = "absent" /\ row' = [row EXCEPT ![d] = r]
      BY <1>20 DEF LateEnqueue, Event
    <2> HIDE DEF e, k
    <2>5. r \in TypedRow /\ r.status = "pending" /\ r.token = NoToken
      BY <1>1, <2>1, <2>2, <2>3, LateRowType
    <2> HIDE DEF r
    <2> QED BY <1>1, <2>4, <2>5, OneRowMoves DEF Moves, Inserts
  <1> HIDE DEF Goal
  <1>21. Goal
    BY <1>3, <1>4, <1>5, <1>6, <1>7, <1>8, <1>9, <1>10, <1>11, <1>12, <1>13,
       <1>14, <1>15, <1>16, <1>17, <1>18, <1>19, <1>20
       DEF Next, Application, Claim, Handler, Settle, SettleFails, Beat, Environment
  <1> QED BY <1>21 DEF Goal

-----------------------------------------------------------------------------
(* How a step may move a run. *)

(* Only the heartbeat and the position of the next late delivery move. *)
Idles(t) ==
    /\ run'[t].state = run[t].state /\ run'[t].event = run[t].event
    /\ run'[t].worker = run[t].worker /\ run'[t].outcome = run[t].outcome
    /\ run'[t].handler = run[t].handler /\ run'[t].children = run[t].children

Begins(t) ==
    /\ run[t].state = "free" /\ run'[t].state = "chosen"
    /\ run'[t].event \in Row /\ run'[t].worker \in Worker
    /\ row' = row /\ \A e \in Row : row[e].token # t

Works(t) ==
    /\ run[t].state \in {"chosen", "open", "settling"}
    /\ run'[t].state \in {"open", "settling"}
    /\ run'[t].event = run[t].event /\ run'[t].worker = run[t].worker
    /\ run'[t].state = "settling" /\ run'[t].outcome = "success"
       => \/ run[t].state = "settling" /\ run[t].outcome = "success"
          \/ run[t].event \in Fanout \cup sent'

Leaves(t) ==
    /\ run[t].state = "settling" /\ run'[t].state = "zombie"
    /\ run'[t].event = run[t].event /\ run'[t].worker = run[t].worker

Steps(t) ==
    \/ Idles(t) \/ run'[t] = FreeRun
    \/ Begins(t) \/ Works(t) \/ Leaves(t)

(* A token not in use belongs to a well-formed run. *)
LEMMA FreeRunType == FreeRun \in RunRecord /\ FreeRun.state = "free" /\ FreeRun.children = {}
  BY DEF FreeRun, RunRecord, RunState, Outcome

(* A step that changes one run. *)
LEMMA OneRunSteps ==
    ASSUME run \in [Token -> RunRecord], NEW t \in Token, NEW r \in RunRecord,
           run' = [run EXCEPT ![t] = r], run'[t] = r => Steps(t)
    PROVE  run' \in [Token -> RunRecord] /\ \A u \in Token : Steps(u)
  <1>1. run' \in [Token -> RunRecord] /\ run'[t] = r
    OBVIOUS
  <1>2. \A u \in Token \ {t} : run'[u] = run[u]
    OBVIOUS
  <1> QED BY <1>1, <1>2 DEF Steps, Idles

(* Setting or clearing "due" changes nothing else of a run. *)
LEMMA DueRun ==
    ASSUME NEW r \in RunRecord, NEW b \in BOOLEAN
    PROVE  LET x == [r EXCEPT !.due = b]
           IN  /\ x \in RunRecord /\ x.state = r.state /\ x.event = r.event
               /\ x.worker = r.worker /\ x.outcome = r.outcome
               /\ x.handler = r.handler /\ x.children = r.children
               /\ x.nextPosition = r.nextPosition /\ x.due = b
  BY Zenon DEF RunRecord

(* A listener that moves on leaves its run to the handler, or frees it. *)
LEMMA MovesOnRun ==
    ASSUME run \in [Token -> RunRecord], NEW t \in Token, MovesOn(t)
    PROVE  /\ run' \in [Token -> RunRecord]
           /\ \A u \in Token \ {t} : run'[u] = run[u]
           /\ \/ run'[t] = FreeRun
              \/ /\ run'[t].state = "zombie" /\ run'[t].event = run[t].event
                 /\ run'[t].worker = run[t].worker
                 /\ run'[t].children = run[t].children
                 /\ run'[t].outcome = run[t].outcome
                 /\ run'[t].handler = run[t].handler /\ run'[t].due = FALSE
                 /\ run'[t].nextPosition = run[t].nextPosition
  <1>1. CASE run[t].handler
    <2> DEFINE r == [run[t] EXCEPT !.state = "zombie", !.due = FALSE]
    <2>1. run' = [run EXCEPT ![t] = r]
      BY <1>1 DEF MovesOn
    <2>2. run[t] \in RunRecord /\ "zombie" \in RunState /\ FALSE \in BOOLEAN
      BY DEF RunState
    <2>3. /\ r \in RunRecord /\ r.state = "zombie" /\ r.event = run[t].event
          /\ r.worker = run[t].worker /\ r.children = run[t].children
          /\ r.outcome = run[t].outcome /\ r.handler = run[t].handler
          /\ r.due = FALSE /\ r.nextPosition = run[t].nextPosition
      BY <2>2, Zenon DEF RunRecord
    <2> HIDE DEF r
    <2> QED BY <2>1, <2>3
  <1>2. CASE ~run[t].handler
    BY <1>2, FreeRunType DEF MovesOn, Ends
  <1> QED BY <1>1, <1>2

(* The handler's outcome takes an open run to its acknowledgement, and a   *)
(* failed acknowledgement takes it there again.                            *)
LEMMA OutcomesSteps ==
    ASSUME run \in [Token -> RunRecord], NEW t \in Token, NEW o \in Outcome,
           NEW alive \in BOOLEAN, Outcomes(t, o, alive),
           run[t].state \in {"open", "settling"},
           o = "success" => run[t].event \in Fanout \cup sent'
    PROVE  run' \in [Token -> RunRecord] /\ \A u \in Token : Steps(u)
  <1> DEFINE r == [run[t] EXCEPT !.state = "settling", !.outcome = o,
                                 !.handler = alive,
                                 !.children = IF o = "success" THEN @ ELSE {}]
  <1>1. run[t] \in RunRecord /\ run[t].children \in SUBSET Row /\ {} \in SUBSET Row
    BY DEF RunRecord
  <1>2. "settling" \in RunState
    BY DEF RunState
  <1>3. r \in RunRecord
    BY <1>1, <1>2, Zenon DEF RunRecord
  <1>4. /\ r.state = "settling" /\ r.outcome = o /\ r.event = run[t].event
        /\ r.worker = run[t].worker
    BY <1>1, Zenon DEF RunRecord
  <1>5. run' = [run EXCEPT ![t] = r]
    BY DEF Outcomes
  <1>6. run'[t] = r => Works(t)
    BY <1>4 DEF Works
  <1> HIDE DEF r
  <1> QED BY <1>3, <1>5, <1>6, OneRunSteps DEF Steps

(* Every step moves every run along the stages of a claim. *)
LEMMA RunSteps ==
    ASSUME IInv, [Next]_vars
    PROVE  run' \in [Token -> RunRecord] /\ \A t \in Token : Steps(t)
  <1> DEFINE Goal == run' \in [Token -> RunRecord] /\ \A t \in Token : Steps(t)
  <1>1. /\ row \in [Row -> TypedRow] /\ run \in [Token -> RunRecord]
        /\ RunShape /\ TokenOwned
    BY DEF IInv, TypeOK, TableTypeOK
  <1>2. run' = run => Goal
    BY <1>1 DEF Steps, Idles
  <1>3. ASSUME NEW t \in Token, Ends(t)
        PROVE  Goal
    BY <1>1, <1>3, FreeRunType, OneRunSteps DEF Ends, Steps
  <1>4. ASSUME NEW w \in Worker, NEW t \in Token, NEW e \in Row, Select(w, t, e)
        PROVE  Goal
    <2> DEFINE r == [FreeRun EXCEPT !.state = "chosen", !.event = e, !.worker = w]
    <2>1. /\ r \in RunRecord /\ r.state = "chosen" /\ r.event = e /\ r.worker = w
      BY DEF FreeRun, RunRecord, RunState, Outcome
    <2>2. /\ run' = [run EXCEPT ![t] = r] /\ row' = row
          /\ run[t].state = "free" /\ \A x \in Row : row[x].token # t
      BY <1>4 DEF Select, Fresh
    <2> HIDE DEF r
    <2>3. run'[t] = r => Begins(t)
      BY <2>1, <2>2 DEF Begins
    <2> QED BY <1>1, <2>1, <2>2, <2>3, OneRunSteps DEF Steps
  <1>5. ASSUME NEW t \in Token, Take(t)
        PROVE  Goal
    <2> DEFINE starts == mode[run[t].worker] # "stopping"
               r == [run[t] EXCEPT !.state = "open", !.handler = starts]
    <2>1. CASE Due(run[t].event)
      <3>1. run' = [run EXCEPT ![t] = r] /\ run[t].state = "chosen"
        BY <1>5, <2>1 DEF Take
      <3>2. run[t] \in RunRecord /\ starts \in BOOLEAN /\ "open" \in RunState
        BY <1>1 DEF RunState
      <3> HIDE DEF starts
      <3>3. r \in RunRecord
        BY <3>2, Zenon DEF RunRecord
      <3>4. r.state = "open" /\ r.event = run[t].event /\ r.worker = run[t].worker
        BY <3>2, Zenon DEF RunRecord
      <3>5. run'[t] = r => Works(t)
        BY <3>1, <3>4 DEF Works
      <3> HIDE DEF r
      <3> QED BY <1>1, <3>1, <3>3, <3>5, OneRunSteps DEF Steps
    <2>2. CASE ~Due(run[t].event)
      BY <1>3, <1>5, <2>2 DEF Take, Ends
    <2> QED BY <2>1, <2>2
  <1>6. ASSUME NEW t \in Token, NEW d \in Row, NEW i \in Recipients,
               FanoutEnqueue(t, d, i)
        PROVE  Goal
    <2> DEFINE r == [run[t] EXCEPT !.children = @ \cup {d}, !.nextPosition = @ + 1]
    <2>1. /\ run[t] \in RunRecord /\ run[t].children \cup {d} \in SUBSET Row
          /\ run[t].nextPosition + 1 \in Nat
      BY <1>1 DEF RunRecord
    <2>2. r \in RunRecord
      BY <2>1, Zenon DEF RunRecord
    <2>3. r.state = run[t].state /\ r.event = run[t].event /\ r.worker = run[t].worker
      BY <2>1, Zenon DEF RunRecord
    <2>4. run' = [run EXCEPT ![t] = r] /\ run[t].state = "open"
      BY <1>6 DEF FanoutEnqueue, Handling, Waiting
    <2>5. run'[t] = r => Works(t)
      BY <2>3, <2>4 DEF Works
    <2> HIDE DEF r
    <2> QED BY <1>1, <2>2, <2>4, <2>5, OneRunSteps DEF Steps
  <1>7. ASSUME NEW t \in Token, Success(t)
        PROVE  Goal
    <2>1. /\ Outcomes(t, "success", FALSE) /\ run[t].state = "open"
          /\ sent' = sent \cup ({run[t].event} \cap Delivery)
      BY <1>7 DEF Success, Handling, Waiting, Event
    <2>2. run[t].event \in Fanout \cup sent'
      BY <1>1, <2>1 DEF RunShape, Delivery
    <2> QED BY <1>1, <2>1, <2>2, OutcomesSteps DEF Outcome
  <1>8. ASSUME NEW t \in Token, Permanent(t) \/ Throw(t) \/ Timeout(t) \/ Abort(t)
                                \/ AcknowledgeFails(t)
        PROVE  Goal
    <2>1. run[t].state \in {"open", "settling"}
      BY <1>8 DEF Permanent, Throw, Timeout, Abort, AcknowledgeFails, Handling, Waiting
    <2>2. \E o \in {"permanent", "failed"}, alive \in BOOLEAN :
             Outcomes(t, o, alive)
      BY <1>1, <1>8
         DEF Permanent, Throw, Timeout, Abort, AcknowledgeFails, RunRecord
    <2> QED BY <1>1, <2>1, <2>2, OutcomesSteps DEF Outcome
  <1>9. ASSUME NEW t \in Token, NEW w \in 0..MaxWait, NEW held \in BOOLEAN,
               Requeue(t, w, held)
        PROVE  Goal
    <2>1. CASE run[t].state = "settling"
      <3> DEFINE r == [run[t] EXCEPT !.handler = FALSE]
      <3>1. run' = [run EXCEPT ![t] = r]
        BY <1>9, <2>1 DEF Requeue
      <3>2. run[t] \in RunRecord /\ FALSE \in BOOLEAN
        BY <1>1
      <3>3. r \in RunRecord
        BY <3>2, Zenon DEF RunRecord
      <3>4. /\ r.state = run[t].state /\ r.event = run[t].event
            /\ r.worker = run[t].worker /\ r.outcome = run[t].outcome
        BY <3>2, Zenon DEF RunRecord
      <3>5. run'[t] = r => Works(t)
        BY <2>1, <3>4 DEF Works
      <3> HIDE DEF r
      <3> QED BY <1>1, <3>1, <3>3, <3>5, OneRunSteps DEF Steps
    <2>2. CASE run[t].state # "settling"
      <3>1. Ends(t) \/ (run[t].state = "open" /\ Outcomes(t, "failed", FALSE))
        BY <1>9, <2>2 DEF Requeue
      <3> QED BY <1>1, <1>3, <3>1, OutcomesSteps DEF Outcome
    <2> QED BY <2>1, <2>2
  <1>10. ASSUME NEW t \in Token, HandlerEnds(t) \/ Acknowledge(t)
         PROVE  Goal
    BY <1>3, <1>10 DEF HandlerEnds, Acknowledge
  <1>11. ASSUME NEW t \in Token,
                RejectFails(t) \/ \E w \in 1..MaxWait : Reject(t, w)
         PROVE  Goal
    <2>1. run[t].state = "settling" /\ MovesOn(t)
      BY <1>11 DEF Reject, RejectFails
    <2> QED BY <1>1, <2>1, MovesOnRun DEF Steps, Idles, Leaves
  <1>12. ASSUME NEW w \in Worker, Crash(w) \/ Exit(w)
         PROVE  Goal
    <2>1. run' = [t \in Token |-> IF t \in Of(w) THEN FreeRun ELSE run[t]]
      BY <1>12 DEF Crash, Exit, Gone
    <2> QED BY <1>1, <2>1, FreeRunType DEF Steps, Idles
  <1>13. ASSUME run' = run \/ UNCHANGED vars
         PROVE  Goal
    BY <1>2, <1>13 DEF vars
  <1>14. ASSUME NEW s \in Sends, AppEnqueue(s)
         PROVE  Goal
    BY <1>2, <1>14 DEF AppEnqueue
  <1>15. ASSUME NEW e \in Row, AppCommit(e) \/ AppRollback(e) \/ Replay(e) \/ Prune(e)
         PROVE  Goal
    BY <1>2, <1>15 DEF AppCommit, AppRollback, Replay, Prune
  <1>16. ASSUME NEW t \in Token, Beat(t)
         PROVE  Goal
    <2> DEFINE r == [run[t] EXCEPT !.due = FALSE]
    <2>1. run' = [run EXCEPT ![t] = r] /\ run[t] \in RunRecord
      BY <1>1, <1>16 DEF Beat, Renew, RenewFails
    <2>2. /\ r \in RunRecord
          /\ run'[t] = r => Idles(t)
      BY <2>1, DueRun DEF Idles
    <2> HIDE DEF r
    <2> QED BY <1>1, <2>1, <2>2, OneRunSteps DEF Steps
  <1>17. ASSUME NEW w \in Worker, Stall(w) \/ Wake(w) \/ Stop(w)
         PROVE  Goal
    BY <1>2, <1>17 DEF Stall, Wake, Stop
  <1>18. ASSUME Tick
         PROVE  Goal
    <2>1. run' = [t \in Token |-> [run[t] EXCEPT !.due = Heartbeat(t)]]
      BY <1>18 DEF Tick
    <2>2. \A t \in Token : Heartbeat(t) \in BOOLEAN
      BY DEF Heartbeat, Holds
    <2>3. ASSUME NEW t \in Token
          PROVE  run'[t] \in RunRecord /\ Idles(t)
      <3>1. run[t] \in RunRecord /\ Heartbeat(t) \in BOOLEAN
        BY <1>1, <2>2
      <3>2. run'[t] = [run[t] EXCEPT !.due = Heartbeat(t)]
        BY <2>1
      <3> QED BY <3>1, <3>2, DueRun DEF Idles
    <2> QED BY <2>1, <2>3 DEF Steps
  <1>19. ASSUME NEW t \in Token, NEW d \in Row, LateRecord(t, d)
         PROVE  Goal
    BY <1>2, <1>19 DEF LateRecord
  <1>20. ASSUME NEW t \in Token, NEW d \in Row, NEW i \in Recipients,
                LateEnqueue(t, d, i)
         PROVE  Goal
    <2> DEFINE r == [run[t] EXCEPT !.nextPosition = @ + 1]
    <2>1. run[t] \in RunRecord /\ run[t].nextPosition + 1 \in Nat
      BY <1>1 DEF RunRecord
    <2>2. /\ r \in RunRecord
          /\ r.state = run[t].state /\ r.event = run[t].event
          /\ r.worker = run[t].worker /\ r.outcome = run[t].outcome
          /\ r.handler = run[t].handler /\ r.children = run[t].children
      BY <2>1, Zenon DEF RunRecord
    <2>3. run' = [run EXCEPT ![t] = r]
      BY <1>20 DEF LateEnqueue
    <2>4. run'[t] = r => Idles(t)
      BY <2>2 DEF Idles
    <2> HIDE DEF r
    <2> QED BY <1>1, <2>2, <2>3, <2>4, OneRunSteps DEF Steps
  <1> HIDE DEF Goal
  <1>21. Goal
    BY <1>4, <1>5, <1>6, <1>7, <1>8, <1>9, <1>10, <1>11, <1>12, <1>13, <1>14,
       <1>15, <1>16, <1>17, <1>18, <1>19, <1>20
       DEF Next, Application, Claim, Handler, Settle, SettleFails, Beat, Environment
  <1> QED BY <1>21 DEF Goal

-----------------------------------------------------------------------------
(* The uncommitted rows of the handlers' transactions. *)

ChildrenShrink == \A t \in Token : run'[t].children \subseteq run[t].children

(* A step that disturbs no handler's rows keeps them private. *)
LEMMA ChildrenKept ==
    ASSUME ChildrenPrivate, ChildrenShrink,
           \A t \in Token : \A c \in run'[t].children :
              row'[c].status = row[c].status /\ row'[c].group = row[c].group
    PROVE  ChildrenPrivate'
  BY DEF ChildrenPrivate, ChildrenShrink, Uncommitted, Delivery

(* A step that changes one row, not enqueued by a handler, disturbs none. *)
LEMMA OtherRowKept ==
    ASSUME ChildrenPrivate, ChildrenShrink, NEW e \in Row,
           Uncommitted(e) => e \notin Delivery \/ row[e].group \notin Fanout,
           \A x \in Row \ {e} : row'[x] = row[x]
    PROVE  ChildrenPrivate'
  <1>1. ASSUME NEW t \in Token, NEW c \in run'[t].children
        PROVE  row'[c] = row[c]
    BY <1>1 DEF ChildrenPrivate, ChildrenShrink, Delivery
  <1> QED BY <1>1, ChildrenKept

(* A handler's transaction that is rolled back takes no row of another. *)
LEMMA RollbackKept ==
    ASSUME row \in [Row -> TypedRow], ChildrenPrivate, ChildrenShrink,
           NEW T \in SUBSET Token, row' = WithoutChildren(T),
           \A t \in T : run'[t].children = {}
    PROVE  ChildrenPrivate'
  <1>1. ASSUME NEW t \in Token, NEW c \in run'[t].children
        PROVE  row'[c] = row[c]
    <2>1. c \in run[t].children /\ c \in Row /\ t \notin T
      BY <1>1 DEF ChildrenPrivate, ChildrenShrink, Delivery
    <2>2. \A u \in T : c \notin run[u].children
      BY <2>1 DEF ChildrenPrivate
    <2> QED BY <2>1, <2>2 DEF WithoutChildren
  <1> QED BY <1>1, ChildrenKept

(* Children leave a run when its handler ends without success. *)
LEMMA OutcomesChildren ==
    ASSUME run \in [Token -> RunRecord], NEW t \in Token, NEW o \in Outcome,
           NEW alive \in BOOLEAN, Outcomes(t, o, alive)
    PROVE  ChildrenShrink /\ (o # "success" => run'[t].children = {})
  <1> DEFINE r == [run[t] EXCEPT !.state = "settling", !.outcome = o,
                                 !.handler = alive,
                                 !.children = IF o = "success" THEN @ ELSE {}]
  <1>1. run[t] \in RunRecord
    OBVIOUS
  <1>2. r.children = IF o = "success" THEN run[t].children ELSE {}
    BY <1>1, Zenon DEF RunRecord
  <1>3. run' = [run EXCEPT ![t] = r]
    BY DEF Outcomes
  <1> HIDE DEF r
  <1> QED BY <1>2, <1>3 DEF ChildrenShrink

(* No step lets a handler's row out of its transaction but the step that   *)
(* ends the transaction.                                                   *)
LEMMA ChildrenStep ==
    ASSUME IInv, [Next]_vars
    PROVE  ChildrenPrivate'
  <1>1. /\ row \in [Row -> TypedRow] /\ run \in [Token -> RunRecord]
        /\ RunShape /\ TokenOwned /\ ChildrenPrivate
    BY DEF IInv, TypeOK, TableTypeOK
  <1>2. run' = run => ChildrenShrink
    BY DEF ChildrenShrink
  <1>3. \A t \in Token : Ends(t) => ChildrenShrink /\ run'[t].children = {}
    BY <1>1, FreeRunType DEF Ends, ChildrenShrink
  <1>4. ChildrenShrink /\ row' = row => ChildrenPrivate'
    BY <1>1, ChildrenKept DEF ChildrenShrink
  <1>5. ASSUME NEW s \in Sends, AppEnqueue(s)
        PROVE  ChildrenPrivate'
    <2>1. s.event \in Row /\ ~Uncommitted(s.event) /\ run' = run
      BY <1>5, FederationQueueAssumption DEF AppEnqueue, InsertRoot, Uncommitted
    <2>2. \A x \in Row \ {s.event} : row'[x] = row[x]
      BY <1>1, <1>5 DEF AppEnqueue, InsertRoot
    <2> QED BY <1>1, <1>2, <2>1, <2>2, OtherRowKept
  <1>6. ASSUME NEW e \in Row, AppCommit(e) \/ AppRollback(e)
        PROVE  ChildrenPrivate'
    <2>1. row[e].group = e /\ run' = run /\ \A x \in Row \ {e} : row'[x] = row[x]
      BY <1>1, <1>6 DEF AppCommit, AppRollback
    <2> QED BY <1>1, <1>2, <2>1, OtherRowKept DEF Delivery
  <1>7. ASSUME NEW w \in Worker, NEW t \in Token, NEW e \in Row, Select(w, t, e)
        PROVE  ChildrenPrivate'
    <2>1. ChildrenShrink /\ row' = row
      BY <1>1, <1>7 DEF Select, FreeRun, ChildrenShrink
    <2> QED BY <1>4, <2>1
  <1>8. ASSUME NEW t \in Token, Take(t)
        PROVE  ChildrenPrivate'
    <2>1. run[t].event \in Row
      BY <1>1, <1>8 DEF Take, RunShape
    <2>2. CASE Due(run[t].event)
      <3>1. ChildrenShrink /\ \A x \in Row \ {run[t].event} : row'[x] = row[x]
        BY <1>1, <1>8, <2>1, <2>2 DEF Take, ChildrenShrink, RunRecord
      <3>2. ~Uncommitted(run[t].event)
        BY <2>2 DEF Due, Uncommitted
      <3> QED BY <1>1, <2>1, <3>1, <3>2, OtherRowKept
    <2>3. CASE ~Due(run[t].event)
      BY <1>3, <1>4, <1>8, <2>3 DEF Take, Ends
    <2> QED BY <2>2, <2>3
  <1>9. ASSUME NEW t \in Token, NEW d \in Row, NEW i \in Recipients,
               FanoutEnqueue(t, d, i)
        PROVE  ChildrenPrivate'
    <2> DEFINE e == run[t].event
               k == InboxKey[<<row[e].key, i>>]
               r == InsertedRow(d, k, e, i, row[e].seq, run[t].nextPosition, 0)
    <2>1. /\ e \in Fanout /\ e \in Row /\ d \in Delivery
          /\ row[d].status = "absent" /\ row' = [row EXCEPT ![d] = r]
      BY <1>1, <1>9 DEF FanoutEnqueue, Handling, Waiting, Event, RunShape
    <2>2. k \in Key \cup {NoKey} /\ i \in Inbox \cup {NoInbox}
      BY <1>1, <2>1, RowFields, FederationQueueAssumption
    <2>3. row[e].seq \in Nat /\ run[t].nextPosition \in Nat
      BY <1>1, <2>1, RowFields DEF RunRecord
    <2>4. r \in NewRow(e)
      BY <1>1, <2>1, <2>2, <2>3, InsertedRowType
    <2> HIDE DEF r
    <2>5. row'[d].status = "uncommitted" /\ row'[d].group = e
      BY <1>1, <2>1, <2>4 DEF NewRow
    <2>6. \A x \in Row \ {d} : row'[x] = row[x]
      BY <1>1, <2>1
    <2>7. /\ run'[t].children = run[t].children \cup {d}
          /\ \A u \in Token \ {t} : run'[u].children = run[u].children
      BY <1>1, <1>9 DEF FanoutEnqueue, RunRecord
    <2>8. \A u \in Token : d \notin run[u].children
      BY <1>1, <2>1 DEF ChildrenPrivate, Uncommitted
    <2>9. ASSUME NEW u \in Token, NEW c \in run'[u].children
          PROVE  c \in Delivery /\ Uncommitted(c)' /\ row'[c].group \in Fanout
      <3>1. CASE c = d
        BY <2>1, <2>5, <3>1 DEF Uncommitted
      <3>2. CASE c # d
        <4>1. c \in run[u].children
          BY <2>7, <2>9, <3>2
        <4> QED BY <1>1, <2>6, <3>2, <4>1 DEF ChildrenPrivate, Uncommitted, Delivery
      <3> QED BY <3>1, <3>2
    <2>10. \A u, v \in Token : u # v => run'[u].children \cap run'[v].children = {}
      BY <1>1, <2>7, <2>8 DEF ChildrenPrivate
    <2> QED BY <2>9, <2>10 DEF ChildrenPrivate, Delivery
  <1>10. ASSUME NEW t \in Token, Success(t) \/ Permanent(t)
         PROVE  ChildrenPrivate'
    BY <1>1, <1>4, <1>10, OutcomesChildren DEF Success, Permanent, Outcome
  <1>11. ASSUME NEW t \in Token,
                Throw(t) \/ Timeout(t) \/ Abort(t) \/ AcknowledgeFails(t)
         PROVE  ChildrenPrivate'
    <2>1. /\ row' = WithoutChildren({t})
          /\ \E alive \in BOOLEAN : Outcomes(t, "failed", alive)
      BY <1>1, <1>11 DEF Throw, Timeout, Abort, AcknowledgeFails, RunRecord
    <2>2. ChildrenShrink /\ run'[t].children = {}
      BY <1>1, <2>1, OutcomesChildren DEF Outcome
    <2> QED BY <1>1, <2>1, <2>2, RollbackKept
  <1>12. ASSUME NEW t \in Token, NEW w \in 0..MaxWait, NEW held \in BOOLEAN,
                Requeue(t, w, held)
         PROVE  ChildrenPrivate'
    <2> DEFINE e == run[t].event
    <2>1. e \in Row
      BY <1>1, <1>12 DEF Requeue, RunShape
    <2>2. ChildrenShrink
      <3>1. CASE run[t].state = "settling"
        BY <1>1, <1>12, <3>1 DEF Requeue, ChildrenShrink, RunRecord
      <3>2. CASE run[t].state # "settling"
        <4>1. Ends(t) \/ Outcomes(t, "failed", FALSE)
          BY <1>12, <3>2 DEF Requeue
        <4> QED BY <1>1, <1>3, <4>1, OutcomesChildren DEF Outcome
      <3> QED BY <3>1, <3>2
    <2>3. CASE Holds(e, t)
      <3>1. ~Uncommitted(e) /\ \A x \in Row \ {e} : row'[x] = row[x]
        BY <1>1, <1>12, <2>1, <2>3 DEF Requeue, Event, Holds, Uncommitted
      <3> QED BY <1>1, <2>1, <2>2, <3>1, OtherRowKept
    <2>4. CASE ~Holds(e, t)
      BY <1>4, <1>12, <2>2, <2>4 DEF Requeue, Event
    <2> QED BY <2>3, <2>4
  <1>13. ASSUME NEW t \in Token, HandlerEnds(t)
         PROVE  ChildrenPrivate'
    BY <1>3, <1>4, <1>13 DEF HandlerEnds
  <1>14. ASSUME NEW t \in Token, Acknowledge(t)
         PROVE  ChildrenPrivate'
    <2> DEFINE e == run[t].event
    <2>1. e \in Row /\ ChildrenShrink /\ run'[t].children = {}
      BY <1>1, <1>3, <1>14 DEF Acknowledge, RunShape
    <2>2. CASE Holds(e, t)
      <3>1. row' = [a \in Row |-> IF a = e THEN CompletedRow(a)
                                  ELSE IF a \in run[t].children THEN Published(a)
                                  ELSE row[a]]
        BY <1>14, <2>2 DEF Acknowledge, Event
      <3>2. ASSUME NEW u \in Token, NEW c \in run'[u].children
            PROVE  row'[c] = row[c]
        <4>1. c \in Row /\ c \in run[u].children /\ Uncommitted(c) /\ u # t
          BY <1>1, <2>1, <3>2 DEF ChildrenPrivate, ChildrenShrink, Delivery
        <4>2. c # e /\ c \notin run[t].children
          BY <1>1, <2>2, <4>1 DEF ChildrenPrivate, Holds, Uncommitted
        <4> QED BY <3>1, <4>1, <4>2
      <3> QED BY <1>1, <2>1, <3>2, ChildrenKept
    <2>3. CASE ~Holds(e, t)
      <3>1. row' = WithoutChildren({t})
        BY <1>14, <2>3 DEF Acknowledge, Event
      <3> QED BY <1>1, <2>1, <3>1, RollbackKept
    <2> QED BY <2>2, <2>3
  <1>15. ASSUME NEW t \in Token, NEW w \in 1..MaxWait, Reject(t, w)
         PROVE  ChildrenPrivate'
    <2> DEFINE e == run[t].event
    <2>1. e \in Row
      BY <1>1, <1>15 DEF Reject, RunShape
    <2>2. ChildrenShrink
      BY <1>1, <1>15, MovesOnRun, FreeRunType DEF Reject, ChildrenShrink
    <2>3. CASE Holds(e, t)
      <3>1. ~Uncommitted(e) /\ \A x \in Row \ {e} : row'[x] = row[x]
        BY <1>1, <1>15, <2>1, <2>3 DEF Reject, Event, Holds, Uncommitted
      <3> QED BY <1>1, <2>1, <2>2, <3>1, OtherRowKept
    <2>4. CASE ~Holds(e, t)
      BY <1>4, <1>15, <2>2, <2>4 DEF Reject, Event
    <2> QED BY <2>3, <2>4
  <1>16. ASSUME NEW t \in Token, Beat(t)
         PROVE  ChildrenPrivate'
    <2>1. run' = [run EXCEPT ![t] = [run[t] EXCEPT !.due = FALSE]]
      BY <1>1, <1>16 DEF Beat, Renew, RenewFails
    <2>2. ChildrenShrink
      BY <1>1, <2>1, DueRun DEF ChildrenShrink
    <2>3. CASE Renew(t)
      <3>1. /\ run[t].event \in Row /\ ~Uncommitted(run[t].event)
            /\ \A x \in Row \ {run[t].event} : row'[x] = row[x]
        BY <1>1, <2>3
           DEF Renew, Heartbeats, Heartbeat, Holds, Event, Uncommitted, RunShape
      <3> QED BY <1>1, <2>2, <3>1, OtherRowKept
    <2>4. CASE RenewFails(t)
      BY <1>4, <2>2, <2>4 DEF RenewFails
    <2> QED BY <1>16, <2>3, <2>4 DEF Beat
  <1>17. ASSUME Tick
         PROVE  ChildrenPrivate'
    <2>1. \A e \in Row : row'[e].status = row[e].status
                         /\ row'[e].group = row[e].group
      BY <1>1, <1>17, TickType DEF Tick
    <2>2. \A t \in Token : Heartbeat(t) \in BOOLEAN
      BY DEF Heartbeat, Holds
    <2>3. ChildrenShrink
      BY <1>1, <1>17, <2>2, DueRun DEF Tick, ChildrenShrink
    <2> QED BY <1>1, <2>1, <2>3, ChildrenKept
            DEF ChildrenPrivate, ChildrenShrink, Delivery
  <1>18. ASSUME NEW w \in Worker, Crash(w) \/ Exit(w)
         PROVE  ChildrenPrivate'
    <2>1. /\ row' = WithoutChildren(Of(w)) /\ Of(w) \in SUBSET Token
          /\ run' = [t \in Token |-> IF t \in Of(w) THEN FreeRun ELSE run[t]]
      BY <1>18 DEF Crash, Exit, Gone, Of
    <2>2. ChildrenShrink /\ \A t \in Of(w) : run'[t].children = {}
      BY <2>1, FreeRunType DEF ChildrenShrink
    <2> QED BY <1>1, <2>1, <2>2, RollbackKept
  <1>19. ASSUME NEW w \in Worker, Stall(w) \/ Wake(w) \/ Stop(w)
         PROVE  ChildrenPrivate'
    BY <1>2, <1>4, <1>19 DEF Stall, Wake, Stop
  <1>20. ASSUME NEW e \in Row, Replay(e) \/ Prune(e)
         PROVE  ChildrenPrivate'
    <2>1. /\ ~Uncommitted(e) /\ run' = run
          /\ \A x \in Row \ {e} : row'[x] = row[x]
      BY <1>1, <1>20 DEF Replay, Prune, Replayable, Prunable, Uncommitted
    <2> QED BY <1>1, <1>2, <2>1, OtherRowKept
  <1>21. ASSUME UNCHANGED vars
         PROVE  ChildrenPrivate'
    BY <1>2, <1>4, <1>21 DEF vars
  <1>22. ASSUME NEW t \in Token, RejectFails(t)
         PROVE  ChildrenPrivate'
    <2>1. ChildrenShrink
      BY <1>1, <1>22, MovesOnRun, FreeRunType DEF RejectFails, ChildrenShrink
    <2> QED BY <1>4, <1>22, <2>1 DEF RejectFails
  <1>23. ASSUME NEW t \in Token, NEW d \in Row, LateRecord(t, d)
         PROVE  ChildrenPrivate'
    BY <1>2, <1>4, <1>23 DEF LateRecord
  <1>24. ASSUME NEW t \in Token, NEW d \in Row, NEW i \in Recipients,
                LateEnqueue(t, d, i)
         PROVE  ChildrenPrivate'
    <2>1. ~Uncommitted(d) /\ \A x \in Row \ {d} : row'[x] = row[x]
      BY <1>1, <1>24 DEF LateEnqueue, Uncommitted
    <2>2. ChildrenShrink
      BY <1>1, <1>24 DEF LateEnqueue, ChildrenShrink, RunRecord
    <2> QED BY <1>1, <2>1, <2>2, OtherRowKept
  <1> QED
    BY <1>5, <1>6, <1>7, <1>8, <1>9, <1>10, <1>11, <1>12, <1>13, <1>14, <1>15,
       <1>16, <1>17, <1>18, <1>19, <1>20, <1>21, <1>22, <1>23, <1>24
       DEF Next, Application, Claim, Handler, Settle, SettleFails, Beat, Environment

-----------------------------------------------------------------------------
(* The invariant is inductive. *)

(* The remaining variables keep their types; what was sent stays sent. *)
LEMMA OtherTypes ==
    ASSUME IInv, [Next]_vars
    PROVE  /\ sequence' \in Nat /\ faults' \in Nat
           /\ mode' \in [Worker -> {"up", "stalled", "stopping"}]
           /\ missed' \in Nat /\ late \subseteq late' /\ late' \subseteq Delivery
           /\ sent \subseteq sent' /\ sent' \subseteq Row
           /\ article' \in [Row -> ArticleStatus]
  <1> DEFINE Goal == /\ sequence' \in Nat /\ faults' \in Nat
                     /\ mode' \in [Worker -> {"up", "stalled", "stopping"}]
                     /\ missed' \in Nat
                     /\ late \subseteq late' /\ late' \subseteq Delivery
                     /\ sent \subseteq sent' /\ sent' \subseteq Row
                     /\ article' \in [Row -> ArticleStatus]
  <1>1. /\ sequence \in Nat /\ faults \in Nat
        /\ mode \in [Worker -> {"up", "stalled", "stopping"}]
        /\ missed \in Nat /\ late \subseteq Delivery
        /\ sent \subseteq Row /\ article \in [Row -> ArticleStatus]
    BY DEF IInv, TypeOK, TableTypeOK
  <1>2. /\ \A S : Recorded(S) \in [Row -> ArticleStatus]
        /\ \A e \in Row : \A s \in ArticleStatus :
              Article(e, s) \in [Row -> ArticleStatus]
    BY <1>1 DEF Recorded, Article, ArticleStatus
  <1>3. \A t \in Token : run[t].state # "free" => run[t].event \in Row
    BY DEF IInv, RunShape
  <1>4. {"pending", "accepted", "failed"} \subseteq ArticleStatus
    BY DEF ArticleStatus
  <1>5. ASSUME NEW s \in Sends, AppEnqueue(s)
        PROVE  Goal
    BY <1>1, <1>5 DEF AppEnqueue, InsertRoot
  <1>6. ASSUME NEW e \in Row,
               AppCommit(e) \/ AppRollback(e) \/ Replay(e) \/ Prune(e)
        PROVE  Goal
    <2>1. \/ article' = article \/ article' = Article(e, "pending")
          \/ article' = Recorded({e})
      BY <1>6 DEF AppCommit, AppRollback, Replay, Prune
    <2>2. article' \in [Row -> ArticleStatus]
      BY <1>1, <1>2, <1>4, <2>1
    <2> QED BY <1>1, <1>6, <2>2 DEF AppCommit, AppRollback, Replay, Prune
  <1>7. ASSUME NEW w \in Worker, NEW t \in Token, NEW e \in Row, Select(w, t, e)
        PROVE  Goal
    BY <1>1, <1>7 DEF Select
  <1>8. ASSUME NEW t \in Token, Take(t) \/ HandlerEnds(t) \/ Renew(t)
                                \/ Permanent(t) \/ Throw(t) \/ Timeout(t) \/ Abort(t)
        PROVE  Goal
    BY <1>1, <1>8 DEF Take, Renew, HandlerEnds, Permanent, Throw, Timeout, Abort
  <1>9. ASSUME NEW t \in Token, NEW d \in Row, NEW i \in Recipients,
               FanoutEnqueue(t, d, i)
        PROVE  Goal
    BY <1>1, <1>9 DEF FanoutEnqueue
  <1>10. ASSUME NEW t \in Token, Success(t)
         PROVE  Goal
    BY <1>1, <1>10 DEF Success, Delivery
  <1>11. ASSUME NEW t \in Token, NEW w \in 0..MaxWait, NEW held \in BOOLEAN,
                Requeue(t, w, held)
         PROVE  Goal
    <2>1. run[t].event \in Row /\ faults' \in Nat
      BY <1>1, <1>3, <1>11 DEF Requeue
    <2>2. article' = article \/ article' = Article(run[t].event, "failed")
      BY <1>11 DEF Requeue, Event
    <2>3. article' \in [Row -> ArticleStatus]
      BY <1>1, <1>2, <1>4, <2>1, <2>2
    <2> QED BY <1>1, <1>11, <2>1, <2>3 DEF Requeue
  <1>12. ASSUME NEW t \in Token, Acknowledge(t)
         PROVE  Goal
    <2>1. run[t].event \in Row
      BY <1>3, <1>12 DEF Acknowledge
    <2>2. \/ article' = article \/ article' = Article(run[t].event, "accepted")
          \/ article' = Recorded(run[t].children)
      BY <1>12 DEF Acknowledge, Event
    <2>3. article' \in [Row -> ArticleStatus]
      BY <1>1, <1>2, <1>4, <2>1, <2>2
    <2> QED BY <1>1, <1>12, <2>3 DEF Acknowledge
  <1>13. ASSUME NEW t \in Token, NEW w \in 1..MaxWait, Reject(t, w)
         PROVE  Goal
    <2>1. run[t].event \in Row
      BY <1>3, <1>13 DEF Reject
    <2>2. article' = article \/ article' = Article(run[t].event, "failed")
      BY <1>13 DEF Reject, Event
    <2>3. article' \in [Row -> ArticleStatus]
      BY <1>1, <1>2, <1>4, <2>1, <2>2
    <2> QED BY <1>1, <1>13, <2>3 DEF Reject
  <1>14. ASSUME Tick
         PROVE  Goal
    BY <1>1, <1>14 DEF Tick
  <1>15. ASSUME NEW w \in Worker,
                Crash(w) \/ Stall(w) \/ Wake(w) \/ Stop(w) \/ Exit(w)
         PROVE  Goal
    <2>1. faults' \in Nat
      BY <1>1, <1>15 DEF Crash, Stall, Wake, Stop, Exit, Fault
    <2>2. mode' \in [Worker -> {"up", "stalled", "stopping"}]
      BY <1>1, <1>15 DEF Crash, Stall, Wake, Stop, Exit, Gone
    <2> QED BY <1>1, <1>15, <2>1, <2>2 DEF Crash, Stall, Wake, Stop, Exit, Gone
  <1>16. ASSUME UNCHANGED vars
         PROVE  Goal
    BY <1>1, <1>16 DEF vars
  <1>17. ASSUME NEW t \in Token,
                AcknowledgeFails(t) \/ RejectFails(t) \/ RenewFails(t)
         PROVE  Goal
    <2>1. CASE AcknowledgeFails(t) \/ RejectFails(t)
      <3>1. /\ faults' = faults + 1
            /\ UNCHANGED <<sequence, mode, missed, late, sent, article>>
        BY <2>1, Zenon DEF AcknowledgeFails, RejectFails, Fault
      <3> QED BY <1>1, <3>1
    <2>2. CASE RenewFails(t)
      BY <1>1, <2>2 DEF RenewFails
    <2> QED BY <1>17, <2>1, <2>2
  <1>18. ASSUME NEW t \in Token, NEW d \in Row, LateRecord(t, d)
         PROVE  Goal
    <2>1. article' \in [Row -> ArticleStatus]
      BY <1>1, <1>4, <1>18 DEF LateRecord
    <2> QED BY <1>1, <1>18, <2>1 DEF LateRecord
  <1>19. ASSUME NEW t \in Token, NEW d \in Row, NEW i \in Recipients,
                LateEnqueue(t, d, i)
         PROVE  Goal
    BY <1>1, <1>19 DEF LateEnqueue
  <1> HIDE DEF Goal
  <1>20. Goal
    BY <1>5, <1>6, <1>7, <1>8, <1>9, <1>10, <1>11, <1>12, <1>13, <1>14, <1>15,
       <1>16, <1>17, <1>18, <1>19
       DEF Next, Application, Claim, Handler, Settle, SettleFails, Beat, Environment
  <1> QED BY <1>20 DEF Goal

(* A run that is not free keeps its row and its worker. *)
LEMMA ShapeStep ==
    ASSUME IInv, [Next]_vars
    PROVE  RunShape'
  <1>1. \A t \in Token : Steps(t)
    BY RunSteps
  <1>2. ASSUME NEW t \in Token, run'[t].state # "free"
        PROVE  run'[t].event \in Row /\ run'[t].worker \in Worker
    BY <1>1, <1>2, FreeRunType DEF IInv, RunShape, Steps, Idles, Begins, Works, Leaves
  <1> QED BY <1>2 DEF RunShape

(* No step leaves a row with a token that another run believes its own. *)
LEMMA OwnedStep ==
    ASSUME IInv, [Next]_vars
    PROVE  TokenOwned'
  <1>1. /\ \A t \in Token : Steps(t)
        /\ \A e \in Row : Moves(e)
        /\ TokenOwned /\ NoToken \notin Token
    BY RunSteps, RowMoves, OutboxTableAssumption DEF IInv
  <1>2. ASSUME NEW t \in Token, NEW e \in Row, row'[e].token = t
        PROVE  \/ run'[t].state = "free"
               \/ run'[t].state \in {"open", "settling", "zombie"} /\ run'[t].event = e
    <2>1. row'[e].token # NoToken
      BY <1>1, <1>2
    <2>2. CASE Keeps(e)
      <3>1. row[e].token = t
        BY <1>2, <2>2 DEF Keeps
      <3>2. \/ run[t].state = "free"
            \/ run[t].state \in {"open", "settling", "zombie"} /\ run[t].event = e
        BY <1>1, <3>1 DEF TokenOwned
      <3> QED BY <1>1, <1>2, <3>1, <3>2, FreeRunType
              DEF Steps, Idles, Begins, Works, Leaves
    <2>3. CASE \E u \in Token : Claims(e, u)
      BY <1>2, <2>3 DEF Claims
    <2> QED BY <1>1, <2>1, <2>2, <2>3 DEF Moves, Inserts, Closes, Retires, Gives
  <1> QED BY <1>2 DEF TokenOwned

(* Nothing is concluded, or completed, that was not sent. *)
LEMMA SentStep ==
    ASSUME IInv, [Next]_vars
    PROVE  SuccessWasSent' /\ CompletedWasSent'
  <1>1. /\ \A t \in Token : Steps(t)
        /\ \A e \in Row : Moves(e)
        /\ sent \subseteq sent'
    BY RunSteps, RowMoves, OtherTypes
  <1>2. SuccessWasSent /\ CompletedWasSent
    BY DEF IInv
  <1>3. ASSUME NEW t \in Token, run'[t].state = "settling",
               run'[t].outcome = "success", run'[t].event \in Delivery
        PROVE  run'[t].event \in sent'
    <2>1. Idles(t) \/ Works(t)
      BY <1>1, <1>3, FreeRunType DEF Steps, Begins, Leaves
    <2> QED BY <1>1, <1>2, <1>3, <2>1 DEF SuccessWasSent, Idles, Works, Delivery
  <1>4. ASSUME NEW e \in Delivery, row'[e].status = "completed"
        PROVE  e \in sent'
    <2>1. e \in Row
      BY DEF Delivery
    <2>2. CASE Keeps(e)
      BY <1>1, <1>2, <1>4, <2>2 DEF Keeps, CompletedWasSent
    <2>3. CASE \E t \in Token : Gives(e, t)
      BY <1>1, <1>4, <2>3 DEF Gives
    <2> QED BY <1>1, <1>4, <2>1, <2>2, <2>3
            DEF Moves, Inserts, Closes, Retires, Claims
  <1> QED BY <1>3, <1>4 DEF SuccessWasSent, CompletedWasSent, Delivery

(* The initial states satisfy the invariant. *)
LEMMA InitIInv == Init => IInv
  <1> SUFFICES ASSUME Init PROVE IInv
    OBVIOUS
  <1>1. row = [e \in Row |-> AbsentRow(e)] /\ run = [t \in Token |-> FreeRun]
    BY DEF Init, TableInit
  <1>2. /\ row \in [Row -> TypedRow]
        /\ \A e \in Row : row[e].status = "absent" /\ row[e].token = NoToken
    BY <1>1, AbsentRowType
  <1>3. /\ run \in [Token -> RunRecord]
        /\ \A t \in Token : run[t].state = "free" /\ run[t].children = {}
    BY <1>1, FreeRunType
  <1>4. TypeOK
    BY <1>2, <1>3 DEF Init, TableInit, TypeOK, TableTypeOK, ArticleStatus
  <1>5. RunShape /\ ChildrenPrivate /\ SuccessWasSent
    BY <1>3 DEF RunShape, ChildrenPrivate, SuccessWasSent
  <1>6. TokenOwned /\ CompletedWasSent
    BY <1>2, <1>3, OutboxTableAssumption DEF TokenOwned, CompletedWasSent, Delivery
  <1> QED BY <1>4, <1>5, <1>6 DEF IInv

(* Every step preserves it. *)
LEMMA NextIInv == IInv /\ [Next]_vars => IInv'
  <1> SUFFICES ASSUME IInv, [Next]_vars PROVE IInv'
    OBVIOUS
  <1>1. TypeOK'
    BY RowMoves, RunSteps, OtherTypes DEF TypeOK, TableTypeOK, TypedRow, RowRecord,
       Status, RunRecord, RunState, Outcome, ArticleStatus
  <1> QED BY <1>1, ShapeStep, OwnedStep, ChildrenStep, SentStep DEF IInv

(* The inductive invariant holds of every behaviour. *)
LEMMA Invariance == Spec => []IInv
  BY InitIInv, NextIInv, PTL DEF Spec

-----------------------------------------------------------------------------
(* The results. *)

(* Every variable keeps its type, and a row has a lease token exactly      *)
(* while it is processing.                                                 *)
THEOREM TypeCorrect == Spec => []TypeOK
  <1>1. IInv => TypeOK
    BY DEF IInv
  <1> QED BY <1>1, Invariance, PTL

(* At least once: a delivery is completed only if a remote inbox accepted  *)
(* it, however many workers crash, stall or time out on it.                *)
THEOREM CompletedSent == Spec => []CompletedWasSent
  <1>1. IInv => CompletedWasSent
    BY DEF IInv
  <1> QED BY <1>1, Invariance, PTL

(* An unexpired lease is given up by the run that has it, or not at all. *)
THEOREM LeasesNotStolen == Spec => LeaseNotStolen
  <1>1. ASSUME IInv, [Next]_vars, NEW t \in Token, NEW e \in Row,
               row[e].token = t, row[e].lease > 0,
               run'[t].state = run[t].state, run'[t].handler = run[t].handler
        PROVE  row'[e].status = "processing" /\ row'[e].token = t
    <2>1. Moves(e)
      BY <1>1, RowMoves
    <2>2. row[e].status = "processing"
      BY <1>1, RowFields, OutboxTableAssumption DEF IInv, TypeOK, TableTypeOK
    <2>3. CASE Keeps(e)
      BY <1>1, <2>2, <2>3 DEF Keeps
    <2>4. ASSUME NEW u \in Token, Claims(e, u)
          PROVE  FALSE
      <3>1. row[e].lease = 0
        BY <2>2, <2>4 DEF Claims, Due
      <3> QED BY <1>1, <3>1
    <2>5. ASSUME NEW u \in Token, Gives(e, u)
          PROVE  FALSE
      BY <1>1, <2>5 DEF Gives, Holds
    <2> QED BY <2>1, <2>2, <2>3, <2>4, <2>5 DEF Moves, Inserts, Closes, Retires
  <1>2. IInv /\ [Next]_vars =>
          [\A t \in Token, e \in Row :
             /\ row[e].token = t /\ row[e].lease > 0
             /\ run'[t].state = run[t].state /\ run'[t].handler = run[t].handler
             => row'[e].status = "processing" /\ row'[e].token = t]_vars
    BY <1>1
  <1> QED BY <1>2, Invariance, PTL DEF Spec, LeaseNotStolen

(* A completed row stays completed until it is pruned: no late             *)
(* acknowledgement, retry, claim or replay reopens it.                     *)
THEOREM CompletedFinal == Spec => CompletedIsFinal
  <1>1. ASSUME IInv, [Next]_vars, NEW e \in Row, row[e].status = "completed"
        PROVE  row'[e].status \in {"completed", "deleted"}
    <2>1. Moves(e)
      BY <1>1, RowMoves
    <2> QED BY <1>1, <2>1
            DEF Moves, Keeps, Inserts, Closes, Retires, Claims, Gives, Due, Holds
  <1>2. IInv /\ [Next]_vars =>
          [\A e \in Row : row[e].status = "completed" =>
             row'[e].status \in {"completed", "deleted"}]_vars
    BY <1>1
  <1> QED BY <1>2, Invariance, PTL DEF Spec, CompletedIsFinal

=============================================================================
