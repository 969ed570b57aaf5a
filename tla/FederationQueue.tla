-------------------------- MODULE FederationQueue --------------------------
(***************************************************************************)
(* The outgoing federation queues: activitypub.fanout and                  *)
(* activitypub.delivery rows of the table, the application transactions    *)
(* that enqueue them, and the workers whose listeners claim and process    *)
(* them (federation/outbox-queue.ts).  A worker runs one listener per      *)
(* queue; each listener processes one claimed row at a time, but a handler *)
(* that the listener gave up waiting for is not cancelled and stays alive. *)
(***************************************************************************)
EXTENDS OutboxTable, FiniteSets

CONSTANTS
    Fanout,        \* the rows that are activitypub.fanout; the others are
                   \* activitypub.delivery
    Recipients,    \* the inboxes the handler of a fanout enqueues for
    InboxKey,      \* the ordering key of a delivery, from that of its send
                   \* and its inbox
    Sends,         \* what the application may enqueue, and from where
    Worker, NoWorker,
    NoRow,
    MaxAttempts,   \* maximumProcessingAttempts
    MaxFaults,     \* bound: crashes, stalls, stops, failed statements and
                   \* circuit deferrals
    MaxMissed,     \* bound: how many of these are renewals that fail
    MayReplay,     \* bound: the rows the operator may replay, once each
    MayPrune,      \* bound: the rows old enough to be pruned
    MayLag         \* bound: the fanouts that an abandoned handler still serves

(* The rows the application inserts; the handlers of fanouts insert others. *)
Enqueued == {s.event : s \in Sends}

(* The key of a delivery is that of its fanout and the origin of its inbox *)
(* (outbox-queue.test.ts:174): deliveries of fanouts with different keys   *)
(* never share one.  A tick is the interval of the heartbeat, and a lease  *)
(* lasts several (three, by default).                                      *)
ASSUME FederationQueueAssumption ==
    /\ Fanout \subseteq Row
    /\ Recipients \subseteq Inbox /\ IsFiniteSet(Recipients)
    /\ InboxKey \in [(Key \cup {NoKey}) \X Inbox -> Key \cup {NoKey}]
    /\ \A i \in Inbox : InboxKey[<<NoKey, i>>] = NoKey
    /\ \A s, u \in Sends, i, j \in Recipients :
         /\ s.event \in Fanout /\ u.event \in Fanout
         /\ InboxKey[<<s.key, i>>] = InboxKey[<<u.key, j>>]
         /\ InboxKey[<<s.key, i>>] # NoKey
         => s.key = u.key
    /\ \A s \in Sends : /\ s.event \in Row
                        /\ s.key \in Key \cup {NoKey}
                        /\ s.inbox \in Inbox \cup {NoInbox}
    /\ NoWorker \notin Worker
    /\ NoRow \notin Row
    /\ Lease > 1
    /\ MaxAttempts \in Nat \ {0}
    /\ MaxFaults \in Nat
    /\ MaxMissed \in Nat

VARIABLES
    run,      \* what each lease token's claim has come to, in its worker
    mode,     \* whether each worker is up, stalled or stopping
    faults,   \* how many disruptions there have been
    missed,   \* how many renewals of a lease have failed
    late,     \* history: the deliveries enqueued after their handler's
              \* transaction had been rolled back
    sent,     \* history: the deliveries a remote inbox has accepted
    article   \* article_delivery_event.status of each delivery

vars == <<row, sequence, run, mode, faults, missed, late, sent, article>>

Delivery == Row \ Fanout

(* free: the token is unused; chosen: the claim statement has picked its   *)
(* candidate from its snapshot; open: the listener awaits the handler;     *)
(* settling: the outcome is known and the acknowledgement is still to be   *)
(* executed; zombie: the listener has moved on, the handler has not ended. *)
(* "due": a heartbeat's timer has fired, and its statement has not run.    *)
RunState == {"free", "chosen", "open", "settling", "zombie"}
Outcome == {"none", "success", "permanent", "failed"}

RunRecord ==
    [state : RunState, event : Row \cup {NoRow}, worker : Worker \cup {NoWorker},
     outcome : Outcome, handler : BOOLEAN, children : SUBSET Row,
     nextPosition : Nat, due : BOOLEAN]

FreeRun ==
    [state |-> "free", event |-> NoRow, worker |-> NoWorker,
     outcome |-> "none", handler |-> FALSE, children |-> {},
     nextPosition |-> 0, due |-> FALSE]

ArticleStatus == {"none", "pending", "accepted", "failed"}

TypeOK ==
    /\ TableTypeOK
    /\ run \in [Token -> RunRecord]
    /\ mode \in [Worker -> {"up", "stalled", "stopping"}]
    /\ faults \in Nat
    /\ missed \in Nat
    /\ late \subseteq Delivery
    /\ sent \subseteq Row
    /\ article \in [Row -> ArticleStatus]

Init ==
    /\ TableInit
    /\ run = [t \in Token |-> FreeRun]
    /\ mode = [w \in Worker |-> "up"]
    /\ faults = 0
    /\ missed = 0
    /\ late = {}
    /\ sent = {}
    /\ article = [e \in Row |-> "none"]

(* Whatever goes wrong is counted, and bounded. *)
Spared == faults + missed < MaxFaults
Fault == Spared /\ faults' = faults + 1

-----------------------------------------------------------------------------
(* The application: a transaction that changes state and enqueues a row.   *)

AppEnqueue(s) ==
    /\ InsertRoot(s.event, s.key, s.inbox)
    /\ UNCHANGED <<run, mode, faults, missed, late, sent, article>>

(* recordArticleDeliveries writes the delivery's status with the row. *)
Recorded(S) == [e \in Row |-> IF e \in S \cap Delivery THEN "pending"
                              ELSE article[e]]

AppCommit(e) ==
    /\ Uncommitted(e) /\ row[e].group = e
    /\ row' = [row EXCEPT ![e] = Published(e)]
    /\ article' = Recorded({e})
    /\ UNCHANGED <<sequence, run, mode, faults, missed, late, sent>>

AppRollback(e) ==
    /\ Uncommitted(e) /\ row[e].group = e
    /\ row' = [row EXCEPT ![e] = AbsentRow(e)]
    /\ UNCHANGED <<sequence, run, mode, faults, missed, late, sent, article>>

-----------------------------------------------------------------------------
(* Claiming. *)

SameQueue(a, b) == (a \in Fanout) = (b \in Fanout)

(* The listener of a queue processes one event at a time. *)
Busy(t) == run[t].state \in {"chosen", "open", "settling"}
ListenerIdle(w, e) ==
    \A t \in Token : ~(Busy(t) /\ run[t].worker = w /\ SameQueue(run[t].event, e))

Fresh(t) == run[t].state = "free" /\ \A e \in Row : row[e].token # t

(* The candidate is the first one; SKIP LOCKED passes over the rows that   *)
(* claims still under way are about to lock.                               *)
Locked(e) == \E t \in Token : run[t].state = "chosen" /\ run[t].event = e
First(e) ==
    \A a \in Row :
        SameQueue(a, e) /\ Claimable(a) /\ Before(a, e) => Locked(a)

(* The snapshot of the claim statement, and the candidate it yields. *)
Select(w, t, e) ==
    /\ mode[w] = "up"
    /\ Fresh(t)
    /\ ListenerIdle(w, e)
    /\ Claimable(e) /\ First(e)
    /\ run' = [run EXCEPT ![t] = [FreeRun EXCEPT !.state = "chosen",
                                                 !.event = e, !.worker = w]]
    /\ UNCHANGED <<row, sequence, mode, faults, missed, late, sent, article>>

(* FOR UPDATE SKIP LOCKED and the update: the row is locked and re-read,   *)
(* the rows of the same key are not.  The handler is not started when the  *)
(* listener was stopped meanwhile.                                         *)
Take(t) ==
    /\ run[t].state = "chosen"
    /\ LET e == run[t].event IN
         IF Due(e)
         THEN /\ row' = [row EXCEPT ![e] = ClaimedRow(e, t)]
              /\ run' = [run EXCEPT
                           ![t].state = "open",
                           ![t].handler = mode[run[t].worker] # "stopping"]
         ELSE /\ run' = [run EXCEPT ![t] = FreeRun]
              /\ UNCHANGED row
    /\ UNCHANGED <<sequence, mode, faults, missed, late, sent, article>>

-----------------------------------------------------------------------------
(* The handler, and the ways the listener's wait for it ends.              *)

Awake(t) == mode[run[t].worker] # "stalled"
Waiting(t) == run[t].state = "open" /\ Awake(t)
Handling(t) == Waiting(t) /\ run[t].handler
Event(t) == run[t].event

(* The handler of a fanout enqueues one delivery in the fanout's           *)
(* transaction, with the sequence number of the fanout and the next        *)
(* position.                                                               *)
FanoutEnqueue(t, d, i) ==
    LET e == Event(t)
        own == run[t].children
        k == InboxKey[<<row[e].key, i>>]
    IN /\ Handling(t) /\ e \in Fanout
       /\ d \in Delivery \ Enqueued /\ row[d].status = "absent"
       /\ \A c \in own : row[c].inbox # i
       /\ KeyLockFree(k, own)
       /\ row' = [row EXCEPT ![d] =
                    InsertedRow(d, k, e, i, row[e].seq, run[t].nextPosition, 0)]
       /\ run' = [run EXCEPT ![t].children = @ \cup {d},
                             ![t].nextPosition = @ + 1]
       /\ UNCHANGED <<sequence, mode, faults, missed, late, sent, article>>

(* The handler of a fanout that the listener gave up waiting for enqueues  *)
(* the deliveries it has left, each recipient once.  The transaction it    *)
(* holds was rolled back, so that every statement of enqueueOutboxEvents   *)
(* commits by itself: the lock of the key is released as soon as it is     *)
(* taken, the row is visible at once, and the record for the article       *)
(* follows it.                                                             *)
Abandoned(t) ==
    run[t].state \in {"settling", "zombie"} /\ run[t].handler /\ Awake(t)

LateRow(e, k, g, i, s, p) ==
    [InsertedRow(e, k, g, i, s, p, 0) EXCEPT !.status = "pending"]

LateEnqueue(t, d, i) ==
    LET e == Event(t)
    IN /\ Abandoned(t) /\ e \in Fanout \cap MayLag
       /\ run[t].nextPosition < Cardinality(Recipients)
       /\ d \in Delivery \ Enqueued /\ row[d].status = "absent"
       /\ row' = [row EXCEPT ![d] =
                    LateRow(d, InboxKey[<<row[e].key, i>>], e, i, row[e].seq,
                            run[t].nextPosition)]
       /\ run' = [run EXCEPT ![t].nextPosition = @ + 1]
       /\ late' = late \cup {d}
       /\ UNCHANGED <<sequence, mode, faults, missed, sent, article>>

LateRecord(t, d) ==
    /\ Abandoned(t) /\ d \in late /\ row[d].group = Event(t)
    /\ article[d] = "none"
    /\ article' = [article EXCEPT ![d] = "pending"]
    /\ UNCHANGED <<row, sequence, run, mode, faults, missed, late, sent>>

(* Ending the transaction of a fanout without committing it. *)
WithoutChildren(T) ==
    [e \in Row |-> IF \E t \in T : e \in run[t].children
                   THEN AbsentRow(e) ELSE row[e]]

Outcomes(t, o, alive) ==
    run' = [run EXCEPT ![t].state = "settling", ![t].outcome = o,
                       ![t].handler = alive,
                       ![t].children = IF o = "success" THEN @ ELSE {}]

(* The handler returns; the remote inbox of a delivery has accepted it. *)
Success(t) ==
    /\ Handling(t)
    /\ Event(t) \in Fanout =>
         \A i \in Recipients : \E c \in run[t].children : row[c].inbox = i
    /\ Outcomes(t, "success", FALSE)
    /\ sent' = sent \cup ({Event(t)} \cap Delivery)
    /\ UNCHANGED <<row, sequence, mode, faults, missed, late, article>>

\* mutant: a recorded delivery error does not fail the row
Mutant_ErrorIgnored(t) ==
    /\ Waiting(t) /\ run[t].children = {}
    /\ Outcomes(t, "success", FALSE)
    /\ UNCHANGED <<row, sequence, mode, faults, missed, late, sent, article>>

(* The payload is invalid, or Fedify reported an error it will not retry. *)
Permanent(t) ==
    /\ Waiting(t) /\ run[t].children = {}
    /\ Outcomes(t, "permanent", FALSE)
    /\ UNCHANGED <<row, sequence, mode, faults, missed, late, sent, article>>

Throw(t) ==
    /\ Handling(t)
    /\ Outcomes(t, "failed", FALSE)
    /\ row' = WithoutChildren({t})
    /\ UNCHANGED <<sequence, mode, faults, missed, late, sent, article>>

(* runHandlerBounded stops waiting and the handler itself goes on; or one  *)
(* enqueue of a fanout failed, and its others go on.                       *)
Timeout(t) ==
    /\ Handling(t)
    /\ Outcomes(t, "failed", TRUE)
    /\ row' = WithoutChildren({t})
    /\ UNCHANGED <<sequence, mode, faults, missed, late, sent, article>>

Abort(t) ==
    /\ Waiting(t) /\ mode[run[t].worker] = "stopping"
    /\ Outcomes(t, "failed", run[t].handler)
    /\ row' = WithoutChildren({t})
    /\ UNCHANGED <<sequence, mode, faults, missed, late, sent, article>>

\* mutant: one attempt too many
Mutant_Exhausted(e) == row[e].attempts > MaxAttempts
Exhausted(e) == row[e].attempts >= MaxAttempts

Ends(t) == run' = [run EXCEPT ![t] = FreeRun]

(* The listener moves on, whether or not the handler does. *)
MovesOn(t) ==
    IF run[t].handler
    THEN run' = [run EXCEPT ![t].state = "zombie", ![t].due = FALSE]
    ELSE Ends(t)

\* mutant: a replay leaves the article's statistics alone
Mutant_Article(e, s) ==
    IF article[e] # "none" /\ s # "pending"
    THEN [article EXCEPT ![e] = s] ELSE article
(* updateArticleDeliveryStatus updates what recordArticleDeliveries wrote. *)
Article(e, s) ==
    IF article[e] # "none" THEN [article EXCEPT ![e] = s] ELSE article

(* Fedify enqueues the message it is processing again: after a send that   *)
(* failed, or, without counting the attempt, while the circuit of the      *)
(* remote host is open.  A lost lease makes the enqueue throw.  So does an *)
(* abandoned handler, and if the listener failed to reject the row (see    *)
(* RejectFails), the row is still held.                                    *)
Requeue(t, w, circuitHeld) ==
    /\ Event(t) \in Delivery /\ Awake(t)
    /\ run[t].state \in {"open", "settling", "zombie"} /\ run[t].handler
    /\ circuitHeld => Spared
    /\ faults' = IF circuitHeld THEN faults + 1 ELSE faults
    /\ LET e == Event(t) IN
         IF Holds(e, t)
         THEN /\ IF ~circuitHeld /\ Exhausted(e)
                 THEN /\ row' = [row EXCEPT ![e] = FailedRow(e)]
                      /\ article' = Article(e, "failed")
                 ELSE /\ row' = [row EXCEPT ![e] = RetriedRow(e, w, ~circuitHeld)]
                      /\ UNCHANGED article
         ELSE UNCHANGED <<row, article>>
    /\ CASE run[t].state = "settling" -> run' = [run EXCEPT ![t].handler = FALSE]
         [] run[t].state = "zombie" -> Ends(t)
         [] OTHER -> IF Holds(Event(t), t) THEN Ends(t)
                     ELSE Outcomes(t, "failed", FALSE)
    /\ UNCHANGED <<sequence, mode, missed, late, sent>>

-----------------------------------------------------------------------------
(* The acknowledgement. *)

(* Complete a row; the deliveries of a fanout commit with it, or, when the *)
(* lease was lost, are rolled back.                                        *)
Acknowledge(t) ==
    LET e == Event(t)
        own == run[t].children
    IN /\ run[t].state = "settling" /\ run[t].outcome = "success" /\ Awake(t)
       /\ IF Holds(e, t)
          THEN /\ row' = [a \in Row |-> IF a = e THEN CompletedRow(a)
                                        ELSE IF a \in own THEN Published(a)
                                        ELSE row[a]]
               /\ article' = IF e \in Delivery THEN Article(e, "accepted")
                             ELSE Recorded(own)
          ELSE /\ row' = WithoutChildren({t})
               /\ UNCHANGED article
       /\ Ends(t)
       /\ UNCHANGED <<sequence, mode, faults, missed, late, sent>>

(* completeOutboxEvent or the commit of the fanout throws, which is a      *)
(* failure like another.                                                   *)
AcknowledgeFails(t) ==
    /\ run[t].state = "settling" /\ run[t].outcome = "success" /\ Awake(t)
    /\ Holds(Event(t), t) /\ Fault
    /\ Outcomes(t, "failed", FALSE)
    /\ row' = WithoutChildren({t})
    /\ UNCHANGED <<sequence, mode, missed, late, sent, article>>

(* Retry with a positive delay, or give up. *)
Reject(t, w) ==
    LET e == Event(t) IN
       /\ run[t].state = "settling" /\ run[t].outcome # "success" /\ Awake(t)
       /\ IF ~Holds(e, t)
          THEN UNCHANGED <<row, article>>
          ELSE IF run[t].outcome = "permanent" \/ Exhausted(e)
               THEN /\ row' = [row EXCEPT ![e] = FailedRow(e)]
                    /\ article' = Article(e, "failed")
               ELSE /\ row' = [row EXCEPT ![e] = RetriedRow(e, w, TRUE)]
                    /\ UNCHANGED article
       /\ MovesOn(t)
       /\ UNCHANGED <<sequence, mode, faults, missed, late, sent>>

(* failOutboxEvent or retryOutboxEvent throws: the listener logs the error *)
(* and polls on, and the row is left under a lease that nobody renews.     *)
RejectFails(t) ==
    /\ run[t].state = "settling" /\ run[t].outcome # "success" /\ Awake(t)
    /\ Fault
    /\ MovesOn(t)
    /\ UNCHANGED <<row, sequence, mode, missed, late, sent, article>>

HandlerEnds(t) ==
    /\ run[t].state = "zombie" /\ Awake(t)
    /\ Ends(t)
    /\ UNCHANGED <<row, sequence, mode, faults, missed, late, sent, article>>

(* The heartbeat runs until the acknowledgement has been executed, well or *)
(* badly.                                                                  *)
Heartbeat(t) == run[t].state \in {"open", "settling"} /\ Holds(Event(t), t)
Heartbeats(t) == Heartbeat(t) /\ Awake(t) /\ run[t].due

Renew(t) ==
    /\ Heartbeats(t)
    /\ row' = [row EXCEPT ![Event(t)] = RenewedRow(Event(t))]
    /\ run' = [run EXCEPT ![t].due = FALSE]
    /\ UNCHANGED <<sequence, mode, faults, missed, late, sent, article>>

(* renewOutboxLease throws: the error is logged, and the next renewal is   *)
(* an interval away.                                                       *)
RenewFails(t) ==
    /\ Heartbeats(t)
    /\ run' = [run EXCEPT ![t].due = FALSE]
    /\ Spared /\ missed < MaxMissed
    /\ missed' = missed + 1
    /\ UNCHANGED <<row, sequence, mode, faults, late, sent, article>>

-----------------------------------------------------------------------------
(* The environment. *)

(* One tick is one interval of the heartbeat: the timer of every run fires *)
(* that has one, and a worker that is not stalled executes its statement,  *)
(* well or badly, before the next.  A claim and an acknowledgement take    *)
(* less than a tick: a longer one is a stall.                              *)
Tick ==
    /\ \/ \E e \in Row : row[e].wait > 0 \/ row[e].lease > 0
       \/ \E t \in Token : Heartbeat(t)
    /\ \A t \in Token :
         /\ run[t].state # "chosen" /\ ~Heartbeats(t)
         /\ run[t].state = "settling" => ~Awake(t)
    /\ TableTick
    /\ run' = [t \in Token |-> [run[t] EXCEPT !.due = Heartbeat(t)]]
    /\ UNCHANGED <<sequence, mode, faults, missed, late, sent, article>>

Of(w) == {t \in Token : run[t].state # "free" /\ run[t].worker = w}

Gone(w) ==
    /\ row' = WithoutChildren(Of(w))
    /\ run' = [t \in Token |-> IF t \in Of(w) THEN FreeRun ELSE run[t]]
    /\ mode' = [mode EXCEPT ![w] = "up"]
    /\ UNCHANGED <<sequence, missed, late, sent, article>>

(* The process dies, and is started again. *)
Crash(w) == Fault /\ Gone(w)

(* The process, or its connection, pauses; then goes on where it was. *)
Stall(w) ==
    /\ mode[w] = "up" /\ Fault
    /\ mode' = [mode EXCEPT ![w] = "stalled"]
    /\ UNCHANGED <<row, sequence, run, missed, late, sent, article>>

Wake(w) ==
    /\ mode[w] = "stalled"
    /\ mode' = [mode EXCEPT ![w] = "up"]
    /\ UNCHANGED <<row, sequence, run, faults, missed, late, sent, article>>

(* Graceful shutdown: the listeners' signal is aborted, the process exits  *)
(* once both have returned, and is started again.                          *)
Stop(w) ==
    /\ mode[w] = "up" /\ Fault
    /\ mode' = [mode EXCEPT ![w] = "stopping"]
    /\ UNCHANGED <<row, sequence, run, missed, late, sent, article>>

Exit(w) ==
    /\ mode[w] = "stopping" /\ \A t \in Of(w) : ~Busy(t)
    /\ Gone(w)
    /\ UNCHANGED faults

(* The operator replays a dead row. *)
Replay(e) ==
    /\ e \in MayReplay /\ Replayable(e) /\ ~row[e].replayed
    /\ row' = [row EXCEPT ![e] = ReplayedRow(e)]
    /\ article' = Article(e, "pending")
    /\ UNCHANGED <<sequence, run, mode, faults, missed, late, sent>>

(* The daily prune-outbox-events job. *)
Prune(e) ==
    /\ e \in MayPrune /\ Prunable(e, FALSE)
    /\ row' = [row EXCEPT ![e] = PrunedRow(e)]
    /\ UNCHANGED <<sequence, run, mode, faults, missed, late, sent, article>>

-----------------------------------------------------------------------------
Application == \/ \E s \in Sends : AppEnqueue(s)
               \/ \E e \in Row : AppCommit(e) \/ AppRollback(e)

Claim == \/ \E w \in Worker, t \in Token, e \in Row : Select(w, t, e)
         \/ \E t \in Token : Take(t)

Handler(t) ==
    \/ \E d \in Row, i \in Recipients : FanoutEnqueue(t, d, i) \/ LateEnqueue(t, d, i)
    \/ \E d \in Row : LateRecord(t, d)
    \/ Success(t) \/ Permanent(t) \/ Throw(t) \/ Timeout(t) \/ Abort(t)
    \/ \E w \in 0..MaxWait, held \in BOOLEAN : Requeue(t, w, held)
    \/ HandlerEnds(t)

Settle(t) == Acknowledge(t) \/ \E w \in 1..MaxWait : Reject(t, w)
SettleFails(t) == AcknowledgeFails(t) \/ RejectFails(t)

Beat(t) == Renew(t) \/ RenewFails(t)

Environment ==
    \/ Tick
    \/ \E w \in Worker : Crash(w) \/ Stall(w) \/ Wake(w) \/ Stop(w) \/ Exit(w)
    \/ \E e \in Row : Replay(e) \/ Prune(e)

Next ==
    \/ Application
    \/ Claim
    \/ \E t \in Token : Handler(t) \/ Settle(t) \/ SettleFails(t) \/ Beat(t)
    \/ Environment

Spec == Init /\ [][Next]_vars

-----------------------------------------------------------------------------
(* Properties. *)

Settled(e) == row[e].status \in {"completed", "dead", "deleted"}
SameRoute(a, b) == (row[a].group = a) = (row[b].group = b)

(* Deliveries that an abandoned handler enqueued late come after anything: *)
(* others may have overtaken them.  Among those of their own fanout they   *)
(* have no order, but they overtake no earlier activity either.            *)
Ordered(a, b) ==
    /\ SameKey(a, b) /\ SameRoute(a, b) /\ Before(a, b)
    /\ a \notin late /\ (b \in late => row[a].group # row[b].group)

(* Of two rows with the same ordering key that came by the same route, the *)
(* later one is processed only after the earlier one was settled, whatever *)
(* crashes, stalls and races happen; only an operator's replay reopens an  *)
(* earlier row.  It rests on the advisory lock around nextval, on the two  *)
(* subqueries of the claim and on the fanout's transaction.                *)
KeyOrder ==
    \A a, b \in Row :
        /\ Ordered(a, b)
        /\ Visible(a) /\ ~row[a].replayed
        /\ row[b].status = "processing"
        => Settled(a)

(* A row becomes visible only while no later row of its key and route is:  *)
(* commit order is sequence order.                                         *)
CommitOrder ==
    [][\A a, b \in Row :
          Visible(b) /\ ~Visible(a) /\ Visible(a)' /\ ~row'[a].replayed
          => ~Ordered(a, b)']_vars

(* The deliveries of a fanout become visible exactly when it is completed, *)
(* once each: neither a retry, nor a stale worker that finishes its        *)
(* handler after another has claimed the row, nor an acknowledgement that  *)
(* fails, duplicates or loses one.  Only a handler that outlives the wait  *)
(* of its listener can add to them, and what it adds is in "late".         *)
FanoutOnce ==
    \A f \in Fanout :
        Cardinality({d \in Delivery \ late : Visible(d) /\ row[d].group = f}) =
            IF row[f].status \in {"completed", "deleted"} /\ ~row[f].payload
            THEN Cardinality(Recipients) ELSE 0

(* At least once: a delivery is acknowledged only after a remote inbox     *)
(* accepted it.                                                            *)
CompletedWasSent ==
    \A e \in Delivery : row[e].status = "completed" => e \in sent

(* A row is claimed at most maximumProcessingAttempts times, and once more *)
(* for each disruption that cost a worker its lease: a crash, a stall, a   *)
(* renewal or an acknowledgement that failed.                              *)
AttemptBudget == \A e \in Row : row[e].attempts <= MaxAttempts + faults + missed

(* As long as no worker is disrupted, the heartbeat keeps the lease of the *)
(* row whose handler the listener is waiting for, and one renewal less     *)
(* than fit into a lease may fail.                                         *)
HeartbeatProtects ==
    faults = 0 /\ missed < Lease - 1 => \A t \in Token :
        run[t].state = "open" => Holds(Event(t), t) /\ Leased(Event(t))

(* The delivery statistics of an article agree with the queue, and outlive *)
(* the row; only those of a late delivery, recorded by a statement of      *)
(* their own, may miss what has become of it.                              *)
ArticleAgrees ==
    \A e \in Delivery \ late :
        article[e] \in CASE row[e].status \in {"absent", "uncommitted"} -> {"none"}
                         [] Open(e) -> {"pending"}
                         [] row[e].status = "completed" -> {"accepted"}
                         [] row[e].status = "dead" -> {"failed"}
                         [] row[e].status = "deleted" -> {"accepted", "failed"}

(* Fencing: an unexpired lease is lost only by a step of the run that has  *)
(* it, never by a stale worker's acknowledgement or another's claim.       *)
LeaseNotStolen ==
    [][\A t \in Token, e \in Row :
          /\ row[e].token = t /\ row[e].lease > 0
          /\ run'[t].state = run[t].state /\ run'[t].handler = run[t].handler
          => row'[e].status = "processing" /\ row'[e].token = t]_vars

(* A completed row is never opened again: a late acknowledgement of a      *)
(* worker that lost its lease, or a replay, finds nothing to change.       *)
CompletedIsFinal ==
    [][\A e \in Row : row[e].status = "completed" =>
          row'[e].status \in {"completed", "deleted"}]_vars

(* Fairness: what an application, a worker process and the clock do        *)
(* sooner or later of themselves.  Nothing is assumed of the remote        *)
(* inboxes but that an abandoned handler ends, nor of the order in which   *)
(* workers poll.                                                           *)
HandlerOutcome(t) == Success(t) \/ Permanent(t) \/ Throw(t) \/ Timeout(t) \/ Abort(t)

Fairness ==
    /\ \A e \in Row : WF_vars(AppCommit(e) \/ AppRollback(e))
    /\ \A w \in Worker :
         /\ WF_vars(Wake(w))
         /\ WF_vars(Exit(w))
         /\ WF_vars(\E t \in Token, e \in Fanout : Select(w, t, e))
         /\ WF_vars(\E t \in Token, e \in Delivery : Select(w, t, e))
    /\ \A t \in Token :
         /\ WF_vars(Take(t))
         /\ WF_vars(HandlerOutcome(t))
         /\ WF_vars(Settle(t))
         /\ WF_vars(Beat(t))
         /\ WF_vars(HandlerEnds(t))
    /\ WF_vars(Tick)

FairSpec == Spec /\ Fairness

(* Every committed row is settled in the end: leases of dead workers       *)
(* expire, attempts run out, and no key is blocked for ever.               *)
EverySettles == \A e \in Row : row[e].status = "pending" ~> Settled(e)

-----------------------------------------------------------------------------
(* The abstract queue: the rows the application enqueues, whose uncommitted *)
(* rows nobody can see.                                                     *)
Promise == INSTANCE MessageQueue WITH
    Message <- Enqueued,
    state <- [e \in Enqueued |->
                CASE ~Visible(e) -> "absent"
                  [] row[e].status = "pending" -> "waiting"
                  [] row[e].status = "processing" -> "held"
                  [] OTHER -> "settled"],
    ahead <- [e \in Enqueued |->
                {a \in Enqueued : Visible(a) /\ Visible(e) /\ SameKey(a, e)
                                 /\ Before(a, e)}],
    key <- [e \in Enqueued |-> IF Visible(e) THEN row[e].key ELSE NoKey],
    reopened <- {e \in Enqueued : row[e].replayed}

(* Whatever workers crash, stall, time out, lose a lease or claim in a      *)
(* race, the queue hands the messages of one ordering key out in the      *)
(* order in which the transactions that enqueued them committed, and        *)
(* settles only what it handed out.                                         *)
KeepsPromise == Promise!Spec

-----------------------------------------------------------------------------
(* What the documentation says of the program, and the code does not keep. *)

(* FEDERATION.md: the constraints "prevent a later per-object event from   *)
(* overtaking ... an older event".  Rows of one ordering key are processed *)
(* in the order of their sequence numbers, whatever their route.           *)
NoOvertaking ==
    \A a, b \in Row :
        /\ SameKey(a, b) /\ Before(a, b) /\ Visible(a)
        /\ ~row[a].replayed /\ row[b].status = "processing"
        => Settled(a)

=============================================================================
