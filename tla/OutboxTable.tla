---------------------------- MODULE OutboxTable ----------------------------
(***************************************************************************)
(* The table outbox_event and the statements of models/outbox.ts on it.    *)
(* One row is one queued message.  The module has no next-state relation   *)
(* of its own: the modules of the queues that poll the table extend it and *)
(* put its operators into their actions.                                   *)
(*                                                                         *)
(* Instants are kept relative to now: "wait" is available - now and        *)
(* "lease" is leased + leaseDuration - now, both floored at zero, so that  *)
(* available <= now reads wait = 0 and leased <= expiredBefore reads       *)
(* lease = 0.                                                              *)
(***************************************************************************)
EXTENDS Integers

CONSTANTS
    Row,         \* identities of rows
    Key, NoKey,  \* ordering keys, and the null key
    Token, NoToken, \* lease tokens (UUIDs), and the null token
    Inbox, NoInbox, \* remote inboxes, and the null inbox
    Lease,       \* lease duration, in ticks
    MaxWait,     \* longest delay before a retry, in ticks
    MaxSequence  \* bound: how often outbox_event_sequence is advanced

ASSUME OutboxTableAssumption ==
    /\ NoKey \notin Key
    /\ NoToken \notin Token
    /\ NoInbox \notin Inbox
    /\ Lease \in Nat \ {0}
    /\ MaxWait \in Nat
    /\ MaxSequence \in Nat

VARIABLES
    row,         \* the rows of outbox_event, by identity
    sequence     \* the last value drawn from outbox_event_sequence

(* absent: never inserted, or its transaction rolled back; uncommitted:    *)
(* inserted by a transaction still open, visible to nobody else; deleted:  *)
(* pruned.  The other four are the values of the column status.            *)
Status == {"absent", "uncommitted", "pending", "processing", "completed",
           "dead", "deleted"}

(* "group" is the row at the root of the group (group_id): the row itself, *)
(* or the fanout whose handler enqueued it.  "replayed" is a history       *)
(* variable: an operator replayed the row, or the root of its group.       *)
RowRecord ==
    [status : Status, key : Key \cup {NoKey}, group : Row,
     inbox : Inbox \cup {NoInbox}, seq : Nat, pos : Nat, wait : 0..MaxWait,
     lease : 0..Lease, attempts : Nat, token : Token \cup {NoToken},
     payload : BOOLEAN, replayed : BOOLEAN]

AbsentRow(e) ==
    [status |-> "absent", key |-> NoKey, group |-> e, inbox |-> NoInbox,
     seq |-> 0, pos |-> 0, wait |-> 0, lease |-> 0, attempts |-> 0,
     token |-> NoToken, payload |-> FALSE, replayed |-> FALSE]

(* A row has a lease token exactly while it is processing. *)
TypedRow ==
    {r \in RowRecord : /\ r.token # NoToken <=> r.status = "processing"
                       /\ r.lease > 0 => r.status = "processing"}

TableTypeOK ==
    /\ row \in [Row -> TypedRow]
    /\ sequence \in Nat

TableInit ==
    /\ row = [e \in Row |-> AbsentRow(e)]
    /\ sequence = 0

-----------------------------------------------------------------------------
(* What a statement of another transaction can see. *)

Uncommitted(e) == row[e].status = "uncommitted"
Open(e) == row[e].status \in {"pending", "processing"}
Visible(e) == row[e].status \notin {"absent", "uncommitted"}
Leased(e) == row[e].status = "processing" /\ row[e].lease > 0

SameKey(a, b) == row[a].key # NoKey /\ row[a].key = row[b].key

(* The order (sequence, position) < (sequence, position) of the claim. *)
Before(a, b) ==
    \/ row[a].seq < row[b].seq
    \/ row[a].seq = row[b].seq /\ row[a].pos < row[b].pos

\* mutant: the token is not compared
Mutant_HoldsProcessing(e, t) == row[e].status = "processing"
(* The compare-and-set condition of every acknowledgement. *)
Holds(e, t) == row[e].status = "processing" /\ row[e].token = t

-----------------------------------------------------------------------------
(* enqueueOutboxEvents.  The row appears uncommitted; the transaction it   *)
(* belongs to publishes or discards it when it ends.                       *)

(* pg_advisory_xact_lock is held until the transaction ends: nobody else's *)
(* uncommitted row may have the key.  "own" are the rows of the caller's   *)
(* transaction.                                                            *)
Mutant_NoKeyLock(k, own) == TRUE \* mutant: the advisory lock is not taken
KeyLockFree(k, own) ==
    k # NoKey => \A e \in Row \ own : ~(Uncommitted(e) /\ row[e].key = k)

\* mutant: inserted outside the transaction of the caller
Mutant_InsertCommitted(e, k, g, i, s, p, w) ==
    [AbsentRow(e) EXCEPT
        !.status = "pending", !.key = k, !.group = g, !.inbox = i,
        !.seq = s, !.pos = p, !.wait = w, !.payload = TRUE]
InsertedRow(e, k, g, i, s, p, w) ==
    [AbsentRow(e) EXCEPT
        !.status = "uncommitted", !.key = k, !.group = g, !.inbox = i,
        !.seq = s, !.pos = p, !.wait = w, !.payload = TRUE,
        !.replayed = row[g].replayed]

(* A root row draws its own sequence number, after the lock. *)
InsertRoot(e, k, i) ==
    /\ row[e].status = "absent"
    /\ sequence < MaxSequence
    /\ KeyLockFree(k, {})
    /\ sequence' = sequence + 1
    /\ row' = [row EXCEPT ![e] = InsertedRow(e, k, e, i, sequence + 1, 0, 0)]

Published(e) == [row[e] EXCEPT !.status = "pending"]

-----------------------------------------------------------------------------
(* claimOutboxEvent: one statement whose subqueries read the snapshot it   *)
(* began with, and which re-reads only the row it locks.                   *)

(* The conditions on the columns of the row itself. *)
\* mutants: a lease is ignored; an expired lease is not reclaimed
Mutant_DueLeased(e) == row[e].wait = 0 /\ row[e].status \in {"pending", "processing"}
Mutant_DuePending(e) == row[e].wait = 0 /\ row[e].status = "pending"
Due(e) ==
    /\ row[e].wait = 0
    /\ \/ row[e].status = "pending"
       \/ row[e].status = "processing" /\ row[e].lease = 0

(* The two NOT EXISTS subqueries over the rows of the same key. *)
KeyIdle(e) == \A a \in Row \ {e} : SameKey(a, e) => ~Leased(a)
\* mutant: an earlier row that waits for its retry does not block
Mutant_KeyHeadDue(e) ==
    \A a \in Row : SameKey(a, e) /\ Open(a) /\ row[a].wait = 0 => ~Before(a, e)
KeyHead(e) == \A a \in Row : SameKey(a, e) /\ Open(a) => ~Before(a, e)

Claimable(e) == Due(e) /\ (row[e].key # NoKey => KeyIdle(e) /\ KeyHead(e))

ClaimedRow(e, t) ==
    [row[e] EXCEPT !.status = "processing", !.token = t, !.lease = Lease,
                   !.attempts = @ + 1]

-----------------------------------------------------------------------------
(* The updates under a lease, and the operator's replay. *)

CompletedRow(e) ==
    [row[e] EXCEPT !.status = "completed", !.payload = FALSE,
                   !.token = NoToken, !.lease = 0, !.inbox = NoInbox]

Refunded(n) == IF n = 0 THEN 0 ELSE n - 1

RetriedRow(e, w, countAttempt) ==
    [row[e] EXCEPT !.status = "pending", !.payload = TRUE, !.wait = w,
                   !.token = NoToken, !.lease = 0,
                   !.attempts = IF countAttempt THEN @ ELSE Refunded(@)]

ReleasedRow(e) ==
    [row[e] EXCEPT !.status = "pending", !.wait = 0, !.token = NoToken,
                   !.lease = 0, !.attempts = Refunded(@)]

\* mutant: the lease token is kept
Mutant_FailedLeased(e) == [row[e] EXCEPT !.status = "dead"]
FailedRow(e) ==
    [row[e] EXCEPT !.status = "dead", !.token = NoToken, !.lease = 0]

\* mutant: the renewal does not move the instant of the lease
Mutant_RenewedRow(e) == row[e]
RenewedRow(e) == [row[e] EXCEPT !.lease = Lease]

\* mutant: a completed row can be replayed
Mutant_ReplaySettled(e) == row[e].status \in {"completed", "dead"}
Replayable(e) == row[e].status = "dead" /\ row[e].payload

ReplayedRow(e) ==
    [row[e] EXCEPT !.status = "pending", !.wait = 0, !.attempts = 0,
                   !.token = NoToken, !.lease = 0, !.replayed = TRUE]

(* pruneOutboxEvents: the retention periods (one and thirty days) are far  *)
(* longer than anything else here, so that a prunable row may go any time. *)
\* mutant: dead tasks are pruned like other rows
Mutant_PrunableTask(e, isTask) == row[e].status \in {"completed", "dead"}
Prunable(e, isTask) ==
    row[e].status = "completed" \/ (row[e].status = "dead" /\ ~isTask)

PrunedRow(e) == [row[e] EXCEPT !.status = "deleted"]

-----------------------------------------------------------------------------
(* One tick of the clock, for every row at once. *)
Less(n) == IF n = 0 THEN 0 ELSE n - 1

TableTick ==
    row' = [e \in Row |->
                [row[e] EXCEPT !.wait = Less(@), !.lease = Less(@)]]

=============================================================================
