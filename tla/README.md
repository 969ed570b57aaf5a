# Verification of Hackers' Pub

TLA+ models of the durable background work of Hackers' Pub, a federated (ActivityPub) publishing
platform written in TypeScript on PostgreSQL and Fedify. This directory holds the modules, the TLC
configurations that model-check them on small instances, and proofs checked by TLAPS. `PROJECT.json`
maps every definition to the lines of the repository it stands for.

Run from this directory:

    tlc -workers 2 -config FederationDirect.cfg MCFederationQueue    # any run of the table below
    tlapm FederationQueueProofs.tla

## 1. The system

Several API processes (`graphql/server.ts`) change the database in transactions; several worker
processes (`graphql/worker.ts`) do what is left for later. They share nothing but PostgreSQL. A worker
runs Fedify's queue listeners and a cron scheduler. It may be stopped gracefully (SIGTERM), killed, or
paused, and its database connection may fail, at any point between two statements.

| component | state | operations | interacts with | what makes it correct |
|---|---|---|---|---|
| transactional outbox table (`models/outbox.ts`) | `outbox_event`, `outbox_event_sequence` | enqueue, claim, complete, retry, release, fail, renew, replay, prune | the three queues that poll it, every transaction that sends | commit order is sequence order per key; a lease excludes others; stale acknowledgements change nothing |
| federation queues (`federation/outbox-queue.ts`) | rows of `activitypub.fanout` and `activitypub.delivery`, the listener's current event and handler | enqueue, fan out, send, requeue, settle, heartbeat, stop | outbox table, Fedify's handlers, remote inboxes, article statistics | order per object, at least once, the deliveries of a fanout all or none, every row settled |
| application tasks (`#processTask`, `federation/tasks.ts`) | rows of `application.task`, the execution's abort signal | enqueue, claim, heartbeat, deadline, drain, settle, release, replay | outbox table, the handlers in `models/` and `graphql/` | handlers of one key do not overlap, bounded executions, no task lost by a shutdown |
| article delivery analytics (`models/article-analytics.ts`) | `article_delivery_event` | record, update | same transactions as the outbox row | agrees with the row and outlives it |
| news rescore queue (`models/news.ts`) | `news_rescore_queue`, `news_preferred_sharer`, `post_link.promotion_bonus` | curate, claim, recompute a chunk, refresh lease, delete or reopen | every worker's cron, moderation, the sweep | one drain per actor, no curation change forgotten, no stale score |
| articles and their translations (`models/article.ts`, `article-*.ts`) | `article_content`, revisions, drafts, notifications, public variants | edit, request, begin and finish a translation, draft, publish, acknowledge, withdraw | task queue, AI services, federation, organizations | readers and peers see the present versions; freshness is honest; people's texts are kept; no placeholder is left without a task |
| scheduler, dispatch, runtime (`graphql/worker-*.ts`) | watermark per job, active jobs, abort controller | tick, dispatch, drain, stop | task queue, inbox queue | one task per tick; resources stay open until everything drained |
| inbox at shutdown (`runtime/shutdown-requeue-message-queue.ts`) | active handlers, requeue in progress | handle, requeue, retry | Fedify's PostgreSQL queue | no message lost; shutdown ends only when each is durable |
| notification digests (`graphql/notification-digest.ts`) | advisory guard, deliveries by period and recipient | guard, claim, send, save progress, mark | task queue, mail | a mail too many has a crash or a lost lock behind it; what is recorded as sent was sent |
| organizations (`models/organization.ts`) | kind of account, memberships, conversion requests | create, invite, accept, promote, remove, leave, convert | GraphQL requests, notifications, article access | a person administers each organization |
| legacy migration (`models/outbox.ts:68`) | `fedify_message_v2` | move pending messages once | outbox table | keeps the order of each key |
| polls, moderation | rows with locks | vote, close, notify; sanction | notifications, federation | closed once; sanctions are consistent |
| after-commit tasks (`models/tx.ts`) | list per transaction | queue, run | everything best effort | run only after the commit |
| the rest: following, posts, reactions, timelines, accounts, sign-in, media, GraphQL, AI, web clients | rows | requests | | request and response over single rows; not modelled |

Hard behaviours, and what they need: expired leases with live workers, races of claims in overlapping
snapshots, sequence numbers drawn before the commit, crashes between a send and its acknowledgement,
handlers that outlive the listener's patience, shutdown in the middle of anything, statements that
compute from an old snapshot and write late, answers of a language model to a question that has changed,
requests that trust what they read when they began. `PROJECT.json` lists each at its line under
`hazards`, with the properties that watch it.

## 2. The modules

    MessageQueue            abstract: what a queue promises to those who enqueue
    OutboxTable             the table and its statements, as operators; no behaviour of its own
      FederationQueue       EXTENDS it: producers, fanout and delivery listeners, environment
        MCFederationQueue   instances for TLC
        FederationQueueProofs   types, ownership of leases and children, at least once
        FederationOrderProofs   EXTENDS it: order, fanouts, statistics, attempts, the refinement
      TaskQueue             EXTENDS it: producers, application.task listeners, environment
        MCTaskQueue
        TaskQueueProofs
      OutboxTableLemmas     what each statement does to a row and to the order of rows (used by
                            the proofs of both queues)
    NewsRescore             the news rescore queue, its drains, curation, other recomputations
      MCNewsRescore
      NewsRescoreProofs
    ArticleTranslations     an article, its revisions, translations, tasks, drafts and notices
      MCArticleTranslations
      ArticleTranslationsProofs
    WorkerShutdown          one worker process: inbox listener, scheduler, runtime, main
      MCWorkerShutdown
      WorkerShutdownProofs
    DigestMails             ticks and dispatch on all replicas, and the digest tasks they enqueue
      MCDigestMails
      DigestMailsProofs
    Organization            organization accounts, memberships, conversions
      MCOrganization

### MessageQueue, and its refinement

Messages are absent, waiting, held or settled. A message may be handed out only when every message
committed ahead of it under its key is settled, or was replayed by an operator; `ahead` is fixed by the
order of the commits. `KeepsPromise` in `FederationQueue` and in `TaskQueue` is the refinement
(`INSTANCE MessageQueue WITH ...`): an uncommitted row is absent, a pending one waiting, a row under
processing held, whatever has become of its lease, and `ahead` is read from keys and sequence numbers. So
the mapping proves that leases, tokens, two-step claims, expired workers and numbers drawn before the
commit never show. `ahead` is where the advisory lock earns its place: without it a row could commit with
a smaller number than one already handed out, and `ahead` of the latter would change. The promise covers
the rows the application enqueues; the children of fanouts are `FanoutOnce` and `KeyOrder`.

### OutboxTable

`row` maps the identity of a row to its columns; a row that is not there is `absent`, and one whose
transaction has not ended is `uncommitted`: other transactions do not see it, but it holds the advisory
lock of its key (`KeyLockFree`). Columns that no statement tests (names, error texts, time stamps for
operators) are dropped. Instants are relative: `wait` is `available - now` and `lease` is
`leased + leaseDuration - now`, floored at zero, and `TableTick` moves the clock. `group` stands for
`group_id`, and the history column `replayed` marks rows an operator has put back.

A claim is one SQL statement, but not one step. `Select` is its snapshot, in which the two `NOT EXISTS`
subqueries over the ordering key are evaluated; `Take` locks the row, re-reads that row alone
(`FOR UPDATE SKIP LOCKED` under READ COMMITTED) and updates it. Everything may happen between the two.
A claim whose candidate is no longer due finds nothing and polls again; a later candidate of the same
snapshot is one that another `Select` chooses, as it may pass over rows that claims under way are about
to lock.

### FederationQueue

One token stands for one claim and the processing that follows it: `run[t]` is the `ProcessingContext`
(event, deliveries enqueued so far, next position) with the state of the listener and of the handler.
A worker runs one listener per queue (`ListenerIdle`). The handler of a fanout enqueues its deliveries
one at a time in an open transaction (`FanoutEnqueue`), which `Acknowledge` commits together with the
completion and anything else rolls back. `runHandlerBounded` is a race: `Timeout` and `Abort` end the
listener's wait and leave the handler alive (a `zombie` once the listener has moved on). `Requeue` is
Fedify enqueueing the message it was given, after a failed send or with an open circuit; it acts on the
row under its lease, and may come from a handler the listener no longer waits for.

Each acknowledgement may fail. When `completeOutboxEvent` or the commit of a fanout throws, the failure is
handled like one of the handler (`AcknowledgeFails`); when `failOutboxEvent` or `retryOutboxEvent` throws,
`#listen` logs it and polls on (`RejectFails`): the row stays under its token with no heartbeat, and a
handler that timed out still holds it, and may still requeue it, until the lease runs out.

The heartbeat is a timer and a statement. `Tick` fires the timers (`due`), `Renew` and `RenewFails` are
the two ends of the statement; it runs until the acknowledgement has been executed, well or badly. The
clock asks nothing of the lease: whether it lasts is a property.

A fanout handler that outlived its time keeps the object of a transaction that has been rolled back, and
`runInTransaction` (`models/db.ts:20`) takes it for an open one. Nothing under `src/` refuses what it
enqueues then, so the model lets it: each statement of `enqueueOutboxEvents` commits by itself, the lock
of the key is released as soon as it is taken, the row is visible at once (`LateEnqueue`) and its record
for the article follows or does not (`LateRecord`). Such rows are in the history variable `late`. They
are claimed and delivered like others, and the properties say what they can and cannot disturb.

Identities stand for the UUIDs of rows: `Enqueued` are those the application will draw, `FanoutEnqueue`
draws from the others. `InboxKey` is the ordering key of a delivery, made of the key of its fanout and
the origin of the inbox; that keys of different fanouts' deliveries differ when the fanouts' keys do is
what `outbox-queue.test.ts:174` tests, and part of `FederationQueueAssumption`.

The environment crashes, stalls, wakes, stops and restarts workers and replays or prunes rows. `sent` is
a history variable, the inboxes' point of view. `article` is the delivery status of article statistics;
the code records it only for Create activities of known articles, the model for every delivery.

### TaskQueue

The same table and a different contract: the handler is never abandoned. `run[t].cause` is the abort
reason of the execution's signal, where the first of shutdown, deadline and lease wins; the listener
waits for the handler (`HandlerEnds`) and only then settles. One tick is one heartbeat interval:
`Heartbeat` and `HeartbeatFails` are due once between two ticks, `age` is the time since the last renewal
that succeeded, and `Unsafe` is the check that gives up before the lease can expire. `Take` includes the
checks before the handler starts: the listener is stopping, or the attempts were spent by workers that
died. `SettleFails` is an acknowledgement that throws.

### NewsRescore

`queue[a]` is the row of an actor; `drain[d]` is the one pass the cron of process `d` may have under way
(croner's overlap protection). A recomputation has two steps, its snapshot (`Begin`) and its commit
(`Write`), because the update joins links with scores computed from the snapshot of the statement, and a
row lock it waits for re-reads the link only. `Refresher` processes are the recomputations outside the
queue: the sweep and the refresh after a post. A score is its promotion bonus, the strongest bonus among
the preferred sharers of the link; who shared what is constant, and sharers are taken to qualify whether
preferred or not. `rescored` is a history variable: the links of an actor computed from its present
curation since its last change. A change and its enqueueing are one transaction, hence one step: the
row lock of the upsert makes the drain's own statements wait for its end.

### ArticleTranslations

One article and the rows of each target language. Every operation is one transaction under the row lock
of `article_source`, so each is one action; what interleaves is everything around the two transactions of
a translation task (`BeginTranslation`, then `FinishTranslation` or `FailTranslation`), between which the
language model is called. `task[l]` is the ordering key of a language in the task queue, as the abstract
queue promises it: the first task is executed, again after a failure, and by a second worker when the
first has lost its lease without noticing (`holds`). A text is a title with a body; two of the three texts
share their body, because the code compares bodies to restart translations and titles as well to accept
an answer. Revision 0 is the null baseline of articles older than revisions. Tokens (UUIDs) and values of
the column `updated` are taken from small sets, fresh ones only: which one is immaterial. `variant` is
what readers see and `federated` the last object sent to peers; both are rebuilt by `Publish`. Requests
read the original before they start a translation and may pass on an old one (`Readable`). Half an hour
may pass at any step (`Reclaimable`). `abandoned` is the set of languages whose placeholder lost its task
to the dead letters, which nothing tells the placeholder: it waits for a reader to restart it.

### WorkerShutdown

One process from start to end: the listener of the inbox queue, the scheduler, `runWorkerRuntime`, and
`main`, which closes what they used. Promises that have settled are variables and every continuation is
an action, so that the order of two that could run is open. `handling[m]` is where the call of `#handle`
for a message is; `handler[m]` and `requeue[m]` are the promises it races. The queue underneath is
Fedify's and external: it deletes a message before it calls the handler. An attempt to enqueue that fails
may have stored its message nevertheless (`stored`).

### DigestMails

All replicas fire the same tick (`Fire`), at whatever delay; `Dispatch` is the transaction that moves the
watermark and enqueues the task. `sender[w]` is the execution of a task in worker `w`, one step per
statement: lock the guard on a connection of its own, consider the accounts with unread notifications,
claim the delivery row of the period, mail one address at a time, save who was mailed, mark the row.
Every step may find the execution aborted, the guard lost, the write failed, or the process dead.
`mails[t][e]`, the mail service's point of view, is a history variable. The bounds separate what may cause
a mail too many (`disruptions`) from what may not (`interruptions`), and `MailsAccountedFor` counts with
the former. Lost guards are counted apart (`losses`, under the bound of the disruptions), since what one
costs is not one mail: see the end of section 3.

### Organization

A request reads its viewer's account once (`Begin`) and trusts the kind it read until it ends. The
acceptance of a conversion is two steps, `LockAccount` and `Convert`; `RowFree` is the row lock of the
account under conversion, which also blocks the foreign keys of rows that refer to it. The other
operations are one step each, also where the code has several statements, as those that remove or demote
take the advisory lock of the organization.

## 3. The runs

All instances are small and exhaustive. `Symmetry` permutes tokens, workers, requests or people (never in
a run with a liveness property). Deadlock is not checked: with every row settled and the bounds used up,
the models stop. In the federation and task models tokens are reused once no row holds them. A row whose
worker died keeps its token, which in the safety runs of tasks with two tokens bounds the claims that
follow two abandoned rows; the liveness run has a third.

| run | instance | checks |
|---|---|---|
| FederationDirect | two deliveries of one key, two workers, three tokens, leases of three ticks, one disruption, replay and prune of one row; 424,962 states | `CompletedWasSent`, `AttemptBudget`, `HeartbeatProtects`, `ArticleAgrees`, `LeaseNotStolen`, `CompletedIsFinal`, `KeepsPromise`, `TypeOK` |
| FederationOrder | two fanouts of one object with one recipient each, three identities for deliveries, two workers, one disruption, late enqueues of both handlers; 919,346 states | `KeyOrder`, `CommitOrder`, `FanoutOnce` through the fanouts |
| FederationLiveness | one fanout to two inboxes, two attempts, one worker, one disruption, fairness; 146,236 states | `EverySettles`, `FanoutOnce` |
| TaskSafety | two tasks of one key, two workers with two claim loops, two disruptions, replay of one task | `KeyOrder`, `NoOverlap`, `ExecutionBudget`, `UncancelledIsLeased`, `DeadIsKept`, `ShutdownNeverKills`, `TypeOK` |
| TaskLiveness | two tasks of one key, one worker, three tokens, replay of one task, fairness | `EverySettles`, `KeepsPromise` |
| NewsDrain | two actors sharing a link, two drains, a refresher, two changes, a failure, a stall, fairness | `OneDrainPerActor`, `DeletedWhenRescored`, `QueueDrains`, `TypeOK` |
| Translations | one language, three texts, two later revisions, two executions, a translator and another editor | `PublicAgrees`, `FreshnessHonest`, `NoticeTrue`, `PlaceholderBacked`, `HumanTextKept`, `TypeOK` |
| Shutdown | two messages, one job, two failures to enqueue, fairness | `NothingLost`, `ClosesAfterDrain`, `ShutdownEnds`, `TypeOK` |
| Digests | two replicas, one account with two addresses, two ticks, one disruption, one interruption, fairness | `MailsAccountedFor`, `RecordsTrue`, `EveryoneMailed`, `TypeOK` |

A disruption of the federation queues is a crash, a stall, a graceful stop, an acknowledgement that fails
or a deferral by an open circuit (`faults`), or a renewal that fails (`missed`, bounded by `MaxMissed` as
well); `MaxFaults` bounds them all. One is enough for a lease to expire under a live worker and for a stale worker to meet its
successor; `TaskSafety` takes two, so that a crash and a shutdown, or two crashes, can hit one task.
`MaxAttempts = 2` distinguishes a first attempt from a last one, `MaxWait = 1` a delayed retry from an
immediate one. A tick is the interval of the heartbeat and `Lease` counts intervals: 3, as configured by
default (180 and 60 seconds), where leases are the point, so that one renewal may fail, and 2, the least
`FederationQueueAssumption` allows, in the fanout runs. `FederationOrder` has one attempt: a fanout is
processed again when its worker is lost or its rejection fails, which is when the old handler meets the
new one; retries on a second attempt are in `FederationLiveness`, and the proofs bound neither. The third
identity for a delivery is for what a late handler adds. Two rows of
one key are the least that can be out of order, two workers the least that can race. Rows beyond that add
keys that do not interact. In `Translations`, languages interact only through the original, which one
language meets in every order, and two revisions let an original be edited, restored, or both; two tokens
let a stale task meet its successor. In `Digests`, two addresses of one account are the least for a
digest to be half sent, and two ticks for a late replica to fire the tick before. In `Shutdown`, messages
interact only through the listener that waits for all of them.

`OneDrainPerActor` and `DeletedWhenRescored` speak of behaviours without a stall. With one they fail, as
the refresh of a lease and the delete of a row name the actor and not the lease: a drain that wakes after
its lease has expired deletes the row that another has claimed. `AttemptBudget` counts failures of
handlers: the federation queue compares attempts after a failure only, so a worker that dies, or whose
acknowledgement fails, on a last attempt leaves a row that is claimed and handled once more
(`#processTask` compares before as well). `FanoutOnce`, `KeyOrder` and `ArticleAgrees` leave the rows in
`late` aside as far as they must: a fanout that timed out and is retried may send an activity twice to one
inbox, later activities may overtake the late copy, and the late copy's statistics are written by a
statement of their own. What holds of late rows too is in `Ordered`: they overtake no activity of an
earlier fanout, as their fanout was claimed only after that one was settled. These are limits of what the
code keeps, not of the models.

`MailsAccountedFor` speaks of behaviours without a lost guard. An execution whose guard was lost does not
know until it next looks, and meanwhile writes the recipients of the row whole, from its memory
(`saveDigestSentRecipients`, `markDigestDeliveryFailed`): what its successor has recorded since is erased,
and all of it is mailed again. It takes three addresses, one lost guard and two interruptions to see more
than one mail too many; in the run, with two addresses and one lost guard, it is one.

Three disagreements between the code and what is said of it are runs that end in a violation:

| run | violated | the story |
|---|---|---|
| FederationOvertaking | `NoOvertaking` | a send that skips the fanout overtakes an earlier activity that is still in its fanout |
| NewsStale | `NoStaleBonus` | two recomputations of one link write in the opposite order of their snapshots |
| OrganizationPeople | `ManagedByPeople` | while B accepts to administer A, which becomes an organization, B's own conversion commits: nobody who can sign in administers A |

The first contradicts FEDERATION.md (lines 255 to 264), the second the comments of `models/news.ts` and
`models/schema.ts`, the third the description of the account kind in `graphql/organization.ts:145`. The
periodic sweep repairs a stale score only while the link has recent activity. Two consequences of the
federation model are by design or nearly so, and have no run: a handler that timed out on its last
attempt may still be running when the next event of its key starts, and a listener stopped on a last
attempt dead-letters the row (a task is released instead, which `ShutdownNeverKills` checks).

## 4. Fairness

Liveness is checked under `FairSpec`. Weak fairness is assumed of what a process or the clock does of
itself: an open transaction ends; a paused process goes on, a stopping one exits; each worker's poll loop
claims when something is claimable throughout; a claim statement returns; a handler ends or is timed out
(federation), or ends (tasks: an uncooperative handler may block its claim loop, as DEPLOYMENT.md says);
the acknowledgement is executed; heartbeats run; the clock advances; the cron starts a drain each minute.
Nothing is assumed of remote inboxes, of the choice among claimable rows, of crashes, or of the operator.
In `FederationLiveness` one worker is checked, which is the harder case: nobody else takes over.
Ticks never pass a heartbeat's statement that is due in a process that runs, a claim statement or an
acknowledgement under way: a statement ends, well or badly, before the next interval is over, and one
that takes longer is a stall of its worker. That is an assumption about the event loop and the database,
not about the lease, which the renewals must keep.

In `WorkerShutdown` continuations of settled promises and timers run, jobs end, and Fedify's listener
returns once the signal is aborted; the handlers of messages may run for ever, and signals need never
come. In `DigestMails` the executions go on and a worker that waits for the guard gives it up in the end;
mail may be refused, and ticks need never fire. `ArticleTranslations` and `Organization` state safety
only: whether a reader asks again, or a person accepts, is nobody's promise.

## 5. The proofs

Every safety property of the passing runs is also a theorem, and so are the action properties and the refinement of `MessageQueue` by both queues. The theorems hold
for all values of the constants that satisfy the assumption named in each module: keys, tokens and
workers are told from the values that stand for none, bounds are numbers, and what else is said below.
Each inductive invariant was checked by TLC before it was proved, on the instances of the runs: that of
tasks in 2,995,308 states, `OInv` in 919,346 of fanouts and, with two disruptions, in 2.8 million of direct
deliveries, that of the
rescore queue in 419,336, that of translations in 321,668.

### The federation queues

`FederationQueueProofs` and `FederationOrderProofs` prove, for any rows, keys, workers, tokens, sends,
recipients and bounds:

| theorem | property |
|---|---|
| `TypeCorrect` | `TypeOK` |
| `CompletedSent` | `CompletedWasSent`: at-least-once delivery |
| `LeasesNotStolen` | `LeaseNotStolen`: fencing |
| `CompletedFinal` | `CompletedIsFinal` |
| `KeysInOrder` | `KeyOrder` |
| `CommitsInOrder` | `CommitOrder` |
| `FanoutsOnce` | `FanoutOnce`: a fanout's transaction is all or nothing, once |
| `ArticlesAgree` | `ArticleAgrees` |
| `HeartbeatsProtect` | `HeartbeatProtects` |
| `AttemptsBounded` | `AttemptBudget` |
| `ImplementsMessageQueue` | `KeepsPromise` |

They assume `OutboxTableAssumption` and `FederationQueueAssumption` only (the recipients of an activity
are finitely many; keys of deliveries are as described in section 2). `TypeOK` is not inductive: a
commit publishes the children of a run, and that keeps the type of a row only if they are uncommitted
rows, which in turn needs that no two runs share one and that nobody else ends their transaction. The
inductive invariant of the first module is

    IInv == TypeOK /\ RunShape /\ TokenOwned /\ ChildrenPrivate /\ SuccessWasSent /\ CompletedWasSent

`RunShape`: a free run has no event and no children, one that is not free has both event and worker.
`TokenOwned`: a row's token is that of a run that is processing the row or of one that has forgotten it.
`ChildrenPrivate`: the children of a run are uncommitted deliveries of its event's group, of no other run.
`SuccessWasSent`: a run about to acknowledge a delivery has sent it. The argument is in two layers.
`RowMoves` and `RunSteps` say which moves a step can make with a row and with a run (the life cycles
`Moves` and `Steps`); the conjuncts of `IInv` and the action properties are then proved from the life
cycles, not action by action again. `OutboxTableLemmas` holds one lemma per SQL statement.

The second module adds `OInv`, inductive next to `IInv`, and proves it in the same two layers: its
`Rests`, `Roots`, `Grows` and so on are all that a step can make of the table. The arguments are these.

- Order. A row is claimed when every row before it is settled (`Cleared`), and that must last although
  rows are still being committed. For rows of the application it is the advisory lock: an open
  transaction has the last number of its key (`LastOfKey`), so a commit never slips in before a row that
  is visible. Deliveries take the number of their fanout (`ChildOrigin`) and are committed out of the
  order of their insertion; what orders them is that fanouts are themselves claimed in order and publish
  all their deliveries when they complete. Hence `Cleared` is kept for settled rows too: all earlier
  fanouts have published theirs before a later one can. A run keeps `Cleared` of its row as long as its
  handler lives, whoever has the row by then; so what it enqueues late belongs to a fanout that was claimed
  in order (`LateInOrder`), and comes after every earlier activity.
- Fanouts. `OwnChildren`: an open handler has enqueued one delivery for each inbox at most, one that
  succeeded has one for each recipient; only an acknowledgement under the lease publishes them, and one
  that fails removes them. That a timed-out handler adds rows of its own is not denied but set apart: each
  step adds to `late` the row it inserts, or nothing (`LateMoves`).
- Attempts. `AttemptsSpared`: a row that is pending, or whose worker can have lost it (`Lost`), has an
  attempt left for the disruption that did this. A lease runs out without any worker being lost when its
  renewals fail; hence the last part: a row without an attempt to spare has a lease as good as new, up to
  a heartbeat that is due. So each disruption costs one claim beyond `MaxAttempts`, and no more.
- The heartbeat. Without faults nobody is paused (`AllUp`). `LeaseKept`: what is left of the lease, the
  renewals that failed and the heartbeat that is due (`Beaten`) add up to a whole lease. A tick takes one
  from the lease and makes the heartbeat due, `RenewFails` pays with a failure, `Renew` starts over
  (`LeaseStep`); nothing else touches them, so a lease lasts until all but one of its renewals have failed.
- The refinement. `States`, `Aheads`, `Keys` and `Reopened` are the mapping. Rows of the application have no
  parent (`EnqueuedAreRoots`) and a step changes one of them (`OneMoves`), hence each step is one step of
  `MessageQueue`, or none. What may be handed out follows from `Cleared`, that `ahead` is fixed at the
  commit from `LastOfKey`.

### The application tasks

`TaskQueueProofs` proves, for any tasks, keys, workers, claim loops and bounds, from
`OutboxTableAssumption` and `TaskQueueAssumption` (a lease is longer than two heartbeats):

| theorem | property |
|---|---|
| `TypeCorrect` | `TypeOK` |
| `OrderWithinKey` | `KeyOrder` |
| `NoOverlapHolds` | `NoOverlap` |
| `ExecutionIsBounded` | `ExecutionBudget` |
| `UncancelledKeepsLease` | `UncancelledIsLeased` |
| `DeadStays` | `DeadIsKept` |
| `ShutdownSpares` | `ShutdownNeverKills` |
| `ImplementsMessageQueue` | `KeepsPromise` |

    IInv == TypeOK /\ RunShape /\ TokenOwned /\ AgeIsLeases /\ AgeIsSafe /\ Unpublished /\ Sequenced
            /\ LastOfKey /\ ClaimsInOrder /\ PayloadKept /\ StartsSpent /\ ExecutionBudget

The heart is the relation between two clocks: the age that a worker counts since its last renewal and the
lease in the table. `AgeIsLeases`: while the age is less than the lease the execution still has its row,
and then the two add up; a row is lost to another worker only at an age the worker itself recognises.
`AgeIsSafe`: a heartbeat that has missed no beat either renews or cancels before that age. So what is not
cancelled is leased, two that are not cancelled would hold two leases, and the order of claims
(`ClaimsInOrder`, `LastOfKey` as above) excludes two of one key. `StartsSpent` accounts for attempts: a
start spends one, and only an interruption gives one back.

### The news rescore queue

`NewsRescoreProofs` proves, for any actors, links, processes, changes, failures and stalls, from
`NewsRescoreAssumption` (actors and links are finitely many, bonuses are positive):

| theorem | property |
|---|---|
| `TypeCorrect` | `TypeOK` |
| `OneDrains` | `OneDrainPerActor` |
| `RowsDeletedWhenRescored` | `DeletedWhenRescored` |

    IInv == TypeOK /\ DrainShape /\ RescoredShared /\ OneDrainPerActor /\ LeaseHeld /\ RestIsTodo

`LeaseHeld`: a drain at work has all the lease that it has not used up since its last refresh, so nobody
claims its row. `RestIsTodo` is what makes deletion right: while the row is clean, every link not yet
computed from the present curation is still on the drain's list, and the statement it executes sees the
present curation; a change makes the row dirty in its own transaction. That a link has a strongest bonus
at all rests on the finiteness of its sharers (`StrongestBonusIsBonus`, by the well-foundedness of strict
subsets, as the maximum is a `CHOOSE`).

### The translations of an article

`ArticleTranslationsProofs` proves, for any languages, texts, people, tokens, executions and number of
revisions, from `ArticleTranslationsAssumption` (there are a language, a time stamp and a revision):

| theorem | property |
|---|---|
| `TypeCorrect` | `TypeOK` |
| `PublicAgreement` | `PublicAgrees` |
| `FreshnessIsHonest` | `FreshnessHonest` |
| `NoticesTrue` | `NoticeTrue` |
| `PlaceholdersBacked` | `PlaceholderBacked` |
| `HumanTextsKept` | `HumanTextKept` |

    IInv == TypeOK /\ PublicAgrees /\ Rows /\ Drafts /\ Revisions /\ NoticeTrue /\ PlaceholderBacked
            /\ Executions /\ Fences

`FreshnessHonest` speaks of finished versions; `Rows` says the same of placeholders, and that bases are
revisions there are. That an answer is a translation of the text its placeholder has by then is
`Executions`: as long as the row has an execution's token, it has the text the execution was given; an
execution that has not lost its lease is of the first task of the key, and its claim is the row's time
stamp. `Fences`: executions of one job have different claims, and one of a language at most holds the
lease; without it an acknowledgement could drop a task another execution has begun, and a placeholder
lose its task. `Revisions`: the original is the text of its revision, and before the first revision
nobody has been notified. `HumanTextKept` follows because a row with a job's token is automatic.

### The inbox at shutdown

`WorkerShutdownProofs` proves, for any messages, jobs and number of failed attempts to enqueue, and
assuming `WorkerShutdownAssumption` only:

| theorem | property |
|---|---|
| `ShutdownTypeCorrect` | `TypeOK` |
| `ShutdownLosesNothing` | `NothingLost` |
| `ShutdownClosesLast` | `ClosesAfterDrain` |

    IInv == TypeOK /\ Untouched /\ Requeued /\ Returned /\ QueueDone /\ SchedulerDone /\ BothDone

`NothingLost` speaks of calls that are still active; the invariant must say why a call that has returned
may forget its message. `Returned`: its handler completed, or the message is in the inbox. That lasts
because of `Requeued`: only an abort makes the process enqueue, and after one nothing is taken from the
inbox. `QueueDone` and `SchedulerDone`: a service that has settled has nothing under way, in particular
Fedify's listener has settled before the queue does, so nothing new can start. `BothDone`: the process
closes its resources only after both have settled, in whatever order and for whatever reason they do.

### The digests

`DigestMailsProofs` proves, for any replicas, accounts, addresses, ticks and bounds, and assuming
`DigestMailsAssumption` only (there is an address, every address has an owner, no worker is `NoWorker`):

| theorem | property |
|---|---|
| `DigestTypeCorrect` | `TypeOK` |
| `DigestRecordsTrue` | `RecordsTrue`: what the table says was mailed was mailed |
| `DigestMailsPaidFor` | `MailsAccountedFor`: a mail too many has a disruption of its own |

    IInv == Queue /\ Leases /\ Others /\ Memory /\ Rows

`RecordsTrue` is not inductive, as rows are written from what an execution remembers, and executions that
have lost their lease or the guard go on writing. `Memory` says that every memory is `Honest`: a recipient
it counts as mailed was mailed, and as long as no mail failed, whoever is due and not mailed is still on
its list. So an execution that reaches its end without an error has mailed everyone. What makes this last
although executions do not exclude each other is that mails are never unsent (`HonestLasts`,
`TrueLasts`). `Queue` and `Leases` carry the types: the tasks are those of different, past ticks, in order,
and at most one worker has the lease of the first, which is therefore there when that worker ends it.

`MailsAccountedFor` compares two counts, and needs an invariant about what will be mailed again:

    GInv == losses = 0 => Alone /\ Recollection /\ Paid

`Alone`: who works has the guard. `Recollection`: what it remembers is what the row says, and at most the
recipient at hand besides; it mails nobody it remembers. `Paid` counts a set of mails, `Costs`, instead of
adding up numbers: every mail of an address but the last, and the last as well if neither the table nor an
execution about to write it knows of it (`Knowledge`). A mail that nobody knows of is the one that will be
sent again, so it is charged at once. A step without a disruption charges none (`PaidKept`,
`PaidSent`: who is mailed is unknown, so the earlier mails are charged already), a disruption at most one
(`PaidOnce`: it forgets the recipient at hand, or sends to it and forgets). `Repeats` is part of `Costs`.
TLC checked `GInv` in 1,982,259 states with three addresses and two disruptions. An execution's record
must not be overwritten for this, which is why a lost guard ends the promise.

### Only model-checked

Liveness (`EverySettles`, `QueueDrains`, `EveryoneMailed`, `ShutdownEnds`), as the prover handles neither
fairness nor ENABLED. `KeepsPromise` is safety, and proved; that a message is settled in the end is
`EverySettles`. The properties of the three violation runs, which are false of the code, and with
`ManagedByPeople` all of `Organization`.

## 6. What the models leave out

Payloads, error texts, logging; the Fedify library beyond what it calls; the network beyond "accepted or
not". One clock: skew between workers would shift every lease. The order of advisory locks within one
application transaction: PostgreSQL breaks a deadlock by aborting one side, which is `AppRollback`. What
the driver does with a statement of a transaction that was rolled back is outside `src/`: the model lets
it take effect at once, or not at all, on the connection that was released; if another transaction has
taken that connection meanwhile, the row shares its fate, which is a later `LateEnqueue` or none. Which
inboxes a late handler has left is not tracked, only how many. A commit that takes effect and is reported
as failed is `Acknowledge`, as the rejection that follows finds nothing to change. Retention periods are
long: a settled row may be pruned at any time. In `WorkerShutdown`, the `queue` promise stands for the
inbox listener; the outbox listeners that `startQueue` waits for as well are Fedify's, and end as `Stop`
and `Exit` of `FederationQueue` and their like in `TaskQueue` say.

Of articles: changes of the original's language (refused once there are translations), media, summaries
and their claims, what drafts say, the promotion of drafts when a draft article is published, the version
clock of objects, the lifting of censorship, pushes. Of organizations: notifications, credentials and
invitation links, deletion of accounts, and the window between reading a conversion request and locking
its account. Of digests: other jobs of the scheduler, contents of mails. The components marked not
modelled in section 1 are request-and-response code over single rows, pure input and output, or user
interface; they hold no behaviour of several steps that a model would show better than their tests, with
the exceptions of section 7.

## 7. Plan

1. Proofs: how many mails a lost guard may cost in the digests; whether `ManagedByPeople` holds of
   `Organization` as long as no two conversions overlap.
2. `ArticleSummaries`: the claims of summaries with their time stamps and tasks.
3. `LegacyMigration`: the copy of `fedify_message_v2` as a further producer of `OutboxTable`, with API
   processes enqueueing at the same time; does `KeyOrder` survive it?
4. `Poll` and `Moderation`, and the deletion of accounts next to `Organization`.
