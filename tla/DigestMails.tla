------------------------------ MODULE DigestMails ------------------------------
(***************************************************************************)
(* The notification digests of one frequency, from the tick of a cron to   *)
(* the mails: replicas that all fire the same tick                         *)
(* (graphql/worker-scheduler.ts), the watermark that lets one of them      *)
(* enqueue a task (graphql/worker-dispatch.ts), and the executions of that *)
(* task, which send mails under an advisory lock and record each one       *)
(* (graphql/notification-digest.ts, graphql/worker-jobs.ts).               *)
(*                                                                         *)
(* The task queue is the one of module TaskQueue, as its abstract          *)
(* specification promises it: one task at a time of an ordering key, in    *)
(* order, again after an attempt that failed, and by a second worker when  *)
(* a first one has lost its lease without noticing.                        *)
(***************************************************************************)
EXTENDS Integers, Sequences, FiniteSets

CONSTANTS
    Worker, NoWorker,   \* processes: each runs the crons and executes tasks
    Account,            \* personal accounts that want the digest
    Address, OwnerOf,   \* verified addresses that digests go to, and whose
    MaxTick,            \* bound: ticks of the cron, each in a period of its own
    MaxDisruptions,     \* bound: crashes, unclear receipts, failed writes, lost guards
    MaxInterruptions    \* bound: aborts, lost leases, refused mails, lost ticks

ASSUME DigestMailsAssumption ==
    /\ NoWorker \notin Worker
    /\ OwnerOf \in [Address -> Account]
    /\ Address # {}
    /\ {MaxTick, MaxDisruptions, MaxInterruptions} \subseteq Nat

VARIABLES
    now,            \* the last tick
    firing,         \* the tick each replica dispatches, or 0
    fired,          \* the last tick each replica fired for
    watermark,      \* scheduled_worker_dispatch.scheduled
    tasks,          \* the tasks of the key scheduled:<job>
    unread,         \* the accounts with unread notifications
    guard,          \* who has the advisory lock
    sender,         \* the execution of each worker
    delivery,       \* notification_digest_delivery, by period and account
    mails,          \* how often each address was sent the mail of a period
    disruptions, interruptions,
    losses          \* how often a guard was lost

clock == <<now, firing, fired>>
queue == <<watermark, tasks>>
counts == <<disruptions, interruptions, losses>>
vars == <<clock, queue, unread, guard, sender, delivery, mails, counts>>

Tick == 1..MaxTick

(* "current" is the account at hand, "pending" its recipients still to be   *)
(* mailed, "sent" those known to have been, "errors" whether one was       *)
(* refused, "failed" whether any account of this execution failed.         *)
SenderRecord ==
    [pc : {"idle", "waiting", "account", "claiming", "settled", "mailing", "sending",
           "saving", "closing", "blaming"},
     tick : 0..MaxTick, lease : BOOLEAN, aborted : BOOLEAN,
     todo : SUBSET Account, current : Account, to : Address,
     pending : SUBSET Address, sent : SUBSET Address,
     errors : BOOLEAN, failed : BOOLEAN]
Idle ==
    [pc |-> "idle", tick |-> 0, lease |-> FALSE, aborted |-> FALSE, todo |-> {},
     current |-> CHOOSE a \in Account : TRUE, to |-> CHOOSE e \in Address : TRUE,
     pending |-> {}, sent |-> {}, errors |-> FALSE, failed |-> FALSE]

DeliveryRecord == [sent : BOOLEAN, recipients : SUBSET Address]
NoDelivery == [sent |-> FALSE, recipients |-> {}]

TypeOK ==
    /\ now \in 0..MaxTick /\ watermark \in 0..now
    /\ firing \in [Worker -> 0..MaxTick] /\ fired \in [Worker -> 0..MaxTick]
    /\ tasks \in Seq(Tick) /\ \A i \in 1..(Len(tasks) - 1) : tasks[i] < tasks[i + 1]
    /\ unread \subseteq Account
    /\ guard \in Worker \cup {NoWorker}
    /\ sender \in [Worker -> SenderRecord]
    /\ delivery \in [Tick -> [Account -> DeliveryRecord]]
    /\ mails \in [Tick -> [Address -> Nat]]
    /\ disruptions \in 0..MaxDisruptions /\ interruptions \in 0..MaxInterruptions
    /\ losses \in 0..MaxDisruptions

Init ==
    /\ now = 0 /\ watermark = 0 /\ tasks = <<>>
    /\ firing = [w \in Worker |-> 0] /\ fired = [w \in Worker |-> 0]
    /\ unread = Account
    /\ guard = NoWorker
    /\ sender = [w \in Worker |-> Idle]
    /\ delivery = [t \in Tick |-> [a \in Account |-> NoDelivery]]
    /\ mails = [t \in Tick |-> [e \in Address |-> 0]]
    /\ disruptions = 0 /\ interruptions = 0 /\ losses = 0

Disrupt ==
    /\ disruptions + losses < MaxDisruptions
    /\ disruptions' = disruptions + 1 /\ UNCHANGED <<interruptions, losses>>
Interrupt ==
    /\ interruptions < MaxInterruptions
    /\ interruptions' = interruptions + 1 /\ UNCHANGED <<disruptions, losses>>

-----------------------------------------------------------------------------
(* The cron and the watermark. *)

NextTick ==
    /\ now < MaxTick
    /\ now' = now + 1
    /\ UNCHANGED <<firing, fired, queue, unread, guard, sender, delivery, mails, counts>>

(* Every replica fires, for the latest tick: ticks it missed are never     *)
(* made up for.                                                            *)
Fire(w) ==
    /\ firing[w] = 0 /\ fired[w] < now
    /\ firing' = [firing EXCEPT ![w] = now]
    /\ fired' = [fired EXCEPT ![w] = now]
    /\ UNCHANGED <<now, queue, unread, guard, sender, delivery, mails, counts>>

(* dispatchScheduledWorkerJob: one transaction. *)
\* mutant: the watermark is not compared
Mutant_Newer(t) == TRUE
Newer(t) == watermark < t

Dispatch(w) ==
    /\ firing[w] # 0
    /\ IF Newer(firing[w])
       THEN watermark' = firing[w] /\ tasks' = Append(tasks, firing[w])
       ELSE UNCHANGED queue
    /\ firing' = [firing EXCEPT ![w] = 0]
    /\ UNCHANGED <<now, fired, unread, guard, sender, delivery, mails, counts>>

(* A transaction that fails is logged by the scheduler. *)
DispatchFails(w) ==
    /\ firing[w] # 0
    /\ firing' = [firing EXCEPT ![w] = 0]
    /\ Interrupt
    /\ UNCHANGED <<now, fired, queue, unread, guard, sender, delivery, mails>>

-----------------------------------------------------------------------------
(* An execution: the task queue's part of it. *)

At(w, pc) == sender[w].pc = pc
Set(w, r) == sender' = [sender EXCEPT ![w] = r]
Goes(w, pc) == Set(w, [sender[w] EXCEPT !.pc = pc])
Elsewhere == <<clock, queue, unread, guard, mails, counts>>

Start(w) ==
    /\ At(w, "idle") /\ tasks # <<>>
    /\ \A v \in Worker : ~sender[v].lease
    /\ Set(w, [Idle EXCEPT !.pc = "waiting", !.tick = Head(tasks), !.lease = TRUE])
    /\ UNCHANGED <<Elsewhere, delivery>>

(* The end: the lock goes with its transaction, and the task, unless it    *)
(* failed or the lease was lost.                                           *)
Ends(w, successful) ==
    /\ tasks' = IF successful /\ sender[w].lease THEN Tail(tasks) ELSE tasks
    /\ guard' = IF guard = w THEN NoWorker ELSE guard
    /\ Set(w, Idle)

(* The signal of a task: a shutdown, or a lease that is no longer safe.    *)
Abort(w) ==
    /\ ~At(w, "idle") /\ ~sender[w].aborted
    /\ Set(w, [sender[w] EXCEPT !.aborted = TRUE])
    /\ Interrupt
    /\ UNCHANGED <<clock, queue, unread, guard, delivery, mails>>

LoseLease(w) ==
    /\ sender[w].lease
    /\ Set(w, [sender[w] EXCEPT !.lease = FALSE])
    /\ Interrupt
    /\ UNCHANGED <<clock, queue, unread, guard, delivery, mails>>

-----------------------------------------------------------------------------
(* withNotificationDigestGuard *)

\* mutant: nothing is locked
Mutant_GuardFree == TRUE
GuardFree == guard = NoWorker

Lock(w) ==
    /\ At(w, "waiting") /\ ~sender[w].aborted /\ GuardFree
    /\ guard' = w
    /\ Set(w, [sender[w] EXCEPT !.pc = "account", !.todo = Account])
    /\ UNCHANGED <<clock, queue, unread, delivery, mails, counts>>

(* Aborted, or tired of waiting. *)
GiveUp(w) ==
    /\ At(w, "waiting")
    /\ \/ sender[w].aborted /\ UNCHANGED counts
       \/ ~GuardFree /\ ~sender[w].aborted /\ Interrupt
    /\ Ends(w, FALSE)
    /\ UNCHANGED <<clock, watermark, unread, delivery, mails>>

(* The connection that holds the lock breaks, unnoticed.                   *)
LoseGuard(w) ==
    /\ guard = w /\ disruptions + losses < MaxDisruptions
    /\ guard' = NoWorker
    /\ losses' = losses + 1
    /\ UNCHANGED <<clock, queue, unread, sender, delivery, mails, disruptions,
                   interruptions>>

(* verifyGuard *)
Verified(w) == guard = w /\ ~sender[w].aborted

(* It throws, outside of the attempt to mail an account.                   *)
Throws(w) ==
    /\ At(w, "account") /\ ~Verified(w)
    /\ Ends(w, FALSE)
    /\ UNCHANGED <<clock, watermark, unread, delivery, mails, counts>>

(* All accounts have been dealt with; if any failed, the job throws.       *)
Finish(w) ==
    /\ At(w, "account") /\ sender[w].todo = {} /\ Verified(w)
    /\ Ends(w, ~sender[w].failed)
    /\ UNCHANGED <<clock, watermark, unread, delivery, mails, counts>>

-----------------------------------------------------------------------------
(* sendGuardedNotificationDigests: one account after the other. *)

Row(w) == delivery[sender[w].tick][sender[w].current]

(* What to write over the row of the delivery: all of it, from memory.     *)
Write(w, row) ==
    delivery' = [delivery EXCEPT ![sender[w].tick][sender[w].current] = row]

Consider(w, a) ==
    /\ At(w, "account") /\ Verified(w) /\ a \in sender[w].todo
    /\ Set(w, [sender[w] EXCEPT !.pc = IF a \in unread THEN "claiming" ELSE "account",
                                !.todo = @ \ {a}, !.current = a,
                                !.pending = {}, !.sent = {}, !.errors = FALSE])
    /\ UNCHANGED <<Elsewhere, delivery>>

(* claimDigestDelivery: nothing to do once the row says sent.              *)
Recorded(w) == Row(w).recipients

Claim(w) ==
    LET pending == {e \in Address : OwnerOf[e] = sender[w].current} \ Recorded(w) IN
    /\ At(w, "claiming")
    /\ IF Row(w).sent THEN Goes(w, "account")
       ELSE Set(w, [sender[w] EXCEPT !.pc = IF pending = {} THEN "settled" ELSE "mailing",
                                     !.pending = pending, !.sent = Recorded(w)])
    /\ UNCHANGED <<Elsewhere, delivery>>

(* The next recipient, if the guard still holds.                           *)
Mail(w, e) ==
    /\ At(w, "mailing") /\ Verified(w) /\ e \in sender[w].pending
    /\ Set(w, [sender[w] EXCEPT !.pc = "sending", !.to = e])
    /\ UNCHANGED <<Elsewhere, delivery>>

(* The catch clause of an account: the account fails, and its other        *)
(* recipients are left out; once the signal is aborted, everything ends.   *)
Blame(w) ==
    IF sender[w].aborted THEN Ends(w, FALSE)
    ELSE /\ Set(w, [sender[w] EXCEPT !.pc = "blaming", !.failed = TRUE])
         /\ UNCHANGED <<tasks, guard>>

MailFails(w) ==
    /\ At(w, "mailing") /\ ~Verified(w)
    /\ Blame(w)
    /\ UNCHANGED <<clock, watermark, unread, delivery, mails, counts>>

Mailed(t, e) == mails' = [mails EXCEPT ![t][e] = @ + 1]
Rest(w) == sender[w].pending \ {sender[w].to}
After(w) == IF Rest(w) = {} THEN "closing" ELSE "mailing"

Sent(w) ==
    /\ At(w, "sending")
    /\ Mailed(sender[w].tick, sender[w].to)
    /\ Set(w, [sender[w] EXCEPT !.pc = "saving", !.sent = @ \cup {sender[w].to}])
    /\ UNCHANGED <<clock, queue, unread, guard, delivery, counts>>

(* A receipt says that the mail was refused, or no receipt is got, and     *)
(* that throws; whether or not it was sent.                                *)
SendFails(w, sent, thrown) ==
    /\ At(w, "sending")
    /\ IF sent THEN Mailed(sender[w].tick, sender[w].to) /\ Disrupt
       ELSE UNCHANGED mails /\ Interrupt
    /\ IF thrown THEN Blame(w)
       ELSE /\ Set(w, [sender[w] EXCEPT !.pc = After(w), !.pending = Rest(w),
                                        !.errors = TRUE])
            /\ UNCHANGED <<tasks, guard>>
    /\ UNCHANGED <<clock, watermark, unread, delivery>>

(* saveDigestSentRecipients *)
Progress(w) == [Row(w) EXCEPT !.recipients = sender[w].sent]

Save(w) ==
    /\ At(w, "saving")
    /\ Write(w, Progress(w))
    /\ Set(w, [sender[w] EXCEPT !.pc = After(w), !.pending = Rest(w)])
    /\ UNCHANGED Elsewhere

(* markDigestDeliverySent, when no recipient was refused.                  *)
\* mutant: or when some were
Mutant_AllSent(w) == TRUE
AllSent(w) == ~sender[w].errors

MarkSent(w) ==
    /\ At(w, "settled") \/ (At(w, "closing") /\ AllSent(w))
    /\ Write(w, [sent |-> TRUE, recipients |-> sender[w].sent])
    /\ Goes(w, "account")
    /\ UNCHANGED Elsewhere

(* markDigestDeliveryFailed *)
MarkFailed(w) ==
    /\ At(w, "blaming") \/ (At(w, "closing") /\ ~AllSent(w))
    /\ Write(w, Progress(w))
    /\ Set(w, [sender[w] EXCEPT !.pc = "account", !.failed = TRUE])
    /\ UNCHANGED Elsewhere

(* A write fails: the account has failed, unless it was to be marked for   *)
(* recipients of earlier attempts, which ends the execution.  The failure  *)
(* to write a failure is logged.                                           *)
WriteFails(w) ==
    /\ Disrupt
    /\ \/ At(w, "settled") /\ Ends(w, FALSE)
       \/ sender[w].pc \in {"saving", "closing"} /\ Blame(w)
       \/ At(w, "blaming") /\ Goes(w, "account") /\ UNCHANGED <<tasks, guard>>
    /\ UNCHANGED <<clock, watermark, unread, delivery, mails>>

-----------------------------------------------------------------------------
(* A process dies, perhaps while a mail is on its way.                     *)
Crash(w, sent) ==
    /\ ~At(w, "idle") \/ firing[w] # 0
    /\ sent => At(w, "sending")
    /\ IF sent THEN Mailed(sender[w].tick, sender[w].to) ELSE UNCHANGED mails
    /\ firing' = [firing EXCEPT ![w] = 0]
    /\ Ends(w, FALSE)
    /\ Disrupt
    /\ UNCHANGED <<now, fired, watermark, unread, delivery>>

(* A user reads the notifications.                                         *)
Read(a) ==
    /\ a \in unread
    /\ unread' = unread \ {a}
    /\ UNCHANGED <<clock, queue, guard, sender, delivery, mails, counts>>

Step(w) ==
    \/ Start(w) \/ Lock(w) \/ Throws(w) \/ Finish(w) \/ Claim(w)
    \/ \E a \in Account : Consider(w, a)
    \/ \E e \in Address : Mail(w, e)
    \/ MailFails(w) \/ Sent(w) \/ Save(w) \/ MarkSent(w) \/ MarkFailed(w)

Next ==
    \/ NextTick
    \/ \E a \in Account : Read(a)
    \/ \E w \in Worker :
        \/ Fire(w) \/ Dispatch(w) \/ DispatchFails(w)
        \/ Step(w) \/ GiveUp(w) \/ Abort(w) \/ LoseLease(w) \/ LoseGuard(w)
        \/ \E sent, thrown \in BOOLEAN : SendFails(w, sent, thrown)
        \/ WriteFails(w)
        \/ \E sent \in BOOLEAN : Crash(w, sent)

Spec == Init /\ [][Next]_vars

(* Executions go on, and a worker that waits for the lock gives up in the  *)
(* end: the executions of a task follow each other for longer than         *)
(* disruptions last.                                                       *)
Fairness ==
    \A w \in Worker :
        /\ WF_vars(Step(w))
        /\ WF_vars(sender[w].aborted /\ GiveUp(w))

FairSpec == Spec /\ Fairness

-----------------------------------------------------------------------------
(* Properties. *)

(* Nobody is mailed the same digest twice for nothing: as long as no guard *)
(* was lost, each mail too many is accounted for by a process that died, a *)
(* receipt that said nothing or a write that failed, one for one.          *)
(* Shutdowns, lost leases, refused mails, lost ticks and any number of     *)
(* replicas cause none.  (An execution that lost its guard and not yet     *)
(* noticed writes over what its successor recorded, and more than one mail *)
(* may be sent again for it.)                                              *)
Repeats ==
    UNION {{<<t, e, n>> : n \in 1..(mails[t][e] - 1)} : t \in Tick, e \in Address}

MailsAccountedFor == losses = 0 => Cardinality(Repeats) <= disruptions

(* What the table says was sent was sent: recorded recipients have their   *)
(* mail, and where the digest is marked as sent all of the account's have. *)
RecordsTrue ==
    \A t \in Tick, a \in Account :
        /\ \A e \in delivery[t][a].recipients : mails[t][e] > 0
        /\ delivery[t][a].sent =>
              \A e \in Address : OwnerOf[e] = a => mails[t][e] > 0

(* A tick that was dispatched ends with every address mailed whose owner   *)
(* did not read the notifications first.                                   *)
EveryoneMailed ==
    \A t \in Tick :
        watermark = t ~> \A e \in Address : mails[t][e] > 0 \/ OwnerOf[e] \notin unread

=============================================================================
