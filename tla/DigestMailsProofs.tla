-------------------------- MODULE DigestMailsProofs --------------------------
(***************************************************************************)
(* Proofs about the notification digests, for any number of replicas,      *)
(* accounts, addresses, ticks and disruptions: types, and that what the    *)
(* table of deliveries says was sent was sent, although rows are written   *)
(* from the memory of executions that may have lost their lock long ago.   *)
(***************************************************************************)
EXTENDS DigestMails, FiniteSetTheorems, TLAPS

Mails == [Tick -> [Address -> Nat]]

Due(a) == {e \in Address : OwnerOf[e] = a}

(* What an execution remembers is true, given the mails m that were sent:  *)
(* who was mailed, and, as long as no recipient was refused, that the      *)
(* others are still on its list.                                           *)
Honest(s, m) ==
    /\ s.pc # "idle" => s.tick \in Tick
    /\ \A e \in s.sent : s.tick \in Tick /\ m[s.tick][e] > 0
    /\ s.pc \in {"mailing", "sending", "saving", "closing"} /\ ~s.errors
       => Due(s.current) \subseteq s.sent \cup s.pending
    /\ s.pc = "saving" => s.to \in s.sent
    /\ s.pc = "closing" => s.pending = {}
    /\ s.pc = "settled" => Due(s.current) \subseteq s.sent

(* What a row says is true.                                                *)
True(d, t, a, m) ==
    /\ \A e \in d.recipients : m[t][e] > 0
    /\ d.sent => \A e \in Due(a) : m[t][e] > 0

(* The tasks are those of past ticks, in order, and only the first has an  *)
(* execution with a lease.                                                 *)
Queue ==
    /\ now \in 0..MaxTick /\ watermark \in 0..now
    /\ firing \in [Worker -> 0..MaxTick] /\ fired \in [Worker -> 0..MaxTick]
    /\ \A w \in Worker : firing[w] <= now
    /\ tasks \in Seq(Tick)
    /\ \A i \in 1..Len(tasks) : tasks[i] <= watermark
    /\ \A i \in 1..(Len(tasks) - 1) : tasks[i] < tasks[i + 1]

Leases ==
    /\ \A w \in Worker : sender[w].lease => tasks # <<>>
    /\ \A v, w \in Worker : sender[v].lease /\ sender[w].lease => v = w

Counts == (0..MaxDisruptions) \X (0..MaxInterruptions) \X (0..MaxDisruptions)

Others ==
    /\ unread \subseteq Account
    /\ guard \in Worker \cup {NoWorker}
    /\ counts \in Counts

Memory ==
    /\ sender \in [Worker -> SenderRecord]
    /\ mails \in Mails
    /\ \A w \in Worker : Honest(sender[w], mails)

Rows ==
    /\ delivery \in [Tick -> [Account -> DeliveryRecord]]
    /\ \A t \in Tick, a \in Account : True(delivery[t][a], t, a, mails)

IInv == Queue /\ Leases /\ Others /\ Memory /\ Rows

-----------------------------------------------------------------------------
(* Facts that the steps share. *)

LEMMA IdleIsHonest ==
    /\ Idle \in SenderRecord /\ ~Idle.lease
    /\ \A m \in Mails : Honest(Idle, m)
<1>1. \E e \in Address : OwnerOf[e] \in Account
  BY DigestMailsAssumption
<1>2. (CHOOSE a \in Account : TRUE) \in Account /\ (CHOOSE e \in Address : TRUE) \in Address
  BY <1>1
<1>3. 0 \in 0..MaxTick
  BY DigestMailsAssumption
<1>. QED
  BY <1>2, <1>3 DEF Idle, SenderRecord, Honest

Grows(m, n) == \A t \in Tick, e \in Address : m[t][e] <= n[t][e]

(* Mails are not unsent.                                                   *)
LEMMA HonestLasts ==
    ASSUME NEW s \in SenderRecord, NEW m \in Mails, NEW n \in Mails,
           Grows(m, n), Honest(s, m)
    PROVE  Honest(s, n)
  BY DEF Honest, Grows, Mails, SenderRecord

LEMMA TrueLasts ==
    ASSUME NEW d \in DeliveryRecord, NEW t \in Tick, NEW a \in Account,
           NEW m \in Mails, NEW n \in Mails, Grows(m, n), True(d, t, a, m)
    PROVE  True(d, t, a, n)
  BY DEF True, Grows, Mails, DeliveryRecord, Due

LEMMA MailedGrows ==
    ASSUME Memory, NEW t \in Tick, NEW e \in Address, Mailed(t, e)
    PROVE  mails' \in Mails /\ Grows(mails, mails') /\ mails'[t][e] > 0
  BY DEF Memory, Mailed, Mails, Grows

(* The execution of w goes on, or ends, with an honest memory.             *)
Follows(w) ==
    \E r \in SenderRecord :
        Set(w, r) /\ Honest(r, mails') /\ (r.lease => sender[w].lease)

LEMMA FollowsMemory ==
    ASSUME Memory, Leases, NEW w \in Worker, Follows(w),
           mails' \in Mails, Grows(mails, mails')
    PROVE  /\ Memory'
           /\ tasks' = tasks => Leases'
<1>1. PICK r \in SenderRecord :
        Set(w, r) /\ Honest(r, mails') /\ (r.lease => sender[w].lease)
  BY DEF Follows
<1>2. sender' \in [Worker -> SenderRecord]
  BY <1>1 DEF Set, Memory
<1>3. ASSUME NEW v \in Worker PROVE Honest(sender'[v], mails')
  <2>1. CASE v = w
    BY <1>1, <2>1 DEF Set, Memory
  <2>2. CASE v # w
    <3>1. sender'[v] = sender[v]
      BY <1>1, <2>2 DEF Set, Memory
    <3>2. sender[v] \in SenderRecord /\ mails \in Mails /\ Honest(sender[v], mails)
      BY DEF Memory
    <3>. QED
      BY <3>1, <3>2, HonestLasts
  <2>. QED
    BY <2>1, <2>2
<1>4. \A v \in Worker : sender'[v].lease => sender[v].lease
  BY <1>1 DEF Set, Memory
<1>. QED
  BY <1>2, <1>3, <1>4 DEF Memory, Leases

LEMMA RowsLast ==
    ASSUME Rows, Memory, UNCHANGED delivery, mails' \in Mails, Grows(mails, mails')
    PROVE  Rows'
<1>1. ASSUME NEW t \in Tick, NEW a \in Account PROVE True(delivery[t][a], t, a, mails')
  <2>1. delivery[t][a] \in DeliveryRecord /\ True(delivery[t][a], t, a, mails)
    BY DEF Rows
  <2>. QED
    BY <2>1, TrueLasts DEF Memory
<1>. QED
  BY <1>1 DEF Rows

LEMMA SameMails == ASSUME Memory, UNCHANGED mails
                   PROVE  mails' \in Mails /\ Grows(mails, mails')
  BY DEF Memory, Grows, Mails

LEMMA Counted ==
    ASSUME Others, \/ Disrupt \/ Interrupt \/ UNCHANGED counts
                   \/ \E w \in Worker : LoseGuard(w)
    PROVE  counts' \in Counts
<1>1. MaxDisruptions \in Nat /\ MaxInterruptions \in Nat
  BY DigestMailsAssumption
<1>2. /\ disruptions \in 0..MaxDisruptions /\ interruptions \in 0..MaxInterruptions
      /\ losses \in 0..MaxDisruptions
  BY DEF Others, counts, Counts
<1>3. /\ disruptions' \in 0..MaxDisruptions /\ interruptions' \in 0..MaxInterruptions
      /\ losses' \in 0..MaxDisruptions
  BY <1>1, <1>2 DEF Disrupt, Interrupt, LoseGuard, counts
<1>. QED
  BY <1>3 DEF counts, Counts

(* An execution that ends and leaves its task.                             *)
LEMMA EndFollows ==
    ASSUME Others, NEW w \in Worker, Ends(w, FALSE), mails' \in Mails
    PROVE  /\ Follows(w) /\ tasks' = tasks
           /\ guard' \in Worker \cup {NoWorker}
  BY IdleIsHonest DEF Ends, Follows, Others

(* The catch clause: the account is blamed, or the execution ends.         *)
LEMMA BlameFollows ==
    ASSUME Others, Memory, NEW w \in Worker, Blame(w),
           sender[w].pc # "idle", mails' \in Mails, Grows(mails, mails')
    PROVE  /\ Follows(w) /\ tasks' = tasks
           /\ guard' \in Worker \cup {NoWorker}
<1>1. CASE sender[w].aborted
  BY <1>1, EndFollows DEF Blame
<1>2. CASE ~sender[w].aborted
  <2>. DEFINE r == [sender[w] EXCEPT !.pc = "blaming", !.failed = TRUE]
  <2>1. sender[w] \in SenderRecord /\ Honest(sender[w], mails')
    BY HonestLasts DEF Memory
  <2>2. r \in SenderRecord /\ Honest(r, mails') /\ r.lease = sender[w].lease
    BY <2>1 DEF SenderRecord, Honest
  <2>3. Set(w, r) /\ UNCHANGED <<tasks, guard>>
    BY <1>2 DEF Blame
  <2>. QED
    BY <2>2, <2>3 DEF Follows, Others
<1>. QED
  BY <1>1, <1>2

-----------------------------------------------------------------------------
(* Steps of executions that neither send a mail nor write a row.           *)

Quiet(w) ==
    \/ Abort(w) \/ LoseLease(w) \/ Lock(w) \/ GiveUp(w) \/ Throws(w)
    \/ \E a \in Account : Consider(w, a)
    \/ Claim(w)
    \/ \E e \in Address : Mail(w, e)
    \/ MailFails(w) \/ WriteFails(w)

LEMMA QuietSteps ==
    ASSUME IInv, NEW w \in Worker, Quiet(w)
    PROVE  /\ Follows(w) /\ UNCHANGED <<clock, watermark, tasks, delivery, mails>>
           /\ Others'
<1>. DEFINE s == sender[w]
<1>0. /\ s \in SenderRecord /\ Honest(s, mails) /\ mails \in Mails
      /\ Memory /\ Others
  BY DEF IInv, Memory
<1>. HIDE DEF s
<1>1. CASE Abort(w)
  <2>. DEFINE r == [s EXCEPT !.aborted = TRUE]
  <2>1. r \in SenderRecord /\ Honest(r, mails) /\ r.lease = s.lease
    BY <1>0 DEF SenderRecord, Honest
  <2>2. Set(w, r) /\ UNCHANGED <<clock, watermark, tasks, delivery, mails>>
    BY <1>1 DEF Abort, s, queue
  <2>3. Others'
    BY <1>1, <1>0, Counted DEF Abort, Others
  <2>. QED
    BY <2>1, <2>2, <2>3 DEF Follows, s
<1>2. CASE LoseLease(w)
  <2>. DEFINE r == [s EXCEPT !.lease = FALSE]
  <2>1. r \in SenderRecord /\ Honest(r, mails) /\ ~r.lease
    BY <1>0 DEF SenderRecord, Honest
  <2>2. Set(w, r) /\ UNCHANGED <<clock, watermark, tasks, delivery, mails>>
    BY <1>2 DEF LoseLease, s, queue
  <2>3. Others'
    BY <1>2, <1>0, Counted DEF LoseLease, Others
  <2>. QED
    BY <2>1, <2>2, <2>3 DEF Follows, s
<1>3. CASE Lock(w)
  <2>. DEFINE r == [s EXCEPT !.pc = "account", !.todo = Account]
  <2>1. r \in SenderRecord /\ Honest(r, mails) /\ r.lease = s.lease
    BY <1>0, <1>3 DEF SenderRecord, Honest, Lock, At, s
  <2>2. Set(w, r) /\ UNCHANGED <<clock, watermark, tasks, delivery, mails>>
    BY <1>3 DEF Lock, s, queue
  <2>3. Others'
    BY <1>3, <1>0 DEF Lock, Others, counts
  <2>. QED
    BY <2>1, <2>2, <2>3 DEF Follows, s
<1>4. CASE GiveUp(w) \/ Throws(w)
  <2>1. Ends(w, FALSE) /\ UNCHANGED <<clock, watermark, delivery, mails, unread>>
    BY <1>4 DEF GiveUp, Throws
  <2>2. counts' \in Counts
    BY <1>4, <1>0, Counted DEF GiveUp, Throws
  <2>3. Follows(w) /\ tasks' = tasks /\ guard' \in Worker \cup {NoWorker}
    BY <2>1, <1>0, EndFollows
  <2>. QED
    BY <2>1, <2>2, <2>3, <1>0 DEF Others
<1>5. ASSUME NEW a \in Account, Consider(w, a)
      PROVE  /\ Follows(w) /\ UNCHANGED <<clock, watermark, tasks, delivery, mails>>
             /\ Others'
  <2>. DEFINE r == [s EXCEPT !.pc = IF a \in unread THEN "claiming" ELSE "account",
                             !.todo = @ \ {a}, !.current = a,
                             !.pending = {}, !.sent = {}, !.errors = FALSE]
  <2>1. r \in SenderRecord /\ Honest(r, mails) /\ r.lease = s.lease
    BY <1>0, <1>5 DEF SenderRecord, Honest, Consider, At, s
  <2>2. Set(w, r) /\ UNCHANGED <<clock, watermark, tasks, delivery, mails>>
    BY <1>5 DEF Consider, s, queue, Elsewhere
  <2>3. Others'
    BY <1>5, <1>0 DEF Consider, Others, counts, Elsewhere
  <2>. QED
    BY <2>1, <2>2, <2>3 DEF Follows, s
<1>6. CASE Claim(w)
  <2>. DEFINE pending == Due(s.current) \ Recorded(w)
              r == IF Row(w).sent THEN [s EXCEPT !.pc = "account"]
                   ELSE [s EXCEPT !.pc = IF pending = {} THEN "settled" ELSE "mailing",
                                  !.pending = pending, !.sent = Recorded(w)]
  <2>1. s.pc = "claiming" /\ s.tick \in Tick /\ s.current \in Account
    BY <1>6, <1>0 DEF Claim, At, s, Honest, SenderRecord
  <2>2. Recorded(w) \subseteq Address /\ \A e \in Recorded(w) : mails[s.tick][e] > 0
    BY <2>1 DEF Recorded, Row, IInv, Rows, True, DeliveryRecord, s
  <2>3. r \in SenderRecord /\ Honest(r, mails) /\ r.lease = s.lease
    <3>1. CASE Row(w).sent
      BY <1>0, <2>1, <3>1 DEF SenderRecord, Honest
    <3>2. CASE ~Row(w).sent
      <4>1. Due(s.current) \subseteq Recorded(w) \cup pending
        OBVIOUS
      <4>2. pending \subseteq Address
        BY DEF Due
      <4>. HIDE DEF pending
      <4>3. pending = {} => r = [s EXCEPT !.pc = "settled", !.pending = pending,
                                          !.sent = Recorded(w)]
        BY <3>2
      <4>4. pending # {} => r = [s EXCEPT !.pc = "mailing", !.pending = pending,
                                          !.sent = Recorded(w)]
        BY <3>2
      <4>. QED
        BY <1>0, <2>1, <2>2, <4>1, <4>2, <4>3, <4>4 DEF SenderRecord, Honest
    <3>. QED
      BY <3>1, <3>2
  <2>4. Set(w, r) /\ UNCHANGED <<clock, watermark, tasks, delivery, mails>>
    BY <1>6 DEF Claim, s, queue, Elsewhere, Due, Goes
  <2>5. Others'
    BY <1>6, <1>0 DEF Claim, Others, counts, Elsewhere
  <2>. QED
    BY <2>3, <2>4, <2>5 DEF Follows, s
<1>7. ASSUME NEW e \in Address, Mail(w, e)
      PROVE  /\ Follows(w) /\ UNCHANGED <<clock, watermark, tasks, delivery, mails>>
             /\ Others'
  <2>. DEFINE r == [s EXCEPT !.pc = "sending", !.to = e]
  <2>1. r \in SenderRecord /\ Honest(r, mails) /\ r.lease = s.lease
    BY <1>0, <1>7 DEF SenderRecord, Honest, Mail, At, s
  <2>2. Set(w, r) /\ UNCHANGED <<clock, watermark, tasks, delivery, mails>>
    BY <1>7 DEF Mail, s, queue, Elsewhere
  <2>3. Others'
    BY <1>7, <1>0 DEF Mail, Others, counts, Elsewhere
  <2>. QED
    BY <2>1, <2>2, <2>3 DEF Follows, s
<1>8. CASE MailFails(w)
  <2>1. Blame(w) /\ s.pc = "mailing" /\ UNCHANGED <<clock, watermark, delivery, mails, unread, counts>>
    BY <1>8 DEF MailFails, At, s
  <2>2. Follows(w) /\ tasks' = tasks /\ guard' \in Worker \cup {NoWorker}
    BY <2>1, <1>0, BlameFollows, SameMails DEF s
  <2>. QED
    BY <2>1, <2>2, <1>0 DEF Others, counts
<1>9. CASE WriteFails(w)
  <2>1. /\ UNCHANGED <<clock, watermark, delivery, mails, unread>>
        /\ counts' \in Counts
    BY <1>9, <1>0, Counted DEF WriteFails
  <2>2. Follows(w) /\ tasks' = tasks /\ guard' \in Worker \cup {NoWorker}
    <3>1. CASE At(w, "settled") /\ Ends(w, FALSE)
      BY <3>1, <2>1, <1>0, EndFollows
    <3>2. CASE sender[w].pc \in {"saving", "closing"} /\ Blame(w)
      BY <3>2, <2>1, <1>0, BlameFollows, SameMails
    <3>3. CASE At(w, "blaming") /\ Goes(w, "account") /\ UNCHANGED <<tasks, guard>>
      <4>. DEFINE r == [s EXCEPT !.pc = "account"]
      <4>1. r \in SenderRecord /\ Honest(r, mails) /\ r.lease = s.lease
        BY <1>0, <3>3 DEF SenderRecord, Honest, At, s
      <4>. QED
        BY <4>1, <3>3, <2>1, <1>0 DEF Goes, Follows, s, Others
    <3>. QED
      BY <1>9, <3>1, <3>2, <3>3 DEF WriteFails
  <2>. QED
    BY <2>1, <2>2, <1>0 DEF Others
<1>. QED
  BY <1>1, <1>2, <1>3, <1>4, <1>5, <1>6, <1>7, <1>8, <1>9 DEF Quiet

LEMMA QuietInv == ASSUME IInv, NEW w \in Worker, Quiet(w) PROVE IInv'
<1>1. /\ Follows(w) /\ UNCHANGED <<clock, watermark, tasks, delivery, mails>>
      /\ Others'
  BY QuietSteps
<1>2. mails' \in Mails /\ Grows(mails, mails')
  BY <1>1, SameMails DEF IInv
<1>3. Memory' /\ Leases'
  BY <1>1, <1>2, FollowsMemory DEF IInv
<1>4. Rows'
  BY <1>1, <1>2, RowsLast DEF IInv
<1>5. Queue'
  BY <1>1 DEF IInv, Queue, clock
<1>. QED
  BY <1>1, <1>3, <1>4, <1>5 DEF IInv

-----------------------------------------------------------------------------
(* Steps that send a mail.                                                 *)

LEMMA SentInv == ASSUME IInv, NEW w \in Worker, Sent(w) PROVE IInv'
<1>. DEFINE s == sender[w]
            r == [s EXCEPT !.pc = "saving", !.sent = @ \cup {s.to}]
<1>1. /\ s \in SenderRecord /\ Honest(s, mails) /\ mails \in Mails
      /\ s.pc = "sending"
  BY DEF IInv, Memory, Sent, At
<1>2. s.tick \in Tick /\ s.to \in Address
  BY <1>1 DEF Honest, SenderRecord
<1>3. mails' \in Mails /\ Grows(mails, mails') /\ mails'[s.tick][s.to] > 0
  BY <1>2, MailedGrows DEF IInv, Sent
<1>4. Honest(s, mails')
  BY <1>1, <1>3, HonestLasts
<1>5. r \in SenderRecord /\ Honest(r, mails') /\ r.lease = s.lease
  BY <1>1, <1>2, <1>3, <1>4 DEF SenderRecord, Honest
<1>6. Set(w, r) /\ UNCHANGED <<clock, queue, unread, guard, delivery, counts>>
  BY DEF Sent
<1>7. Follows(w)
  BY <1>5, <1>6 DEF Follows
<1>8. Memory' /\ Leases'
  BY <1>3, <1>6, <1>7, FollowsMemory DEF IInv, queue
<1>9. Rows'
  BY <1>3, <1>6, RowsLast DEF IInv
<1>10. Queue' /\ Others'
  BY <1>6 DEF IInv, Queue, Others, clock, queue, counts
<1>. QED
  BY <1>8, <1>9, <1>10 DEF IInv

LEMMA SendFailsInv ==
    ASSUME IInv, NEW w \in Worker, NEW sent \in BOOLEAN, NEW thrown \in BOOLEAN,
           SendFails(w, sent, thrown)
    PROVE  IInv'
<1>. DEFINE s == sender[w]
            r == [s EXCEPT !.pc = After(w), !.pending = Rest(w), !.errors = TRUE]
<1>1. /\ s \in SenderRecord /\ Honest(s, mails) /\ mails \in Mails
      /\ s.pc = "sending"
  BY DEF IInv, Memory, SendFails, At
<1>2. s.tick \in Tick /\ s.to \in Address
  BY <1>1 DEF Honest, SenderRecord
<1>3. mails' \in Mails /\ Grows(mails, mails')
  <2>1. CASE sent
    BY <1>2, <2>1, MailedGrows DEF IInv, SendFails
  <2>2. CASE ~sent
    BY <2>2, SameMails DEF IInv, SendFails
  <2>. QED
    BY <2>1, <2>2
<1>4. Honest(s, mails')
  BY <1>1, <1>3, HonestLasts
<1>5. counts' \in Counts
  BY Counted DEF IInv, SendFails
<1>6. Follows(w) /\ tasks' = tasks /\ guard' \in Worker \cup {NoWorker}
  <2>1. CASE thrown
    BY <1>1, <1>3, <2>1, BlameFollows DEF IInv, SendFails
  <2>2. CASE ~thrown
    <3>1. Rest(w) \subseteq Address /\ (After(w) = "closing" => Rest(w) = {})
          /\ After(w) \in {"closing", "mailing"}
      BY <1>1 DEF Rest, After, SenderRecord
    <3>2. r \in SenderRecord /\ Honest(r, mails') /\ r.lease = s.lease
      BY <1>1, <1>2, <1>4, <3>1 DEF SenderRecord, Honest
    <3>3. Set(w, r) /\ UNCHANGED <<tasks, guard>>
      BY <2>2 DEF SendFails
    <3>. QED
      BY <3>2, <3>3 DEF Follows, IInv, Others
  <2>. QED
    BY <2>1, <2>2
<1>7. UNCHANGED <<clock, watermark, unread, delivery>>
  BY DEF SendFails
<1>8. Memory' /\ Leases'
  BY <1>3, <1>6, FollowsMemory DEF IInv
<1>9. Rows'
  BY <1>3, <1>7, RowsLast DEF IInv
<1>10. Queue' /\ Others'
  BY <1>5, <1>6, <1>7 DEF IInv, Queue, Others, clock
<1>. QED
  BY <1>8, <1>9, <1>10 DEF IInv

LEMMA CrashInv ==
    ASSUME IInv, NEW w \in Worker, NEW sent \in BOOLEAN, Crash(w, sent)
    PROVE  IInv'
<1>. DEFINE s == sender[w]
<1>1. mails' \in Mails /\ Grows(mails, mails')
  <2>1. CASE sent
    <3>1. s \in SenderRecord /\ Honest(s, mails) /\ s.pc = "sending"
      BY <2>1 DEF IInv, Memory, Crash, At
    <3>2. s.tick \in Tick /\ s.to \in Address
      BY <3>1 DEF Honest, SenderRecord
    <3>. QED
      BY <2>1, <3>2, MailedGrows DEF IInv, Crash
  <2>2. CASE ~sent
    BY <2>2, SameMails DEF IInv, Crash
  <2>. QED
    BY <2>1, <2>2
<1>2. Follows(w) /\ tasks' = tasks /\ guard' \in Worker \cup {NoWorker}
  BY <1>1, EndFollows DEF IInv, Crash
<1>3. UNCHANGED <<now, fired, watermark, unread, delivery>>
      /\ firing' = [firing EXCEPT ![w] = 0]
  BY DEF Crash
<1>4. Memory' /\ Leases'
  BY <1>1, <1>2, FollowsMemory DEF IInv
<1>5. Rows'
  BY <1>1, <1>3, RowsLast DEF IInv
<1>6. Others'
  BY <1>2, <1>3, Counted DEF IInv, Others, Crash
<1>7. Queue'
  <2>1. firing' \in [Worker -> 0..MaxTick] /\ \A v \in Worker : firing'[v] <= now
    BY <1>3, DigestMailsAssumption DEF IInv, Queue
  <2>. QED
    BY <1>2, <1>3, <2>1 DEF IInv, Queue
<1>. QED
  BY <1>4, <1>5, <1>6, <1>7 DEF IInv

-----------------------------------------------------------------------------
(* Steps that write a row from an honest memory.                           *)

LEMMA WriteTrue ==
    ASSUME IInv, NEW w \in Worker, NEW d \in DeliveryRecord,
           sender[w].tick \in Tick,
           True(d, sender[w].tick, sender[w].current, mails),
           Write(w, d), UNCHANGED mails
    PROVE  Rows'
<1>1. sender[w].current \in Account
  BY DEF IInv, Memory, SenderRecord
<1>2. delivery' \in [Tick -> [Account -> DeliveryRecord]]
  BY <1>1 DEF IInv, Rows, Write
<1>3. ASSUME NEW t \in Tick, NEW a \in Account PROVE True(delivery'[t][a], t, a, mails)
  <2>1. CASE t = sender[w].tick /\ a = sender[w].current
    BY <1>1, <2>1 DEF IInv, Rows, Write
  <2>2. CASE ~(t = sender[w].tick /\ a = sender[w].current)
    BY <1>1, <2>2 DEF IInv, Rows, Write
  <2>. QED
    BY <2>1, <2>2
<1>. QED
  BY <1>2, <1>3 DEF Rows

LEMMA WritesInv ==
    ASSUME IInv, NEW w \in Worker, Save(w) \/ MarkSent(w) \/ MarkFailed(w)
    PROVE  IInv'
<1>. DEFINE s == sender[w]
<1>1. /\ s \in SenderRecord /\ Honest(s, mails) /\ mails \in Mails
      /\ s.tick \in Tick /\ s.current \in Account
  BY DEF IInv, Memory, Save, MarkSent, MarkFailed, At, Honest, SenderRecord
<1>2. UNCHANGED <<clock, queue, unread, guard, mails, counts>>
  BY DEF Save, MarkSent, MarkFailed, Elsewhere
<1>3. /\ Progress(w) \in DeliveryRecord
      /\ True(Progress(w), s.tick, s.current, mails)
  <2>1. /\ Row(w) \in DeliveryRecord
        /\ True(Row(w), s.tick, s.current, mails)
    BY <1>1 DEF IInv, Rows, Row
  <2>2. s.sent \subseteq Address /\ \A e \in s.sent : mails[s.tick][e] > 0
    BY <1>1 DEF SenderRecord, Honest
  <2>. QED
    BY <2>1, <2>2 DEF Progress, DeliveryRecord, True
<1>4. Follows(w) /\ Rows'
  <2>1. CASE Save(w)
    <3>. DEFINE r == [s EXCEPT !.pc = After(w), !.pending = Rest(w)]
    <3>1. s.pc = "saving" /\ Set(w, r) /\ Write(w, Progress(w))
      BY <2>1 DEF Save, At
    <3>2. Rest(w) = s.pending \ {s.to} /\ (After(w) = "closing" => Rest(w) = {})
          /\ After(w) \in {"closing", "mailing"}
      BY DEF Rest, After
    <3>3. r \in SenderRecord /\ Honest(r, mails) /\ r.lease = s.lease
      BY <1>1, <3>1, <3>2 DEF SenderRecord, Honest
    <3>. QED
      BY <1>1, <1>2, <1>3, <3>1, <3>3, WriteTrue DEF Follows
  <2>2. CASE MarkSent(w)
    <3>. DEFINE r == [s EXCEPT !.pc = "account"]
                d == [sent |-> TRUE, recipients |-> s.sent]
    <3>1. Set(w, r) /\ Write(w, d) /\ s.pc \in {"settled", "closing"}
          /\ (s.pc = "closing" => ~s.errors)
      BY <2>2 DEF MarkSent, At, AllSent, Goes
    <3>2. Due(s.current) \subseteq s.sent
      BY <1>1, <3>1 DEF Honest
    <3>3. d \in DeliveryRecord /\ True(d, s.tick, s.current, mails)
      BY <1>1, <3>2 DEF DeliveryRecord, True, SenderRecord, Honest
    <3>4. r \in SenderRecord /\ Honest(r, mails) /\ r.lease = s.lease
      BY <1>1 DEF SenderRecord, Honest
    <3>. QED
      BY <1>1, <1>2, <3>1, <3>3, <3>4, WriteTrue DEF Follows
  <2>3. CASE MarkFailed(w)
    <3>. DEFINE r == [s EXCEPT !.pc = "account", !.failed = TRUE]
    <3>1. Set(w, r) /\ Write(w, Progress(w))
      BY <2>3 DEF MarkFailed
    <3>2. r \in SenderRecord /\ Honest(r, mails) /\ r.lease = s.lease
      BY <1>1 DEF SenderRecord, Honest
    <3>. QED
      BY <1>1, <1>2, <1>3, <3>1, <3>2, WriteTrue DEF Follows
  <2>. QED
    BY <2>1, <2>2, <2>3
<1>5. Memory' /\ Leases'
  BY <1>2, <1>4, SameMails, FollowsMemory DEF IInv, queue
<1>6. Queue' /\ Others'
  BY <1>2 DEF IInv, Queue, Others, clock, queue, counts
<1>. QED
  BY <1>4, <1>5, <1>6 DEF IInv

-----------------------------------------------------------------------------
(* Steps of the task queue.                                                *)

LEMMA StartInv == ASSUME IInv, NEW w \in Worker, Start(w) PROVE IInv'
<1>. DEFINE r == [Idle EXCEPT !.pc = "waiting", !.tick = Head(tasks), !.lease = TRUE]
<1>1. /\ Set(w, r) /\ tasks # <<>> /\ \A v \in Worker : ~sender[v].lease
      /\ UNCHANGED <<clock, queue, unread, guard, mails, counts, delivery>>
  BY DEF Start, Elsewhere
<1>2. Head(tasks) \in Tick
  BY <1>1 DEF IInv, Queue
<1>3. r \in SenderRecord /\ Honest(r, mails)
  <2>1. Tick \subseteq 0..MaxTick
    BY DigestMailsAssumption DEF Tick
  <2>2. Idle \in SenderRecord /\ Idle.sent = {}
    BY IdleIsHonest DEF Idle
  <2>. QED
    BY <1>2, <2>1, <2>2 DEF SenderRecord, Honest
<1>4. Memory'
  <2>1. sender' \in [Worker -> SenderRecord]
    BY <1>1, <1>3 DEF Set, IInv, Memory
  <2>2. ASSUME NEW v \in Worker PROVE Honest(sender'[v], mails')
    BY <1>1, <1>3 DEF Set, IInv, Memory
  <2>. QED
    BY <1>1, <2>1, <2>2 DEF IInv, Memory
<1>5. Leases'
  <2>1. ASSUME NEW v \in Worker, sender'[v].lease PROVE v = w
    BY <1>1, <2>1 DEF Set, IInv, Memory
  <2>. QED
    BY <1>1, <2>1 DEF Leases, queue
<1>6. Rows'
  BY <1>1, SameMails, RowsLast DEF IInv
<1>7. Queue' /\ Others'
  BY <1>1 DEF IInv, Queue, Others, clock, queue, counts
<1>. QED
  BY <1>4, <1>5, <1>6, <1>7 DEF IInv

(* The first of the tasks goes.                                            *)
LEMMA TailOfQueue ==
    ASSUME Queue, tasks # <<>>, tasks' = Tail(tasks), UNCHANGED <<clock, watermark>>
    PROVE  Queue'
<1>1. /\ tasks' \in Seq(Tick) /\ Len(tasks') = Len(tasks) - 1
      /\ Len(tasks) \in Nat
      /\ \A i \in 1..Len(tasks') : tasks'[i] = tasks[i + 1]
  BY DEF Queue
<1>2. \A i \in 1..Len(tasks') : tasks'[i] <= watermark
  <2>. TAKE i \in 1..Len(tasks')
  <2>1. i + 1 \in 1..Len(tasks)
    BY <1>1
  <2>. QED
    BY <1>1, <2>1 DEF Queue
<1>3. \A i \in 1..(Len(tasks') - 1) : tasks'[i] < tasks'[i + 1]
  <2>. TAKE i \in 1..(Len(tasks') - 1)
  <2>1. i \in 1..Len(tasks') /\ i + 1 \in 1..Len(tasks') /\ i + 1 \in 1..(Len(tasks) - 1)
    BY <1>1
  <2>2. tasks'[i] = tasks[i + 1] /\ tasks'[i + 1] = tasks[(i + 1) + 1]
    BY <1>1, <2>1
  <2>. QED
    BY <2>1, <2>2 DEF Queue
<1>. QED
  BY <1>1, <1>2, <1>3 DEF Queue, clock

LEMMA FinishInv == ASSUME IInv, NEW w \in Worker, Finish(w) PROVE IInv'
<1>1. /\ Ends(w, ~sender[w].failed)
      /\ UNCHANGED <<clock, watermark, unread, delivery, mails, counts>>
  BY DEF Finish
<1>2. /\ Set(w, Idle) /\ guard' \in Worker \cup {NoWorker}
      /\ tasks' = tasks \/ (sender[w].lease /\ tasks' = Tail(tasks))
  BY <1>1 DEF Ends, IInv, Others
<1>3. mails' \in Mails /\ Grows(mails, mails')
  BY <1>1, SameMails DEF IInv
<1>4. Follows(w)
  BY <1>2, <1>3, IdleIsHonest DEF Follows
<1>5. Memory'
  BY <1>3, <1>4, FollowsMemory DEF IInv
<1>6. Rows'
  BY <1>1, <1>3, RowsLast DEF IInv
<1>7. Others'
  BY <1>1, <1>2 DEF IInv, Others, counts
<1>8. Leases' /\ Queue'
  <2>1. CASE tasks' = tasks
    <3>1. Leases'
      BY <1>3, <1>4, <2>1, FollowsMemory DEF IInv
    <3>2. Queue'
      BY <1>1, <2>1 DEF IInv, Queue, clock
    <3>. QED
      BY <3>1, <3>2
  <2>2. CASE sender[w].lease /\ tasks' = Tail(tasks)
    <3>1. tasks # <<>>
      BY <2>2 DEF IInv, Leases
    <3>2. Queue'
      BY <1>1, <2>2, <3>1, TailOfQueue DEF IInv
    <3>3. ASSUME NEW v \in Worker PROVE ~sender'[v].lease
      <4>1. CASE v = w
        BY <1>2, <4>1, IdleIsHonest DEF Set, IInv, Memory
      <4>2. CASE v # w
        BY <1>2, <2>2, <4>2 DEF Set, IInv, Memory, Leases
      <4>. QED
        BY <4>1, <4>2
    <3>. QED
      BY <3>2, <3>3 DEF Leases
  <2>. QED
    BY <1>2, <2>1, <2>2
<1>. QED
  BY <1>5, <1>6, <1>7, <1>8 DEF IInv

LEMMA DispatchQueue ==
    ASSUME Queue, NEW w \in Worker, Dispatch(w), Newer(firing[w])
    PROVE  Queue'
<1>. DEFINE t == firing[w]
<1>1. /\ t \in Tick /\ t <= now /\ watermark < t
      /\ watermark' = t /\ tasks' = Append(tasks, t)
      /\ firing' = [firing EXCEPT ![w] = 0] /\ UNCHANGED <<now, fired>>
  BY DigestMailsAssumption DEF Queue, Dispatch, Newer, Tick
<1>2. /\ tasks' \in Seq(Tick) /\ Len(tasks') = Len(tasks) + 1 /\ Len(tasks) \in Nat
      /\ \A i \in 1..Len(tasks) : tasks'[i] = tasks[i]
      /\ tasks'[Len(tasks) + 1] = t
  BY <1>1 DEF Queue
<1>3. \A i \in 1..Len(tasks) : tasks[i] \in Tick /\ tasks[i] <= watermark
  BY DEF Queue
<1>4. watermark \in 0..now /\ now \in 0..MaxTick /\ MaxTick \in Nat
  BY DigestMailsAssumption DEF Queue
<1>5. \A i \in 1..Len(tasks') : tasks'[i] <= watermark'
  <2>. TAKE i \in 1..Len(tasks')
  <2>1. CASE i = Len(tasks) + 1
    BY <1>1, <1>2, <1>4, <2>1 DEF Tick
  <2>2. CASE i \in 1..Len(tasks)
    BY <1>1, <1>2, <1>3, <1>4, <2>2 DEF Tick
  <2>. QED
    BY <1>2, <2>1, <2>2
<1>6. \A i \in 1..(Len(tasks') - 1) : tasks'[i] < tasks'[i + 1]
  <2>. TAKE i \in 1..(Len(tasks') - 1)
  <2>1. CASE i = Len(tasks)
    <3>1. tasks'[i] = tasks[i] /\ tasks[i] <= watermark /\ tasks[i] \in Tick
      BY <1>2, <1>3, <2>1
    <3>2. tasks'[i + 1] = t
      BY <1>2, <2>1
    <3>. QED
      BY <1>1, <1>4, <3>1, <3>2 DEF Tick
  <2>2. CASE i \in 1..(Len(tasks) - 1)
    <3>1. i \in 1..Len(tasks) /\ i + 1 \in 1..Len(tasks)
      BY <1>2, <2>2
    <3>. QED
      BY <1>2, <2>2, <3>1 DEF Queue
  <2>. QED
    BY <1>2, <2>1, <2>2
<1>7. /\ watermark' \in 0..now'
      /\ firing' \in [Worker -> 0..MaxTick]
      /\ \A v \in Worker : firing'[v] <= now'
  BY <1>1, <1>4 DEF Queue, Tick
<1>. QED
  BY <1>1, <1>2, <1>5, <1>6, <1>7 DEF Queue

(* Steps of the clock, the crons, the readers and the guard's connection.  *)
Around ==
    \/ NextTick
    \/ \E a \in Account : Read(a)
    \/ \E w \in Worker : Fire(w) \/ Dispatch(w) \/ DispatchFails(w) \/ LoseGuard(w)

LEMMA AroundInv == ASSUME IInv, Around PROVE IInv'
<1>1. UNCHANGED <<sender, delivery, mails>>
  BY DEF Around, NextTick, Read, Fire, Dispatch, DispatchFails, LoseGuard
<1>2. Memory' /\ Rows'
  BY <1>1 DEF IInv, Memory, Rows
<1>3. Others'
  <2>1. /\ unread' \subseteq Account /\ guard' \in Worker \cup {NoWorker}
        /\ \/ Disrupt \/ Interrupt \/ UNCHANGED counts
           \/ \E w \in Worker : LoseGuard(w)
    BY DEF IInv, Others, Around, NextTick, Read, Fire, Dispatch, DispatchFails, LoseGuard
  <2>. QED
    BY <2>1, Counted DEF IInv, Others
<1>4. Queue' /\ (tasks # <<>> => tasks' # <<>>)
  <2>1. CASE NextTick
    <3>1. /\ now \in 0..MaxTick /\ MaxTick \in Nat /\ watermark \in 0..now
          /\ firing \in [Worker -> 0..MaxTick]
      BY DigestMailsAssumption DEF IInv, Queue
    <3>2. /\ now' = now + 1 /\ now < MaxTick
          /\ UNCHANGED <<firing, fired, watermark, tasks>>
      BY <2>1 DEF NextTick, queue
    <3>3. /\ now' \in 0..MaxTick /\ watermark' \in 0..now'
          /\ \A v \in Worker : firing'[v] <= now'
      BY <3>1, <3>2 DEF IInv, Queue
    <3>. QED
      BY <3>2, <3>3 DEF IInv, Queue
  <2>2. CASE \E a \in Account : Read(a)
    BY <2>2 DEF IInv, Queue, Read, clock, queue
  <2>3. ASSUME NEW w \in Worker, Fire(w) \/ DispatchFails(w)
        PROVE  Queue' /\ tasks' = tasks
    <3>1. /\ now \in 0..MaxTick /\ MaxTick \in Nat
          /\ firing \in [Worker -> 0..MaxTick] /\ fired \in [Worker -> 0..MaxTick]
          /\ \A v \in Worker : firing[v] <= now
      BY DigestMailsAssumption DEF IInv, Queue
    <3>2. /\ firing' \in [Worker -> 0..MaxTick] /\ fired' \in [Worker -> 0..MaxTick]
          /\ \A v \in Worker : firing'[v] <= now
      <4>1. CASE Fire(w)
        <5>1. /\ firing' = [firing EXCEPT ![w] = now]
              /\ fired' = [fired EXCEPT ![w] = now]
          BY <4>1 DEF Fire
        <5>. QED
          BY <3>1, <5>1
      <4>2. CASE DispatchFails(w)
        <5>1. firing' = [firing EXCEPT ![w] = 0] /\ fired' = fired
          BY <4>2 DEF DispatchFails
        <5>. QED
          BY <3>1, <5>1
      <4>. QED
        BY <2>3, <4>1, <4>2
    <3>3. UNCHANGED <<now, watermark, tasks>>
      BY <2>3 DEF Fire, DispatchFails, queue
    <3>. QED
      BY <3>2, <3>3 DEF IInv, Queue
  <2>4. ASSUME NEW w \in Worker, Dispatch(w)
        PROVE  Queue' /\ (tasks # <<>> => tasks' # <<>>)
    <3>1. CASE Newer(firing[w])
      <4>1. Queue' /\ tasks' = Append(tasks, firing[w])
        BY <2>4, <3>1, DispatchQueue DEF IInv, Dispatch
      <4>2. tasks \in Seq(Tick) /\ firing[w] \in Tick
        BY <2>4, DigestMailsAssumption DEF IInv, Queue, Dispatch, Tick
      <4>. QED
        BY <4>1, <4>2
    <3>2. CASE ~Newer(firing[w])
      <4>1. UNCHANGED <<now, fired, watermark, tasks>>
            /\ firing' = [firing EXCEPT ![w] = 0]
        BY <2>4, <3>2 DEF Dispatch, queue
      <4>2. firing' \in [Worker -> 0..MaxTick] /\ \A v \in Worker : firing'[v] <= now
        BY <4>1, DigestMailsAssumption DEF IInv, Queue
      <4>. QED
        BY <4>1, <4>2 DEF IInv, Queue
    <3>. QED
      BY <3>1, <3>2
  <2>5. ASSUME NEW w \in Worker, LoseGuard(w) PROVE Queue' /\ tasks' = tasks
    BY <2>5 DEF IInv, Queue, LoseGuard, clock, queue
  <2>. QED
    BY <2>1, <2>2, <2>3, <2>4, <2>5 DEF Around, NextTick, Read, queue
<1>5. Leases'
  BY <1>1, <1>4 DEF IInv, Leases
<1>. QED
  BY <1>2, <1>3, <1>4, <1>5 DEF IInv

-----------------------------------------------------------------------------

LEMMA InitInv == Init => IInv
<1>. SUFFICES ASSUME Init PROVE IInv
  OBVIOUS
<1>1. /\ MaxTick \in Nat /\ MaxDisruptions \in Nat /\ MaxInterruptions \in Nat
      /\ 0 \in 0..MaxTick
  BY DigestMailsAssumption
<1>2. Queue
  BY <1>1 DEF Init, Queue
<1>3. Leases
  BY IdleIsHonest DEF Init, Leases
<1>4. Others
  BY <1>1 DEF Init, Others, counts, Counts
<1>5. mails \in Mails
  BY DEF Init, Mails
<1>6. Memory
  BY <1>5, IdleIsHonest DEF Init, Memory
<1>7. Rows
  BY DEF Init, Rows, NoDelivery, DeliveryRecord, True
<1>. QED
  BY <1>2, <1>3, <1>4, <1>6, <1>7 DEF IInv

LEMMA StutterInv == ASSUME IInv, UNCHANGED vars PROVE IInv'
  BY DEF IInv, Queue, Leases, Others, Memory, Rows, vars, clock, queue, counts

LEMMA Inductive == Spec => []IInv
<1>1. IInv /\ [Next]_vars => IInv'
  <2>. SUFFICES ASSUME IInv, [Next]_vars PROVE IInv'
    OBVIOUS
  <2>1. CASE Around
    BY <2>1, AroundInv
  <2>2. ASSUME NEW w \in Worker, Quiet(w) PROVE IInv'
    BY <2>2, QuietInv
  <2>3. ASSUME NEW w \in Worker, Start(w) \/ Finish(w) PROVE IInv'
    BY <2>3, StartInv, FinishInv
  <2>4. ASSUME NEW w \in Worker, Sent(w) PROVE IInv'
    BY <2>4, SentInv
  <2>5. ASSUME NEW w \in Worker, Save(w) \/ MarkSent(w) \/ MarkFailed(w) PROVE IInv'
    BY <2>5, WritesInv
  <2>6. ASSUME NEW w \in Worker,
               NEW sent \in BOOLEAN, NEW thrown \in BOOLEAN, SendFails(w, sent, thrown)
        PROVE  IInv'
    BY <2>6, SendFailsInv
  <2>7. ASSUME NEW w \in Worker, NEW sent \in BOOLEAN, Crash(w, sent) PROVE IInv'
    BY <2>7, CrashInv
  <2>8. CASE UNCHANGED vars
    BY <2>8, StutterInv
  <2>. QED
    BY <2>1, <2>2, <2>3, <2>4, <2>5, <2>6, <2>7, <2>8
       DEF Next, Step, Around, Quiet
<1>. QED
  BY InitInv, <1>1, PTL DEF Spec

-----------------------------------------------------------------------------

(* Type correctness; in particular the queued tasks are of distinct ticks,  *)
(* in order: a tick enqueues one task, whichever replicas fire it and when. *)
THEOREM DigestTypeCorrect == Spec => []TypeOK
<1>1. IInv => TypeOK
  BY DEF IInv, Queue, Others, counts, Counts, Memory, Rows, TypeOK, Mails
<1>. QED
  BY <1>1, Inductive, PTL

(* What a delivery row says was sent was sent (saveDigestSentRecipients,   *)
(* markDigestDeliverySent), even if it was written by an execution that    *)
(* lost its lock, its lease or its place to another.                       *)
THEOREM DigestRecordsTrue == Spec => []RecordsTrue
<1>1. IInv => RecordsTrue
  BY DEF IInv, Rows, True, Due, RecordsTrue
<1>. QED
  BY <1>1, Inductive, PTL
-----------------------------------------------------------------------------
(* Mails too many.                                                         *)
(*                                                                         *)
(* A mail is paid for by a disruption if it is the second or a later one,  *)
(* or if neither the table nor an execution about to write the table       *)
(* knows of it, so that it will be sent again.                             *)

Remembers(s, t, e) ==
    /\ s.pc \in {"saving", "blaming"}
    /\ s.tick = t /\ s.current = OwnerOf[e] /\ e \in s.sent

Knowledge ==
    {k \in Tick \X Address :
        \/ k[2] \in delivery[k[1]][OwnerOf[k[2]]].recipients
        \/ \E w \in Worker : Remembers(sender[w], k[1], k[2])}

(* The first mail that the holder K knows of is free. *)
CostsOf(m, K) ==
    {c \in Tick \X Address \X (Nat \ {0}) :
        /\ c[3] <= m[c[1]][c[2]]
        /\ <<c[1], c[2]>> \in K => c[3] < m[c[1]][c[2]]}

Costs == CostsOf(mails, Knowledge)

Paid == IsFiniteSet(Costs) /\ Cardinality(Costs) <= disruptions

(* Only the worker that has the guard works.                               *)
Inside(s) == s.pc \notin {"idle", "waiting"}

Alone == \A w \in Worker : Inside(sender[w]) => guard = w

(* It remembers who was mailed according to the row d of its account, and  *)
(* at most one recipient more, and mails nobody it remembers.              *)
Recalls(s, d) ==
    /\ s.pc \in {"mailing", "sending", "closing", "settled"} => s.sent = d.recipients
    /\ s.pc \in {"saving", "blaming"} =>
          d.recipients \subseteq s.sent /\ s.sent \subseteq d.recipients \cup {s.to}
    /\ s.pc \in {"mailing", "sending"} => s.pending \cap s.sent = {}
    /\ s.pc = "sending" => s.to \in s.pending
    /\ s.pc = "saving" => s.to \in s.pending /\ s.pending \cap s.sent \subseteq {s.to}
    /\ s.pc \in {"mailing", "sending", "saving"} => s.pending \subseteq Due(s.current)

Recollection == \A w \in Worker : Recalls(sender[w], Row(w))

GInv == losses = 0 => Alone /\ Recollection /\ Paid

-----------------------------------------------------------------------------
(* The costs of a step.                                                    *)

LEMMA CostsMember ==
    ASSUME NEW m \in Mails, NEW K, NEW x
    PROVE  x \in CostsOf(m, K) <=>
              \E t \in Tick, e \in Address, n \in Nat \ {0} :
                 /\ x = <<t, e, n>> /\ n <= m[t][e]
                 /\ <<t, e>> \in K => n < m[t][e]
<1>1. ASSUME NEW t \in Tick, NEW e \in Address, NEW n \in Nat \ {0}, x = <<t, e, n>>
      PROVE  /\ x \in Tick \X Address \X (Nat \ {0})
             /\ x[1] = t /\ x[2] = e /\ x[3] = n
  BY <1>1
<1>2. ASSUME x \in Tick \X Address \X (Nat \ {0})
      PROVE  /\ x[1] \in Tick /\ x[2] \in Address /\ x[3] \in Nat \ {0}
             /\ x = <<x[1], x[2], x[3]>>
  BY <1>2
<1>3. x \in CostsOf(m, K) <=>
         /\ x \in Tick \X Address \X (Nat \ {0})
         /\ x[3] <= m[x[1]][x[2]]
         /\ <<x[1], x[2]>> \in K => x[3] < m[x[1]][x[2]]
  BY DEF CostsOf
<1>. QED
  BY <1>1, <1>2, <1>3

(* A set with one element more costs one more.                             *)
LEMMA OneMore ==
    ASSUME NEW C, NEW D, NEW x, NEW d \in Nat,
           IsFiniteSet(C), Cardinality(C) <= d, D \subseteq C \cup {x}
    PROVE  IsFiniteSet(D) /\ Cardinality(D) <= d + 1
<1>1. /\ IsFiniteSet(C \cup {x}) /\ Cardinality(C) \in Nat
      /\ Cardinality(C \cup {x}) \in Nat /\ Cardinality(C \cup {x}) <= Cardinality(C) + 1
  BY FS_AddElement, FS_CardinalityType
<1>2. IsFiniteSet(D) /\ Cardinality(D) <= Cardinality(C \cup {x}) /\ Cardinality(D) \in Nat
  BY <1>1, FS_Subset, FS_CardinalityType
<1>. QED
  BY <1>1, <1>2

(* Nothing is mailed, and nothing forgotten.                               *)
LEMMA PaidKept ==
    ASSUME Paid, mails \in Mails, UNCHANGED mails, disruptions \in Nat,
           Knowledge \subseteq Knowledge',
           disruptions' = disruptions
    PROVE  Paid'
<1>1. Costs' \subseteq Costs
  <2>. SUFFICES ASSUME NEW x \in Costs' PROVE x \in Costs
    OBVIOUS
  <2>1. mails' = mails
    OBVIOUS
  <2>2. x \in CostsOf(mails, Knowledge')
    BY <2>1 DEF Costs
  <2>3. PICK t \in Tick, e \in Address, n \in Nat \ {0} :
           /\ x = <<t, e, n>> /\ n <= mails[t][e]
           /\ <<t, e>> \in Knowledge' => n < mails[t][e]
    BY <2>2, CostsMember
  <2>4. <<t, e>> \in Knowledge => n < mails[t][e]
    BY <2>3
  <2>. QED
    BY <2>3, <2>4, CostsMember DEF Costs
<1>2. IsFiniteSet(Costs') /\ Cardinality(Costs') <= Cardinality(Costs)
      /\ Cardinality(Costs) \in Nat /\ Cardinality(Costs') \in Nat
  BY <1>1, FS_Subset, FS_CardinalityType DEF Paid
<1>. QED
  BY <1>2 DEF Paid

(* Someone is mailed whom nobody knew to have been, and this is            *)
(* remembered.                                                             *)
LEMMA PaidSent ==
    ASSUME Paid, mails \in Mails, mails' \in Mails, disruptions \in Nat,
           NEW t \in Tick, NEW e \in Address, Mailed(t, e),
           <<t, e>> \notin Knowledge,
           Knowledge \cup {<<t, e>>} \subseteq Knowledge',
           disruptions' = disruptions
    PROVE  Paid'
<1>1. Costs' \subseteq Costs
  <2>. SUFFICES ASSUME NEW x \in Costs' PROVE x \in Costs
    OBVIOUS
  <2>1. x \in CostsOf(mails', Knowledge')
    BY DEF Costs
  <2>2. PICK u \in Tick, f \in Address, n \in Nat \ {0} :
           /\ x = <<u, f, n>> /\ n <= mails'[u][f]
           /\ <<u, f>> \in Knowledge' => n < mails'[u][f]
    BY <2>1, CostsMember
  <2>3. /\ n <= mails[u][f]
        /\ <<u, f>> \in Knowledge => n < mails[u][f]
    <3>1. mails[u][f] \in Nat /\ mails[t][e] \in Nat
      BY DEF Mails
    <3>2. CASE u = t /\ f = e
      <4>1. mails'[u][f] = mails[t][e] + 1
        BY <3>2 DEF Mailed, Mails
      <4>. QED
        BY <2>2, <3>1, <3>2, <4>1
    <3>3. CASE ~(u = t /\ f = e)
      <4>1. mails'[u][f] = mails[u][f]
        BY <3>3 DEF Mailed, Mails
      <4>. QED
        BY <2>2, <4>1
    <3>. QED
      BY <3>2, <3>3
  <2>. QED
    BY <2>2, <2>3, CostsMember DEF Costs
<1>2. IsFiniteSet(Costs') /\ Cardinality(Costs') <= Cardinality(Costs)
      /\ Cardinality(Costs) \in Nat /\ Cardinality(Costs') \in Nat
  BY <1>1, FS_Subset, FS_CardinalityType DEF Paid
<1>. QED
  BY <1>2 DEF Paid

(* A disruption: one mail is forgotten, or sent and not remembered.        *)
LEMMA PaidOnce ==
    ASSUME Paid, mails \in Mails, mails' \in Mails, disruptions \in Nat,
           NEW t \in Tick, NEW e \in Address,
           \/ UNCHANGED mails /\ Knowledge \ {<<t, e>>} \subseteq Knowledge'
           \/ Mailed(t, e) /\ Knowledge \subseteq Knowledge',
           disruptions' = disruptions + 1
    PROVE  Paid'
<1>0. mails[t][e] \in Nat
  BY DEF Mails
<1>1. PICK z : Costs' \subseteq Costs \cup {z}
  <2>. DEFINE z == IF mails' = mails \/ <<t, e>> \in Knowledge THEN <<t, e, mails[t][e]>>
                   ELSE <<t, e, mails[t][e] + 1>>
  <2>. SUFFICES ASSUME NEW x \in Costs', x # z PROVE x \in Costs
    OBVIOUS
  <2>1. x \in CostsOf(mails', Knowledge')
    BY DEF Costs
  <2>2. PICK u \in Tick, f \in Address, n \in Nat \ {0} :
           /\ x = <<u, f, n>> /\ n <= mails'[u][f]
           /\ <<u, f>> \in Knowledge' => n < mails'[u][f]
    BY <2>1, CostsMember
  <2>3. /\ n <= mails[u][f]
        /\ <<u, f>> \in Knowledge => n < mails[u][f]
    <3>1. mails[u][f] \in Nat /\ mails'[u][f] \in Nat
      BY DEF Mails
    <3>2. CASE u = t /\ f = e
      <4>1. \/ mails' = mails
            \/ mails'[t][e] = mails[t][e] + 1 /\ Knowledge \subseteq Knowledge'
        BY DEF Mailed, Mails
      <4>2. CASE mails' = mails
        <5>1. n # mails[t][e]
          BY <2>2, <3>2, <4>2
        <5>. QED
          BY <2>2, <3>1, <3>2, <4>2, <5>1
      <4>3. CASE mails' # mails /\ <<t, e>> \in Knowledge
        <5>1. n # mails[t][e]
          BY <2>2, <3>2, <4>3
        <5>. QED
          BY <1>0, <2>2, <3>1, <3>2, <4>1, <4>3, <5>1
      <4>4. CASE mails' # mails /\ <<t, e>> \notin Knowledge
        <5>1. n # mails[t][e] + 1
          BY <2>2, <3>2, <4>4
        <5>. QED
          BY <1>0, <2>2, <3>1, <3>2, <4>1, <4>4, <5>1
      <4>. QED
        BY <4>2, <4>3, <4>4
    <3>3. CASE ~(u = t /\ f = e)
      <4>1. mails'[u][f] = mails[u][f]
        BY <3>3 DEF Mailed, Mails
      <4>2. <<u, f>> # <<t, e>>
        BY <3>3
      <4>3. <<u, f>> \in Knowledge => <<u, f>> \in Knowledge'
        BY <4>2
      <4>. QED
        BY <2>2, <4>1, <4>3
    <3>. QED
      BY <3>2, <3>3
  <2>. QED
    BY <2>2, <2>3, CostsMember DEF Costs
<1>2. IsFiniteSet(Costs') /\ Cardinality(Costs') <= disruptions + 1
  BY <1>1, OneMore DEF Paid
<1>. QED
  BY <1>2 DEF Paid

-----------------------------------------------------------------------------
(* Who works, and what it remembers.                                       *)

(* The execution of w goes on with the memory r, or ends; nobody else      *)
(* loses the guard, and rows are written under the guard.                  *)
GoesOn(w, r) ==
    /\ Set(w, r)
    /\ Inside(r) => guard' = w
    /\ \A v \in Worker \ {w} : guard = v => guard' = v
    /\ Inside(sender[w]) \/ UNCHANGED delivery
    /\ Recalls(r, delivery'[r.tick][r.current])

LEMMA Guarded ==
    ASSUME Memory, Alone, Recollection, NEW w \in Worker, NEW r \in SenderRecord,
           GoesOn(w, r)
    PROVE  Alone' /\ Recollection'
<1>1. /\ sender'[w] = r
      /\ \A v \in Worker \ {w} : sender'[v] = sender[v]
  BY DEF GoesOn, Set, Memory
<1>2. Alone'
  BY <1>1 DEF GoesOn, Alone
<1>3. ASSUME NEW v \in Worker
      PROVE  Recalls(sender'[v], delivery'[sender'[v].tick][sender'[v].current])
  <2>1. CASE v = w
    BY <1>1, <2>1 DEF GoesOn
  <2>2. CASE v # w /\ UNCHANGED delivery
    BY <1>1, <2>2 DEF Recollection, Row
  <2>3. CASE v # w /\ Inside(sender[w])
    <3>1. ~Inside(sender[v])
      BY <2>3 DEF Alone
    <3>. QED
      BY <1>1, <2>3, <3>1 DEF Inside, Recalls
  <2>. QED
    BY <2>1, <2>2, <2>3 DEF GoesOn
<1>. QED
  BY <1>2, <1>3 DEF Recollection, Row

(* What w leaves in its memory or in the table is not forgotten.           *)
Leaves(w, r, t, e) ==
    \/ e \in delivery[t][OwnerOf[e]].recipients
    \/ Remembers(sender[w], t, e)
    => \/ e \in delivery'[t][OwnerOf[e]].recipients
       \/ Remembers(r, t, e)

LEMMA KnowledgeLasts ==
    ASSUME Memory, NEW w \in Worker, NEW r \in SenderRecord, Set(w, r), NEW S,
           \A t \in Tick, e \in Address : <<t, e>> \in S \/ Leaves(w, r, t, e)
    PROVE  Knowledge \ S \subseteq Knowledge'
<1>1. /\ sender'[w] = r
      /\ \A v \in Worker \ {w} : sender'[v] = sender[v]
  BY DEF Set, Memory
<1>2. ASSUME NEW t \in Tick, NEW e \in Address, <<t, e>> \notin S,
             \/ e \in delivery[t][OwnerOf[e]].recipients
             \/ \E v \in Worker : Remembers(sender[v], t, e)
      PROVE  \/ e \in delivery'[t][OwnerOf[e]].recipients
             \/ \E v \in Worker : Remembers(sender'[v], t, e)
  <2>1. Leaves(w, r, t, e)
    BY <1>2
  <2>2. CASE e \in delivery[t][OwnerOf[e]].recipients \/ Remembers(sender[w], t, e)
    BY <1>1, <2>1, <2>2 DEF Leaves
  <2>3. ASSUME NEW v \in Worker \ {w}, Remembers(sender[v], t, e)
        PROVE  \E u \in Worker : Remembers(sender'[u], t, e)
    BY <1>1, <2>3
  <2>. QED
    BY <1>2, <2>2, <2>3
<1>. QED
  BY <1>2 DEF Knowledge

(* Steps that cost nothing, and disruptions.                               *)
LEMMA FreeStep ==
    ASSUME IInv, GInv, losses = 0, NEW w \in Worker, NEW r \in SenderRecord,
           GoesOn(w, r), UNCHANGED <<mails, disruptions>>,
           \A t \in Tick, e \in Address : Leaves(w, r, t, e)
    PROVE  GInv'
<1>1. Alone' /\ Recollection'
  BY Guarded DEF GInv, IInv
<1>2. Knowledge \subseteq Knowledge'
  <2>1. Knowledge \ {} \subseteq Knowledge'
    BY KnowledgeLasts DEF IInv, GoesOn
  <2>. QED
    BY <2>1
<1>3. disruptions \in Nat /\ mails \in Mails
  BY DEF IInv, Others, counts, Counts, Memory
<1>4. Paid'
  BY <1>2, <1>3, PaidKept DEF GInv
<1>. QED
  BY <1>1, <1>4 DEF GInv

LEMMA DisruptedStep ==
    ASSUME IInv, IInv', GInv, losses = 0, NEW w \in Worker, NEW r \in SenderRecord,
           GoesOn(w, r), disruptions' = disruptions + 1,
           NEW x \in Tick, NEW f \in Address,
           \/ /\ UNCHANGED mails
              /\ \A t \in Tick, e \in Address :
                    <<t, e>> \in {<<x, f>>} \/ Leaves(w, r, t, e)
           \/ /\ Mailed(x, f)
              /\ \A t \in Tick, e \in Address : Leaves(w, r, t, e)
    PROVE  GInv'
<1>1. Alone' /\ Recollection'
  BY Guarded DEF GInv, IInv
<1>2. disruptions \in Nat /\ mails \in Mails /\ mails' \in Mails
  BY DEF IInv, Others, counts, Counts, Memory
<1>3. \/ UNCHANGED mails /\ Knowledge \ {<<x, f>>} \subseteq Knowledge'
      \/ Mailed(x, f) /\ Knowledge \subseteq Knowledge'
  <2>1. CASE UNCHANGED mails /\ \A t \in Tick, e \in Address :
                                   <<t, e>> \in {<<x, f>>} \/ Leaves(w, r, t, e)
    BY <2>1, KnowledgeLasts DEF IInv, GoesOn
  <2>2. CASE Mailed(x, f) /\ \A t \in Tick, e \in Address : Leaves(w, r, t, e)
    <3>1. Knowledge \ {} \subseteq Knowledge'
      BY <2>2, KnowledgeLasts DEF IInv, GoesOn
    <3>. QED
      BY <2>2, <3>1
  <2>. QED
    BY <2>1, <2>2
<1>4. Paid'
  BY <1>2, <1>3, PaidOnce DEF GInv
<1>. QED
  BY <1>1, <1>4 DEF GInv

(* An execution that ends forgets at most the recipient at hand.           *)
LEMMA EndGoesOn ==
    ASSUME IInv, Recollection, NEW w \in Worker, NEW b \in BOOLEAN, Ends(w, b),
           UNCHANGED delivery
    PROVE  /\ Idle \in SenderRecord /\ GoesOn(w, Idle)
           /\ \A t \in Tick, e \in Address :
                 \/ /\ sender[w].pc \in {"saving", "blaming"}
                    /\ t = sender[w].tick /\ e = sender[w].to
                 \/ Leaves(w, Idle, t, e)
<1>1. Idle \in SenderRecord /\ Idle.pc = "idle"
  BY IdleIsHonest DEF Idle
<1>2. GoesOn(w, Idle)
  BY <1>1 DEF Ends, GoesOn, Inside, Recalls
<1>3. ASSUME NEW t \in Tick, NEW e \in Address, Remembers(sender[w], t, e),
             e \notin delivery[t][OwnerOf[e]].recipients
      PROVE  /\ sender[w].pc \in {"saving", "blaming"}
             /\ t = sender[w].tick /\ e = sender[w].to
  BY <1>3 DEF Remembers, Recollection, Recalls, Row
<1>. QED
  BY <1>1, <1>2, <1>3 DEF Leaves, Remembers

LEMMA BlameGoesOn ==
    ASSUME IInv, Alone, Recollection, NEW w \in Worker, Blame(w), UNCHANGED delivery,
           sender[w].pc \in {"mailing", "sending", "saving", "closing"}
    PROVE  \E r \in SenderRecord :
              /\ GoesOn(w, r)
              /\ \A t \in Tick, e \in Address :
                    \/ /\ sender[w].pc = "saving"
                       /\ t = sender[w].tick /\ e = sender[w].to
                    \/ Leaves(w, r, t, e)
<1>1. CASE sender[w].aborted
  <2>1. Ends(w, FALSE)
    BY <1>1 DEF Blame
  <2>. QED
    BY <2>1, EndGoesOn
<1>2. CASE ~sender[w].aborted
  <2>. DEFINE s == sender[w]
              r == [s EXCEPT !.pc = "blaming", !.failed = TRUE]
  <2>1. s \in SenderRecord /\ Recalls(s, Row(w)) /\ guard = w
    BY DEF IInv, Memory, Recollection, Alone, Inside
  <2>2. /\ r \in SenderRecord
        /\ r.pc = "blaming" /\ r.tick = s.tick /\ r.current = s.current
        /\ r.sent = s.sent /\ r.to = s.to
    BY <2>1 DEF SenderRecord
  <2>3. Set(w, r) /\ UNCHANGED guard
    BY <1>2 DEF Blame
  <2>. HIDE DEF r
  <2>4. GoesOn(w, r)
    BY <2>1, <2>2, <2>3 DEF GoesOn, Recalls, Inside, Row
  <2>5. \A t \in Tick, e \in Address : Leaves(w, r, t, e)
    BY <2>2 DEF Leaves, Remembers
  <2>. QED
    BY <2>2, <2>4, <2>5
<1>. QED
  BY <1>1, <1>2

(* Steps within an execution that send nothing and write nothing.          *)
LEMMA CalmStep ==
    ASSUME IInv, GInv, losses = 0, NEW w \in Worker,
           \/ Start(w) \/ Abort(w) \/ LoseLease(w) \/ Lock(w) \/ GiveUp(w) \/ Throws(w)
           \/ Finish(w) \/ \E a \in Account : Consider(w, a)
           \/ Claim(w) \/ \E e \in Address : Mail(w, e)
    PROVE  GInv'
<1>. DEFINE s == sender[w]
<1>0. /\ s \in SenderRecord /\ Recalls(s, Row(w)) /\ (Inside(s) => guard = w)
      /\ Honest(s, mails)
      /\ Alone /\ Recollection
  BY DEF GInv, IInv, Memory, Recollection, Alone
<1>. DEFINE Calm(r) ==
              /\ r \in SenderRecord /\ GoesOn(w, r)
              /\ \A t \in Tick, e \in Address : Leaves(w, r, t, e)
<1>1. UNCHANGED <<delivery, mails, disruptions>>
  BY DEF Start, Abort, LoseLease, Lock, GiveUp, Throws, Finish, Consider, Claim, Mail,
         Elsewhere, counts, Interrupt
<1>2. SUFFICES \E r : Calm(r)
  BY <1>1, FreeStep
<1>. HIDE DEF Calm
<1>3. CASE Start(w)
  <2>. DEFINE r == [Idle EXCEPT !.pc = "waiting", !.tick = Head(tasks), !.lease = TRUE]
  <2>1. Head(tasks) \in 0..MaxTick
    BY <1>3, DigestMailsAssumption DEF Start, IInv, Queue, Tick
  <2>2. r \in SenderRecord /\ r.pc = "waiting"
    BY <2>1, IdleIsHonest DEF Idle, SenderRecord
  <2>3. Set(w, r) /\ UNCHANGED guard /\ s.pc = "idle"
    BY <1>3 DEF Start, Elsewhere, At
  <2>. HIDE DEF r
  <2>4. GoesOn(w, r)
    BY <1>1, <2>2, <2>3 DEF GoesOn, Inside, Recalls
  <2>. QED
    BY <1>1, <2>2, <2>3, <2>4 DEF Calm, Leaves, Remembers
<1>4. CASE Abort(w) \/ LoseLease(w)
  <2>1. PICK r \in SenderRecord :
           /\ Set(w, r) /\ UNCHANGED guard
           /\ r.pc = s.pc /\ r.tick = s.tick /\ r.current = s.current
           /\ r.sent = s.sent /\ r.to = s.to /\ r.pending = s.pending
    <3>1. [s EXCEPT !.aborted = TRUE] \in SenderRecord
          /\ [s EXCEPT !.lease = FALSE] \in SenderRecord
      BY <1>0 DEF SenderRecord
    <3>. QED
      BY <1>4, <3>1, <1>0 DEF Abort, LoseLease, SenderRecord
  <2>2. GoesOn(w, r)
    BY <1>0, <1>1, <2>1 DEF GoesOn, Inside, Recalls, Row
  <2>. QED
    BY <1>1, <2>1, <2>2 DEF Calm, Leaves, Remembers
<1>5. CASE Lock(w)
  <2>. DEFINE r == [s EXCEPT !.pc = "account", !.todo = Account]
  <2>1. r \in SenderRecord /\ r.pc = "account"
    BY <1>0 DEF SenderRecord
  <2>2. Set(w, r) /\ guard = NoWorker /\ guard' = w /\ s.pc = "waiting"
    BY <1>5 DEF Lock, GuardFree, At
  <2>. HIDE DEF r
  <2>3. GoesOn(w, r)
    BY <1>1, <2>1, <2>2, DigestMailsAssumption DEF GoesOn, Recalls
  <2>. QED
    BY <1>1, <2>1, <2>2, <2>3 DEF Calm, Leaves, Remembers
<1>6. CASE GiveUp(w) \/ Throws(w) \/ Finish(w)
  <2>1. (\E b \in BOOLEAN : Ends(w, b)) /\ s.pc \in {"waiting", "account"}
    BY <1>0, <1>6 DEF GiveUp, Throws, Finish, At, SenderRecord
  <2>. QED
    BY <1>0, <1>1, <2>1, EndGoesOn DEF Calm
<1>7. ASSUME NEW a \in Account, Consider(w, a)
      PROVE  \E r : Calm(r)
  <2>. DEFINE r == [s EXCEPT !.pc = IF a \in unread THEN "claiming" ELSE "account",
                             !.todo = @ \ {a}, !.current = a,
                             !.pending = {}, !.sent = {}, !.errors = FALSE]
  <2>1. r \in SenderRecord /\ r.pc \in {"claiming", "account"}
    BY <1>0 DEF SenderRecord
  <2>2. Set(w, r) /\ UNCHANGED guard /\ s.pc = "account"
    BY <1>7 DEF Consider, At, Elsewhere
  <2>. HIDE DEF r
  <2>3. GoesOn(w, r)
    BY <1>0, <1>1, <2>1, <2>2 DEF GoesOn, Inside, Recalls
  <2>. QED
    BY <1>1, <2>1, <2>2, <2>3 DEF Calm, Leaves, Remembers
<1>8. CASE Claim(w)
  <2>1. s.pc = "claiming" /\ UNCHANGED guard
    BY <1>8 DEF Claim, At, Elsewhere
  <2>2. Row(w).recipients \subseteq Address
    BY <1>0, <2>1 DEF Row, IInv, Rows, DeliveryRecord, Honest, SenderRecord
  <2>3. PICK r \in SenderRecord :
           /\ Set(w, r) /\ r.tick = s.tick /\ r.current = s.current
           /\ \/ r.pc = "account"
              \/ /\ r.pc \in {"settled", "mailing"} /\ r.sent = Row(w).recipients
                 /\ r.pending = Due(s.current) \ Row(w).recipients
    <3>. DEFINE pending == Due(s.current) \ Row(w).recipients
    <3>1. CASE Row(w).sent
      <4>1. [s EXCEPT !.pc = "account"] \in SenderRecord
        BY <1>0 DEF SenderRecord
      <4>. QED
        BY <1>0, <1>8, <3>1, <4>1 DEF Claim, Goes, SenderRecord
    <3>2. CASE ~Row(w).sent
      <4>. DEFINE pc == IF pending = {} THEN "settled" ELSE "mailing"
                  r == [s EXCEPT !.pc = pc, !.pending = pending, !.sent = Row(w).recipients]
      <4>1. Set(w, r)
        BY <1>8, <3>2 DEF Claim, Recorded, Due
      <4>2. pending \subseteq Address /\ pc \in {"settled", "mailing"}
        BY DEF Due
      <4>. HIDE DEF pending, pc
      <4>3. /\ r \in SenderRecord /\ r.tick = s.tick /\ r.current = s.current
            /\ r.pc = pc /\ r.sent = Row(w).recipients /\ r.pending = pending
        BY <1>0, <2>2, <4>2 DEF SenderRecord
      <4>. HIDE DEF r
      <4>4. r.pending = Due(s.current) \ Row(w).recipients
        BY <4>3 DEF pending
      <4>. QED
        BY <4>1, <4>2, <4>3, <4>4
    <3>. QED
      BY <3>1, <3>2
  <2>4. GoesOn(w, r)
    BY <1>0, <1>1, <2>1, <2>3 DEF GoesOn, Inside, Recalls, Row
  <2>. QED
    BY <1>1, <2>1, <2>3, <2>4 DEF Calm, Leaves, Remembers
<1>9. ASSUME NEW e \in Address, Mail(w, e)
      PROVE  \E r : Calm(r)
  <2>. DEFINE r == [s EXCEPT !.pc = "sending", !.to = e]
  <2>1. /\ r \in SenderRecord /\ r.pc = "sending" /\ r.to = e
        /\ r.tick = s.tick /\ r.current = s.current
        /\ r.sent = s.sent /\ r.pending = s.pending
    BY <1>0 DEF SenderRecord
  <2>2. Set(w, r) /\ UNCHANGED guard /\ s.pc = "mailing" /\ e \in s.pending
    BY <1>9 DEF Mail, At, Elsewhere
  <2>. HIDE DEF r
  <2>3. GoesOn(w, r)
    BY <1>0, <1>1, <2>1, <2>2 DEF GoesOn, Inside, Recalls, Row
  <2>. QED
    BY <1>1, <2>1, <2>2, <2>3 DEF Calm, Leaves, Remembers
<1>. QED
  BY <1>3, <1>4, <1>5, <1>6, <1>7, <1>8, <1>9


LEMMA MailFailsPays ==
    ASSUME IInv, GInv, losses = 0, NEW w \in Worker, MailFails(w)
    PROVE  GInv'
<1>1. /\ Blame(w) /\ sender[w].pc = "mailing"
      /\ UNCHANGED <<delivery, mails, disruptions>>
  BY DEF MailFails, At, counts
<1>2. Alone /\ Recollection
  BY DEF GInv
<1>3. PICK r \in SenderRecord :
         GoesOn(w, r) /\ \A t \in Tick, e \in Address : Leaves(w, r, t, e)
  BY <1>1, <1>2, BlameGoesOn
<1>. QED
  BY <1>1, <1>3, FreeStep

(* A mail is sent, and remembered.                                         *)
LEMMA SentPays ==
    ASSUME IInv, IInv', GInv, losses = 0, NEW w \in Worker, Sent(w)
    PROVE  GInv'
<1>. DEFINE s == sender[w]
            r == [s EXCEPT !.pc = "saving", !.sent = @ \cup {s.to}]
<1>1. /\ s \in SenderRecord /\ Recalls(s, Row(w)) /\ s.pc = "sending" /\ guard = w
      /\ Alone /\ Recollection /\ Honest(s, mails)
  BY DEF GInv, IInv, Memory, Recollection, Alone, Inside, Sent, At
<1>2. /\ s.tick \in Tick /\ s.to \in Address /\ s.to \in s.pending
      /\ s.to \notin s.sent /\ OwnerOf[s.to] = s.current
      /\ s.sent = Row(w).recipients
  BY <1>1 DEF Honest, Recalls, SenderRecord, Due
<1>3. /\ Set(w, r) /\ Mailed(s.tick, s.to)
      /\ UNCHANGED <<guard, delivery, disruptions>>
  BY DEF Sent, counts
<1>4. /\ r \in SenderRecord /\ r.pc = "saving" /\ r.tick = s.tick
      /\ r.current = s.current /\ r.to = s.to /\ r.pending = s.pending
      /\ r.sent = s.sent \cup {s.to}
  BY <1>1 DEF SenderRecord
<1>. HIDE DEF r
<1>5. GoesOn(w, r)
  BY <1>1, <1>2, <1>3, <1>4 DEF GoesOn, Inside, Recalls, Row
<1>6. \A t \in Tick, e \in Address : Leaves(w, r, t, e)
  BY <1>1, <1>3, <1>4 DEF Leaves, Remembers
<1>7. <<s.tick, s.to>> \notin Knowledge
  <2>1. s.to \notin delivery[s.tick][OwnerOf[s.to]].recipients
    BY <1>2 DEF Row
  <2>2. ASSUME NEW v \in Worker, Remembers(sender[v], s.tick, s.to) PROVE FALSE
    <3>1. v = w
      BY <1>1, <2>2 DEF Remembers, Alone, Inside
    <3>. QED
      BY <1>1, <2>2, <3>1 DEF Remembers
  <2>. QED
    BY <2>1, <2>2 DEF Knowledge
<1>8. Knowledge \cup {<<s.tick, s.to>>} \subseteq Knowledge'
  <2>1. Knowledge \ {} \subseteq Knowledge'
    BY <1>3, <1>4, <1>6, KnowledgeLasts DEF IInv
  <2>2. sender'[w] = r
    BY <1>3 DEF Set, IInv, Memory
  <2>3. Remembers(sender'[w], s.tick, s.to)
    BY <1>2, <1>4, <2>2 DEF Remembers
  <2>4. <<s.tick, s.to>> \in Knowledge'
    BY <1>2, <2>3 DEF Knowledge
  <2>. QED
    BY <2>1, <2>4
<1>9. mails \in Mails /\ mails' \in Mails /\ disruptions \in Nat
  BY DEF IInv, Memory, Others, counts, Counts
<1>10. Paid'
  BY <1>2, <1>3, <1>7, <1>8, <1>9, PaidSent DEF GInv
<1>11. Alone' /\ Recollection'
  BY <1>1, <1>4, <1>5, Guarded DEF IInv
<1>. QED
  BY <1>10, <1>11 DEF GInv

(* No receipt, or one that says that the mail was refused.                 *)
LEMMA SendFailsPays ==
    ASSUME IInv, IInv', GInv, losses = 0, NEW w \in Worker,
           NEW sent \in BOOLEAN, NEW thrown \in BOOLEAN, SendFails(w, sent, thrown)
    PROVE  GInv'
<1>. DEFINE s == sender[w]
<1>1. /\ s \in SenderRecord /\ Recalls(s, Row(w)) /\ s.pc = "sending" /\ guard = w
      /\ Alone /\ Recollection /\ Honest(s, mails)
      /\ UNCHANGED delivery
  BY DEF GInv, IInv, Memory, Recollection, Alone, Inside, SendFails, At
<1>2. s.tick \in Tick /\ s.to \in Address
  BY <1>1 DEF Honest, SenderRecord
<1>3. PICK r \in SenderRecord :
         GoesOn(w, r) /\ \A t \in Tick, e \in Address : Leaves(w, r, t, e)
  <2>1. CASE thrown
    <3>1. Blame(w)
      BY <2>1 DEF SendFails
    <3>. QED
      BY <1>1, <3>1, BlameGoesOn
  <2>2. CASE ~thrown
    <3>. DEFINE r == [s EXCEPT !.pc = After(w), !.pending = Rest(w), !.errors = TRUE]
    <3>1. Set(w, r) /\ UNCHANGED guard
      BY <2>2 DEF SendFails
    <3>2. Rest(w) \subseteq s.pending /\ After(w) \in {"closing", "mailing"}
      BY DEF Rest, After
    <3>3. /\ r \in SenderRecord /\ r.pc \in {"closing", "mailing"} /\ r.tick = s.tick
          /\ r.current = s.current /\ r.sent = s.sent /\ r.pending \subseteq s.pending
      BY <1>1, <3>2 DEF SenderRecord
    <3>. HIDE DEF r
    <3>4. GoesOn(w, r)
      BY <1>1, <3>1, <3>3 DEF GoesOn, Inside, Recalls, Row
    <3>5. \A t \in Tick, e \in Address : Leaves(w, r, t, e)
      BY <1>1 DEF Leaves, Remembers
    <3>. QED
      BY <3>3, <3>4, <3>5
  <2>. QED
    BY <2>1, <2>2
<1>4. CASE sent
  <2>1. Mailed(s.tick, s.to) /\ disruptions' = disruptions + 1
    BY <1>4 DEF SendFails, Disrupt
  <2>. QED
    BY <1>2, <1>3, <2>1, DisruptedStep
<1>5. CASE ~sent
  <2>1. UNCHANGED <<mails, disruptions>>
    BY <1>5 DEF SendFails, Interrupt
  <2>. QED
    BY <1>3, <2>1, FreeStep
<1>. QED
  BY <1>4, <1>5

(* The recipient at hand is forgotten, and no other.                       *)
LEMMA WriteFailsPays ==
    ASSUME IInv, IInv', GInv, losses = 0, NEW w \in Worker, WriteFails(w)
    PROVE  GInv'
<1>. DEFINE s == sender[w]
<1>1. /\ s \in SenderRecord /\ Recalls(s, Row(w)) /\ Alone /\ Recollection
      /\ Honest(s, mails)
      /\ UNCHANGED <<delivery, mails>> /\ disruptions' = disruptions + 1
      /\ s.pc \in {"settled", "saving", "closing", "blaming"}
  BY DEF GInv, IInv, Memory, Recollection, WriteFails, At, Disrupt
<1>2. s.tick \in Tick /\ s.to \in Address /\ guard = w
  BY <1>1 DEF Honest, SenderRecord, Alone, Inside
<1>3. PICK r \in SenderRecord :
         /\ GoesOn(w, r)
         /\ \A t \in Tick, e \in Address :
               <<t, e>> \in {<<s.tick, s.to>>} \/ Leaves(w, r, t, e)
  <2>1. CASE Ends(w, FALSE)
    BY <1>1, <2>1, EndGoesOn
  <2>2. CASE s.pc \in {"saving", "closing"} /\ Blame(w)
    BY <1>1, <2>2, BlameGoesOn
  <2>3. CASE At(w, "blaming") /\ Goes(w, "account") /\ UNCHANGED <<tasks, guard>>
    <3>. DEFINE r == [s EXCEPT !.pc = "account"]
    <3>1. Set(w, r) /\ UNCHANGED guard /\ s.pc = "blaming"
      BY <2>3 DEF Goes, At
    <3>2. /\ r \in SenderRecord /\ r.pc = "account" /\ r.tick = s.tick
          /\ r.current = s.current
      BY <1>1 DEF SenderRecord
    <3>. HIDE DEF r
    <3>3. GoesOn(w, r)
      BY <1>1, <1>2, <3>1, <3>2 DEF GoesOn, Inside, Recalls
    <3>4. \A t \in Tick, e \in Address :
             <<t, e>> \in {<<s.tick, s.to>>} \/ Leaves(w, r, t, e)
      BY <1>1, <3>1 DEF Leaves, Remembers, Recalls, Row
    <3>. QED
      BY <3>2, <3>3, <3>4
  <2>. QED
    BY <2>1, <2>2, <2>3 DEF WriteFails
<1>. QED
  BY <1>1, <1>2, <1>3, DisruptedStep

LEMMA CrashPays ==
    ASSUME IInv, IInv', GInv, losses = 0, NEW w \in Worker, NEW sent \in BOOLEAN,
           Crash(w, sent)
    PROVE  GInv'
<1>. DEFINE s == sender[w]
            x == IF s.pc = "idle" THEN firing[w] ELSE s.tick
<1>1. /\ s \in SenderRecord /\ Recollection /\ Honest(s, mails) /\ Ends(w, FALSE)
      /\ UNCHANGED delivery /\ disruptions' = disruptions + 1
  BY DEF GInv, IInv, Memory, Crash, Disrupt
<1>2. x \in Tick /\ s.to \in Address
  <2>1. s.pc = "idle" => firing[w] \in (0..MaxTick) \ {0}
    BY DEF Crash, At, IInv, Queue
  <2>. QED
    BY <1>1, <2>1, DigestMailsAssumption DEF Honest, SenderRecord, Tick
<1>3. /\ Idle \in SenderRecord /\ GoesOn(w, Idle)
      /\ \A t \in Tick, e \in Address :
            \/ s.pc \in {"saving", "blaming"} /\ t = s.tick /\ e = s.to
            \/ Leaves(w, Idle, t, e)
  BY <1>1, EndGoesOn
<1>4. CASE sent
  <2>1. s.pc = "sending" /\ Mailed(s.tick, s.to)
    BY <1>4 DEF Crash, At
  <2>2. Mailed(x, s.to) /\ \A t \in Tick, e \in Address : Leaves(w, Idle, t, e)
    BY <1>3, <2>1
  <2>. QED
    BY <1>1, <1>2, <1>3, <2>2, DisruptedStep
<1>5. CASE ~sent
  <2>1. /\ UNCHANGED mails
        /\ \A t \in Tick, e \in Address : <<t, e>> \in {<<x, s.to>>} \/ Leaves(w, Idle, t, e)
    BY <1>3, <1>5 DEF Crash
  <2>. QED
    BY <1>1, <1>2, <1>3, <2>1, DisruptedStep
<1>. QED
  BY <1>4, <1>5

(* What is written is what was there, and what the execution knows.        *)
LEMMA WritesPay ==
    ASSUME IInv, GInv, losses = 0, NEW w \in Worker,
           Save(w) \/ MarkSent(w) \/ MarkFailed(w)
    PROVE  GInv'
<1>. DEFINE s == sender[w]
<1>1. /\ s \in SenderRecord /\ Recalls(s, Row(w)) /\ Alone /\ Recollection
      /\ Honest(s, mails)
      /\ s.pc \in {"settled", "closing", "saving", "blaming"}
      /\ UNCHANGED <<guard, mails, disruptions>>
  BY DEF GInv, IInv, Memory, Recollection, Save, MarkSent, MarkFailed, At, Elsewhere, counts
<1>2. s.tick \in Tick /\ s.current \in Account /\ guard = w
  BY <1>1 DEF Honest, SenderRecord, Alone, Inside
<1>3. PICK row : Write(w, row) /\ row.recipients = s.sent
  <2>1. Row(w) \in DeliveryRecord
    BY <1>2 DEF Row, IInv, Rows
  <2>2. Progress(w).recipients = s.sent
    BY <2>1 DEF Progress, DeliveryRecord
  <2>3. [sent |-> TRUE, recipients |-> s.sent].recipients = s.sent
    OBVIOUS
  <2>. QED
    BY <2>2, <2>3 DEF Save, MarkSent, MarkFailed
<1>4. /\ delivery'[s.tick][s.current].recipients = s.sent
      /\ \A t \in Tick, a \in Account :
            ~(t = s.tick /\ a = s.current) => delivery'[t][a] = delivery[t][a]
  BY <1>2, <1>3 DEF Write, IInv, Rows
<1>5. PICK r \in SenderRecord :
         /\ Set(w, r) /\ r.tick = s.tick /\ r.current = s.current /\ r.sent = s.sent
         /\ \/ r.pc \in {"account", "closing"}
            \/ /\ r.pc = "mailing" /\ s.pc = "saving"
               /\ r.pending = s.pending \ {s.to}
  <2>1. CASE Save(w)
    <3>. DEFINE r == [s EXCEPT !.pc = After(w), !.pending = Rest(w)]
    <3>1. s.pc = "saving" /\ Set(w, r)
      BY <2>1 DEF Save, At
    <3>2. Rest(w) = s.pending \ {s.to} /\ After(w) \in {"closing", "mailing"}
      BY DEF Rest, After
    <3>3. /\ r \in SenderRecord /\ r.pc \in {"closing", "mailing"} /\ r.tick = s.tick
          /\ r.current = s.current /\ r.sent = s.sent /\ r.pending = s.pending \ {s.to}
      BY <1>1, <3>2 DEF SenderRecord
    <3>. HIDE DEF r
    <3>. QED
      BY <3>1, <3>3
  <2>2. CASE MarkSent(w) \/ MarkFailed(w)
    <3>1. /\ [s EXCEPT !.pc = "account"] \in SenderRecord
          /\ [s EXCEPT !.pc = "account", !.failed = TRUE] \in SenderRecord
      BY <1>1 DEF SenderRecord
    <3>. QED
      BY <1>1, <2>2, <3>1 DEF MarkSent, MarkFailed, Goes, SenderRecord
  <2>. QED
    BY <2>1, <2>2
<1>6. GoesOn(w, r)
  <2>1. Recalls(r, delivery'[r.tick][r.current])
    BY <1>1, <1>4, <1>5 DEF Recalls
  <2>. QED
    BY <1>1, <1>2, <1>5, <2>1 DEF GoesOn, Inside
<1>7. ASSUME NEW t \in Tick, NEW e \in Address PROVE Leaves(w, r, t, e)
  <2>1. CASE t = s.tick /\ OwnerOf[e] = s.current
    BY <1>1, <1>4, <2>1 DEF Leaves, Remembers, Recalls, Row
  <2>2. CASE ~(t = s.tick /\ OwnerOf[e] = s.current)
    <3>1. OwnerOf[e] \in Account
      BY DigestMailsAssumption
    <3>. QED
      BY <1>4, <2>2, <3>1 DEF Leaves, Remembers
  <2>. QED
    BY <2>1, <2>2
<1>. QED
  BY <1>1, <1>5, <1>6, <1>7, FreeStep

(* Nothing that counts changes outside of an execution, or a guard is lost. *)
LEMMA AroundPays ==
    ASSUME IInv, GInv, losses = 0, Around \/ UNCHANGED vars
    PROVE  GInv'
<1>1. losses \in Nat /\ disruptions \in Nat /\ mails \in Mails
  BY DEF IInv, Others, counts, Counts, Memory
<1>2. CASE \E w \in Worker : LoseGuard(w)
  BY <1>1, <1>2 DEF LoseGuard, GInv
<1>3. CASE ~\E w \in Worker : LoseGuard(w)
  <2>1. UNCHANGED <<sender, delivery, mails, guard, disruptions>>
    BY <1>3 DEF Around, NextTick, Read, Fire, Dispatch, DispatchFails, Interrupt,
                vars, counts
  <2>2. Alone' /\ Recollection' /\ Knowledge' = Knowledge
    BY <2>1 DEF GInv, Alone, Recollection, Row, Knowledge
  <2>3. Paid'
    BY <1>1, <2>1, <2>2, PaidKept DEF GInv
  <2>. QED
    BY <2>2, <2>3 DEF GInv
<1>. QED
  BY <1>2, <1>3

LEMMA InitPaid == ASSUME Init, IInv PROVE GInv
<1>1. Alone
  BY DEF Init, Alone, Inside, Idle
<1>2. Recollection
  BY DEF Init, Recollection, Recalls, Idle, Row
<1>3. Paid
  <2>1. Costs = {}
    <3>. SUFFICES ASSUME NEW c \in Costs PROVE FALSE
      OBVIOUS
    <3>1. PICK t \in Tick, e \in Address, n \in Nat \ {0} : n <= mails[t][e]
      BY CostsMember DEF Costs, IInv, Memory
    <3>. QED
      BY <3>1 DEF Init
  <2>. QED
    BY <2>1, FS_EmptySet DEF Paid, Init
<1>. QED
  BY <1>1, <1>2, <1>3 DEF GInv

LEMMA Payments == IInv /\ IInv' /\ GInv /\ [Next]_vars => GInv'
<1>. SUFFICES ASSUME IInv, IInv', GInv, [Next]_vars PROVE GInv'
  OBVIOUS
<1>1. CASE losses # 0
  <2>1. losses \in Nat
    BY DEF IInv, Others, counts, Counts
  <2>2. \/ UNCHANGED losses
        \/ losses' = losses + 1
    BY DEF Next, Step, NextTick, Read, Fire, Dispatch, DispatchFails, Start, Lock, Throws,
           Finish, Claim, Consider, Mail, MailFails, Sent, Save, MarkSent, MarkFailed,
           GiveUp, Abort, LoseLease, LoseGuard, SendFails, WriteFails, Crash, Disrupt,
           Interrupt, Elsewhere, counts, vars
  <2>. QED
    BY <1>1, <2>1, <2>2 DEF GInv
<1>2. CASE losses = 0
  <2>1. CASE Around \/ UNCHANGED vars
    BY <1>2, <2>1, AroundPays
  <2>2. ASSUME NEW w \in Worker,
               \/ Start(w) \/ Abort(w) \/ LoseLease(w) \/ Lock(w) \/ GiveUp(w) \/ Throws(w)
               \/ Finish(w) \/ \E a \in Account : Consider(w, a)
               \/ Claim(w) \/ \E e \in Address : Mail(w, e)
        PROVE  GInv'
    BY <1>2, <2>2, CalmStep
  <2>3. ASSUME NEW w \in Worker, Save(w) \/ MarkSent(w) \/ MarkFailed(w) PROVE GInv'
    BY <1>2, <2>3, WritesPay
  <2>4. ASSUME NEW w \in Worker, MailFails(w) \/ WriteFails(w) \/ Sent(w) PROVE GInv'
    BY <1>2, <2>4, MailFailsPays, WriteFailsPays, SentPays
  <2>5. ASSUME NEW w \in Worker,
               NEW sent \in BOOLEAN, NEW thrown \in BOOLEAN, SendFails(w, sent, thrown)
        PROVE  GInv'
    BY <1>2, <2>5, SendFailsPays
  <2>6. ASSUME NEW w \in Worker, NEW sent \in BOOLEAN, Crash(w, sent) PROVE GInv'
    BY <1>2, <2>6, CrashPays
  <2>. QED
    BY <2>1, <2>2, <2>3, <2>4, <2>5, <2>6 DEF Next, Step, Around
<1>. QED
  BY <1>1, <1>2

(* Each mail too many is paid for by a disruption of its own: a process    *)
(* that died, a receipt that said nothing or a write that failed, as long  *)
(* as no execution lost its guard (withNotificationDigestGuard) unnoticed. *)
THEOREM DigestMailsPaidFor == Spec => []MailsAccountedFor
<1>1. IInv /\ GInv => MailsAccountedFor
  <2>. SUFFICES ASSUME IInv, GInv, losses = 0
                PROVE  Cardinality(Repeats) <= disruptions
    BY DEF MailsAccountedFor
  <2>1. mails \in Mails /\ disruptions \in Nat
    BY DEF IInv, Memory, Others, counts, Counts
  <2>2. Repeats \subseteq Costs
    <3>. SUFFICES ASSUME NEW c \in Repeats PROVE c \in Costs
      OBVIOUS
    <3>1. PICK t \in Tick, e \in Address : c \in {<<t, e, n>> : n \in 1..(mails[t][e] - 1)}
      BY DEF Repeats
    <3>2. PICK n \in 1..(mails[t][e] - 1) : c = <<t, e, n>>
      BY <3>1
    <3>3. mails[t][e] \in Nat
      BY <2>1 DEF Mails
    <3>4. n \in Nat \ {0} /\ n < mails[t][e] /\ n <= mails[t][e]
      BY <3>2, <3>3
    <3>. QED
      BY <2>1, <3>2, <3>4, CostsMember DEF Costs
  <2>3. /\ Cardinality(Repeats) \in Nat /\ Cardinality(Costs) \in Nat
        /\ Cardinality(Repeats) <= Cardinality(Costs)
        /\ Cardinality(Costs) <= disruptions
    BY <2>2, FS_Subset, FS_CardinalityType DEF GInv, Paid
  <2>. QED
    BY <2>1, <2>3
<1>2. Init /\ IInv => GInv
  BY InitPaid
<1>. QED
  BY <1>1, <1>2, Inductive, Payments, PTL DEF Spec
=============================================================================
