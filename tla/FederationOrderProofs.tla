------------------------ MODULE FederationOrderProofs ------------------------
(***************************************************************************)
(* What holds of FederationQueue, beyond the ownership of leases, for      *)
(* every number of rows, fanouts, workers, tokens and faults: the order of *)
(* rows with one ordering key, the deliveries of a fanout, the statistics  *)
(* of articles, the heartbeat, the bound on attempts, and that the queue   *)
(* implements MessageQueue for the rows the application enqueues.          *)
(***************************************************************************)
EXTENDS FederationQueueProofs, FiniteSetTheorems, FunctionTheorems

-----------------------------------------------------------------------------
(* The inductive invariant: where rows come from. *)

IsRoot(e) == row[e].group = e
Exists(e) == row[e].status # "absent"
Done(e) == row[e].status \in {"completed", "deleted"} /\ ~row[e].payload

(* A row without a parent was sent by the application, and has a sequence  *)
(* number of its own.                                                      *)
Rooted ==
    /\ \A e \in Row : Exists(e) /\ IsRoot(e) =>
          /\ \E s \in Sends : s.event = e /\ s.key = row[e].key
          /\ row[e].seq <= sequence
    /\ \A a, b \in Row :
          a # b /\ Exists(a) /\ Exists(b) /\ IsRoot(a) /\ IsRoot(b)
          => row[a].seq # row[b].seq

(* The advisory lock: a row the application has not yet committed is the   *)
(* last one of its key.                                                    *)
LastOfKey ==
    \A a, b \in Row :
        /\ a # b /\ Uncommitted(a) /\ Exists(b) /\ SameKey(a, b)
        /\ IsRoot(a) /\ IsRoot(b)
        => row[b].seq < row[a].seq

(* A child has its place in the order from its fanout, and is published    *)
(* with the completion of the fanout, if it was not enqueued late.         *)
ChildOrigin ==
    \A e \in Row : Exists(e) /\ ~IsRoot(e) =>
        LET f == row[e].group IN
          /\ f \in Fanout /\ e \in Delivery \ Enqueued
          /\ Visible(f) /\ row[e].seq = row[f].seq
          /\ \E i \in Recipients : row[e].key = InboxKey[<<row[f].key, i>>]
          /\ Visible(e) /\ e \notin late => Done(f)

(* What the handler of a fanout enqueued: one child for each inbox at      *)
(* most, and, once it has succeeded, one for each.                         *)
OwnChildren ==
    \A t \in Token :
        /\ \A c \in run[t].children :
             /\ run[t].state \in {"open", "settling"}
             /\ run[t].state = "settling" => run[t].outcome = "success"
             /\ row[c].group = run[t].event /\ row[c].inbox \in Recipients
             /\ Holds(run[t].event, t) =>
                  row[c].replayed = row[run[t].event].replayed
             /\ \A d \in run[t].children : row[c].inbox = row[d].inbox => c = d
        /\ /\ run[t].state = "settling" /\ run[t].outcome = "success"
           /\ run[t].event \in Fanout
           => \A i \in Recipients : \E c \in run[t].children : row[c].inbox = i

(* A row that was never published was never claimed. *)
Unclaimed ==
    \A e \in Row : row[e].status = "uncommitted" => row[e].attempts = 0

(* Only a row that was published can be replayed. *)
Unreplayed ==
    \A e \in Row : \/ row[e].status = "absent"
                   \/ row[e].status = "uncommitted" /\ IsRoot(e)
                   => ~row[e].replayed

(* What is not completed can be tried again. *)
PayloadKept ==
    \A e \in Row :
        row[e].status \in {"uncommitted", "pending", "processing", "dead"}
        => row[e].payload

-----------------------------------------------------------------------------
(* The inductive invariant: the order of claims. *)

(* Every row before b of its key and route is settled, or was replayed.    *)
Cleared(b) ==
    \A a \in Row : Ordered(a, b) /\ Visible(a) /\ ~row[a].replayed => Settled(a)

(* A run is about a row that everybody can see. *)
RunsSeen == \A t \in Token : run[t].state # "free" => Visible(run[t].event)

(* A claim finds the rows before its own settled, when its snapshot is     *)
(* taken, and they stay so, even when its row is settled itself, and as    *)
(* long as its handler lives.                                              *)
ClaimsInOrder ==
    /\ \A b \in Row : row[b].status = "processing" \/ Settled(b) => Cleared(b)
    /\ \A t \in Token : run[t].state # "free" => Cleared(run[t].event)

(* What is enqueued late is enqueued by the handler of a fanout that was   *)
(* claimed in order.                                                       *)
LateInOrder ==
    \A d \in late : /\ Visible(d) /\ ~IsRoot(d)
                    /\ row[d].group \in Row /\ Cleared(row[d].group)

-----------------------------------------------------------------------------
(* The inductive invariant: leases and attempts. *)

(* Workers pause and stop only by a fault. *)
AllUp == faults = 0 => \A w \in Worker : mode[w] = "up"

(* A worker that is up renews the lease of its row in every interval, or   *)
(* fails to.                                                               *)
Beaten(t) == IF run[t].due THEN 1 ELSE 0

LeaseKept ==
    faults = 0 /\ missed < Lease - 1 => \A t \in Token :
        run[t].state = "open" =>
            /\ Holds(run[t].event, t)
            /\ row[run[t].event].lease + missed + Beaten(t) >= Lease

(* A row whose worker may have lost it has an attempt to spare for the     *)
(* disruption that did it; any other row has a lease as good as new.       *)
Charged == faults + missed

Lost(e) ==
    \/ row[e].lease = 0
    \/ \E t \in Token : /\ row[e].token = t
                        /\ run[t].state \in {"free", "zombie"} \/ ~Awake(t)

AttemptsSpared ==
    \A e \in Row :
        /\ \/ row[e].status = "pending"
           \/ row[e].status = "processing" /\ Lost(e)
           => row[e].attempts < MaxAttempts + Charged
        /\ \A t \in Token :
             run[t].state = "chosen" /\ run[t].event = e /\ ~Awake(t) /\ Due(e)
             => row[e].attempts + 1 < MaxAttempts + Charged
        /\ \A t \in Token :
             Holds(e, t) => \/ row[e].attempts < MaxAttempts + Charged
                            \/ row[e].lease + Beaten(t) >= Lease

OInv ==
    /\ Rooted /\ LastOfKey /\ ChildOrigin /\ OwnChildren
    /\ Unclaimed /\ Unreplayed /\ PayloadKept /\ RunsSeen
    /\ ClaimsInOrder /\ LateInOrder /\ FanoutOnce /\ ArticleAgrees
    /\ AllUp /\ LeaseKept /\ AttemptBudget /\ AttemptsSpared

-----------------------------------------------------------------------------
(* What a step makes of a row. *)

Only(e) == \A x \in Row \ {e} : row'[x] = row[x]

Kept(e) ==
    /\ SameOrigin(row'[e], row[e]) /\ row'[e].replayed = row[e].replayed

Ages(e) == Tick /\ row'[e].lease = Less(row[e].lease)

(* What the statistics of an article record when its delivery is updated.  *)
Told(e, s) ==
    e \in Delivery => article'[e] = IF article[e] # "none" THEN s ELSE "none"

Rests(e) ==
    /\ row'[e].status = row[e].status /\ row'[e].token = row[e].token
    /\ Kept(e) /\ row'[e].attempts = row[e].attempts
    /\ row'[e].payload = row[e].payload
    /\ row[e].status = "uncommitted" => row'[e].inbox = row[e].inbox
    /\ e \in late \/ article'[e] = article[e]
    /\ row'[e] = row[e] \/ row'[e].lease = Lease \/ Ages(e)

Roots(e) ==
    /\ row[e].status = "absent" /\ row'[e].status = "uncommitted"
    /\ row'[e].group = e /\ KeyLockFree(row'[e].key, {})
    /\ \E s \in Sends : s.event = e /\ s.key = row'[e].key
    /\ row'[e].seq = sequence + 1 /\ sequence' = sequence + 1
    /\ row'[e].attempts = 0 /\ row'[e].payload
    /\ row'[e].replayed = row[e].replayed
    /\ article'[e] = article[e] /\ Only(e)

Grows(e, t) ==
    LET f == run[t].event IN
    /\ run[t].state = "open" /\ f \in Fanout /\ row'[e].group = f
    /\ e \in Delivery \ Enqueued
    /\ row[e].status = "absent" /\ row'[e].status = "uncommitted"
    /\ KeyLockFree(row'[e].key, run[t].children)
    /\ \E i \in Recipients : /\ row'[e].key = InboxKey[<<row[f].key, i>>]
                             /\ row'[e].inbox = i
                             /\ \A c \in run[t].children : row[c].inbox # i
    /\ row'[e].seq = row[f].seq /\ row'[e].replayed = row[f].replayed
    /\ row'[e].attempts = 0 /\ row'[e].payload
    /\ article'[e] = article[e] /\ Only(e)

LateBy(e, t) ==
    LET f == run[t].event IN
    /\ run[t].state \in {"settling", "zombie"} /\ f \in Fanout /\ row'[e].group = f
    /\ e \in Delivery \ Enqueued /\ late' = late \cup {e}
    /\ row[e].status = "absent" /\ row'[e].status = "pending"
    /\ \E i \in Recipients : row'[e].key = InboxKey[<<row[f].key, i>>]
    /\ row'[e].seq = row[f].seq
    /\ row'[e].attempts = 0 /\ row'[e].payload
    /\ article'[e] = article[e] /\ Only(e)

Commits(e) ==
    /\ row[e].status = "uncommitted" /\ IsRoot(e) /\ row'[e].status = "pending"
    /\ Kept(e) /\ row'[e].attempts = row[e].attempts
    /\ row'[e].payload = row[e].payload
    /\ article'[e] = IF e \in Delivery THEN "pending" ELSE article[e]

Drops(e) ==
    /\ row[e].status = "uncommitted" /\ row'[e] = AbsentRow(e)
    /\ article'[e] = article[e]

TakenBy(e, t) ==
    /\ run[t].state = "chosen" /\ run[t].event = e /\ Due(e)
    /\ run'[t].state = "open" /\ run'[t].event = e
    /\ row'[e].status = "processing" /\ row'[e].token = t /\ row'[e].lease = Lease
    /\ Kept(e) /\ row'[e].attempts = row[e].attempts + 1
    /\ row'[e].payload = row[e].payload /\ article'[e] = article[e]
    /\ UNCHANGED <<mode, faults, missed>>

CompletedBy(e, t) ==
    /\ Holds(e, t) /\ run[t].event = e /\ run[t].state = "settling"
    /\ run[t].outcome = "success" /\ run'[t].state = "free"
    /\ row'[e].status = "completed" /\ Kept(e) /\ ~row'[e].payload
    /\ row'[e].attempts = row[e].attempts
    /\ Told(e, "accepted")
    /\ \A c \in run[t].children : row'[c].status = "pending" /\ Kept(c)

Delivers(e, t) ==
    /\ e \in run[t].children /\ CompletedBy(run[t].event, t)
    /\ row[e].status = "uncommitted" /\ row'[e].status = "pending"
    /\ Kept(e) /\ row'[e].attempts = row[e].attempts
    /\ row'[e].payload = row[e].payload /\ article'[e] = "pending"

RetriedBy(e, t) ==
    /\ Holds(e, t) /\ run[t].event = e /\ run'[t].state # "open"
    /\ row'[e].status = "pending" /\ Kept(e) /\ row'[e].payload
    /\ \/ row[e].attempts < MaxAttempts /\ row'[e].attempts = row[e].attempts
       \/ faults' = faults + 1 /\ row'[e].attempts = Refunded(row[e].attempts)
    /\ article'[e] = article[e]

FailedBy(e, t) ==
    /\ Holds(e, t) /\ run[t].event = e /\ run'[t].state # "open"
    /\ row'[e].status = "dead" /\ Kept(e)
    /\ row'[e].payload = row[e].payload /\ row'[e].attempts = row[e].attempts
    /\ Told(e, "failed")

Reopens(e) ==
    /\ row[e].status = "dead" /\ row'[e].status = "pending"
    /\ SameOrigin(row'[e], row[e]) /\ row'[e].replayed
    /\ row'[e].payload = row[e].payload /\ row'[e].attempts = 0
    /\ Told(e, "pending")

Prunes(e) ==
    /\ row[e].status \in {"completed", "dead"} /\ row'[e].status = "deleted"
    /\ Kept(e) /\ row'[e].payload = row[e].payload
    /\ row'[e].attempts = row[e].attempts /\ article'[e] = article[e]

Fate(e) ==
    \/ Rests(e) \/ Roots(e) \/ Commits(e) \/ Drops(e) \/ Reopens(e) \/ Prunes(e)
    \/ \E t \in Token : \/ Grows(e, t) \/ LateBy(e, t) \/ Delivers(e, t) \/ TakenBy(e, t)
                        \/ CompletedBy(e, t) \/ RetriedBy(e, t) \/ FailedBy(e, t)

(* A step that changes one row. *)
LEMMA OneFate ==
    ASSUME row \in [Row -> TypedRow], NEW e \in Row, NEW r \in TypedRow,
           row' = [row EXCEPT ![e] = r], \A x \in Row \ {e} : article'[x] = article[x],
           Only(e) /\ row'[e] = r => Fate(e)
    PROVE  \A x \in Row : Fate(x)
  <1>1. Only(e) /\ row'[e] = r
    BY DEF Only
  <1>2. ASSUME NEW x \in Row \ {e}
        PROVE  Fate(x)
    BY <1>1 DEF Only, Fate, Rests, Kept, SameOrigin
  <1> QED BY <1>1, <1>2

(* A step that changes no row. *)
LEMMA NoFate ==
    ASSUME UNCHANGED <<row, article>>
    PROVE  \A x \in Row : Fate(x)
  BY DEF Fate, Rests, Kept, SameOrigin

(* A step that ends transactions of fanout handlers without committing.    *)
LEMMA RollbackFates ==
    ASSUME ChildrenPrivate, NEW T \in SUBSET Token, row' = WithoutChildren(T),
           article' = article
    PROVE  \A e \in Row : Fate(e)
  <1>1. ASSUME NEW e \in Row, \E t \in T : e \in run[t].children
        PROVE  Fate(e)
    BY <1>1 DEF WithoutChildren, ChildrenPrivate, Uncommitted, Fate, Drops
  <1>2. ASSUME NEW e \in Row, ~\E t \in T : e \in run[t].children
        PROVE  Fate(e)
    BY <1>2 DEF WithoutChildren, Fate, Rests, Kept, SameOrigin
  <1> QED BY <1>1, <1>2

(* The handler of a fanout adds a row to its transaction. *)
LEMMA GrowsStep ==
    ASSUME IInv, NEW t \in Token, NEW d \in Row, NEW i \in Recipients,
           FanoutEnqueue(t, d, i)
    PROVE  Grows(d, t) /\ row' \in [Row -> TypedRow] /\ Only(d) /\ article' = article
  <1> DEFINE e == run[t].event
             k == InboxKey[<<row[e].key, i>>]
             r == InsertedRow(d, k, e, i, row[e].seq, run[t].nextPosition, 0)
  <1>1. row \in [Row -> TypedRow] /\ run \in [Token -> RunRecord] /\ RunShape
    BY DEF IInv, TypeOK, TableTypeOK
  <1>2. e \in Row /\ run[t].state = "open" /\ e \in Fanout
    BY <1>1 DEF FanoutEnqueue, Handling, Waiting, RunShape, Event
  <1>3. /\ k \in Key \cup {NoKey} /\ i \in Inbox \cup {NoInbox}
        /\ row[e].seq \in Nat /\ run[t].nextPosition \in Nat
    BY <1>1, <1>2, RowFields, FederationQueueAssumption DEF RunRecord
  <1>4. /\ d \in Delivery \ Enqueued /\ row[d].status = "absent"
        /\ \A c \in run[t].children : row[c].inbox # i
        /\ KeyLockFree(k, run[t].children)
        /\ row' = [row EXCEPT ![d] = r] /\ article' = article
    BY DEF FanoutEnqueue, Event
  <1>5. r \in NewRow(e)
    BY <1>1, <1>2, <1>3, InsertedRowType
  <1>6. /\ r.key = k /\ r.inbox = i /\ r.seq = row[e].seq /\ r.attempts = 0
        /\ r.replayed = row[e].replayed /\ r.payload
    BY InsertedRowColumns, InsertedRowPayload
  <1> HIDE DEF r
  <1>7. row' \in [Row -> TypedRow] /\ row'[d] = r /\ Only(d)
    BY <1>1, <1>4, <1>5 DEF NewRow, Only
  <1>8. Grows(d, t)
    BY <1>2, <1>4, <1>5, <1>6, <1>7 DEF Grows, NewRow
  <1> QED BY <1>4, <1>7, <1>8

(* A handler that was abandoned adds a row that is visible at once. *)
LEMMA LateStep ==
    ASSUME IInv, NEW t \in Token, NEW d \in Row, NEW i \in Recipients,
           LateEnqueue(t, d, i)
    PROVE  LateBy(d, t) /\ Only(d) /\ article' = article
  <1> DEFINE e == run[t].event
             k == InboxKey[<<row[e].key, i>>]
             r == LateRow(d, k, e, i, row[e].seq, run[t].nextPosition)
  <1>1. row \in [Row -> TypedRow] /\ run \in [Token -> RunRecord] /\ RunShape
    BY DEF IInv, TypeOK, TableTypeOK
  <1>2. e \in Row /\ run[t].state \in {"settling", "zombie"} /\ e \in Fanout
    BY <1>1 DEF LateEnqueue, Abandoned, RunShape, Event
  <1>3. /\ k \in Key \cup {NoKey} /\ i \in Inbox
        /\ row[e].seq \in Nat /\ run[t].nextPosition \in Nat
    BY <1>1, <1>2, RowFields, FederationQueueAssumption DEF RunRecord
  <1>4. /\ d \in Delivery \ Enqueued /\ row[d].status = "absent"
        /\ row' = [row EXCEPT ![d] = r] /\ article' = article
        /\ late' = late \cup {d}
    BY DEF LateEnqueue, Event
  <1>5. k = InboxKey[<<row[e].key, i>>] /\ e = run[t].event
    OBVIOUS
  <1> HIDE DEF e, k
  <1>6. /\ r.status = "pending" /\ r.group = e /\ r.key = k /\ r.seq = row[e].seq
        /\ r.attempts = 0 /\ r.payload
    BY <1>1, <1>2, <1>3, LateRowType
  <1> HIDE DEF r
  <1>7. row'[d] = r /\ Only(d)
    BY <1>1, <1>4 DEF Only
  <1>8. LateBy(d, t)
    BY <1>2, <1>4, <1>5, <1>6, <1>7 DEF LateBy
  <1> QED BY <1>4, <1>7, <1>8

(* The statistics of an article follow the row of its delivery. *)
LEMMA ArticleTold ==
    ASSUME article \in [Row -> ArticleStatus], NEW e \in Row, NEW s,
           article' = Article(e, s)
    PROVE  /\ Told(e, s)
           /\ \A x \in Row \ {e} : article'[x] = article[x]
  BY DEF Article, Told

(* Every step gives every row one of these fates. *)
LEMMA Fates ==
    ASSUME IInv, OwnChildren, [Next]_vars
    PROVE  \A e \in Row : Fate(e)
  <1> DEFINE Goal == \A e \in Row : Fate(e)
  <1>1. /\ row \in [Row -> TypedRow] /\ sequence \in Nat
        /\ run \in [Token -> RunRecord] /\ article \in [Row -> ArticleStatus]
        /\ ChildrenPrivate /\ RunShape /\ TokenOwned
    BY DEF IInv, TypeOK, TableTypeOK
  <1>2. UNCHANGED <<row, article>> => Goal
    BY NoFate
  <1>3. ASSUME NEW s \in Sends, AppEnqueue(s)
        PROVE  Goal
    <2> DEFINE e == s.event
               r == InsertedRow(e, s.key, e, s.inbox, sequence + 1, 0, 0)
    <2>1. /\ e \in Row /\ s.key \in Key \cup {NoKey}
          /\ s.inbox \in Inbox \cup {NoInbox} /\ sequence + 1 \in Nat /\ 0 \in Nat
      BY <1>1, FederationQueueAssumption
    <2>2. /\ row[e].status = "absent" /\ KeyLockFree(s.key, {})
          /\ sequence' = sequence + 1 /\ row' = [row EXCEPT ![e] = r]
          /\ article' = article
      BY <1>3 DEF AppEnqueue, InsertRoot
    <2> HIDE DEF e
    <2>3. r \in NewRow(e)
      BY <1>1, <2>1, InsertedRowType
    <2>4. /\ r.key = s.key /\ r.seq = sequence + 1 /\ r.attempts = 0 /\ r.payload
          /\ r.replayed = row[e].replayed
      BY <2>1, InsertedRowColumns, InsertedRowPayload
    <2> HIDE DEF r
    <2>5. ASSUME Only(e), row'[e] = r
          PROVE  Roots(e)
      BY <2>2, <2>3, <2>4, <2>5 DEF Roots, NewRow, e
    <2> QED BY <1>1, <2>1, <2>2, <2>3, <2>5, OneFate DEF Fate, NewRow
  <1>4. ASSUME NEW e \in Row, AppCommit(e)
        PROVE  Goal
    <2>1. /\ Uncommitted(e) /\ IsRoot(e) /\ row' = [row EXCEPT ![e] = Published(e)]
          /\ article' = Recorded({e})
      BY <1>4 DEF AppCommit, IsRoot
    <2>2. /\ article'[e] = IF e \in Delivery THEN "pending" ELSE article[e]
          /\ \A x \in Row \ {e} : article'[x] = article[x]
      BY <1>1, <2>1 DEF Recorded
    <2>3. ASSUME row'[e] = Published(e)
          PROVE  Commits(e)
      BY <1>1, <2>1, <2>2, <2>3, PublishedType DEF Commits, Kept, Uncommitted
    <2> QED BY <1>1, <2>1, <2>2, <2>3, PublishedType, OneFate DEF Fate
  <1>5. ASSUME NEW e \in Row, AppRollback(e)
        PROVE  Goal
    <2>1. /\ Uncommitted(e) /\ row' = [row EXCEPT ![e] = AbsentRow(e)]
          /\ article' = article
      BY <1>5 DEF AppRollback
    <2> QED BY <1>1, <2>1, AbsentRowType, OneFate DEF Fate, Drops, Uncommitted
  <1>6. ASSUME NEW t \in Token, Take(t)
        PROVE  Goal
    <2> DEFINE e == run[t].event
    <2>1. /\ run[t].state = "chosen" /\ e \in Row
          /\ UNCHANGED <<mode, faults, missed, article>>
      BY <1>1, <1>6 DEF Take, RunShape
    <2>2. CASE Due(e)
      <3>1. /\ row' = [row EXCEPT ![e] = ClaimedRow(e, t)]
            /\ run' = [run EXCEPT ![t].state = "open",
                                  ![t].handler = mode[run[t].worker] # "stopping"]
        BY <1>6, <2>2 DEF Take
      <3>2. run'[t].state = "open" /\ run'[t].event = e
        BY <1>1, <3>1 DEF RunRecord
      <3>3. ASSUME row'[e] = ClaimedRow(e, t)
            PROVE  TakenBy(e, t)
        BY <1>1, <2>1, <2>2, <3>2, <3>3, ClaimedRowType DEF TakenBy, Kept
      <3> QED BY <1>1, <2>1, <3>1, <3>3, ClaimedRowType, OneFate DEF Fate
    <2>3. CASE ~Due(e)
      BY <1>2, <1>6, <2>3 DEF Take
    <2> QED BY <2>2, <2>3
  <1>7. ASSUME NEW t \in Token, NEW d \in Row, NEW i \in Recipients,
               FanoutEnqueue(t, d, i)
        PROVE  Goal
    <2>1. Grows(d, t) /\ Only(d) /\ article' = article
      BY <1>7, GrowsStep
    <2> QED BY <2>1 DEF Only, Fate, Rests, Kept, SameOrigin
  <1>8. ASSUME NEW t \in Token, Throw(t) \/ Timeout(t) \/ Abort(t)
        PROVE  Goal
    BY <1>1, <1>8, RollbackFates DEF Throw, Timeout, Abort
  <1>9. ASSUME NEW t \in Token, NEW w \in 0..MaxWait, NEW held \in BOOLEAN,
               Requeue(t, w, held)
        PROVE  Goal
    <2> DEFINE e == run[t].event
    <2>1. /\ e \in Row /\ run[t].state \in {"open", "settling", "zombie"}
          /\ e \in Delivery /\ faults' = IF held THEN faults + 1 ELSE faults
      BY <1>1, <1>9 DEF Requeue, RunShape, Event
    <2>2. CASE Holds(e, t)
      <3>1. run'[t].state # "open"
        <4>1. CASE run[t].state = "settling"
          <5>1. run' = [run EXCEPT ![t].handler = FALSE]
            BY <1>9, <4>1 DEF Requeue
          <5> QED BY <1>1, <4>1, <5>1 DEF RunRecord
        <4>2. CASE run[t].state # "settling"
          <5>1. run' = [run EXCEPT ![t] = FreeRun]
            BY <1>9, <2>1, <2>2, <4>2 DEF Requeue, Ends, Event
          <5> QED BY <1>1, <5>1, FreeRunType
        <4> QED BY <4>1, <4>2
      <3>2. CASE ~held /\ Exhausted(e)
        <4>1. row' = [row EXCEPT ![e] = FailedRow(e)] /\ article' = Article(e, "failed")
          BY <1>9, <2>2, <3>2 DEF Requeue, Event
        <4>2. Told(e, "failed") /\ \A x \in Row \ {e} : article'[x] = article[x]
          BY <1>1, <2>1, <4>1, ArticleTold
        <4>3. ASSUME row'[e] = FailedRow(e)
              PROVE  FailedBy(e, t)
          BY <1>1, <2>1, <2>2, <3>1, <4>2, <4>3, FailedRowType DEF FailedBy, Kept
        <4> QED BY <1>1, <2>1, <4>1, <4>2, <4>3, FailedRowType, OneFate DEF Fate
      <3>3. CASE ~(~held /\ Exhausted(e))
        <4>1. row' = [row EXCEPT ![e] = RetriedRow(e, w, ~held)] /\ article' = article
          BY <1>9, <2>2, <3>3 DEF Requeue, Event
        <4>2. /\ ~held => row[e].attempts < MaxAttempts
              /\ held => faults' = faults + 1
          BY <1>1, <2>1, <3>3, RowFields, FederationQueueAssumption DEF Exhausted
        <4>3. (~held) \in BOOLEAN
          OBVIOUS
        <4>4. ASSUME row'[e] = RetriedRow(e, w, ~held)
              PROVE  RetriedBy(e, t)
          <5> DEFINE r == RetriedRow(e, w, ~held)
          <5>1. /\ r.status = "pending" /\ SameOrigin(r, row[e])
                /\ r.replayed = row[e].replayed
                /\ r.attempts = IF ~held THEN row[e].attempts
                                ELSE Refunded(row[e].attempts)
            BY <1>1, <2>1, <4>3, RetriedRowType
          <5>2. r.payload
            BY <1>1, <2>1, <4>3, RetriedRowType
          <5> HIDE DEF r
          <5> QED BY <1>1, <2>1, <2>2, <3>1, <4>1, <4>2, <4>4, <5>1, <5>2
                  DEF RetriedBy, Kept, r
        <4>5. RetriedRow(e, w, ~held) \in TypedRow
          BY <1>1, <2>1, <4>3, RetriedRowType
        <4> QED BY <1>1, <2>1, <4>1, <4>4, <4>5, OneFate DEF Fate
      <3> QED BY <3>2, <3>3
    <2>3. CASE ~Holds(e, t)
      BY <1>2, <1>9, <2>3 DEF Requeue, Event
    <2> QED BY <2>2, <2>3
  <1>10. ASSUME NEW t \in Token, Acknowledge(t)
         PROVE  Goal
    <2> DEFINE e == run[t].event
    <2>1. e \in Row /\ run[t].state = "settling" /\ run[t].outcome = "success"
      BY <1>1, <1>10 DEF Acknowledge, RunShape
    <2>2. CASE Holds(e, t)
      <3>1. /\ row' = [a \in Row |-> IF a = e THEN CompletedRow(a)
                                  ELSE IF a \in run[t].children THEN Published(a)
                                  ELSE row[a]]
            /\ article' = IF e \in Delivery THEN Article(e, "accepted")
                          ELSE Recorded(run[t].children)
        BY <1>10, <2>2 DEF Acknowledge, Event
      <3>2. run'[t].state = "free"
        BY <1>1, <1>10, <2>1, FreeRunType DEF Acknowledge, Ends
      <3>3. \A c \in run[t].children :
               c \in Delivery /\ c \in Row /\ Uncommitted(c) /\ e \in Fanout /\ c # e
        BY <2>2 , <1>1 DEF ChildrenPrivate, OwnChildren, Delivery, Holds, Uncommitted
      <3>4. /\ Told(e, "accepted")
            /\ \A x \in Row \ {e} : article'[x] =
                 IF x \in run[t].children THEN "pending" ELSE article[x]
        <4>1. CASE e \in Delivery
          <5>1. article' = Article(e, "accepted") /\ run[t].children = {}
            BY <3>1, <3>3, <4>1 DEF Delivery
          <5> QED BY <1>1, <2>1, <5>1, ArticleTold
        <4>2. CASE e \notin Delivery
          BY <1>1, <2>1, <3>1, <3>3, <4>2 DEF Recorded, Told
        <4> QED BY <4>1, <4>2
      <3>5. \A c \in run[t].children :
               /\ row'[c].status = "pending" /\ Kept(c)
               /\ row'[c].attempts = row[c].attempts
               /\ row'[c].payload = row[c].payload
        BY <1>1, <3>1, <3>3, PublishedType DEF Kept
      <3>6. CompletedBy(e, t)
        <4>1. row'[e] = CompletedRow(e)
          BY <2>1, <3>1
        <4>2. ~CompletedRow(e).payload
          <5>1. row[e] \in RowRecord
            BY <1>1, <2>1, RowFields
          <5> QED BY <5>1, Zenon DEF CompletedRow, RowRecord
        <4> HIDE DEF e
        <4>3. CompletedRow(e).status = "completed"
              /\ SameOrigin(CompletedRow(e), row[e])
              /\ CompletedRow(e).replayed = row[e].replayed
              /\ CompletedRow(e).attempts = row[e].attempts
          BY <1>1, <2>1, CompletedRowType
        <4>4. e \notin run[t].children
          BY <3>3
        <4> QED BY <2>1, <2>2, <3>2, <3>4, <3>5, <4>1, <4>2, <4>3, <4>4
                DEF CompletedBy, Kept, e
      <3>7. ASSUME NEW c \in run[t].children
            PROVE  Delivers(c, t)
        BY <3>3, <3>4, <3>5, <3>6 DEF Delivers, Uncommitted
      <3>8. ASSUME NEW x \in Row, x # e, x \notin run[t].children
            PROVE  Rests(x)
        BY <3>1, <3>4, <3>8 DEF Rests, Kept, SameOrigin
      <3> QED BY <3>6, <3>7, <3>8 DEF Fate
    <2>3. CASE ~Holds(e, t)
      <3>1. row' = WithoutChildren({t}) /\ article' = article
        BY <1>10, <2>3 DEF Acknowledge, Event
      <3> QED BY <1>1, <3>1, RollbackFates
    <2> QED BY <2>2, <2>3
  <1>11. ASSUME NEW t \in Token, NEW w \in 1..MaxWait, Reject(t, w)
         PROVE  Goal
    <2> DEFINE e == run[t].event
    <2>1. /\ e \in Row /\ run[t].state = "settling" /\ w \in 0..MaxWait
          /\ TRUE \in BOOLEAN
      BY <1>1, <1>11, OutboxTableAssumption DEF Reject, RunShape
    <2>2. CASE Holds(e, t)
      <3>1. run'[t].state # "open"
        <4>1. MovesOn(t)
          BY <1>11 DEF Reject
        <4> QED BY <1>1, <4>1, MovesOnRun, FreeRunType
      <3>2. CASE run[t].outcome = "permanent" \/ Exhausted(e)
        <4>1. row' = [row EXCEPT ![e] = FailedRow(e)] /\ article' = Article(e, "failed")
          BY <1>11, <2>2, <3>2 DEF Reject, Event
        <4>2. Told(e, "failed") /\ \A x \in Row \ {e} : article'[x] = article[x]
          BY <1>1, <2>1, <4>1, ArticleTold
        <4>3. ASSUME row'[e] = FailedRow(e)
              PROVE  FailedBy(e, t)
          BY <1>1, <2>1, <2>2, <3>1, <4>2, <4>3, FailedRowType DEF FailedBy, Kept
        <4> QED BY <1>1, <2>1, <4>1, <4>2, <4>3, FailedRowType, OneFate DEF Fate
      <3>3. CASE ~(run[t].outcome = "permanent" \/ Exhausted(e))
        <4>1. row' = [row EXCEPT ![e] = RetriedRow(e, w, TRUE)] /\ article' = article
          BY <1>11, <2>2, <3>3 DEF Reject, Event
        <4>2. row[e].attempts < MaxAttempts
          BY <1>1, <2>1, <3>3, RowFields, FederationQueueAssumption DEF Exhausted
        <4>3. ASSUME row'[e] = RetriedRow(e, w, TRUE)
              PROVE  RetriedBy(e, t)
          <5> DEFINE r == RetriedRow(e, w, TRUE)
          <5>1. /\ r.status = "pending" /\ SameOrigin(r, row[e])
                /\ r.replayed = row[e].replayed /\ r.attempts = row[e].attempts
            BY <1>1, <2>1, RetriedRowType
          <5>2. r.payload
            BY <1>1, <2>1, RetriedRowType
          <5> HIDE DEF r
          <5> QED BY <1>1, <2>1, <2>2, <3>1, <4>1, <4>2, <4>3, <5>1, <5>2
                  DEF RetriedBy, Kept, r
        <4>4. RetriedRow(e, w, TRUE) \in TypedRow
          BY <1>1, <2>1, RetriedRowType
        <4> QED BY <1>1, <2>1, <4>1, <4>3, <4>4, OneFate DEF Fate
      <3> QED BY <3>2, <3>3
    <2>3. CASE ~Holds(e, t)
      BY <1>2, <1>11, <2>3 DEF Reject, Event
    <2> QED BY <2>2, <2>3
  <1>12. ASSUME NEW t \in Token, Renew(t)
         PROVE  Goal
    <2> DEFINE e == run[t].event
    <2>1. /\ e \in Row /\ row[e].status = "processing"
          /\ row' = [row EXCEPT ![e] = RenewedRow(e)] /\ article' = article
      BY <1>1, <1>12 DEF Renew, Heartbeats, Heartbeat, Holds, Event, RunShape
    <2>2. ASSUME row'[e] = RenewedRow(e)
          PROVE  Rests(e)
      BY <1>1, <2>1, <2>2, RenewedRowType DEF Rests, Kept
    <2> QED BY <1>1, <2>1, <2>2, RenewedRowType, OneFate DEF Fate
  <1>13. ASSUME Tick
         PROVE  Goal
    <2>1. TableTick /\ article' = article
      BY <1>13 DEF Tick
    <2>2. \A e \in Row : Rests(e)
      BY <1>1, <1>13, <2>1, TickType DEF Rests, Kept, Ages
    <2> QED BY <2>2 DEF Fate
  <1>14. ASSUME NEW w \in Worker, Crash(w) \/ Exit(w)
         PROVE  Goal
    <2>1. row' = WithoutChildren(Of(w)) /\ Of(w) \in SUBSET Token /\ article' = article
      BY <1>14 DEF Crash, Exit, Gone, Of
    <2> QED BY <1>1, <2>1, RollbackFates
  <1>15. ASSUME NEW e \in Row, Replay(e)
         PROVE  Goal
    <2>1. /\ row[e].status = "dead" /\ row' = [row EXCEPT ![e] = ReplayedRow(e)]
          /\ article' = Article(e, "pending")
      BY <1>15 DEF Replay, Replayable
    <2>2. Told(e, "pending") /\ \A x \in Row \ {e} : article'[x] = article[x]
      BY <1>1, <2>1, ArticleTold
    <2>3. ASSUME row'[e] = ReplayedRow(e)
          PROVE  Reopens(e)
      BY <1>1, <2>1, <2>2, <2>3, ReplayedRowType DEF Reopens
    <2> QED BY <1>1, <2>1, <2>2, <2>3, ReplayedRowType, OneFate DEF Fate
  <1>16. ASSUME NEW e \in Row, Prune(e)
         PROVE  Goal
    <2>1. /\ row[e].status \in {"completed", "dead"} /\ Prunable(e, FALSE)
          /\ row' = [row EXCEPT ![e] = PrunedRow(e)] /\ article' = article
      BY <1>16 DEF Prune, Prunable
    <2>2. FALSE \in BOOLEAN
      OBVIOUS
    <2>3. ASSUME row'[e] = PrunedRow(e)
          PROVE  Prunes(e)
      BY <1>1, <2>1, <2>2, <2>3, PrunedRowType DEF Prunes, Kept
    <2> QED BY <1>1, <2>1, <2>2, <2>3, PrunedRowType, OneFate DEF Fate
  <1>17. ASSUME \/ \E t \in Token : Success(t) \/ Permanent(t) \/ HandlerEnds(t)
                \/ \E w \in Worker : Stall(w) \/ Wake(w) \/ Stop(w)
                \/ \E w \in Worker, t \in Token, e \in Row : Select(w, t, e)
                \/ UNCHANGED vars
         PROVE  Goal
    <2>1. UNCHANGED <<row, article>>
      BY <1>17 DEF Success, Permanent, HandlerEnds, Stall, Wake, Stop, Select, vars
    <2> QED BY <1>2, <2>1
  <1>18. ASSUME NEW t \in Token, NEW d \in Row, NEW i \in Recipients,
                LateEnqueue(t, d, i)
         PROVE  Goal
    <2>1. LateBy(d, t) /\ Only(d) /\ article' = article
      BY <1>18, LateStep
    <2> QED BY <2>1 DEF Only, Fate, Rests, Kept, SameOrigin
  <1>19. ASSUME NEW t \in Token, NEW d \in Row, LateRecord(t, d)
         PROVE  Goal
    <2>1. /\ row' = row /\ d \in late
          /\ \A x \in Row \ {d} : article'[x] = article[x]
      BY <1>1, <1>19 DEF LateRecord
    <2> QED BY <2>1 DEF Fate, Rests, Kept, SameOrigin
  <1>20. ASSUME NEW t \in Token, AcknowledgeFails(t)
         PROVE  Goal
    <2>1. row' = WithoutChildren({t}) /\ article' = article
      BY <1>20 DEF AcknowledgeFails
    <2> QED BY <1>1, <2>1, RollbackFates
  <1>21. ASSUME NEW t \in Token, RejectFails(t) \/ RenewFails(t)
         PROVE  Goal
    BY <1>2, <1>21, Zenon DEF RejectFails, RenewFails
  <1> HIDE DEF Goal
  <1>22. Goal
    BY <1>3, <1>4, <1>5, <1>6, <1>7, <1>8, <1>9, <1>10, <1>11, <1>12, <1>13,
       <1>14, <1>15, <1>16, <1>17, <1>18, <1>19, <1>20, <1>21
       DEF Next, Application, Claim, Handler, Settle, SettleFails, Beat, Environment
  <1> QED BY <1>22 DEF Goal

-----------------------------------------------------------------------------
(* What a step makes of a run. *)

SameRun(t) ==
    run'[t].event = run[t].event /\ run'[t].worker = run[t].worker

Picks(t) ==
    /\ run'[t].state = "chosen" /\ run'[t].children = {}
    /\ run'[t].event \in Row /\ Claimable(run'[t].event)
    /\ \A e \in Row : row[e].token # t
    /\ mode[run'[t].worker] = "up" /\ UNCHANGED <<row, mode, faults, missed, late>>

Opens(t) ==
    /\ run[t].state = "chosen" /\ run'[t].state = "open" /\ SameRun(t)
    /\ run'[t].children = run[t].children /\ TakenBy(run[t].event, t)

Adds(t) ==
    /\ run[t].state = "open" /\ run'[t].state = "open" /\ SameRun(t)
    /\ \E d \in Row : run'[t].children = run[t].children \cup {d} /\ Grows(d, t)

Succeeds(t) ==
    /\ run[t].state = "open" /\ run'[t].state = "settling" /\ SameRun(t)
    /\ run'[t].outcome = "success" /\ run'[t].children = run[t].children
    /\ row' = row
    /\ run[t].event \in Fanout =>
         \A i \in Recipients : \E c \in run[t].children : row[c].inbox = i

Fails(t) ==
    /\ run[t].state \in {"open", "settling"} /\ run'[t].state = "settling" /\ SameRun(t)
    /\ run'[t].outcome # "success" /\ run'[t].children = {}

(* A listener moves on from a row that it has given up, or by a fault.     *)
LetsGo(t) == faults' = faults + 1 \/ \A e \in Row : row'[e].token # t

Lingers(t) ==
    /\ run[t].state = "settling" /\ run'[t].state \in {"settling", "zombie"}
    /\ SameRun(t) /\ run'[t].children = run[t].children
    /\ run'[t].outcome = run[t].outcome
    /\ run'[t].state = "zombie" => run[t].outcome # "success" /\ LetsGo(t)

Frees(t) ==
    /\ run'[t] = FreeRun
    /\ run[t].state # "zombie" => LetsGo(t)

RunFate(t) ==
    \/ Idles(t) \/ Frees(t) \/ Picks(t) \/ Opens(t) \/ Adds(t)
    \/ Succeeds(t) \/ Fails(t) \/ Lingers(t)

(* A step that changes one run. *)
LEMMA OneRunFate ==
    ASSUME run \in [Token -> RunRecord], NEW t \in Token, NEW r \in RunRecord,
           run' = [run EXCEPT ![t] = r], run'[t] = r => RunFate(t)
    PROVE  \A u \in Token : RunFate(u)
  <1>1. run'[t] = r /\ \A u \in Token \ {t} : run'[u] = run[u]
    OBVIOUS
  <1> QED BY <1>1 DEF RunFate, Idles

(* The handler's outcome takes an open run to its acknowledgement, and a   *)
(* failed acknowledgement takes it there again.                            *)
LEMMA OutcomesFate ==
    ASSUME run \in [Token -> RunRecord], NEW t \in Token, NEW o \in Outcome,
           NEW alive \in BOOLEAN, Outcomes(t, o, alive),
           run[t].state \in {"open", "settling"},
           o = "success" =>
             /\ run[t].state = "open" /\ row' = row
             /\ run[t].event \in Fanout =>
                  \A i \in Recipients : \E c \in run[t].children : row[c].inbox = i
    PROVE  \A u \in Token : RunFate(u)
  <1> DEFINE kept == IF o = "success" THEN run[t].children ELSE {}
             r == [run[t] EXCEPT !.state = "settling", !.outcome = o,
                                 !.handler = alive, !.children = kept]
  <1>1. run[t] \in RunRecord /\ kept \in SUBSET Row /\ "settling" \in RunState
    BY DEF RunRecord, RunState
  <1>2. run' = [run EXCEPT ![t] = r]
    BY DEF Outcomes
  <1> HIDE DEF kept
  <1>3. r \in RunRecord
    BY <1>1, Zenon DEF RunRecord
  <1>4. /\ r.state = "settling" /\ r.outcome = o /\ r.event = run[t].event
        /\ r.worker = run[t].worker /\ r.children = kept
    BY <1>1, Zenon DEF RunRecord
  <1> HIDE DEF r
  <1>5. ASSUME run'[t] = r
        PROVE  RunFate(t)
    BY <1>4, <1>5 DEF RunFate, Succeeds, Fails, SameRun, kept
  <1> QED BY <1>2, <1>3, <1>5, OneRunFate

(* A run holds only the row of its event, and none before it has claimed   *)
(* it, nor after it has given it up.                                       *)
LEMMA Holder ==
    ASSUME IInv, NEW t \in Token, NEW e \in Row, row[e].token = t
    PROVE  /\ Holds(e, t)
           /\ run[t].state \in {"free", "open", "settling", "zombie"}
           /\ run[t].state # "free" => run[t].event = e
  <1>1. row[e].status = "processing"
    BY RowFields, OutboxTableAssumption DEF IInv, TypeOK, TableTypeOK
  <1> QED BY <1>1 DEF IInv, TokenOwned, Holds

(* A listener that moves on. *)
LEMMA MovesOnFate ==
    ASSUME run \in [Token -> RunRecord], NEW t \in Token, MovesOn(t), LetsGo(t),
           run[t].state = "settling", run[t].outcome # "success"
    PROVE  \A u \in Token : RunFate(u)
  <1>1. \A u \in Token \ {t} : RunFate(u)
    BY MovesOnRun DEF RunFate, Idles
  <1>2. RunFate(t)
    BY MovesOnRun DEF RunFate, Frees, Lingers, SameRun
  <1> QED BY <1>1, <1>2

(* Setting or clearing the heartbeats, or counting a late enqueue, leaves  *)
(* every run as it is otherwise.                                           *)
LEMMA IdleFate ==
    ASSUME run \in [Token -> RunRecord], NEW t \in Token,
           \/ run' = [run EXCEPT ![t].due = FALSE]
           \/ run' = [run EXCEPT ![t].nextPosition = @ + 1]
    PROVE  \A u \in Token : Idles(u)
  <1>1. run[t] \in RunRecord
    OBVIOUS
  <1>2. CASE run' = [run EXCEPT ![t].due = FALSE]
    <2> DEFINE r == [run[t] EXCEPT !.due = FALSE]
    <2>1. run' = [run EXCEPT ![t] = r]
      BY <1>2
    <2>2. /\ r.state = run[t].state /\ r.event = run[t].event
          /\ r.worker = run[t].worker /\ r.outcome = run[t].outcome
          /\ r.handler = run[t].handler /\ r.children = run[t].children
      BY <1>1, Zenon DEF RunRecord
    <2> HIDE DEF r
    <2> QED BY <2>1, <2>2 DEF Idles
  <1>3. CASE run' = [run EXCEPT ![t].nextPosition = @ + 1]
    <2> DEFINE p == run[t].nextPosition + 1
               r == [run[t] EXCEPT !.nextPosition = p]
    <2>1. run' = [run EXCEPT ![t] = r]
      BY <1>3
    <2> HIDE DEF p
    <2>2. /\ r.state = run[t].state /\ r.event = run[t].event
          /\ r.worker = run[t].worker /\ r.outcome = run[t].outcome
          /\ r.handler = run[t].handler /\ r.children = run[t].children
      BY <1>1, Zenon DEF RunRecord
    <2> HIDE DEF r
    <2> QED BY <2>1, <2>2 DEF Idles
  <1> QED BY <1>2, <1>3

(* Every step gives every run one of these fates. *)
LEMMA RunFates ==
    ASSUME IInv, [Next]_vars
    PROVE  \A t \in Token : RunFate(t)
  <1> DEFINE Goal == \A t \in Token : RunFate(t)
  <1>1. /\ row \in [Row -> TypedRow] /\ run \in [Token -> RunRecord]
        /\ RunShape /\ TokenOwned /\ NoToken \notin Token
    BY OutboxTableAssumption DEF IInv, TypeOK, TableTypeOK
  <1>2. run' = run => Goal
    BY DEF RunFate, Idles
  <1>3. ASSUME NEW t \in Token, Ends(t), \A e \in Row : row'[e].token # t
        PROVE  Goal
    <2>1. run' = [run EXCEPT ![t] = FreeRun]
      BY <1>3 DEF Ends
    <2>2. ASSUME run'[t] = FreeRun
          PROVE  RunFate(t)
      BY <1>3, <2>2 DEF RunFate, Frees, LetsGo
    <2> HIDE DEF Goal
    <2>3. \A u \in Token : RunFate(u)
      BY <1>1, <2>1, <2>2, FreeRunType, OneRunFate
    <2> QED BY <2>3 DEF Goal
  <1>4. ASSUME NEW w \in Worker, NEW t \in Token, NEW e \in Row, Select(w, t, e)
        PROVE  Goal
    <2> DEFINE r == [FreeRun EXCEPT !.state = "chosen", !.event = e, !.worker = w]
    <2>1. /\ r \in RunRecord /\ r.state = "chosen" /\ r.event = e /\ r.worker = w
          /\ r.children = {}
      BY DEF FreeRun, RunRecord, RunState, Outcome
    <2>2. /\ run' = [run EXCEPT ![t] = r] /\ UNCHANGED <<row, mode, faults, missed, late>>
          /\ mode[w] = "up" /\ Claimable(e) /\ \A x \in Row : row[x].token # t
      BY <1>4 DEF Select, Fresh
    <2> HIDE DEF r
    <2>3. run'[t] = r => RunFate(t)
      BY <2>1, <2>2 DEF RunFate, Picks
    <2> QED BY <1>1, <2>1, <2>2, <2>3, OneRunFate
  <1>5. ASSUME NEW t \in Token, Take(t)
        PROVE  Goal
    <2> DEFINE e == run[t].event
               starts == mode[run[t].worker] # "stopping"
               r == [run[t] EXCEPT !.state = "open", !.handler = starts]
    <2>1. /\ run[t].state = "chosen" /\ e \in Row
          /\ UNCHANGED <<mode, faults, missed, article>>
      BY <1>1, <1>5 DEF Take, RunShape
    <2>2. CASE Due(e)
      <3>1. run' = [run EXCEPT ![t] = r] /\ row' = [row EXCEPT ![e] = ClaimedRow(e, t)]
        BY <1>5, <2>2 DEF Take
      <3>2. run[t] \in RunRecord /\ starts \in BOOLEAN /\ "open" \in RunState
        BY <1>1 DEF RunState
      <3>3. row'[e] = ClaimedRow(e, t)
        BY <1>1, <2>1, <3>1
      <3> HIDE DEF starts
      <3>4. /\ r \in RunRecord /\ r.state = "open" /\ r.event = e
            /\ r.worker = run[t].worker /\ r.children = run[t].children
        BY <3>2, Zenon DEF RunRecord
      <3> HIDE DEF r
      <3>5. ASSUME run'[t] = r
            PROVE  RunFate(t)
        <4>1. TakenBy(e, t)
          BY <1>1, <2>1, <2>2, <3>3, <3>4, <3>5, ClaimedRowType DEF TakenBy, Kept
        <4> QED BY <2>1, <3>4, <3>5, <4>1 DEF RunFate, Opens, SameRun
      <3> QED BY <1>1, <3>1, <3>4, <3>5, OneRunFate
    <2>3. CASE ~Due(e)
      <3>1. row' = row /\ Ends(t)
        BY <1>5, <2>3 DEF Take, Ends
      <3>2. \A x \in Row : row[x].token # t
        BY <2>1, Holder
      <3> QED BY <1>3, <3>1, <3>2
    <2> QED BY <2>2, <2>3
  <1>6. ASSUME NEW t \in Token, NEW d \in Row, NEW i \in Recipients,
               FanoutEnqueue(t, d, i)
        PROVE  Goal
    <2> DEFINE own == run[t].children \cup {d}
               next == run[t].nextPosition + 1
               r == [run[t] EXCEPT !.children = own, !.nextPosition = next]
    <2>1. run[t] \in RunRecord /\ own \in SUBSET Row /\ next \in Nat
      BY <1>1 DEF RunRecord
    <2>2. run' = [run EXCEPT ![t] = r] /\ run[t].state = "open"
      BY <1>6 DEF FanoutEnqueue, Handling, Waiting
    <2> HIDE DEF next, own
    <2>3. /\ r \in RunRecord /\ r.state = run[t].state /\ r.event = run[t].event
          /\ r.worker = run[t].worker /\ r.children = own
      BY <2>1, Zenon DEF RunRecord
    <2> HIDE DEF r
    <2>4. Grows(d, t)
      BY <1>6, GrowsStep
    <2>5. run'[t] = r => RunFate(t)
      BY <2>2, <2>3, <2>4 DEF RunFate, Adds, SameRun, own
    <2> QED BY <1>1, <2>2, <2>3, <2>5, OneRunFate
  <1>7. ASSUME NEW t \in Token, Success(t)
        PROVE  Goal
    BY <1>1, <1>7, OutcomesFate DEF Success, Handling, Waiting, Event, Outcome
  <1>8. ASSUME NEW t \in Token, Permanent(t) \/ Throw(t) \/ Timeout(t) \/ Abort(t)
        PROVE  Goal
    <2>1. run[t].state = "open"
      BY <1>8 DEF Permanent, Throw, Timeout, Abort, Handling, Waiting
    <2>2. \E o \in {"permanent", "failed"}, alive \in BOOLEAN :
             Outcomes(t, o, alive)
      BY <1>1, <1>8 DEF Permanent, Throw, Timeout, Abort, RunRecord
    <2> QED BY <1>1, <2>1, <2>2, OutcomesFate DEF Outcome
  <1>9. ASSUME NEW t \in Token, NEW w \in 0..MaxWait, NEW held \in BOOLEAN,
               Requeue(t, w, held)
        PROVE  Goal
    <2> DEFINE e == run[t].event
    <2>1. CASE run[t].state = "settling"
      <3> DEFINE r == [run[t] EXCEPT !.handler = FALSE]
      <3>1. run' = [run EXCEPT ![t] = r]
        BY <1>9, <2>1 DEF Requeue
      <3>2. run[t] \in RunRecord /\ FALSE \in BOOLEAN
        BY <1>1
      <3>3. /\ r \in RunRecord /\ r.state = run[t].state /\ r.event = run[t].event
            /\ r.worker = run[t].worker /\ r.outcome = run[t].outcome
            /\ r.children = run[t].children
        BY <3>2, Zenon DEF RunRecord
      <3> HIDE DEF r
      <3>4. run'[t] = r => RunFate(t)
        BY <2>1, <3>3 DEF RunFate, Lingers, SameRun
      <3> QED BY <1>1, <3>1, <3>3, <3>4, OneRunFate
    <2>2. CASE run[t].state # "settling"
      <3>1. run[t].state \in {"open", "zombie"} /\ e \in Row
        BY <1>1, <1>9, <2>2 DEF Requeue, RunShape
      <3>2. CASE Holds(e, t)
        <4>1. /\ Ends(t)
              /\ \/ row' = [row EXCEPT ![e] = FailedRow(e)]
                 \/ row' = [row EXCEPT ![e] = RetriedRow(e, w, ~held)]
          BY <1>9, <3>1, <3>2 DEF Requeue, Event
        <4>2. (~held) \in BOOLEAN
          OBVIOUS
        <4>3. FailedRow(e).token = NoToken /\ RetriedRow(e, w, ~held).token = NoToken
          BY <1>1, <3>1, <4>2, FailedRowType, RetriedRowType
        <4>4. \A x \in Row : row[x].token = t => x = e
          BY <3>1, Holder
        <4>5. \A x \in Row : row'[x].token # t
          BY <1>1, <3>1, <4>1, <4>3, <4>4
        <4> QED BY <1>3, <4>1, <4>5
      <3>3. CASE ~Holds(e, t)
        <4>1. CASE run[t].state = "zombie"
          <5>1. row' = row /\ Ends(t)
            BY <1>9, <3>3, <4>1 DEF Requeue, Event
          <5>2. \A x \in Row : row[x].token # t
            BY <3>1, <3>3, Holder
          <5> QED BY <1>3, <5>1, <5>2
        <4>2. CASE run[t].state = "open"
          <5>1. Outcomes(t, "failed", FALSE)
            BY <1>9, <3>3, <4>2 DEF Requeue, Event
          <5> QED BY <1>1, <4>2, <5>1, OutcomesFate DEF Outcome
        <4> QED BY <3>1, <4>1, <4>2
      <3> QED BY <3>2, <3>3
    <2> QED BY <2>1, <2>2
  <1>10. ASSUME NEW t \in Token, HandlerEnds(t)
         PROVE  Goal
    <2>1. run' = [run EXCEPT ![t] = FreeRun] /\ run[t].state = "zombie"
      BY <1>10 DEF HandlerEnds, Ends
    <2>2. run'[t] = FreeRun => RunFate(t)
      BY <2>1 DEF RunFate, Frees
    <2> HIDE DEF Goal
    <2>3. \A u \in Token : RunFate(u)
      BY <1>1, <2>1, <2>2, FreeRunType, OneRunFate
    <2> QED BY <2>3 DEF Goal
  <1>11. ASSUME NEW t \in Token, Acknowledge(t)
         PROVE  Goal
    <2> DEFINE e == run[t].event
    <2>1. /\ e \in Row /\ run[t].state = "settling" /\ Ends(t)
          /\ \A x \in Row : row[x].token = t => Holds(e, t) /\ x = e
      BY <1>1, <1>11, Holder DEF Acknowledge, RunShape
    <2>2. \A x \in Row : Moves(x)
      BY <1>11, RowMoves DEF Next
    <2>3. run'[t].state = "free"
      BY <1>1, <2>1, FreeRunType DEF Ends
    <2>4. ASSUME NEW x \in Row, row'[x].token = t
          PROVE  FALSE
      <3>1. Keeps(x)
        BY <1>1, <2>2, <2>3, <2>4
           DEF Moves, Inserts, Closes, Retires, Claims, Gives
      <3>2. x = e /\ Holds(e, t) /\ row'[e].status = "processing"
        BY <2>1, <2>4, <3>1 DEF Keeps, Holds
      <3>3. row' = [a \in Row |-> IF a = e THEN CompletedRow(a)
                                  ELSE IF a \in run[t].children THEN Published(a)
                                  ELSE row[a]]
        BY <1>11, <3>2 DEF Acknowledge, Event
      <3> QED BY <1>1, <2>1, <3>2, <3>3, CompletedRowType
    <2> QED BY <1>3, <2>1, <2>4
  <1>12. ASSUME NEW t \in Token, NEW w \in 1..MaxWait, Reject(t, w)
         PROVE  Goal
    <2> DEFINE e == run[t].event
    <2>1. /\ e \in Row /\ run[t].state = "settling" /\ run[t].outcome # "success"
          /\ w \in 0..MaxWait /\ TRUE \in BOOLEAN
      BY <1>1, <1>12, OutboxTableAssumption DEF Reject, RunShape
    <2>2. MovesOn(t)
      BY <1>12 DEF Reject
    <2>3. \A x \in Row : row[x].token = t => x = e /\ Holds(e, t)
      BY <2>1, Holder
    <2>4. \A x \in Row : row'[x].token # t
      <3>1. CASE Holds(e, t)
        <4>1. \/ row' = [row EXCEPT ![e] = FailedRow(e)]
              \/ row' = [row EXCEPT ![e] = RetriedRow(e, w, TRUE)]
          BY <1>12, <3>1 DEF Reject, Event
        <4>2. FailedRow(e).token = NoToken /\ RetriedRow(e, w, TRUE).token = NoToken
          BY <1>1, <2>1, FailedRowType, RetriedRowType
        <4> QED BY <1>1, <2>1, <2>3, <4>1, <4>2
      <3>2. CASE ~Holds(e, t)
        <4>1. row' = row
          BY <1>12, <3>2 DEF Reject, Event
        <4> QED BY <2>3, <3>2, <4>1
      <3> QED BY <3>1, <3>2
    <2>5. LetsGo(t)
      BY <2>4 DEF LetsGo
    <2> QED BY <1>1, <2>1, <2>2, <2>5, MovesOnFate
  <1>13. ASSUME NEW w \in Worker, Crash(w) \/ Exit(w)
         PROVE  Goal
    <2>1. /\ run' = [t \in Token |-> IF t \in Of(w) THEN FreeRun ELSE run[t]]
          /\ row' = WithoutChildren(Of(w)) /\ Of(w) \in SUBSET Token
      BY <1>13 DEF Crash, Exit, Gone, Of
    <2>2. ASSUME NEW t \in Of(w), run[t].state # "zombie", faults' # faults + 1,
                 NEW e \in Row, row'[e].token = t
          PROVE  FALSE
      <3>1. t \in Token /\ ~Busy(t) /\ run[t].state # "free"
        BY <1>13, <2>2 DEF Crash, Exit, Fault, Of
      <3>2. row'[e] = row[e] \/ row'[e] = AbsentRow(e)
        BY <2>1, Zenon DEF WithoutChildren
      <3>3. row[e].token = t
        BY <1>1, <2>2, <3>1, <3>2, AbsentRowType
      <3> QED BY <2>2, <3>1, <3>3, Holder DEF Busy
    <2>3. \A t \in Of(w) : Frees(t)
      BY <2>1, <2>2 DEF Frees, LetsGo
    <2> QED BY <2>1, <2>3 DEF RunFate, Idles
  <1>14. ASSUME \/ \E s \in Sends : AppEnqueue(s)
                \/ \E e \in Row : AppCommit(e) \/ AppRollback(e) \/ Replay(e) \/ Prune(e)
                \/ \E t \in Token, d \in Row : LateRecord(t, d)
                \/ \E w \in Worker : Stall(w) \/ Wake(w) \/ Stop(w)
                \/ UNCHANGED vars
         PROVE  Goal
    <2>1. run' = run
      BY <1>14 DEF AppEnqueue, AppCommit, AppRollback, Replay, Prune, LateRecord,
         Stall, Wake, Stop, vars
    <2> QED BY <1>2, <2>1
  <1>15. ASSUME NEW t \in Token,
                \/ Renew(t) \/ RenewFails(t)
                \/ \E d \in Row, i \in Recipients : LateEnqueue(t, d, i)
         PROVE  Goal
    <2>1. \/ run' = [run EXCEPT ![t].due = FALSE]
          \/ run' = [run EXCEPT ![t].nextPosition = @ + 1]
      BY <1>15 DEF Renew, RenewFails, LateEnqueue
    <2> QED BY <1>1, <2>1, IdleFate DEF RunFate
  <1>16. ASSUME Tick
         PROVE  Goal
    <2>1. run' = [t \in Token |-> [run[t] EXCEPT !.due = Heartbeat(t)]]
      BY <1>16 DEF Tick
    <2>2. ASSUME NEW t \in Token
          PROVE  Idles(t)
      <3>1. Heartbeat(t) \in BOOLEAN /\ run[t] \in RunRecord
        BY <1>1 DEF Heartbeat
      <3>2. ASSUME NEW b \in BOOLEAN, run'[t] = [run[t] EXCEPT !.due = b]
            PROVE  Idles(t)
        BY <3>1, <3>2, DueRun DEF Idles
      <3> QED BY <2>1, <3>1, <3>2
    <2> QED BY <2>2 DEF RunFate
  <1>17. ASSUME NEW t \in Token, AcknowledgeFails(t)
         PROVE  Goal
    <2>1. run[t].state = "settling" /\ Outcomes(t, "failed", FALSE)
      BY <1>17 DEF AcknowledgeFails
    <2> QED BY <1>1, <2>1, OutcomesFate DEF Outcome
  <1>18. ASSUME NEW t \in Token, RejectFails(t)
         PROVE  Goal
    <2>1. /\ run[t].state = "settling" /\ run[t].outcome # "success"
          /\ faults' = faults + 1 /\ MovesOn(t)
      BY <1>18, Zenon DEF RejectFails, Fault
    <2>2. LetsGo(t)
      BY <2>1 DEF LetsGo
    <2> QED BY <1>1, <2>1, <2>2, MovesOnFate
  <1> HIDE DEF Goal
  <1>19. Goal
    BY <1>4, <1>5, <1>6, <1>7, <1>8, <1>9, <1>10, <1>11, <1>12, <1>13, <1>14,
       <1>15, <1>16, <1>17, <1>18
       DEF Next, Application, Claim, Handler, Settle, SettleFails, Beat, Environment
  <1> QED BY <1>19 DEF Goal

(* What a step makes of the workers, of what has gone wrong, and of the    *)
(* sequence: a worker is up until a fault befalls it.                      *)
LEMMA ModeStep ==
    ASSUME IInv, [Next]_vars
    PROVE  /\ faults' = faults \/ faults' = faults + 1
           /\ missed' = missed \/ missed' = missed + 1
           /\ \A w \in Worker : \/ mode'[w] \in {"up", mode[w]}
                                \/ faults' = faults + 1 /\ row' = row
           /\ sequence' = sequence \/ sequence' = sequence + 1
  <1> DEFINE Goal == /\ faults' = faults \/ faults' = faults + 1
                     /\ missed' = missed \/ missed' = missed + 1
                     /\ \A w \in Worker : \/ mode'[w] \in {"up", mode[w]}
                                          \/ faults' = faults + 1 /\ row' = row
                     /\ sequence' = sequence \/ sequence' = sequence + 1
  <1>1. mode \in [Worker -> {"up", "stalled", "stopping"}]
    BY DEF IInv, TypeOK
  <1>2. UNCHANGED <<faults, missed, mode, sequence>> => Goal
    OBVIOUS
  <1>3. ASSUME NEW s \in Sends, AppEnqueue(s)
        PROVE  Goal
    BY <1>3 DEF AppEnqueue, InsertRoot
  <1>4. ASSUME NEW t \in Token, NEW w \in 0..MaxWait, NEW held \in BOOLEAN,
               Requeue(t, w, held)
        PROVE  Goal
    BY <1>4 DEF Requeue
  <1>5. ASSUME NEW w \in Worker,
               Crash(w) \/ Stall(w) \/ Wake(w) \/ Stop(w) \/ Exit(w)
        PROVE  Goal
    BY <1>1, <1>5 DEF Crash, Stall, Wake, Stop, Exit, Gone, Fault
  <1>6. ASSUME \/ \E e \in Row : AppCommit(e) \/ AppRollback(e) \/ Replay(e) \/ Prune(e)
               \/ \E w \in Worker, t \in Token, e \in Row : Select(w, t, e)
               \/ Tick \/ UNCHANGED vars
        PROVE  Goal
    <2>1. UNCHANGED <<faults, missed, mode, sequence>>
      BY <1>6 DEF AppCommit, AppRollback, Replay, Prune, Select, Tick, vars
    <2> QED BY <1>2, <2>1
  <1>7. ASSUME NEW t \in Token, NEW w \in 1..MaxWait, Reject(t, w)
        PROVE  Goal
    <2>1. UNCHANGED <<faults, missed, mode, sequence>>
      BY <1>7, Zenon DEF Reject
    <2> QED BY <1>2, <2>1
  <1>8. ASSUME NEW t \in Token,
                \/ Take(t)
                \/ \E d \in Row, i \in Recipients :
                     FanoutEnqueue(t, d, i) \/ LateEnqueue(t, d, i)
                \/ \E d \in Row : LateRecord(t, d)
                \/ Success(t) \/ Permanent(t) \/ Throw(t) \/ Timeout(t) \/ Abort(t)
                \/ HandlerEnds(t) \/ Acknowledge(t) \/ Renew(t)
         PROVE  Goal
    <2>1. UNCHANGED <<faults, missed, mode, sequence>>
      BY <1>8 DEF Take, FanoutEnqueue, LateEnqueue, LateRecord, Success, Permanent,
         Throw, Timeout, Abort, HandlerEnds, Acknowledge, Renew
    <2> QED BY <1>2, <2>1
  <1>9. ASSUME NEW t \in Token, AcknowledgeFails(t) \/ RejectFails(t)
        PROVE  Goal
    <2>1. UNCHANGED <<missed, mode, sequence>> /\ faults' = faults + 1
      BY <1>9, Zenon DEF AcknowledgeFails, RejectFails, Fault
    <2> QED BY <2>1
  <1>10. ASSUME NEW t \in Token, RenewFails(t)
        PROVE  Goal
    BY <1>10 DEF RenewFails
  <1> HIDE DEF Goal
  <1>11. Goal
    BY <1>3, <1>4, <1>5, <1>6, <1>7, <1>8, <1>9, <1>10
       DEF Next, Application, Claim, Handler, Settle, SettleFails, Beat, Environment
  <1> QED BY <1>11 DEF Goal

(* What a step makes of the deliveries enqueued late: it adds a new row,   *)
(* or none.                                                                *)
LEMMA LateMoves ==
    ASSUME IInv, [Next]_vars
    PROVE  \/ late' = late
           \/ \E t \in Token, d \in Row : LateBy(d, t)
  <1> DEFINE Goal == late' = late \/ \E t \in Token, d \in Row : LateBy(d, t)
  <1>1. ASSUME NEW t \in Token, NEW d \in Row, NEW i \in Recipients,
               LateEnqueue(t, d, i)
        PROVE  Goal
    BY <1>1, LateStep
  <1>2. ASSUME NEW t \in Token,
               \/ \E w \in 1..MaxWait : Reject(t, w)
               \/ AcknowledgeFails(t) \/ RejectFails(t)
        PROVE  Goal
    BY <1>2, Zenon DEF Reject, AcknowledgeFails, RejectFails
  <1>3. ASSUME NEW t \in Token,
               \/ Take(t) \/ \E d \in Row, i \in Recipients : FanoutEnqueue(t, d, i)
               \/ \E d \in Row : LateRecord(t, d)
               \/ Success(t) \/ Permanent(t) \/ Throw(t) \/ Timeout(t) \/ Abort(t)
               \/ \E w \in 0..MaxWait, held \in BOOLEAN : Requeue(t, w, held)
               \/ HandlerEnds(t) \/ Acknowledge(t) \/ Renew(t) \/ RenewFails(t)
        PROVE  Goal
    BY <1>3 DEF Take, FanoutEnqueue, LateRecord, Success, Permanent, Throw, Timeout,
       Abort, Requeue, HandlerEnds, Acknowledge, Renew, RenewFails
  <1>4. ASSUME \/ \E s \in Sends : AppEnqueue(s)
               \/ \E e \in Row : AppCommit(e) \/ AppRollback(e) \/ Replay(e) \/ Prune(e)
               \/ \E w \in Worker, t \in Token, e \in Row : Select(w, t, e)
               \/ \E w \in Worker :
                    Crash(w) \/ Stall(w) \/ Wake(w) \/ Stop(w) \/ Exit(w)
               \/ Tick \/ UNCHANGED vars
        PROVE  Goal
    BY <1>4 DEF AppEnqueue, AppCommit, AppRollback, Replay, Prune, Select, Crash, Stall,
       Wake, Stop, Exit, Gone, Tick, vars
  <1> HIDE DEF Goal
  <1>5. Goal
    BY <1>1, <1>2, <1>3, <1>4
       DEF Next, Application, Claim, Handler, Settle, SettleFails, Beat, Environment
  <1> QED BY <1>5 DEF Goal

(* An outcome leaves the heartbeat alone. *)
LEMMA OutcomesDue ==
    ASSUME run \in [Token -> RunRecord], NEW t \in Token, NEW o \in Outcome,
           NEW alive \in BOOLEAN, Outcomes(t, o, alive)
    PROVE  \A u \in Token : run'[u].due = run[u].due
  <1> DEFINE kept == IF o = "success" THEN run[t].children ELSE {}
             r == [run[t] EXCEPT !.state = "settling", !.outcome = o,
                                 !.handler = alive, !.children = kept]
  <1>1. run[t] \in RunRecord /\ run' = [run EXCEPT ![t] = r]
    BY DEF Outcomes
  <1> HIDE DEF kept
  <1>2. r.due = run[t].due
    BY <1>1, Zenon DEF RunRecord
  <1> HIDE DEF r
  <1> QED BY <1>1, <1>2

(* What a step of a process makes of the heartbeat of a run that goes on:  *)
(* nothing, unless it renews the lease, well or badly.                     *)
LEMMA BeatStep ==
    ASSUME IInv, [Next]_vars, ~Tick, NEW t \in Token,
           run[t].state \in {"open", "settling"}, run'[t].state \in {"open", "settling"}
    PROVE  \/ run'[t].due = run[t].due
           \/ missed' = missed + 1
           \/ row'[run[t].event].lease = Lease
  <1> DEFINE Goal == \/ run'[t].due = run[t].due
                     \/ missed' = missed + 1
                     \/ row'[run[t].event].lease = Lease
  <1>1. /\ row \in [Row -> TypedRow] /\ run \in [Token -> RunRecord] /\ RunShape
        /\ FreeRun.state = "free" /\ run[t] \in RunRecord
    BY FreeRunType DEF IInv, TypeOK, TableTypeOK
  <1>2. run' = run => Goal
    OBVIOUS
  <1>3. ASSUME NEW u \in Token, Ends(u) \/ MovesOn(u)
        PROVE  Goal
    <2>1. CASE u = t
      BY <1>1, <1>3, <2>1, MovesOnRun DEF Ends
    <2>2. CASE u # t
      BY <1>1, <1>3, <2>2, MovesOnRun DEF Ends
    <2> QED BY <2>1, <2>2
  <1>4. ASSUME NEW u \in Token, NEW o \in Outcome, NEW alive \in BOOLEAN,
               Outcomes(u, o, alive)
        PROVE  Goal
    BY <1>1, <1>4, OutcomesDue
  <1>5. ASSUME NEW w \in Worker, NEW u \in Token, NEW e \in Row, Select(w, u, e)
        PROVE  Goal
    <2>1. run[u].state = "free" /\ \A x \in Token \ {u} : run'[x] = run[x]
      BY <1>1, <1>5 DEF Select, Fresh
    <2> QED BY <2>1
  <1>6. ASSUME NEW u \in Token, Take(u)
        PROVE  Goal
    <2>1. run[u].state = "chosen" /\ \A x \in Token \ {u} : run'[x] = run[x]
      BY <1>1, <1>6 DEF Take
    <2> QED BY <2>1
  <1>7. ASSUME NEW u \in Token, NEW d \in Row, NEW i \in Recipients,
               FanoutEnqueue(u, d, i)
        PROVE  Goal
    <2> DEFINE own == run[u].children \cup {d}
               next == run[u].nextPosition + 1
               r == [run[u] EXCEPT !.children = own, !.nextPosition = next]
    <2>1. run[u] \in RunRecord /\ run' = [run EXCEPT ![u] = r]
      BY <1>1, <1>7 DEF FanoutEnqueue
    <2> HIDE DEF own, next
    <2>2. r.due = run[u].due
      BY <2>1, Zenon DEF RunRecord
    <2> HIDE DEF r
    <2> QED BY <1>1, <2>1, <2>2
  <1>8. ASSUME NEW u \in Token, NEW d \in Row, NEW i \in Recipients,
               LateEnqueue(u, d, i)
        PROVE  Goal
    <2> DEFINE next == run[u].nextPosition + 1
               r == [run[u] EXCEPT !.nextPosition = next]
    <2>1. run[u] \in RunRecord /\ run' = [run EXCEPT ![u] = r]
      BY <1>1, <1>8 DEF LateEnqueue
    <2> HIDE DEF next
    <2>2. r.due = run[u].due
      BY <2>1, Zenon DEF RunRecord
    <2> HIDE DEF r
    <2> QED BY <1>1, <2>1, <2>2
  <1>9. ASSUME NEW u \in Token,
               Success(u) \/ Permanent(u) \/ Throw(u) \/ Timeout(u) \/ Abort(u)
                 \/ AcknowledgeFails(u)
        PROVE  Goal
    <2>1. run[u].handler \in BOOLEAN
      BY <1>1 DEF RunRecord
    <2>2. \E o \in {"success", "permanent", "failed"}, alive \in BOOLEAN :
             Outcomes(u, o, alive)
      BY <1>9, <2>1 DEF Success, Permanent, Throw, Timeout, Abort, AcknowledgeFails
    <2> QED BY <1>4, <2>2 DEF Outcome
  <1>10. ASSUME NEW u \in Token, NEW w \in 0..MaxWait, NEW held \in BOOLEAN,
                Requeue(u, w, held)
         PROVE  Goal
    <2>1. CASE run[u].state = "settling"
      <3> DEFINE r == [run[u] EXCEPT !.handler = FALSE]
      <3>1. run[u] \in RunRecord /\ run' = [run EXCEPT ![u] = r]
        BY <1>1, <1>10, <2>1 DEF Requeue
      <3>2. r.due = run[u].due
        BY <3>1, Zenon DEF RunRecord
      <3> HIDE DEF r
      <3> QED BY <1>1, <3>1, <3>2
    <2>2. CASE run[u].state # "settling"
      <3>1. Ends(u) \/ Outcomes(u, "failed", FALSE)
        BY <1>10, <2>2 DEF Requeue
      <3> QED BY <1>3, <1>4, <3>1 DEF Outcome
    <2> QED BY <2>1, <2>2
  <1>11. ASSUME NEW u \in Token,
                \/ HandlerEnds(u) \/ Acknowledge(u) \/ RejectFails(u)
                \/ \E w \in 1..MaxWait : Reject(u, w)
         PROVE  Goal
    <2>1. Ends(u) \/ MovesOn(u)
      BY <1>11, Zenon DEF HandlerEnds, Acknowledge, RejectFails, Reject
    <2> QED BY <1>3, <2>1
  <1>12. ASSUME NEW u \in Token, Renew(u)
         PROVE  Goal
    <2>1. CASE u = t
      <3> DEFINE e == run[t].event
      <3>1. e \in Row /\ row' = [row EXCEPT ![e] = RenewedRow(e)]
        BY <1>1, <1>12, <2>1 DEF Renew, RunShape, Event
      <3>2. row[e].status = "processing"
        BY <1>12, <2>1 DEF Renew, Heartbeats, Heartbeat, Holds, Event
      <3>3. RenewedRow(e).lease = Lease
        BY <1>1, <3>1, <3>2, RenewedRowType
      <3> QED BY <1>1, <3>1, <3>3
    <2>2. CASE u # t
      BY <1>1, <1>12, <2>2 DEF Renew
    <2> QED BY <2>1, <2>2
  <1>13. ASSUME NEW u \in Token, RenewFails(u)
         PROVE  Goal
    BY <1>13 DEF RenewFails
  <1>14. ASSUME NEW w \in Worker, Crash(w) \/ Exit(w)
         PROVE  Goal
    BY <1>1, <1>14 DEF Crash, Exit, Gone
  <1>15. ASSUME \/ \E s \in Sends : AppEnqueue(s)
                \/ \E e \in Row : AppCommit(e) \/ AppRollback(e) \/ Replay(e) \/ Prune(e)
                \/ \E u \in Token, d \in Row : LateRecord(u, d)
                \/ \E w \in Worker : Stall(w) \/ Wake(w) \/ Stop(w)
                \/ UNCHANGED vars
         PROVE  Goal
    <2>1. run' = run
      BY <1>15 DEF AppEnqueue, AppCommit, AppRollback, Replay, Prune, LateRecord,
         Stall, Wake, Stop, vars
    <2> QED BY <1>2, <2>1
  <1> HIDE DEF Goal
  <1>16. Goal
    BY <1>5, <1>6, <1>7, <1>8, <1>9, <1>10, <1>11, <1>12, <1>13, <1>14, <1>15
       DEF Next, Application, Claim, Handler, Settle, SettleFails, Beat, Environment
  <1> QED BY <1>16 DEF Goal

-----------------------------------------------------------------------------
(* What the fates of a row leave it. *)

(* A visible row stays visible and keeps its place; its children too.      *)
LEMMA VisibleStays ==
    ASSUME NEW e \in Row, Fate(e), Visible(e)
    PROVE  /\ Visible(e)' /\ SameOrigin(row'[e], row[e])
           /\ ~row'[e].replayed => row'[e].replayed = row[e].replayed
           /\ Settled(e) /\ ~row'[e].replayed => Settled(e)'
           /\ Done(e) => Done(e)'
  BY DEF Visible, Settled, Done, Fate, Rests, Kept, Roots, Grows, LateBy, Commits,
     Drops, TakenBy, CompletedBy, Delivers, RetriedBy, FailedBy, Reopens, Prunes, Holds, Due

(* A row that exists was inserted by this step, or kept its place.         *)
LEMMA OriginStays ==
    ASSUME NEW e \in Row, Fate(e), Exists(e)'
    PROVE  \/ Roots(e) \/ \E t \in Token : Grows(e, t) \/ LateBy(e, t)
           \/ Exists(e) /\ SameOrigin(row'[e], row[e])
  BY AbsentRowType DEF Exists, Fate, Rests, Kept, Commits, Drops, TakenBy,
     CompletedBy, Delivers, RetriedBy, FailedBy, Reopens, Prunes, Holds, Due

(* An uncommitted row was inserted by this step, or rests.                 *)
LEMMA UncommittedRests ==
    ASSUME NEW e \in Row, Fate(e), Uncommitted(e)'
    PROVE  \/ Roots(e) \/ \E t \in Token : Grows(e, t)
           \/ Uncommitted(e) /\ Rests(e)
  BY AbsentRowType DEF Uncommitted, Fate, Rests, LateBy, Commits, Drops, TakenBy,
     CompletedBy, Delivers, RetriedBy, FailedBy, Reopens, Prunes

(* A row becomes visible by the commit of its transaction, or is enqueued  *)
(* late.                                                                   *)
LEMMA AppearsBy ==
    ASSUME NEW e \in Row, Fate(e), ~Visible(e), Visible(e)'
    PROVE  Commits(e) \/ \E t \in Token : Delivers(e, t) \/ LateBy(e, t)
  BY AbsentRowType DEF Visible, Fate, Rests, Roots, Grows, Drops, TakenBy,
     CompletedBy, RetriedBy, FailedBy, Reopens, Prunes, Holds, Due

(* A row that was visible was enqueued late, or was not, as before.        *)
LEMMA LateStays ==
    ASSUME IInv, [Next]_vars, NEW e \in Row, Visible(e)
    PROVE  e \in late' <=> e \in late
  BY LateMoves DEF LateBy, Visible

-----------------------------------------------------------------------------
(* The invariant is inductive: where rows come from. *)

(* Children are deliveries of fanouts, and not of themselves. *)
LEMMA FanoutsAreRoots ==
    ASSUME ChildOrigin, NEW f \in Fanout, f \in Row, Exists(f)
    PROVE  IsRoot(f)
  BY DEF ChildOrigin, Delivery, IsRoot

(* Only a transaction of the application inserts a row without a parent,   *)
(* with a sequence number nobody has drawn before.                         *)
LEMMA KeepsRooted ==
    ASSUME IInv, OInv, [Next]_vars
    PROVE  Rooted'
  <1>1. /\ \A e \in Row : Fate(e)
        /\ sequence \in Nat /\ sequence' \in Nat /\ row' \in [Row -> TypedRow]
        /\ row \in [Row -> TypedRow]
        /\ sequence' = sequence \/ sequence' = sequence + 1
    BY Fates, ModeStep, OtherTypes, RowMoves DEF OInv, IInv, TypeOK, TableTypeOK
  <1>2. /\ Rooted /\ ChildOrigin
        /\ \A e \in Row : row[e].seq \in Nat /\ row'[e].seq \in Nat
    BY <1>1 DEF OInv, TypedRow, RowRecord
  <1>3. ASSUME NEW e \in Row, Exists(e)', IsRoot(e)'
        PROVE  \/ Roots(e)
               \/ Exists(e) /\ IsRoot(e) /\ SameOrigin(row'[e], row[e])
    <2>1. ASSUME NEW t \in Token, Grows(e, t) \/ LateBy(e, t)
          PROVE  FALSE
      BY <1>3, <2>1 DEF Grows, LateBy, Delivery, IsRoot
    <2> QED BY <1>1, <1>3, <2>1, OriginStays DEF IsRoot, SameOrigin
  <1>4. ASSUME NEW e \in Row, Exists(e)', IsRoot(e)'
        PROVE  /\ \E s \in Sends : s.event = e /\ s.key = row'[e].key
               /\ row'[e].seq <= sequence'
    <2>1. CASE Roots(e)
      BY <1>1, <2>1 DEF Roots
    <2>2. CASE Exists(e) /\ IsRoot(e) /\ SameOrigin(row'[e], row[e])
      BY <1>1, <1>2, <2>2 DEF Rooted, SameOrigin
    <2> QED BY <1>3, <1>4, <2>1, <2>2
  <1>5. ASSUME NEW a \in Row, NEW b \in Row, a # b, Exists(a)', Exists(b)',
               IsRoot(a)', IsRoot(b)', row'[a].seq = row'[b].seq
        PROVE  FALSE
    <2>1. CASE Roots(a)
      <3>1. row'[b] = row[b] /\ Exists(b) /\ IsRoot(b)
        BY <1>5, <2>1 DEF Roots, Only, Exists, IsRoot
      <3>2. row[b].seq <= sequence /\ row'[a].seq = sequence + 1
        BY <1>2, <2>1, <3>1 DEF Roots, Rooted
      <3>3. row'[a].seq <= sequence
        BY <1>5, <3>1, <3>2
      <3> QED BY <1>1, <3>2, <3>3
    <2>2. CASE Roots(b)
      <3>1. row'[a] = row[a] /\ Exists(a) /\ IsRoot(a)
        BY <1>5, <2>2 DEF Roots, Only, Exists, IsRoot
      <3>2. row[a].seq <= sequence /\ row'[b].seq = sequence + 1
        BY <1>2, <2>2, <3>1 DEF Roots, Rooted
      <3>3. row'[b].seq <= sequence
        BY <1>5, <3>1, <3>2
      <3> QED BY <1>1, <3>2, <3>3
    <2>3. CASE ~Roots(a) /\ ~Roots(b)
      <3>1. /\ Exists(a) /\ IsRoot(a) /\ row'[a].seq = row[a].seq
            /\ Exists(b) /\ IsRoot(b) /\ row'[b].seq = row[b].seq
        BY <1>3, <1>5, <2>3 DEF SameOrigin
      <3> QED BY <1>2, <1>5, <3>1 DEF Rooted
    <2> QED BY <2>1, <2>2, <2>3
  <1> QED BY <1>4, <1>5 DEF Rooted

(* The advisory lock is held from before the sequence number is drawn      *)
(* until the row is committed.                                             *)
LEMMA KeepsLastOfKey ==
    ASSUME IInv, OInv, [Next]_vars
    PROVE  LastOfKey'
  <1>1. /\ \A e \in Row : Fate(e)
        /\ sequence \in Nat /\ row \in [Row -> TypedRow]
        /\ Rooted /\ LastOfKey
        /\ \A e \in Row : row[e].seq \in Nat
    BY Fates DEF OInv, IInv, TypeOK, TableTypeOK, TypedRow, RowRecord
  <1>2. SUFFICES ASSUME NEW a \in Row, NEW b \in Row, a # b, Uncommitted(a)',
                        Exists(b)', SameKey(a, b)', IsRoot(a)', IsRoot(b)'
                 PROVE  row'[b].seq < row'[a].seq
    BY DEF LastOfKey
  <1>3. \A e \in Row : IsRoot(e)' => ~\E t \in Token : Grows(e, t) \/ LateBy(e, t)
    BY DEF Grows, LateBy, Delivery, IsRoot
  <1>4. CASE Roots(a)
    <2>1. row'[b] = row[b] /\ Exists(b) /\ IsRoot(b)
      BY <1>2, <1>4 DEF Roots, Only, Exists, IsRoot
    <2>2. row[b].seq <= sequence /\ row'[a].seq = sequence + 1
      BY <1>1, <1>4, <2>1 DEF Roots, Rooted
    <2> QED BY <1>1, <2>1, <2>2
  <1>5. CASE Roots(b)
    <2>1. row'[a] = row[a] /\ Uncommitted(a)
      BY <1>2, <1>5 DEF Roots, Only, Uncommitted
    <2> QED BY <1>2, <1>5, <2>1 DEF Roots, KeyLockFree, SameKey
  <1>6. CASE ~Roots(a) /\ ~Roots(b)
    <2>1. Uncommitted(a) /\ SameOrigin(row'[a], row[a])
      BY <1>1, <1>2, <1>3, <1>6, UncommittedRests DEF Rests, Kept
    <2>2. Exists(b) /\ SameOrigin(row'[b], row[b])
      BY <1>1, <1>2, <1>3, <1>6, OriginStays
    <2> QED BY <1>1, <1>2, <2>1, <2>2 DEF LastOfKey, SameOrigin, SameKey, IsRoot
  <1> QED BY <1>4, <1>5, <1>6

(* A child is inserted by the handler of a visible fanout, and published   *)
(* by the completion of that fanout.                                       *)
LEMMA KeepsChildOrigin ==
    ASSUME IInv, OInv, [Next]_vars
    PROVE  ChildOrigin'
  <1>1. /\ \A e \in Row : Fate(e)
        /\ row \in [Row -> TypedRow]
        /\ ChildOrigin /\ OwnChildren /\ RunsSeen /\ RunShape
    BY Fates DEF OInv, IInv, TypeOK, TableTypeOK
  <1>2. SUFFICES ASSUME NEW e \in Row, Exists(e)', ~IsRoot(e)', NEW f, f = row'[e].group
                 PROVE  /\ f \in Fanout /\ e \in Delivery \ Enqueued
                        /\ Visible(f)' /\ row'[e].seq = row'[f].seq
                        /\ \E i \in Recipients : row'[e].key = InboxKey[<<row'[f].key, i>>]
                        /\ Visible(e)' /\ e \notin late' => Done(f)'
    BY DEF ChildOrigin
  <1>3. ~Roots(e)
    BY <1>2 DEF Roots, IsRoot
  <1>4. ASSUME NEW t \in Token, Grows(e, t)
        PROVE  /\ f \in Fanout /\ e \in Delivery \ Enqueued
               /\ Visible(f)' /\ row'[e].seq = row'[f].seq
               /\ \E i \in Recipients : row'[e].key = InboxKey[<<row'[f].key, i>>]
               /\ ~Visible(e)'
    <2>1. f = run[t].event /\ f \in Fanout /\ f # e /\ f \in Row
      BY <1>2, <1>4, FederationQueueAssumption DEF Grows, Delivery
    <2>2. Visible(f) /\ row'[f] = row[f]
      BY <1>1, <1>4, <2>1 DEF Grows, RunsSeen, Only
    <2> QED BY <1>4, <2>1, <2>2 DEF Grows, Visible
  <1>5. ASSUME NEW t \in Token, LateBy(e, t)
        PROVE  /\ f \in Fanout /\ e \in Delivery \ Enqueued
               /\ Visible(f)' /\ row'[e].seq = row'[f].seq
               /\ \E i \in Recipients : row'[e].key = InboxKey[<<row'[f].key, i>>]
               /\ e \in late'
    <2>1. f = run[t].event /\ f \in Fanout /\ f # e /\ f \in Row
      BY <1>2, <1>5, FederationQueueAssumption DEF LateBy, Delivery
    <2>2. Visible(f) /\ row'[f] = row[f]
      BY <1>1, <1>5, <2>1 DEF LateBy, RunsSeen, Only
    <2> QED BY <1>5, <2>1, <2>2 DEF LateBy, Visible
  <1>6. CASE Exists(e) /\ SameOrigin(row'[e], row[e])
    <2>1. /\ f = row[e].group /\ f \in Fanout /\ e \in Delivery \ Enqueued
          /\ f \in Row /\ Visible(f) /\ row[e].seq = row[f].seq
          /\ \E i \in Recipients : row[e].key = InboxKey[<<row[f].key, i>>]
          /\ Visible(e) /\ e \notin late => Done(f)
      BY <1>1, <1>2, <1>6, FederationQueueAssumption DEF ChildOrigin, IsRoot, SameOrigin
    <2>2. Visible(f)' /\ SameOrigin(row'[f], row[f]) /\ (Done(f) => Done(f)')
      BY <1>1, <2>1, VisibleStays
    <2>3. ASSUME ~Visible(e), Visible(e)', e \notin late'
          PROVE  Done(f)'
      <3>1. ~IsRoot(e)
        BY <1>2, <1>6 DEF IsRoot, SameOrigin
      <3>2. PICK t \in Token : Delivers(e, t)
        BY <1>1, <2>3, <3>1, AppearsBy DEF Commits, LateBy
      <3>3. run[t].event = f
        BY <1>1, <2>1, <3>2 DEF Delivers, OwnChildren
      <3> QED BY <3>2, <3>3 DEF Delivers, CompletedBy, Done
    <2>4. /\ row'[e].seq = row'[f].seq
          /\ \E i \in Recipients : row'[e].key = InboxKey[<<row'[f].key, i>>]
      BY <1>6, <2>1, <2>2 DEF SameOrigin
    <2>5. Visible(e) => (e \in late' <=> e \in late)
      BY LateStays
    <2> QED BY <2>1, <2>2, <2>3, <2>4, <2>5
  <1> QED BY <1>1, <1>2, <1>3, <1>4, <1>5, <1>6, OriginStays

(* The rows of a run's open transaction rest. *)
LEMMA ChildrenRest ==
    ASSUME IInv, OInv, [Next]_vars, NEW t \in Token, NEW c \in run[t].children,
           c \in run'[t].children
    PROVE  c \in Row /\ Uncommitted(c) /\ Rests(c)
  <1>1. c \in Row /\ Uncommitted(c) /\ Uncommitted(c)'
    BY NextIInv DEF IInv, ChildrenPrivate, Delivery
  <1>2. Fate(c)
    BY <1>1, Fates DEF OInv
  <1> QED BY <1>1, <1>2, UncommittedRests DEF Roots, Grows, Uncommitted

(* A run that goes on holding its row leaves the row's history alone.      *)
LEMMA HeldStays ==
    ASSUME NEW e \in Row, Fate(e), NEW t \in Token, run[t].state # "chosen",
           Holds(e, t)'
    PROVE  Holds(e, t) /\ row'[e].replayed = row[e].replayed
  BY AbsentRowType DEF Holds, Fate, Rests, Kept, Roots, Grows, LateBy, Commits, Drops,
     TakenBy, CompletedBy, Delivers, RetriedBy, FailedBy, Reopens, Prunes

(* What OwnChildren says of one child of a run. *)
OwnsChild(t, c) ==
    /\ run[t].state \in {"open", "settling"}
    /\ run[t].state = "settling" => run[t].outcome = "success"
    /\ row[c].group = run[t].event /\ row[c].inbox \in Recipients
    /\ Holds(run[t].event, t) =>
         row[c].replayed = row[run[t].event].replayed
    /\ \A d \in run[t].children : row[c].inbox = row[d].inbox => c = d

(* A handler inserts one child for each inbox; what ends its transaction   *)
(* forgets all of them.                                                    *)
LEMMA KeepsOwnChildren ==
    ASSUME IInv, OInv, [Next]_vars
    PROVE  OwnChildren'
  <1>1. /\ \A e \in Row : Fate(e)
        /\ \A t \in Token : RunFate(t)
        /\ OwnChildren /\ RunShape
        /\ \A t \in Token : run[t].children \subseteq Row
        /\ \A t \in Token : run'[t].children \subseteq Row
    BY Fates, RunFates, RunSteps DEF OInv, IInv, TypeOK, RunRecord
  <1>2. ASSUME NEW t \in Token, run'[t].event = run[t].event, run[t].event \in Row,
               run'[t].children = run[t].children,
               run'[t].state \in {"open", "settling"},
               run'[t].state = "settling" => run'[t].outcome = "success",
               run[t].state \in {"open", "settling"},
               NEW c \in run'[t].children
        PROVE  OwnsChild(t, c)'
    <2>1. \A d \in run[t].children : Uncommitted(d) /\ Rests(d)
      BY <1>2, ChildrenRest
    <2>2. /\ row[c].group = run[t].event /\ row[c].inbox \in Recipients
          /\ Holds(run[t].event, t) =>
               row[c].replayed = row[run[t].event].replayed
          /\ \A d \in run[t].children : row[c].inbox = row[d].inbox => c = d
      BY <1>1, <1>2 DEF OwnChildren
    <2>3. \A d \in run[t].children :
             /\ row'[d].group = row[d].group /\ row'[d].inbox = row[d].inbox
             /\ row'[d].replayed = row[d].replayed
      BY <2>1 DEF Rests, Kept, SameOrigin, Uncommitted
    <2>4. Holds(run[t].event, t)' =>
             /\ Holds(run[t].event, t)
             /\ row'[run[t].event].replayed = row[run[t].event].replayed
      BY <1>1, <1>2, HeldStays DEF Holds
    <2> QED BY <1>2, <2>2, <2>3, <2>4 DEF OwnsChild, Holds
  <1>3. ASSUME NEW t \in Token, NEW c \in run'[t].children
        PROVE  OwnsChild(t, c)'
    <2>1. run[t].children # {} => run[t].state \in {"open", "settling"}
                                  /\ run[t].event \in Row
      BY <1>1 DEF OwnChildren, RunShape
    <2>2. CASE Idles(t)
      BY <1>1, <1>2, <1>3, <2>1, <2>2 DEF OwnChildren, Idles
    <2>3. CASE Frees(t) \/ Picks(t) \/ Fails(t)
      BY <1>3, <2>3, FreeRunType DEF Frees, Picks, Fails
    <2>4. CASE Opens(t)
      BY <1>3, <2>1, <2>4 DEF Opens
    <2>5. CASE Succeeds(t)
      BY <1>2, <1>3, <2>1, <2>5 DEF Succeeds, SameRun
    <2>6. CASE Lingers(t)
      BY <1>1, <1>2, <1>3, <2>1, <2>6 DEF Lingers, SameRun, OwnChildren
    <2>7. CASE Adds(t)
      <3> DEFINE f == run[t].event
      <3>1. PICK d \in Row : run'[t].children = run[t].children \cup {d} /\ Grows(d, t)
        BY <2>7 DEF Adds
      <3>2. /\ run'[t].state = "open" /\ run[t].state = "open"
            /\ run'[t].event = f /\ f \in Row /\ f # d
        BY <1>1, <2>7, <3>1 DEF Adds, SameRun, Grows, RunShape, Delivery
      <3>3. /\ row'[f] = row[f] /\ row[d].status = "absent"
            /\ \A x \in run[t].children : Uncommitted(x) /\ x # d /\ row'[x] = row[x]
        BY <1>1, <3>1, <3>2 DEF Grows, Only, IInv, ChildrenPrivate, Uncommitted
      <3>4. /\ row'[d].group = f /\ row'[d].inbox \in Recipients
            /\ row'[d].replayed = row'[f].replayed
            /\ \A x \in run[t].children : row'[x].inbox # row'[d].inbox
        BY <3>1, <3>3 DEF Grows
      <3>5. CASE c = d
        BY <3>1, <3>2, <3>4, <3>5 DEF OwnsChild
      <3>6. CASE c \in run[t].children
        <4>1. /\ row[c].group = f /\ row[c].inbox \in Recipients
              /\ Holds(f, t) => row[c].replayed = row[f].replayed
              /\ \A x \in run[t].children : row[c].inbox = row[x].inbox => c = x
          BY <1>1, <3>6 DEF OwnChildren
        <4>2. Holds(f, t)' => Holds(f, t)
          BY <3>2, <3>3 DEF Holds
        <4> QED BY <3>1, <3>2, <3>3, <3>4, <3>6, <4>1, <4>2 DEF OwnsChild, Holds
      <3> QED BY <1>3, <3>1, <3>5, <3>6
    <2> QED BY <1>1, <2>2, <2>3, <2>4, <2>5, <2>6, <2>7 DEF RunFate
  <1>4. ASSUME NEW t \in Token, run'[t].state = "settling",
               run'[t].outcome = "success", run'[t].event \in Fanout,
               NEW i \in Recipients
        PROVE  \E c \in run'[t].children : row'[c].inbox = i
    <2>1. CASE Succeeds(t)
      BY <1>4, <2>1 DEF Succeeds, SameRun
    <2>2. CASE Idles(t) \/ Lingers(t)
      <3>1. /\ run[t].state = "settling" /\ run[t].outcome = "success"
            /\ run[t].event \in Fanout /\ run'[t].children = run[t].children
        BY <1>4, <2>2 DEF Idles, Lingers, SameRun
      <3>2. PICK c \in run[t].children : row[c].inbox = i
        BY <1>1, <3>1 DEF OwnChildren
      <3>3. Uncommitted(c) /\ Rests(c)
        BY <3>1, ChildrenRest
      <3> QED BY <3>1, <3>2, <3>3 DEF Rests, Uncommitted
    <2> QED BY <1>1, <1>4, <2>1, <2>2, FreeRunType
            DEF RunFate, Frees, Picks, Opens, Adds, Fails
  <1> QED BY <1>3, <1>4 DEF OwnChildren, OwnsChild

(* What is known of single rows: attempts, payloads, and that a run is     *)
(* about a visible row.                                                    *)
LEMMA KeepsRowFacts ==
    ASSUME IInv, OInv, [Next]_vars
    PROVE  Unclaimed' /\ PayloadKept' /\ RunsSeen'
  <1>1. /\ \A e \in Row : Fate(e)
        /\ \A t \in Token : RunFate(t)
        /\ Unclaimed /\ PayloadKept /\ RunsSeen /\ RunShape
    BY Fates, RunFates DEF OInv, IInv
  <1>2. ASSUME NEW e \in Row, row'[e].status = "uncommitted"
        PROVE  row'[e].attempts = 0
    BY <1>1, <1>2, UncommittedRests DEF Unclaimed, Uncommitted, Rests, Roots, Grows
  <1>3. ASSUME NEW e \in Row,
               row'[e].status \in {"uncommitted", "pending", "processing", "dead"}
        PROVE  row'[e].payload
    <2>1. CASE Roots(e) \/ \E t \in Token : Grows(e, t) \/ LateBy(e, t) \/ RetriedBy(e, t)
      BY <2>1, Zenon DEF Roots, Grows, LateBy, RetriedBy
    <2>2. CASE ~(Roots(e) \/ \E t \in Token : Grows(e, t) \/ LateBy(e, t) \/ RetriedBy(e, t))
      <3>1. /\ row'[e].payload = row[e].payload
            /\ row[e].status \in {"uncommitted", "pending", "processing", "dead"}
        BY <1>1, <1>3, <2>2, AbsentRowType
           DEF Fate, Rests, Commits, Drops, TakenBy, CompletedBy, Delivers,
               FailedBy, Reopens, Prunes, Holds, Due
      <3>2. row[e].payload
        BY <1>1, <3>1 DEF PayloadKept
      <3> QED BY <3>1, <3>2, Zenon
    <2> QED BY <2>1, <2>2
  <1>4. ASSUME NEW t \in Token, run'[t].state # "free"
        PROVE  Visible(run[t].event)'
    <2>1. CASE Picks(t)
      BY <2>1 DEF Picks, Claimable, Due, Visible
    <2>2. CASE ~Picks(t)
      <3>1. run[t].state # "free" /\ run'[t].event = run[t].event
        BY <1>1, <1>4, <2>2, FreeRunType
           DEF RunFate, Idles, Frees, Opens, Adds, Succeeds, Fails, Lingers, SameRun
      <3>2. run[t].event \in Row /\ Visible(run[t].event)
        BY <1>1, <3>1 DEF RunsSeen, RunShape
      <3> QED BY <1>1, <3>1, <3>2, VisibleStays DEF Visible
    <2> QED BY <2>1, <2>2
  <1> QED BY <1>2, <1>3, <1>4 DEF Unclaimed, PayloadKept, RunsSeen

-----------------------------------------------------------------------------
(* The invariant is inductive: the order of claims. *)

(* A row that a step publishes is not before a visible row of its key and  *)
(* route: the advisory lock held it back, or its fanout was claimed before *)
(* the fanout of the other row.                                            *)
LEMMA PublishesInOrder ==
    ASSUME IInv, OInv, [Next]_vars, NEW a \in Row, NEW b \in Row,
           Visible(b), ~Visible(a), Visible(a)', ~row'[a].replayed
    PROVE  ~Ordered(a, b)'
  <1>1. /\ Fate(a) /\ Fate(b) /\ row \in [Row -> TypedRow]
        /\ Rooted /\ LastOfKey /\ ChildOrigin /\ OwnChildren /\ ClaimsInOrder
        /\ LateInOrder
        /\ RunShape /\ ChildrenPrivate
    BY Fates DEF OInv, IInv, TypeOK, TableTypeOK
  <1>2. /\ SameOrigin(row'[b], row[b]) /\ a # b /\ Exists(b)
        /\ \A x \in Row : row[x].seq \in Nat
    BY <1>1, VisibleStays, RowFields DEF Visible, Exists
  <1>3. SUFFICES ASSUME SameKey(a, b)', SameRoute(a, b)', Before(a, b)', a \notin late',
                        b \in late' => row'[a].group # row'[b].group
                 PROVE  FALSE
    BY DEF Ordered
  <1>4. b \in late => row'[a].group # row'[b].group
    BY <1>3, LateStays
  <1>5. ASSUME Kept(a)
        PROVE  /\ SameKey(a, b) /\ SameRoute(a, b) /\ Before(a, b)
               /\ ~row[a].replayed
    BY <1>2, <1>3, <1>5 DEF Kept, SameOrigin, SameKey, SameRoute, Before
  <1>6. CASE Commits(a)
    <2>1. SameKey(a, b) /\ SameRoute(a, b) /\ Before(a, b) /\ Uncommitted(a) /\ IsRoot(a)
      BY <1>5, <1>6 DEF Commits, Uncommitted
    <2>2. row[b].seq < row[a].seq
      BY <1>1, <1>2, <2>1 DEF LastOfKey, SameRoute, IsRoot
    <2>3. row[b].seq \in Nat /\ row[a].seq \in Nat
      BY <1>2
    <2> QED BY <2>1, <2>2, <2>3 DEF Before
  <1>7. ASSUME NEW t \in Token, Delivers(a, t)
        PROVE  FALSE
    <2> DEFINE f == run[t].event
               g == row[b].group
    <2>1. /\ SameKey(a, b) /\ SameRoute(a, b) /\ Before(a, b) /\ ~row[a].replayed
          /\ Uncommitted(a) /\ Exists(a) /\ Holds(f, t) /\ run[t].state # "free"
          /\ a \in run[t].children
      BY <1>5, <1>7 DEF Delivers, CompletedBy, Uncommitted, Exists
    <2>2. /\ row[a].group = f /\ f \in Fanout /\ a \notin Fanout /\ f \in Row
          /\ row[f].replayed = row[a].replayed
      BY <1>1, <2>1 DEF OwnChildren, ChildrenPrivate, RunShape, Delivery
    <2>3. ~IsRoot(a) /\ ~IsRoot(b)
      BY <2>1, <2>2 DEF IsRoot, SameRoute
    <2>4. /\ row[a].seq = row[f].seq
          /\ \E i \in Recipients : row[a].key = InboxKey[<<row[f].key, i>>]
      BY <1>1, <2>1, <2>2, <2>3 DEF ChildOrigin
    <2>5. /\ g \in Fanout /\ g \in Row /\ Exists(g)
          /\ row[b].seq = row[g].seq
          /\ \E j \in Recipients : row[b].key = InboxKey[<<row[g].key, j>>]
      BY <1>1, <1>2, <2>3, FederationQueueAssumption
         DEF ChildOrigin, Exists, Visible
    <2>6. Cleared(g) /\ f # g
      <3>1. CASE b \in late
        <4>1. row'[a].group = row[a].group /\ row'[b].group = row[b].group
          BY <1>2, <1>7 DEF Delivers, Kept, SameOrigin
        <4> QED BY <1>1, <1>4, <2>2, <3>1, <4>1 DEF LateInOrder
      <3>2. CASE b \notin late
        <4>1. Done(g)
          BY <1>1, <2>3, <3>2 DEF ChildOrigin, Exists, Visible
        <4> QED BY <1>1, <2>1, <2>5, <4>1 DEF ClaimsInOrder, Settled, Done, Holds
      <3> QED BY <3>1, <3>2
    <2> HIDE DEF f, g
    <2>7. Exists(f) /\ f # g /\ row[f].status = "processing" /\ IsRoot(f) /\ IsRoot(g)
      BY <1>1, <2>1, <2>2, <2>5, <2>6, FanoutsAreRoots DEF Exists, Holds
    <2>8. row[a].key # NoKey /\ row[a].key = row[b].key
      BY <2>1 DEF SameKey
    <2>9. /\ \E s \in Sends : s.event = f /\ s.key = row[f].key
          /\ \E u \in Sends : u.event = g /\ u.key = row[g].key
      BY <1>1, <2>2, <2>5, <2>7 DEF Rooted
    <2>10. row[f].key = row[g].key /\ row[f].key # NoKey
      <3>1. PICK i \in Recipients : row[a].key = InboxKey[<<row[f].key, i>>]
        BY <2>4
      <3>2. PICK j \in Recipients : row[b].key = InboxKey[<<row[g].key, j>>]
        BY <2>5
      <3>3. PICK s \in Sends, u \in Sends :
              s.event = f /\ s.key = row[f].key /\ u.event = g /\ u.key = row[g].key
        BY <2>9
      <3>4. row[f].key # NoKey
        BY <2>8, <3>1, FederationQueueAssumption
      <3>5. /\ InboxKey[<<s.key, i>>] = InboxKey[<<u.key, j>>]
            /\ InboxKey[<<s.key, i>>] # NoKey
            /\ s.event \in Fanout /\ u.event \in Fanout
        BY <2>2, <2>5, <2>8, <3>1, <3>2, <3>3
      <3>6. s.key = u.key
        BY <3>5, FederationQueueAssumption
      <3> QED BY <3>3, <3>4, <3>6
    <2>11. row[f].seq < row[g].seq
      <3>1. row[f].seq # row[g].seq
        BY <1>1, <2>2, <2>5, <2>7 DEF Rooted
      <3>2. row[f].seq <= row[g].seq
        BY <1>2, <2>1, <2>2, <2>4, <2>5 DEF Before
      <3> QED BY <1>2, <2>2, <2>5, <3>1, <3>2
    <2>12. f \notin late /\ g \notin late
      BY <1>1, <2>7 DEF LateInOrder
    <2>13. Settled(f)
      <3>1. Ordered(f, g) /\ Visible(f) /\ ~row[f].replayed
        BY <2>1, <2>2, <2>7, <2>10, <2>11, <2>12
           DEF Ordered, SameKey, SameRoute, Before, Visible, IsRoot
      <3> QED BY <2>2, <2>6, <3>1 DEF Cleared
    <2> QED BY <2>7, <2>13 DEF Settled
  <1>8. ASSUME NEW t \in Token, LateBy(a, t)
        PROVE  FALSE
    BY <1>3, <1>8 DEF LateBy
  <1> QED BY <1>1, <1>6, <1>7, <1>8, AppearsBy

(* What is settled before a visible row stays so, and nothing is published *)
(* before it.                                                              *)
LEMMA ClearedStays ==
    ASSUME IInv, OInv, [Next]_vars, NEW b \in Row, Visible(b), Cleared(b)
    PROVE  Cleared(b)'
  <1>1. SUFFICES ASSUME NEW a \in Row, Ordered(a, b)', Visible(a)', ~row'[a].replayed
                 PROVE  Settled(a)'
    BY DEF Cleared
  <1>2. Fate(a) /\ Fate(b)
    BY Fates DEF OInv
  <1>3. Visible(a)
    BY <1>1, PublishesInOrder
  <1>4. /\ SameOrigin(row'[a], row[a]) /\ SameOrigin(row'[b], row[b])
        /\ row'[a].replayed = row[a].replayed
    BY <1>1, <1>2, <1>3, VisibleStays
  <1>5. Ordered(a, b) /\ ~row[a].replayed
    BY <1>1, <1>3, <1>4, LateStays DEF Ordered, SameOrigin, SameKey, SameRoute, Before
  <1>6. Settled(a)
    BY <1>3, <1>5 DEF Cleared
  <1> QED BY <1>1, <1>2, <1>3, <1>6, VisibleStays

(* The head of a key is the only one to be picked, and what was picked or  *)
(* claimed has everything before it settled ever after.                    *)
LEMMA KeepsClaimsInOrder ==
    ASSUME IInv, OInv, [Next]_vars
    PROVE  ClaimsInOrder'
  <1>1. /\ \A e \in Row : Fate(e)
        /\ \A t \in Token : RunFate(t)
        /\ ClaimsInOrder /\ RunsSeen /\ RunShape
        /\ row \in [Row -> TypedRow] /\ \A e \in Row : row[e].status \in Status
    BY Fates, RunFates, RowFields DEF OInv, IInv, TypeOK, TableTypeOK
  <1>2. ASSUME NEW b \in Row, row'[b].status = "processing" \/ Settled(b)'
        PROVE  Cleared(b)'
    <2>1. CASE row[b].status = "processing" \/ Settled(b)
      BY <1>1, <2>1, ClearedStays DEF ClaimsInOrder, Visible, Settled
    <2>2. CASE ~(row[b].status = "processing" \/ Settled(b))
      <3>1. PICK t \in Token : TakenBy(b, t)
        BY <1>1, <1>2, <2>2, AbsentRowType
           DEF Fate, Rests, Roots, Grows, LateBy, Commits, Drops, CompletedBy, Delivers,
               RetriedBy, FailedBy, Reopens, Prunes, Holds, Settled
      <3>2. Visible(b) /\ Cleared(b)
        BY <1>1, <3>1 DEF TakenBy, ClaimsInOrder, RunsSeen
      <3> QED BY <3>2, ClearedStays
    <2> QED BY <2>1, <2>2
  <1>3. ASSUME NEW t \in Token, run'[t].state # "free"
        PROVE  Cleared(run[t].event)'
    <2>1. CASE ~Picks(t)
      <3>1. run[t].state # "free" /\ run'[t].event = run[t].event
        BY <1>1, <1>3, <2>1, FreeRunType
           DEF RunFate, Idles, Frees, Opens, Adds, Succeeds, Fails, Lingers, SameRun
      <3>2. /\ run[t].event \in Row /\ Visible(run[t].event)
            /\ Cleared(run[t].event) /\ run'[t].event = run[t].event
        BY <1>1, <3>1 DEF ClaimsInOrder, RunsSeen, RunShape
      <3>3. ASSUME NEW e \in Row, e = run[t].event
            PROVE  Cleared(e)'
        BY <3>2, <3>3, ClearedStays
      <3> QED BY <3>2, <3>3 DEF Cleared
    <2>2. CASE Picks(t)
      <3>1. /\ row' = row /\ late' = late /\ run'[t].event \in Row
            /\ Claimable(run'[t].event)
        BY <2>2 DEF Picks
      <3>2. ASSUME NEW e \in Row, Claimable(e)
            PROVE  Cleared(e)
        BY <1>1, <3>2
           DEF Claimable, KeyHead, Cleared, Ordered, SameKey, Open, Visible, Settled,
               Status
      <3>3. ASSUME NEW e \in Row, e = run'[t].event
            PROVE  Cleared(e)'
        BY <3>1, <3>2, <3>3
           DEF Cleared, Ordered, SameKey, SameRoute, Before, Visible, Settled
      <3> QED BY <3>1, <3>3 DEF Cleared
    <2> QED BY <2>1, <2>2
  <1> QED BY <1>2, <1>3 DEF ClaimsInOrder

(* What is enqueued late belongs to a fanout that was claimed in order.    *)
LEMMA KeepsLateInOrder ==
    ASSUME IInv, OInv, [Next]_vars
    PROVE  LateInOrder'
  <1>1. /\ \A e \in Row : Fate(e)
        /\ LateInOrder /\ ClaimsInOrder /\ RunsSeen /\ RunShape /\ ChildOrigin
        /\ \A d \in late : d \in Row
    BY Fates DEF OInv, IInv, TypeOK, Delivery
  <1>2. ASSUME NEW d \in late
        PROVE  /\ Visible(d)' /\ ~IsRoot(d)'
               /\ row'[d].group \in Row /\ Cleared(row[d].group)'
               /\ row'[d].group = row[d].group
    <2>1. d \in Row /\ Visible(d) /\ ~IsRoot(d)
      BY <1>1 DEF LateInOrder
    <2>2. Visible(d)' /\ SameOrigin(row'[d], row[d])
      BY <1>1, <2>1, VisibleStays
    <2>3. row[d].group \in Row /\ Cleared(row[d].group) /\ Visible(row[d].group)
      BY <1>1, <2>1 DEF LateInOrder, ChildOrigin, Exists, Visible
    <2>4. ASSUME NEW f \in Row, f = row[d].group
          PROVE  Cleared(f)'
      BY <2>3, <2>4, ClearedStays
    <2> QED BY <2>1, <2>2, <2>3, <2>4 DEF IsRoot, SameOrigin, Cleared
  <1>3. ASSUME NEW t \in Token, NEW d \in Row, LateBy(d, t)
        PROVE  /\ Visible(d)' /\ ~IsRoot(d)'
               /\ row'[d].group \in Row /\ Cleared(row[d].group)'
               /\ row'[d].group = run[t].event
    <2>1. /\ run[t].state # "free" /\ row'[d].group = run[t].event
          /\ run[t].event \in Fanout /\ d \in Delivery /\ row'[d].status = "pending"
      BY <1>3 DEF LateBy
    <2>2. /\ run[t].event \in Row /\ Visible(run[t].event) /\ Cleared(run[t].event)
      BY <1>1, <2>1 DEF ClaimsInOrder, RunsSeen, RunShape
    <2>3. ASSUME NEW f \in Row, f = run[t].event
          PROVE  Cleared(f)'
      BY <2>2, <2>3, ClearedStays
    <2> QED BY <2>1, <2>2, <2>3 DEF IsRoot, Visible, Delivery, Cleared
  <1>4. CASE late' = late
    BY <1>2, <1>4 DEF LateInOrder, Cleared
  <1>5. ASSUME NEW t \in Token, NEW d \in Row, LateBy(d, t)
        PROVE  LateInOrder'
    <2>1. late' = late \cup {d}
      BY <1>5 DEF LateBy
    <2> QED BY <1>2, <1>3, <1>5, <2>1 DEF LateInOrder, Cleared
  <1> QED BY <1>4, <1>5, LateMoves

-----------------------------------------------------------------------------
(* The invariant is inductive: the deliveries of a fanout.                 *)

(* A delivery that becomes visible under a fanout is published by the      *)
(* completion of that fanout.                                              *)
LEMMA DeliveredByParent ==
    ASSUME IInv, OInv, [Next]_vars, NEW f \in Fanout, NEW d \in Delivery,
           ~Visible(d), Visible(d)', row'[d].group = f, d \notin late'
    PROVE  \E t \in Token : CompletedBy(f, t) /\ d \in run[t].children
  <1>1. Fate(d) /\ d \in Row /\ d # f /\ OwnChildren
    BY Fates DEF OInv, Delivery
  <1>2. ~Commits(d)
    BY <1>1 DEF Commits, Kept, SameOrigin, IsRoot
  <1>3. PICK t \in Token : Delivers(d, t)
    BY <1>1, <1>2, AppearsBy DEF LateBy
  <1>4. run[t].event = f
    BY <1>1, <1>3 DEF Delivers, Kept, SameOrigin, OwnChildren
  <1> QED BY <1>3, <1>4 DEF Delivers

(* The children of a run that has succeeded are as many as the recipients. *)
LEMMA OneForEach ==
    ASSUME OwnChildren, NEW t \in Token, run[t].state = "settling",
           run[t].outcome = "success", run[t].event \in Fanout
    PROVE  Cardinality(run[t].children) = Cardinality(Recipients)
  <1> DEFINE C == run[t].children
             inboxOf == [c \in C |-> row[c].inbox]
  <1>1. /\ \A c \in C : row[c].inbox \in Recipients
        /\ \A c, d \in C : row[c].inbox = row[d].inbox => c = d
        /\ \A i \in Recipients : \E c \in C : row[c].inbox = i
    BY DEF OwnChildren
  <1> HIDE DEF C
  <1>2. /\ inboxOf \in [C -> Recipients]
        /\ \A c, d \in C : inboxOf[c] = inboxOf[d] => c = d
        /\ \A i \in Recipients : \E c \in C : inboxOf[c] = i
    BY <1>1
  <1>3. inboxOf \in Bijection(C, Recipients)
    BY <1>2, Fun_IsBij
  <1>4. ExistsBijection(C, Recipients)
    BY <1>3, Fun_ExistsBij
  <1>5. ExistsBijection(Recipients, C)
    BY <1>4, Fun_ExistsBijSymmetric
  <1> QED BY <1>5, FS_Bijection, FederationQueueAssumption DEF C

(* A fanout is done by the step that completes it, and stays so.           *)
LEMMA DoneBy ==
    ASSUME PayloadKept, NEW f \in Row, Fate(f),
           ~\E t \in Token : CompletedBy(f, t)
    PROVE  Done(f)' <=> Done(f)
  <1>1. ASSUME Done(f)
        PROVE  Done(f)'
    BY <1>1, VisibleStays DEF Done, Visible
  <1>2. ASSUME Done(f)'
        PROVE  Done(f)
    <2>1. CASE Prunes(f)
      <3>1. row'[f].payload = row[f].payload /\ row[f].status \in {"completed", "dead"}
        BY <2>1 DEF Prunes
      <3>2. ~row[f].payload
        BY <1>2, <3>1, Zenon DEF Done
      <3> QED BY <3>1, <3>2 DEF Done, PayloadKept
    <2>2. CASE Rests(f)
      <3>1. row'[f].payload = row[f].payload /\ row'[f].status = row[f].status
        BY <2>2 DEF Rests
      <3> QED BY <1>2, <3>1, Zenon DEF Done
    <2> QED BY <1>2, <2>1, <2>2, AbsentRowType
            DEF Fate, Done, Roots, Grows, LateBy, Commits, Drops, TakenBy, Delivers,
                RetriedBy, FailedBy, Reopens
  <1> QED BY <1>1, <1>2

(* The visible deliveries of a fanout are none until it is completed, and  *)
(* those of the run that completed it ever after.                          *)
LEMMA KeepsFanoutOnce ==
    ASSUME IInv, OInv, [Next]_vars
    PROVE  FanoutOnce'
  <1>1. /\ \A e \in Row : Fate(e)
        /\ OwnChildren /\ PayloadKept /\ ChildOrigin /\ ChildrenPrivate /\ FanoutOnce
        /\ LateInOrder
        /\ \A e \in Delivery : e \in Row
        /\ \A f \in Fanout : f \in Row /\ \A d \in Delivery : d # f
    BY Fates, FederationQueueAssumption DEF OInv, IInv, Delivery
  <1> DEFINE PublishedBy(f) == {d \in Delivery \ late : Visible(d) /\ row[d].group = f}
  <1>2. SUFFICES ASSUME NEW f \in Fanout
                 PROVE  Cardinality(PublishedBy(f)') =
                          IF Done(f)' THEN Cardinality(Recipients) ELSE 0
    BY DEF FanoutOnce, Done
  <1>3. \A d \in PublishedBy(f) : d \in PublishedBy(f)'
    BY <1>1, VisibleStays, LateStays DEF SameOrigin, Visible
  <1>4. ASSUME NEW d \in PublishedBy(f)', d \notin PublishedBy(f)
        PROVE  \E t \in Token : CompletedBy(f, t) /\ d \in run[t].children
    <2>1. ~Visible(d)
      BY <1>1, <1>4, VisibleStays, LateStays DEF SameOrigin
    <2> QED BY <1>4, <2>1, DeliveredByParent
  <1>5. CASE ~\E t \in Token : CompletedBy(f, t)
    <2>1. PublishedBy(f)' = PublishedBy(f)
      BY <1>3, <1>4, <1>5
    <2>2. Done(f)' <=> Done(f)
      BY <1>1, <1>5, DoneBy
    <2>3. Cardinality(PublishedBy(f)) = IF Done(f) THEN Cardinality(Recipients) ELSE 0
      BY <1>1 DEF FanoutOnce, Done
    <2> HIDE DEF PublishedBy
    <2> QED BY <2>1, <2>2, <2>3
  <1>6. ASSUME NEW t \in Token, CompletedBy(f, t)
        PROVE  Cardinality(PublishedBy(f)') =
                 IF Done(f)' THEN Cardinality(Recipients) ELSE 0
    <2>1. /\ Holds(f, t) /\ run[t].event = f /\ run[t].state = "settling"
          /\ run[t].outcome = "success"
          /\ \A c \in run[t].children : row'[c].status = "pending" /\ Kept(c)
      BY <1>6 DEF CompletedBy
    <2>2. Done(f)'
      BY <1>6 DEF CompletedBy, Done
    <2>3. ASSUME NEW d \in PublishedBy(f)
          PROVE  FALSE
      BY <1>1, <2>1, <2>3 DEF ChildOrigin, IsRoot, Exists, Visible, Done, Holds
    <2>4. ASSUME NEW d \in PublishedBy(f)'
          PROVE  d \in run[t].children
      <3>1. PICK u \in Token : CompletedBy(f, u) /\ d \in run[u].children
        BY <1>4, <2>3, <2>4
      <3> QED BY <2>1, <3>1 DEF CompletedBy, Holds
    <2>5. ASSUME NEW c \in run[t].children
          PROVE  c \in PublishedBy(f)'
      <3>1. /\ c \in Delivery /\ row[c].group = f
            /\ row'[c].status = "pending" /\ row'[c].group = row[c].group
        BY <1>1, <2>1 DEF ChildrenPrivate, OwnChildren, Kept, SameOrigin
      <3>2. c \notin late'
        <4>1. Uncommitted(c)
          BY <1>1 DEF ChildrenPrivate
        <4>2. c \notin late
          BY <1>1, <4>1 DEF LateInOrder, Visible, Uncommitted
        <4> QED BY <4>1, <4>2, LateMoves DEF LateBy, Uncommitted
      <3> QED BY <3>1, <3>2 DEF Visible
    <2>6. PublishedBy(f)' = run[t].children
      BY <2>4, <2>5
    <2> HIDE DEF PublishedBy
    <2> QED BY <1>1, <2>1, <2>2, <2>6, OneForEach
  <1> HIDE DEF PublishedBy
  <1> QED BY <1>5, <1>6

(* The statistics of an article follow its delivery.                       *)
LEMMA KeepsArticleAgrees ==
    ASSUME IInv, OInv, [Next]_vars
    PROVE  ArticleAgrees'
  <1>1. /\ \A e \in Row : Fate(e) /\ row[e].status \in Status
        /\ ArticleAgrees
    BY Fates, RowFields DEF OInv, IInv, TypeOK, TableTypeOK
  <1>2. SUFFICES ASSUME NEW e \in Delivery \ late'
                 PROVE  article'[e] \in
                          CASE row'[e].status \in {"absent", "uncommitted"} -> {"none"}
                            [] Open(e)' -> {"pending"}
                            [] row'[e].status = "completed" -> {"accepted"}
                            [] row'[e].status = "dead" -> {"failed"}
                            [] row'[e].status = "deleted" -> {"accepted", "failed"}
    BY DEF ArticleAgrees
  <1>3. /\ e \in Row /\ Fate(e) /\ row[e].status \in Status
        /\ e \notin late /\ \A t \in Token : ~LateBy(e, t)
    BY <1>1, OtherTypes DEF Delivery, LateBy
  <1>4. /\ row[e].status \in {"absent", "uncommitted"} => article[e] = "none"
        /\ Open(e) => article[e] = "pending"
        /\ row[e].status = "completed" => article[e] = "accepted"
        /\ row[e].status = "dead" => article[e] = "failed"
        /\ row[e].status = "deleted" => article[e] \in {"accepted", "failed"}
    BY <1>1, <1>3 DEF ArticleAgrees, Open
  <1>5. /\ row'[e].status \in Status
        /\ row'[e].status \in {"absent", "uncommitted"} => article'[e] = "none"
        /\ Open(e)' => article'[e] = "pending"
        /\ row'[e].status = "completed" => article'[e] = "accepted"
        /\ row'[e].status = "dead" => article'[e] = "failed"
        /\ row'[e].status = "deleted" => article'[e] \in {"accepted", "failed"}
    BY <1>3, <1>4, AbsentRowType
       DEF Fate, Rests, Roots, Grows, Commits, Drops, TakenBy, CompletedBy, Delivers,
           RetriedBy, FailedBy, Reopens, Prunes, Holds, Due, Open, Status, Told
  <1> QED BY <1>5 DEF Open, Status

-----------------------------------------------------------------------------
(* The invariant is inductive: leases and attempts. *)

(* Only a fault takes a worker down. *)
LEMMA KeepsAllUp ==
    ASSUME IInv, OInv, [Next]_vars
    PROVE  AllUp'
  <1>1. AllUp /\ faults \in Nat
    BY DEF OInv, IInv, TypeOK
  <1> QED BY <1>1, ModeStep DEF AllUp

(* What a step makes of the lease of a row that a run goes on holding.     *)
LEMMA LeaseStep ==
    ASSUME IInv, OInv, [Next]_vars, NEW e \in Row, NEW t \in Token,
           Holds(e, t), run[t].state \in {"open", "settling"}, run[t].event = e,
           run'[t].state \in {"open", "settling"}, Rests(e)
    PROVE  \/ row'[e].lease = Lease
           \/ missed' = missed + 1 /\ row'[e].lease = row[e].lease
           \/ missed' = missed /\ row'[e].lease + Beaten(t)' >= row[e].lease + Beaten(t)
           \/ missed' = missed /\ ~Awake(t)
  <1>1. /\ row \in [Row -> TypedRow] /\ row[e].lease \in Nat
        /\ missed \in Nat /\ run \in [Token -> RunRecord]
        /\ missed' = missed \/ missed' = missed + 1
    BY RowFields, ModeStep DEF IInv, TypeOK, TableTypeOK
  <1>2. CASE Tick
    <2>1. /\ missed' = missed /\ ~Heartbeats(t)
          /\ run'[t] = [run[t] EXCEPT !.due = Heartbeat(t)]
      BY <1>2 DEF Tick
    <2>2. Heartbeat(t)
      BY DEF Heartbeat, Event
    <2>3. run'[t].due = TRUE
      <3>1. run[t] \in RunRecord /\ run'[t] = [run[t] EXCEPT !.due = TRUE]
        BY <1>1, <2>1, <2>2
      <3> QED BY <3>1, DueRun
    <2>4. Awake(t) => ~run[t].due
      BY <2>1, <2>2 DEF Heartbeats
    <2>5. row'[e].lease = Less(row[e].lease) \/ row'[e].lease = row[e].lease
          \/ row'[e].lease = Lease
      BY DEF Rests, Ages
    <2> QED BY <1>1, <2>1, <2>3, <2>4, <2>5 DEF Beaten, Less
  <1>3. CASE ~Tick
    <2>1. row'[e].lease = row[e].lease \/ row'[e].lease = Lease
      BY <1>3 DEF Rests, Ages
    <2>2. \/ run'[t].due = run[t].due \/ missed' = missed + 1 \/ row'[e].lease = Lease
      BY <1>3, BeatStep
    <2>3. run'[t].due = run[t].due => Beaten(t)' = Beaten(t)
      BY DEF Beaten
    <2>4. Beaten(t) \in {0, 1}
      BY DEF Beaten
    <2> QED BY <1>1, <2>1, <2>2, <2>3, <2>4
  <1> QED BY <1>2, <1>3

(* As long as no fault has happened, and fewer renewals have failed than   *)
(* fit into a lease, the run that awaits its handler keeps its row.        *)
LEMMA KeepsLeaseKept ==
    ASSUME IInv, OInv, [Next]_vars
    PROVE  LeaseKept'
  <1>1. SUFFICES ASSUME faults' = 0, missed' < Lease - 1,
                        NEW t \in Token, run'[t].state = "open"
                 PROVE  /\ Holds(run[t].event, t)'
                        /\ row'[run'[t].event].lease + missed' + Beaten(t)' >= Lease
    BY DEF LeaseKept, Holds
  <1> DEFINE e == run[t].event
  <1>2. /\ \A x \in Row : Fate(x)
        /\ RunFate(t) /\ RunShape /\ LeaseKept /\ AllUp
        /\ row \in [Row -> TypedRow] /\ row' \in [Row -> TypedRow]
        /\ faults = 0 /\ faults' # faults + 1
        /\ Lease \in Nat \ {0} /\ missed \in Nat /\ missed' \in Nat
        /\ missed' = missed \/ missed' = missed + 1
        /\ missed < Lease - 1
    <2>1. /\ \A x \in Row : Fate(x)
          /\ RunFate(t) /\ RunShape /\ LeaseKept /\ AllUp
          /\ row \in [Row -> TypedRow] /\ row' \in [Row -> TypedRow]
          /\ Lease \in Nat \ {0} /\ missed \in Nat /\ faults \in Nat
      BY Fates, RunFates, RowMoves, OutboxTableAssumption
         DEF OInv, IInv, TypeOK, TableTypeOK
    <2>2. /\ faults' = faults \/ faults' = faults + 1
          /\ missed' = missed \/ missed' = missed + 1
      BY ModeStep
    <2> QED BY <1>1, <2>1, <2>2
  <1>3. Beaten(t) \in {0, 1} /\ Beaten(t)' \in {0, 1}
    BY DEF Beaten
  <1>4. CASE Opens(t)
    <2>1. Holds(run[t].event, t)' /\ row'[run'[t].event].lease = Lease
      BY <1>2, <1>4 DEF Opens, SameRun, TakenBy, Holds
    <2> QED BY <1>2, <1>3, <2>1
  <1>5. CASE run[t].state = "open" /\ run'[t].event = run[t].event
    <2>1. /\ e \in Row /\ Holds(e, t) /\ Awake(t) /\ row[e].lease \in Nat
          /\ row[e].lease + missed + Beaten(t) >= Lease
      <3>1. e \in Row /\ run[t].worker \in Worker
        BY <1>2, <1>5 DEF RunShape
      <3>2. /\ Holds(e, t) /\ mode[run[t].worker] = "up"
            /\ row[e].lease + missed + Beaten(t) >= Lease
        BY <1>2, <1>5, <3>1 DEF LeaseKept, AllUp
      <3> QED BY <1>2, <3>1, <3>2, RowFields DEF Awake
    <2>2. row[e].lease > 0
      BY <1>2, <1>3, <2>1
    <2>3. Fate(e)
      BY <1>2, <2>1
    <2>4. CASE Rests(e)
      <3>1. /\ row'[e].status = "processing" /\ row'[e].token = t
        BY <2>1, <2>4 DEF Rests, Holds
      <3>2. row'[e].lease \in Nat
        BY <1>2, <2>1 DEF TypedRow, RowRecord
      <3>3. \/ row'[e].lease = Lease
            \/ missed' = missed + 1 /\ row'[e].lease = row[e].lease
            \/ missed' = missed /\ row'[e].lease + Beaten(t)' >= row[e].lease + Beaten(t)
        BY <1>1, <1>5, <2>1, <2>4, LeaseStep
      <3>4. row'[e].lease + missed' + Beaten(t)' >= Lease
        BY <1>2, <1>3, <2>1, <3>2, <3>3
      <3> QED BY <1>5, <3>1, <3>4 DEF Holds
    <2> HIDE DEF e
    <2>5. ASSUME NEW u \in Token, Grows(e, u) \/ LateBy(e, u) \/ Delivers(e, u)
          PROVE  FALSE
      BY <2>1, <2>5 DEF Grows, LateBy, Delivers, Holds
    <2>6. ASSUME NEW u \in Token, TakenBy(e, u)
          PROVE  FALSE
      <3>1. row[e].status = "pending" \/ row[e].lease = 0
        BY <2>6 DEF TakenBy, Due
      <3> QED BY <2>1, <2>2, <3>1 DEF Holds
    <2>7. ~(Roots(e) \/ Commits(e) \/ Drops(e) \/ Reopens(e) \/ Prunes(e))
      BY <2>1 DEF Roots, Commits, Drops, Reopens, Prunes, Holds
    <2>8. ASSUME NEW u \in Token, CompletedBy(e, u) \/ RetriedBy(e, u) \/ FailedBy(e, u)
          PROVE  FALSE
      BY <1>1, <2>1, <2>8 DEF CompletedBy, RetriedBy, FailedBy, Holds
    <2> QED BY <2>3, <2>4, <2>5, <2>6, <2>7, <2>8 DEF Fate
  <1> QED BY <1>1, <1>2, <1>4, <1>5, FreeRunType
          DEF RunFate, Idles, Frees, Picks, Adds, SameRun, Succeeds, Fails, Lingers

(* What a step makes of the attempts of a row: a claim counts one, a       *)
(* circuit that is open gives one back.                                    *)
LEMMA AttemptsMove ==
    ASSUME IInv, OInv, [Next]_vars, NEW e \in Row
    PROVE  \/ row'[e].attempts = row[e].attempts
           \/ row'[e].attempts = 0
           \/ \E t \in Token : TakenBy(e, t)
           \/ faults' = faults + 1 /\ row'[e].attempts = Refunded(row[e].attempts)
  <1>1. Fate(e) /\ AbsentRow(e).attempts = 0
    <2>1. AbsentRow(e).attempts = 0
      BY DEF AbsentRow
    <2> QED BY <2>1, Fates DEF OInv
  <1> QED BY <1>1 DEF Fate, Rests, Roots, Grows, LateBy, Commits, Drops, CompletedBy,
          Delivers, RetriedBy, FailedBy, Reopens, Prunes

(* The disruptions a row may be charged for only grow in number.           *)
LEMMA ChargedGrows ==
    ASSUME IInv, [Next]_vars
    PROVE  /\ Charged \in Nat /\ Charged' \in Nat /\ Charged' >= Charged
           /\ faults' = faults + 1 \/ missed' = missed + 1 => Charged' > Charged
           /\ UNCHANGED <<faults, missed>> => Charged' = Charged
           /\ faults > 0 => Charged > 0
  <1>1. faults \in Nat /\ missed \in Nat
    BY DEF IInv, TypeOK
  <1> QED BY <1>1, ModeStep DEF Charged

(* The claim of a row finds an attempt that is left. *)
LEMMA ClaimHasAttempt ==
    ASSUME AttemptsSpared, NEW e \in Row, Due(e)
    PROVE  row[e].attempts < MaxAttempts + Charged
  BY DEF AttemptsSpared, Due, Lost

(* No row is claimed more often than the budget and the disruptions allow. *)
LEMMA KeepsAttemptBudget ==
    ASSUME IInv, OInv, [Next]_vars
    PROVE  AttemptBudget'
  <1>1. SUFFICES ASSUME NEW e \in Row
                 PROVE  row'[e].attempts <= MaxAttempts + Charged'
    <2>1. faults' \in Nat /\ missed' \in Nat /\ MaxAttempts \in Nat
      BY ModeStep, FederationQueueAssumption DEF IInv, TypeOK
    <2>2. MaxAttempts + (faults' + missed') = MaxAttempts + faults' + missed'
      BY <2>1
    <2> QED BY <2>2 DEF AttemptBudget, Charged
  <1>2. /\ row[e].attempts \in Nat /\ row[e].attempts <= MaxAttempts + Charged
        /\ MaxAttempts \in Nat /\ AttemptsSpared
    <2>1. faults \in Nat /\ missed \in Nat /\ MaxAttempts \in Nat
      BY FederationQueueAssumption DEF IInv, TypeOK
    <2> QED BY <2>1, RowFields
            DEF OInv, AttemptBudget, Charged, IInv, TypeOK, TableTypeOK
  <1>3. ASSUME NEW t \in Token, TakenBy(e, t)
        PROVE  row'[e].attempts <= MaxAttempts + Charged'
    <2>1. /\ row[e].attempts < MaxAttempts + Charged
          /\ row'[e].attempts = row[e].attempts + 1 /\ UNCHANGED <<faults, missed>>
      BY <1>2, <1>3, ClaimHasAttempt DEF TakenBy
    <2> QED BY <1>2, <2>1, ChargedGrows
  <1> QED BY <1>2, <1>3, AttemptsMove, ChargedGrows DEF Refunded

(* The run that holds a row goes on, or a disruption ends it.              *)
LEMMA RunGoesOn ==
    ASSUME IInv, OInv, [Next]_vars, NEW t \in Token, NEW e \in Row,
           row[e].token = t, row'[e].token = t, run[t].state \in {"open", "settling"}
    PROVE  \/ faults' = faults + 1
           \/ run'[t].state \in {"open", "settling"} /\ SameRun(t)
  <1>1. RunFate(t) /\ ~Picks(t)
    BY RunFates DEF Picks
  <1>2. ~LetsGo(t) \/ faults' = faults + 1
    BY DEF LetsGo
  <1> QED BY <1>1, <1>2
          DEF RunFate, Idles, Frees, Opens, Adds, Succeeds, Fails, Lingers, SameRun

(* A row that has no attempt to spare is held by a run that nothing has    *)
(* disrupted.                                                              *)
LEMMA Undisrupted ==
    ASSUME IInv, OInv, NEW t \in Token, NEW e \in Row, Holds(e, t),
           ~(row[e].attempts < MaxAttempts + Charged)
    PROVE  /\ run[t].state \in {"open", "settling"} /\ run[t].event = e /\ Awake(t)
           /\ row[e].lease + Beaten(t) >= Lease
  <1>1. AttemptsSpared /\ row[e].token = t /\ row[e].status = "processing"
    BY DEF OInv, Holds
  <1>2. ~Lost(e) /\ row[e].lease + Beaten(t) >= Lease
    BY <1>1 DEF AttemptsSpared
  <1>3. run[t].state \notin {"free", "zombie"} /\ Awake(t)
    BY <1>1, <1>2 DEF Lost
  <1> QED BY <1>1, <1>2, <1>3, Holder

(* The last part: the lease of a row without attempts to spare is as good  *)
(* as new.                                                                 *)
LEMMA HolderSpared ==
    ASSUME IInv, OInv, [Next]_vars, NEW t \in Token, NEW e \in Row, Holds(e, t)'
    PROVE  \/ row'[e].attempts < MaxAttempts + Charged'
           \/ row'[e].lease + Beaten(t)' >= Lease
  <1>1. /\ Fate(e) /\ MaxAttempts \in Nat /\ MaxAttempts > 0 /\ Lease \in Nat
        /\ row'[e].status = "processing" /\ row'[e].token = t
        /\ Beaten(t)' \in {0, 1} /\ Beaten(t) \in {0, 1}
        /\ row[e].attempts \in Nat /\ row[e].attempts <= MaxAttempts + Charged
        /\ row[e].lease \in Nat
    <2>1. faults \in Nat /\ missed \in Nat /\ MaxAttempts \in Nat /\ MaxAttempts > 0
      BY FederationQueueAssumption DEF IInv, TypeOK
    <2>2. row[e].attempts \in Nat /\ row[e].attempts <= MaxAttempts + Charged
      BY <2>1, RowFields DEF OInv, AttemptBudget, Charged, IInv, TypeOK, TableTypeOK
    <2>3. row[e].lease \in Nat
      BY RowFields DEF IInv, TypeOK, TableTypeOK
    <2> QED BY <2>1, <2>2, <2>3, Fates, OutboxTableAssumption DEF OInv, Holds, Beaten
  <1>2. ASSUME NEW u \in Token, TakenBy(e, u)
        PROVE  row'[e].lease + Beaten(t)' >= Lease
    <2>1. row'[e].lease = Lease
      BY <1>2 DEF TakenBy
    <2> QED BY <1>1, <2>1
  <1>3. CASE Rests(e)
    <2>1. Holds(e, t) /\ row[e].token = t /\ row'[e].attempts = row[e].attempts
      BY <1>1, <1>3 DEF Rests, Holds
    <2>2. CASE row[e].attempts < MaxAttempts + Charged
      BY <1>1, <2>1, <2>2, ChargedGrows
    <2>3. CASE ~(row[e].attempts < MaxAttempts + Charged)
      <3>1. /\ run[t].state \in {"open", "settling"} /\ run[t].event = e /\ Awake(t)
            /\ row[e].lease + Beaten(t) >= Lease
        BY <2>1, <2>3, Undisrupted
      <3>2. CASE faults' = faults + 1 \/ missed' = missed + 1
        BY <1>1, <2>1, <3>2, ChargedGrows
      <3>3. CASE ~(faults' = faults + 1 \/ missed' = missed + 1)
        <4>1. run'[t].state \in {"open", "settling"}
          BY <1>1, <2>1, <3>1, <3>3, RunGoesOn
        <4>2. \/ row'[e].lease = Lease
              \/ row'[e].lease + Beaten(t)' >= row[e].lease + Beaten(t)
          BY <1>3, <2>1, <3>1, <3>3, <4>1, LeaseStep
        <4>3. row'[e].lease \in Nat
          <5>1. row' \in [Row -> TypedRow]
            BY RowMoves DEF IInv
          <5> QED BY <5>1 DEF TypedRow, RowRecord
        <4> QED BY <1>1, <3>1, <4>2, <4>3
      <3> QED BY <3>2, <3>3
    <2> QED BY <2>2, <2>3
  <1> QED BY <1>1, <1>2, <1>3, AbsentRowType
          DEF Fate, Roots, Grows, LateBy, Commits, Drops, CompletedBy, Delivers, RetriedBy,
              FailedBy, Reopens, Prunes

(* The first part: a row that waits, or whose worker may have lost it.     *)
LEMMA OpenRowSpared ==
    ASSUME IInv, OInv, [Next]_vars, NEW e \in Row,
           \/ row'[e].status = "pending"
           \/ row'[e].status = "processing" /\ Lost(e)'
    PROVE  row'[e].attempts < MaxAttempts + Charged'
  <1>1. /\ Fate(e) /\ AttemptsSpared /\ Unclaimed /\ RunShape
        /\ \A t \in Token : RunFate(t)
    BY Fates, RunFates DEF OInv, IInv
  <1>2. /\ row[e].attempts \in Nat /\ row[e].attempts <= MaxAttempts + Charged
        /\ MaxAttempts \in Nat /\ MaxAttempts > 0
        /\ Lease \in Nat /\ Lease > 1 /\ NoToken \notin Token
        /\ row[e].token # NoToken <=> row[e].status = "processing"
        /\ row[e].token \in Token \cup {NoToken}
    <2>1. faults \in Nat /\ missed \in Nat /\ MaxAttempts \in Nat /\ MaxAttempts > 0
      BY FederationQueueAssumption DEF IInv, TypeOK
    <2>2. row[e].attempts \in Nat /\ row[e].attempts <= MaxAttempts + Charged
      BY <2>1, RowFields DEF OInv, AttemptBudget, Charged, IInv, TypeOK, TableTypeOK
    <2> QED BY <2>1, <2>2, RowFields, FederationQueueAssumption, OutboxTableAssumption
            DEF IInv, TypeOK, TableTypeOK
  <1>3. CASE row[e].attempts < MaxAttempts + Charged /\ row'[e].attempts = row[e].attempts
    BY <1>2, <1>3, ChargedGrows
  <1>4. CASE faults' = faults + 1 /\ row'[e].attempts = row[e].attempts
    BY <1>2, <1>4, ChargedGrows
  <1>5. CASE row'[e].attempts = 0
    BY <1>2, <1>5, ChargedGrows
  <1>6. ASSUME NEW t \in Token, TakenBy(e, t)
        PROVE  row'[e].attempts < MaxAttempts + Charged'
    <2>1. /\ run[t].state = "chosen" /\ run[t].event = e /\ Due(e)
          /\ run'[t].state = "open" /\ row'[e].status = "processing"
          /\ row'[e].token = t /\ row'[e].lease = Lease /\ mode' = mode
          /\ row'[e].attempts = row[e].attempts + 1 /\ UNCHANGED <<faults, missed>>
      BY <1>6 DEF TakenBy
    <2>2. run'[t].worker = run[t].worker
      BY <1>1, <2>1, FreeRunType
         DEF RunFate, Idles, Frees, Picks, Opens, Adds, Succeeds, Fails, Lingers, SameRun
    <2>3. ~Awake(t)
      BY <1>2, <2>1, <2>2 DEF Lost, Awake
    <2>4. row[e].attempts + 1 < MaxAttempts + Charged
      BY <1>1, <2>1, <2>3 DEF AttemptsSpared
    <2> QED BY <2>1, <2>4, ChargedGrows
  <1>7. CASE Rests(e)
    <2>1. /\ row'[e].status = row[e].status /\ row'[e].token = row[e].token
          /\ row'[e].attempts = row[e].attempts
      BY <1>7 DEF Rests
    <2>2. CASE row[e].status = "pending" \/ row[e].attempts < MaxAttempts + Charged
      BY <1>1, <1>3, <2>1, <2>2 DEF AttemptsSpared
    <2>3. CASE row[e].status = "processing" /\ ~(row[e].attempts < MaxAttempts + Charged)
      <3>1. PICK t \in Token : row[e].token = t
        BY <1>2, <2>3
      <3>2. Holds(e, t) /\ Holds(e, t)' /\ row'[e].token = t
        BY <2>1, <2>3, <3>1 DEF Holds
      <3>3. run[t].state \in {"open", "settling"} /\ run[t].event = e /\ Awake(t)
        BY <2>3, <3>2, Undisrupted
      <3>4. CASE faults' = faults + 1
        BY <1>4, <2>1, <3>4
      <3>5. CASE faults' # faults + 1
        <4>1. run'[t].state \in {"open", "settling"} /\ SameRun(t)
          BY <3>1, <3>2, <3>3, <3>5, RunGoesOn
        <4>2. Awake(t)'
          <5>1. run[t].worker \in Worker /\ mode'[run[t].worker] \in {"up", mode[run[t].worker]}
            BY <1>1, <3>3, <3>5, ModeStep DEF RunShape
          <5> QED BY <3>3, <4>1, <5>1 DEF Awake, SameRun
        <4>3. row'[e].lease = 0
          BY <1>2, <2>1, <2>3, <3>1, <4>1, <4>2 DEF Lost
        <4>4. Beaten(t)' \in {0, 1}
          BY DEF Beaten
        <4>5. ~(row'[e].lease + Beaten(t)' >= Lease)
          BY <1>2, <4>3, <4>4
        <4> QED BY <3>2, <4>5, HolderSpared
      <3> QED BY <3>4, <3>5
    <2>4. row[e].status \in {"pending", "processing"}
      BY <2>1
    <2> QED BY <2>2, <2>3, <2>4
  <1>8. ASSUME NEW t \in Token, RetriedBy(e, t)
        PROVE  row'[e].attempts < MaxAttempts + Charged'
    BY <1>2, <1>8, ChargedGrows DEF RetriedBy, Refunded
  <1>9. Commits(e) \/ (\E t \in Token : Delivers(e, t)) => row'[e].attempts = 0
    BY <1>1 DEF Commits, Delivers, Unclaimed
  <1> QED BY <1>1, <1>5, <1>6, <1>7, <1>8, <1>9, AbsentRowType
          DEF Fate, Roots, Grows, LateBy, Drops, CompletedBy, FailedBy, Reopens, Prunes

(* The second part: a claim under way in a worker that has stalled.        *)
LEMMA StalledClaimSpared ==
    ASSUME IInv, OInv, [Next]_vars, NEW t \in Token, NEW e \in Row,
           run'[t].state = "chosen", run'[t].event = e, ~Awake(t)', Due(e)'
    PROVE  row'[e].attempts + 1 < MaxAttempts + Charged'
  <1>1. /\ Fate(e) /\ RunFate(t) /\ AttemptsSpared /\ Unclaimed /\ RunShape /\ AllUp
        /\ row \in [Row -> TypedRow] /\ row' \in [Row -> TypedRow]
    BY Fates, RunFates, RowMoves DEF OInv, IInv, TypeOK, TableTypeOK
  <1>2. /\ row[e].attempts \in Nat /\ row[e].attempts <= MaxAttempts + Charged
        /\ MaxAttempts \in Nat /\ MaxAttempts > 0 /\ Lease > 0 /\ faults \in Nat
    <2>1. /\ faults \in Nat /\ missed \in Nat
          /\ MaxAttempts \in Nat /\ MaxAttempts > 0 /\ Lease > 0
      BY FederationQueueAssumption, OutboxTableAssumption DEF IInv, TypeOK
    <2>2. row[e].attempts \in Nat /\ row[e].attempts <= MaxAttempts + Charged
      BY <2>1, RowFields DEF OInv, AttemptBudget, Charged, IInv, TypeOK, TableTypeOK
    <2> QED BY <2>1, <2>2
  <1>3. run[t].state = "chosen" /\ SameRun(t)
    <2>1. ~Picks(t)
      BY DEF Picks, Awake
    <2> QED BY <1>1, <2>1, FreeRunType
            DEF RunFate, Idles, Frees, Opens, Adds, Succeeds, Fails, Lingers, SameRun
  <1>4. /\ run[t].event = e /\ run[t].worker \in Worker
        /\ mode'[run[t].worker] = "stalled"
    BY <1>1, <1>3 DEF Awake, RunShape, SameRun
  <1>5. CASE Awake(t)
    <2>1. faults' = faults + 1 /\ row' = row
      BY <1>4, <1>5, ModeStep DEF Awake
    <2>2. row[e].attempts < MaxAttempts + Charged
      BY <1>1, <2>1, ClaimHasAttempt DEF Due
    <2> QED BY <1>2, <2>1, <2>2, ChargedGrows
  <1>6. CASE ~Awake(t)
    <2>1. Charged > 0
      <3>1. faults > 0
        BY <1>1, <1>2, <1>4, <1>6 DEF AllUp, Awake
      <3> QED BY <3>1, ChargedGrows
    <2>2. ~Ages(e)
      BY <1>3 DEF Ages, Tick
    <2>3. CASE row'[e].attempts = 0
      <3>1. Charged' >= 1 /\ Charged' \in Nat
        BY <2>1, ChargedGrows
      <3>2. ASSUME NEW c \in Nat, c >= 1
            PROVE  0 + 1 < MaxAttempts + c
        BY <1>2, <3>2
      <3> QED BY <2>3, <3>1, <3>2
    <2>4. CASE Rests(e)
      <3>1. row'[e].lease > 0 => row'[e].status = "processing"
        BY <1>1 DEF TypedRow
      <3>2. row'[e] = row[e]
        BY <1>2, <2>2, <2>4, <3>1 DEF Rests, Due
      <3>3. row[e].attempts + 1 < MaxAttempts + Charged
        BY <1>1, <1>3, <1>4, <1>6, <3>2 DEF AttemptsSpared, Due
      <3> QED BY <1>2, <3>2, <3>3, ChargedGrows
    <2>5. ASSUME NEW u \in Token, RetriedBy(e, u)
          PROVE  row'[e].attempts + 1 < MaxAttempts + Charged'
      BY <1>2, <2>1, <2>5, ChargedGrows DEF RetriedBy, Refunded
    <2>6. Commits(e) \/ (\E u \in Token : Delivers(e, u)) => row'[e].attempts = 0
      BY <1>1 DEF Commits, Delivers, Unclaimed
    <2>7. ASSUME NEW u \in Token, TakenBy(e, u)
          PROVE  FALSE
      <3>1. row'[e].lease = Lease /\ row'[e].status = "processing"
        BY <2>7 DEF TakenBy
      <3> QED BY <1>2, <3>1 DEF Due
    <2> QED BY <1>1, <2>3, <2>4, <2>5, <2>6, <2>7, AbsentRowType
            DEF Fate, Roots, Grows, LateBy, Drops, CompletedBy, FailedBy, Reopens, Prunes,
                Due
  <1> QED BY <1>5, <1>6

(* Every disruption that costs a row an attempt has paid for it.           *)
LEMMA KeepsAttemptsSpared ==
    ASSUME IInv, OInv, [Next]_vars
    PROVE  AttemptsSpared'
  <1>1. ASSUME NEW e \in Row,
               \/ row'[e].status = "pending"
               \/ row'[e].status = "processing" /\ Lost(e)'
        PROVE  row'[e].attempts < MaxAttempts + Charged'
    BY <1>1, OpenRowSpared
  <1>2. ASSUME NEW e \in Row, NEW t \in Token, run'[t].state = "chosen",
               run'[t].event = e, ~Awake(t)', Due(e)'
        PROVE  row'[e].attempts + 1 < MaxAttempts + Charged'
    BY <1>2, StalledClaimSpared
  <1>3. ASSUME NEW e \in Row, NEW t \in Token, Holds(e, t)'
        PROVE  \/ row'[e].attempts < MaxAttempts + Charged'
               \/ row'[e].lease + Beaten(t)' >= Lease
    BY <1>3, HolderSpared
  <1> QED BY <1>1, <1>2, <1>3 DEF AttemptsSpared

(* A row is inserted with the history it had. *)
LEMMA KeepsUnreplayed ==
    ASSUME IInv, OInv, [Next]_vars
    PROVE  Unreplayed'
  <1>1. SUFFICES ASSUME NEW e \in Row,
                        \/ row'[e].status = "absent"
                        \/ row'[e].status = "uncommitted" /\ IsRoot(e)'
                 PROVE  ~row'[e].replayed
    BY DEF Unreplayed
  <1>2. Fate(e) /\ Unreplayed
    BY Fates DEF OInv
  <1>3. CASE Drops(e)
    <2>1. ~AbsentRow(e).replayed
      BY Zenon DEF AbsentRow
    <2>2. row'[e] = AbsentRow(e)
      BY <1>3 DEF Drops
    <2> QED BY <2>1, <2>2, Zenon
  <1>4. ASSUME NEW t \in Token, Grows(e, t)
        PROVE  FALSE
    BY <1>1, <1>4 DEF Grows, Delivery, IsRoot
  <1>5. CASE Roots(e) \/ Rests(e)
    <2>1. /\ row'[e].replayed = row[e].replayed
          /\ \/ row[e].status = "absent"
             \/ row[e].status = "uncommitted" /\ IsRoot(e)
      BY <1>1, <1>5 DEF Roots, Rests, Kept, SameOrigin, IsRoot
    <2> QED BY <1>2, <2>1, Zenon DEF Unreplayed
  <1> QED BY <1>1, <1>2, <1>3, <1>4, <1>5
          DEF Fate, LateBy, Commits, TakenBy, CompletedBy, Delivers, RetriedBy, FailedBy,
              Reopens, Prunes

-----------------------------------------------------------------------------
(* The invariant. *)

(* An empty table satisfies it. *)
LEMMA InitOInv == Init => OInv
  <1> SUFFICES ASSUME Init PROVE OInv
    OBVIOUS
  <1>1. /\ row = [e \in Row |-> AbsentRow(e)] /\ run = [t \in Token |-> FreeRun]
        /\ mode = [w \in Worker |-> "up"] /\ article = [e \in Row |-> "none"]
        /\ faults = 0 /\ missed = 0 /\ late = {}
    BY DEF Init, TableInit
  <1>2. ASSUME NEW e \in Row
        PROVE  /\ row[e].status = "absent" /\ row[e].attempts = 0
               /\ article[e] = "none"
    BY <1>1, AbsentRowType DEF AbsentRow
  <1>3. \A e \in Row : ~row[e].replayed
    BY <1>1, Zenon DEF AbsentRow
  <1>4. \A t \in Token : run[t].state = "free" /\ run[t].children = {}
    BY <1>1, FreeRunType
  <1>5. Rooted /\ LastOfKey /\ ChildOrigin /\ OwnChildren
    BY <1>2, <1>4 DEF Rooted, LastOfKey, ChildOrigin, OwnChildren, Exists, Uncommitted
  <1>6. Unclaimed /\ PayloadKept /\ RunsSeen /\ ClaimsInOrder /\ LateInOrder
    BY <1>1, <1>2, <1>4
       DEF Unclaimed, PayloadKept, RunsSeen, ClaimsInOrder, LateInOrder, Settled
  <1>7. Unreplayed
    BY <1>3 DEF Unreplayed
  <1>8. FanoutOnce
    <2>1. ASSUME NEW f \in Fanout
          PROVE  {d \in Delivery \ late : Visible(d) /\ row[d].group = f} = {}
      BY <1>2 DEF Visible, Delivery
    <2>2. \A f \in Fanout : row[f].status = "absent"
      BY <1>2, FederationQueueAssumption
    <2> QED BY <2>1, <2>2, FS_EmptySet DEF FanoutOnce
  <1>9. ArticleAgrees
    BY <1>2 DEF ArticleAgrees, Delivery, Open
  <1>10. AllUp /\ LeaseKept
    BY <1>1, <1>4 DEF AllUp, LeaseKept
  <1>11. AttemptBudget /\ AttemptsSpared
    BY <1>1, <1>2, <1>4, FederationQueueAssumption
       DEF AttemptBudget, AttemptsSpared, Charged, Holds
  <1> QED BY <1>5, <1>6, <1>7, <1>8, <1>9, <1>10, <1>11 DEF OInv

(* Every step keeps it. *)
LEMMA NextOInv == IInv /\ OInv /\ [Next]_vars => OInv'
  <1> SUFFICES ASSUME IInv, OInv, [Next]_vars PROVE OInv'
    OBVIOUS
  <1>1. Rooted' /\ LastOfKey' /\ ChildOrigin' /\ OwnChildren'
    BY KeepsRooted, KeepsLastOfKey, KeepsChildOrigin, KeepsOwnChildren
  <1>2. Unclaimed' /\ Unreplayed' /\ PayloadKept' /\ RunsSeen'
    BY KeepsRowFacts, KeepsUnreplayed
  <1>3. ClaimsInOrder' /\ LateInOrder' /\ FanoutOnce' /\ ArticleAgrees'
    BY KeepsClaimsInOrder, KeepsLateInOrder, KeepsFanoutOnce, KeepsArticleAgrees
  <1>4. AllUp' /\ LeaseKept' /\ AttemptBudget' /\ AttemptsSpared'
    BY KeepsAllUp, KeepsLeaseKept, KeepsAttemptBudget, KeepsAttemptsSpared
  <1> QED BY <1>1, <1>2, <1>3, <1>4 DEF OInv

(* The two inductive invariants hold of every behaviour. *)
LEMMA OrderInvariance == Spec => [](IInv /\ OInv)
  BY InitIInv, NextIInv, InitOInv, NextOInv, PTL DEF Spec

-----------------------------------------------------------------------------
(* The results. *)

(* Rows of one ordering key that came by the same route are processed in   *)
(* the order of their sequence numbers, whatever crashes, stalls and races *)
(* happen.                                                                 *)
THEOREM KeysInOrder == Spec => []KeyOrder
  <1>1. OInv => KeyOrder
    BY DEF OInv, ClaimsInOrder, Cleared, KeyOrder
  <1> QED BY <1>1, OrderInvariance, PTL

(* Commit order is sequence order. *)
THEOREM CommitsInOrder == Spec => CommitOrder
  <1>1. ASSUME IInv, OInv, [Next]_vars, NEW a \in Row, NEW b \in Row,
               Visible(b), ~Visible(a), Visible(a)', ~row'[a].replayed
        PROVE  ~Ordered(a, b)'
    BY <1>1, PublishesInOrder
  <1>2. IInv /\ OInv /\ [Next]_vars =>
          [\A a, b \in Row :
             Visible(b) /\ ~Visible(a) /\ Visible(a)' /\ ~row'[a].replayed
             => ~Ordered(a, b)']_vars
    BY <1>1
  <1> QED BY <1>2, OrderInvariance, PTL DEF Spec, CommitOrder

(* What a fanout enqueued in its transaction becomes visible when it is    *)
(* completed, one delivery for each inbox, however often it is retried;    *)
(* only a handler that its listener no longer waits for can add others.    *)
THEOREM FanoutsOnce == Spec => []FanoutOnce
  <1>1. OInv => FanoutOnce
    BY DEF OInv
  <1> QED BY <1>1, OrderInvariance, PTL

(* The delivery statistics of an article agree with the queue. *)
THEOREM ArticlesAgree == Spec => []ArticleAgrees
  <1>1. OInv => ArticleAgrees
    BY DEF OInv
  <1> QED BY <1>1, OrderInvariance, PTL

(* Without faults, the heartbeat keeps the lease of a row whose handler is *)
(* awaited, although single renewals fail: each failure or pending         *)
(* heartbeat costs the lease one tick at most.                             *)
THEOREM HeartbeatsProtect == Spec => []HeartbeatProtects
  <1>1. ASSUME IInv, OInv
        PROVE  HeartbeatProtects
    <2>1. SUFFICES ASSUME faults = 0, missed < Lease - 1,
                          NEW t \in Token, run[t].state = "open"
                   PROVE  Holds(run[t].event, t) /\ Leased(run[t].event)
      BY DEF HeartbeatProtects, Event
    <2>2. /\ Holds(run[t].event, t)
          /\ row[run[t].event].lease + missed + Beaten(t) >= Lease
      BY <1>1, <2>1 DEF OInv, LeaseKept
    <2>3. /\ run[t].event \in Row /\ missed \in Nat /\ Lease \in Nat
          /\ Beaten(t) \in {0, 1}
      BY <1>1, <2>1, OutboxTableAssumption DEF IInv, RunShape, TypeOK, Beaten
    <2>4. row[run[t].event].lease \in Nat
      BY <1>1, <2>3, RowFields DEF IInv, TypeOK, TableTypeOK
    <2>5. row[run[t].event].lease > 0
      BY <2>1, <2>2, <2>3, <2>4
    <2> QED BY <2>2, <2>5 DEF Leased, Holds
  <1>2. IInv /\ OInv => HeartbeatProtects
    BY <1>1
  <1> QED BY <1>2, OrderInvariance, PTL

(* A row is claimed at most maximumProcessingAttempts times, and once more *)
(* for each disruption.                                                    *)
THEOREM AttemptsBounded == Spec => []AttemptBudget
  <1>1. OInv => AttemptBudget
    BY DEF OInv
  <1> QED BY <1>1, OrderInvariance, PTL

-----------------------------------------------------------------------------
(* The queue implements MessageQueue for the rows the application          *)
(* enqueues: the refinement mapping, by row.                               *)

StateOf(e) == CASE ~Visible(e) -> "absent"
                [] row[e].status = "pending" -> "waiting"
                [] row[e].status = "processing" -> "held"
                [] OTHER -> "settled"

AheadOf(e) ==
    {a \in Enqueued : Visible(a) /\ Visible(e) /\ SameKey(a, e) /\ Before(a, e)}

KeyOf(e) == IF Visible(e) THEN row[e].key ELSE NoKey

States == [e \in Enqueued |-> StateOf(e)]
Aheads == [e \in Enqueued |-> AheadOf(e)]
Keys == [e \in Enqueued |-> KeyOf(e)]
Reopened == {e \in Enqueued : row[e].replayed}

(* The rows the application enqueues have no parent. *)
LEMMA EnqueuedAreRoots ==
    ASSUME ChildOrigin, ChildrenPrivate, OwnChildren
    PROVE  /\ \A e \in Enqueued : e \in Row /\ (Exists(e) => IsRoot(e))
           /\ \A t \in Token : \A c \in run[t].children : c \notin Enqueued
  <1>1. Enqueued \subseteq Row
    BY FederationQueueAssumption DEF Enqueued
  <1>2. \A e \in Enqueued : Exists(e) => IsRoot(e)
    BY <1>1 DEF ChildOrigin
  <1>3. ASSUME NEW t \in Token, NEW c \in run[t].children
        PROVE  c \notin Enqueued
    BY <1>2 DEF ChildrenPrivate, Delivery, Exists, Uncommitted, IsRoot
  <1> QED BY <1>1, <1>2, <1>3

(* Of the rows the application enqueues a step changes one, or only clocks *)
(* and leases.                                                             *)
OneMover ==
    \E e \in Row : \A x \in Enqueued \ {e} :
        /\ row'[x].status = row[x].status /\ Kept(x)

(* An update of one row is such a step. *)
LEMMA OneRowMoved ==
    ASSUME row \in [Row -> TypedRow], NEW e \in Row, NEW r,
           row' = [row EXCEPT ![e] = r]
    PROVE  OneMover
  <1>1. \A x \in Row \ {e} : row'[x] = row[x]
    OBVIOUS
  <1>2. Enqueued \subseteq Row
    BY FederationQueueAssumption DEF Enqueued
  <1> QED BY <1>1, <1>2 DEF OneMover, Kept, SameOrigin

(* And so is every step: the rows that end together with another are       *)
(* children, which the application did not enqueue.                        *)
LEMMA OneMoves ==
    ASSUME IInv, OInv, [Next]_vars, Row # {}
    PROVE  OneMover
  <1>1. /\ row \in [Row -> TypedRow] /\ RunShape /\ TokenOwned
        /\ \A e \in Enqueued : e \in Row
        /\ \A t \in Token : \A c \in run[t].children : c \notin Enqueued
    BY EnqueuedAreRoots DEF OInv, IInv, TypeOK, TableTypeOK
  <1>2. row' = row => OneMover
    BY DEF OneMover, Kept, SameOrigin
  <1>3. ASSUME NEW T \in SUBSET Token, row' = WithoutChildren(T)
        PROVE  OneMover
    <2>1. \A x \in Enqueued : row'[x] = row[x]
      BY <1>1, <1>3 DEF WithoutChildren
    <2> QED BY <2>1 DEF OneMover, Kept, SameOrigin
  <1>4. ASSUME NEW t \in Token, run[t].state # "free",
               \/ \E w \in 0..MaxWait, held \in BOOLEAN : Requeue(t, w, held)
               \/ \E w \in 1..MaxWait : Reject(t, w)
               \/ Take(t) \/ Renew(t)
        PROVE  OneMover
    <2>1. run[t].event \in Row
      BY <1>1, <1>4 DEF RunShape
    <2>2. CASE \/ \E w \in 0..MaxWait, held \in BOOLEAN : Requeue(t, w, held)
               \/ Take(t) \/ Renew(t)
      <3>1. row' = row \/ \E r : row' = [row EXCEPT ![run[t].event] = r]
        BY <2>2 DEF Requeue, Take, Renew, Event
      <3> QED BY <1>1, <1>2, <2>1, <3>1, OneRowMoved
    <2>3. ASSUME NEW w \in 1..MaxWait, Reject(t, w)
          PROVE  OneMover
      <3>1. row' = row \/ \E r : row' = [row EXCEPT ![run[t].event] = r]
        BY <2>3, Zenon DEF Reject, Event
      <3> QED BY <1>1, <1>2, <2>1, <3>1, OneRowMoved
    <2> QED BY <1>4, <2>2, <2>3
  <1>5. ASSUME NEW t \in Token, Acknowledge(t)
        PROVE  OneMover
    <2>1. run[t].event \in Row
      BY <1>1, <1>5 DEF RunShape, Acknowledge
    <2>2. CASE row' = WithoutChildren({t})
      BY <1>3, <2>2
    <2>3. CASE row' # WithoutChildren({t})
      <3>1. row' = [a \in Row |-> IF a = run[t].event THEN CompletedRow(a)
                                  ELSE IF a \in run[t].children THEN Published(a)
                                  ELSE row[a]]
        BY <1>5, <2>3 DEF Acknowledge, Event
      <3>2. \A x \in Enqueued \ {run[t].event} : row'[x] = row[x]
        BY <1>1, <3>1
      <3> QED BY <2>1, <3>2 DEF OneMover, Kept, SameOrigin
    <2> QED BY <2>2, <2>3
  <1>6. CASE Tick
    <2>1. TableTick
      BY <1>6 DEF Tick
    <2>2. \A x \in Row : row'[x].status = row[x].status /\ Kept(x)
      BY <1>1, <2>1, TickType DEF Kept
    <2> QED BY <1>1, <2>2 DEF OneMover
  <1>7. ASSUME NEW s \in Sends, AppEnqueue(s)
        PROVE  OneMover
    BY <1>1, <1>7, OneRowMoved, FederationQueueAssumption DEF AppEnqueue, InsertRoot
  <1>8. ASSUME NEW e \in Row, \/ AppCommit(e) \/ AppRollback(e) \/ Replay(e) \/ Prune(e)
                              \/ \E t \in Token, i \in Recipients :
                                   FanoutEnqueue(t, e, i) \/ LateEnqueue(t, e, i)
        PROVE  OneMover
    <2>1. \E r : row' = [row EXCEPT ![e] = r]
      BY <1>8 DEF AppCommit, AppRollback, Replay, Prune, FanoutEnqueue, LateEnqueue
    <2> QED BY <1>1, <2>1, OneRowMoved
  <1>9. ASSUME NEW t \in Token, Throw(t) \/ Timeout(t) \/ Abort(t)
        PROVE  OneMover
    BY <1>3, <1>9 DEF Throw, Timeout, Abort
  <1>10. ASSUME NEW w \in Worker, Crash(w) \/ Exit(w)
         PROVE  OneMover
    <2>1. row' = WithoutChildren(Of(w)) /\ Of(w) \in SUBSET Token
      BY <1>10 DEF Crash, Exit, Gone, Of
    <2> QED BY <1>3, <2>1
  <1>11. ASSUME \/ \E t \in Token : \/ Success(t) \/ Permanent(t) \/ HandlerEnds(t)
                                      \/ RenewFails(t) \/ \E d \in Row : LateRecord(t, d)
                \/ \E w \in Worker : Stall(w) \/ Wake(w) \/ Stop(w)
                \/ \E w \in Worker, t \in Token, e \in Row : Select(w, t, e)
                \/ UNCHANGED vars
         PROVE  OneMover
    <2>1. row' = row
      BY <1>11 DEF Success, Permanent, HandlerEnds, RenewFails, LateRecord, Stall, Wake,
         Stop, Select, vars
    <2> QED BY <1>2, <2>1
  <1>12. ASSUME NEW t \in Token, AcknowledgeFails(t)
         PROVE  OneMover
    <2>1. row' = WithoutChildren({t})
      BY <1>12, Zenon DEF AcknowledgeFails
    <2> QED BY <1>3, <2>1
  <1>13. ASSUME NEW t \in Token, RejectFails(t)
         PROVE  OneMover
    <2>1. row' = row
      BY <1>13, Zenon DEF RejectFails
    <2> QED BY <1>2, <2>1
  <1>14. \A t \in Token : Take(t) \/ Renew(t) \/ (\E w \in 1..MaxWait : Reject(t, w))
                          \/ (\E w \in 0..MaxWait, held \in BOOLEAN : Requeue(t, w, held))
                          => run[t].state # "free"
    BY DEF Take, Renew, Heartbeats, Heartbeat, Reject, Requeue
  <1> QED BY <1>4, <1>5, <1>6, <1>7, <1>8, <1>9, <1>10, <1>11, <1>12, <1>13, <1>14
          DEF Next, Application, Claim, Handler, Settle, SettleFails, Beat, Environment

(* A row that is not committed in a step keeps the rows ahead of it: what  *)
(* is committed later comes after it.                                      *)
LEMMA AheadStays ==
    ASSUME IInv, OInv, [Next]_vars, NEW e \in Enqueued, ~Commits(e)
    PROVE  AheadOf(e)' = AheadOf(e)
  <1>1. /\ \A x \in Row : Fate(x) /\ row[x].seq \in Nat
        /\ \A x \in Enqueued : x \in Row /\ (Exists(x) => IsRoot(x))
        /\ \A t \in Token : \A c \in run[t].children : c \notin Enqueued
        /\ LastOfKey
    BY Fates, EnqueuedAreRoots, RowFields DEF OInv, IInv, TypeOK, TableTypeOK
  <1>2. \A x \in Enqueued : ~Visible(x) /\ Visible(x)' => Commits(x)
    BY <1>1, AppearsBy DEF Delivers, LateBy
  <1>3. CASE Visible(e)
    <2>1. Visible(e)' /\ SameOrigin(row'[e], row[e])
      BY <1>1, <1>3, VisibleStays
    <2>2. ASSUME NEW a \in Enqueued, Visible(a)
          PROVE  Visible(a)' /\ SameOrigin(row'[a], row[a])
      BY <1>1, <2>2, VisibleStays
    <2>3. ASSUME NEW a \in Enqueued, ~Visible(a), Visible(a)'
          PROVE  ~(SameKey(a, e)' /\ Before(a, e)')
      <3>1. Commits(a) /\ Uncommitted(a) /\ a # e /\ IsRoot(a) /\ IsRoot(e) /\ Exists(e)
        BY <1>1, <1>2, <1>3, <2>3 DEF Commits, Uncommitted, Visible, Exists
      <3>2. SameOrigin(row'[a], row[a])
        BY <3>1 DEF Commits, Kept
      <3>3. row[a].seq \in Nat /\ row[e].seq \in Nat
        BY <1>1
      <3>4. SameKey(a, e) => row[e].seq < row[a].seq
        BY <1>1, <3>1 DEF LastOfKey
      <3> QED BY <2>1, <3>2, <3>3, <3>4 DEF SameKey, Before, SameOrigin
    <2>4. ASSUME NEW a \in Enqueued, Visible(a)
          PROVE  (SameKey(a, e) <=> SameKey(a, e)') /\ (Before(a, e) <=> Before(a, e)')
      BY <2>1, <2>2, <2>4 DEF SameKey, Before, SameOrigin
    <2> QED BY <1>3, <2>1, <2>2, <2>3, <2>4 DEF AheadOf
  <1>4. CASE ~Visible(e)
    <2>1. ~Visible(e)'
      BY <1>2, <1>4
    <2> QED BY <1>4, <2>1 DEF AheadOf
  <1> QED BY <1>3, <1>4

(* A row is committed behind all the committed rows of its key.            *)
LEMMA AheadAtCommit ==
    ASSUME IInv, OInv, [Next]_vars, NEW e \in Enqueued, Commits(e),
           \A x \in Enqueued \ {e} : row'[x].status = row[x].status /\ Kept(x)
    PROVE  AheadOf(e)' = {a \in Enqueued : /\ row'[e].key # NoKey /\ Visible(a)
                                            /\ row[a].key = row'[e].key}
  <1>1. /\ \A x \in Enqueued : x \in Row /\ (Exists(x) => IsRoot(x))
        /\ row \in [Row -> TypedRow] /\ row' \in [Row -> TypedRow] /\ LastOfKey
    BY EnqueuedAreRoots, RowMoves DEF OInv, IInv, TypeOK, TableTypeOK
  <1>2. /\ Uncommitted(e) /\ ~Visible(e) /\ Visible(e)' /\ SameOrigin(row'[e], row[e])
        /\ IsRoot(e)
    BY DEF Commits, Kept, Uncommitted, Visible
  <1>3. ~Before(e, e)'
    <2>1. row'[e].seq \in Nat /\ row'[e].pos \in Nat
      BY <1>1 DEF TypedRow, RowRecord
    <2> QED BY <2>1 DEF Before
  <1>4. ASSUME NEW a \in Enqueued, a # e
        PROVE  (Visible(a) /\ SameKey(a, e) /\ Before(a, e))'
               <=> row'[e].key # NoKey /\ Visible(a) /\ row[a].key = row'[e].key
    <2>1. SameOrigin(row'[a], row[a]) /\ (Visible(a)' <=> Visible(a))
      BY <1>4 DEF Kept, Visible
    <2>2. Visible(a) /\ row[a].key # NoKey /\ row[a].key = row[e].key
          => row[a].seq < row[e].seq
      BY <1>1, <1>2, <1>4 DEF LastOfKey, SameKey, Visible, Exists
    <2> QED BY <1>2, <2>1, <2>2 DEF SameKey, Before, SameOrigin
  <1> QED BY <1>2, <1>3, <1>4 DEF AheadOf

(* What happens to a row that the abstract queue does not see. *)
Silent(e) ==
    \/ Rests(e) \/ Roots(e) \/ Drops(e) \/ Prunes(e)
    \/ \E t \in Token : TakenBy(e, t) /\ row[e].status = "processing"

(* Indeed it leaves the abstract state alone. *)
LEMMA SilentSteps ==
    ASSUME IInv, OInv, NEW e \in Enqueued, Silent(e)
    PROVE  /\ StateOf(e)' = StateOf(e) /\ KeyOf(e)' = KeyOf(e)
           /\ row'[e].replayed = row[e].replayed /\ ~Commits(e)
  <1>1. e \in Row /\ (Exists(e) => IsRoot(e)) /\ Unreplayed
    BY EnqueuedAreRoots DEF OInv, IInv
  <1>2. CASE Rests(e)
    BY <1>2 DEF Rests, Kept, SameOrigin, StateOf, KeyOf, Visible, Commits
  <1>3. CASE Roots(e)
    BY <1>3 DEF Roots, StateOf, KeyOf, Visible, Commits
  <1>4. CASE Drops(e)
    <2>1. row'[e] = AbsentRow(e) /\ row[e].status = "uncommitted" /\ IsRoot(e)
      BY <1>1, <1>4 DEF Drops, Exists
    <2>2. row'[e].status = "absent"
      BY <1>1, <2>1, AbsentRowType
    <2>3. row'[e].replayed = FALSE
      <3>1. AbsentRow(e).replayed = FALSE
        BY Zenon DEF AbsentRow
      <3> QED BY <2>1, <3>1, Zenon
    <2>4. row[e].replayed = FALSE
      <3>1. row[e].replayed \in BOOLEAN
        BY <1>1, RowFields DEF IInv, TypeOK, TableTypeOK
      <3> QED BY <1>1, <2>1, <3>1, Zenon DEF Unreplayed
    <2> QED BY <2>1, <2>2, <2>3, <2>4 DEF StateOf, KeyOf, Visible, Commits
  <1>5. CASE Prunes(e)
    BY <1>5 DEF Prunes, Kept, SameOrigin, StateOf, KeyOf, Visible, Commits
  <1>6. ASSUME NEW t \in Token, TakenBy(e, t), row[e].status = "processing"
        PROVE  /\ StateOf(e)' = StateOf(e) /\ KeyOf(e)' = KeyOf(e)
               /\ row'[e].replayed = row[e].replayed /\ ~Commits(e)
    BY <1>6 DEF TakenBy, Kept, SameOrigin, StateOf, KeyOf, Visible, Commits
  <1> QED BY <1>2, <1>3, <1>4, <1>5, <1>6 DEF Silent

(* Every other step is one of the abstract queue. *)
LEMMA PromiseStep ==
    ASSUME IInv, OInv, [Next]_vars
    PROVE  [Promise!Next]_(Promise!vars)
  <1>1. /\ \A x \in Row : Fate(x)
        /\ \A x \in Enqueued : x \in Row
        /\ \A t \in Token : \A c \in run[t].children : c \notin Enqueued
        /\ row' \in [Row -> TypedRow]
    BY Fates, EnqueuedAreRoots, RowMoves DEF OInv, IInv
  <1>2. \A x \in Enqueued : ~Commits(x) => AheadOf(x)' = AheadOf(x)
    BY AheadStays
  <1>3. CASE \A x \in Enqueued : Silent(x)
    <2>1. \A x \in Enqueued : /\ StateOf(x)' = StateOf(x) /\ KeyOf(x)' = KeyOf(x)
                             /\ row'[x].replayed = row[x].replayed /\ ~Commits(x)
      BY <1>3, SilentSteps
    <2>2. \A x \in Enqueued : AheadOf(x)' = AheadOf(x)
      BY <1>2, <2>1
    <2>3. States' = States /\ Aheads' = Aheads /\ Keys' = Keys /\ Reopened' = Reopened
      BY <2>1, <2>2 DEF States, Aheads, Keys, Reopened
    <2> QED BY <2>3 DEF Promise!vars, States, Aheads, Keys, Reopened, StateOf, AheadOf, KeyOf
  <1>4. ASSUME NEW e \in Enqueued, ~Silent(e)
        PROVE  Promise!Next
    <2>1. e \in Row /\ Fate(e)
      BY <1>1
    <2>2. \/ Commits(e) \/ Reopens(e)
          \/ \E t \in Token : TakenBy(e, t) /\ row[e].status = "pending"
          \/ \E t \in Token : CompletedBy(e, t) \/ RetriedBy(e, t) \/ FailedBy(e, t)
      <3>1. \A t \in Token : ~Grows(e, t) /\ ~LateBy(e, t) /\ ~Delivers(e, t)
        BY <1>1 DEF Grows, LateBy, Delivers
      <3>2. \A t \in Token : TakenBy(e, t) => row[e].status \in {"pending", "processing"}
        BY DEF TakenBy, Due
      <3> QED BY <1>4, <2>1, <3>1, <3>2 DEF Fate, Silent
    <2>3. row'[e].status # row[e].status
      BY <2>2 DEF Commits, Reopens, TakenBy, CompletedBy, RetriedBy, FailedBy, Holds
    <2>4. \A x \in Enqueued \ {e} : row'[x].status = row[x].status /\ Kept(x)
      BY <2>1, <2>3, OneMoves DEF OneMover
    <2>5. ASSUME NEW x \in Enqueued \ {e}
          PROVE  /\ StateOf(x)' = StateOf(x) /\ KeyOf(x)' = KeyOf(x)
                 /\ row'[x].replayed = row[x].replayed /\ AheadOf(x)' = AheadOf(x)
      <3>1. row'[x].status = row[x].status /\ Kept(x) /\ ~Commits(x)
        BY <2>4 DEF Commits
      <3> QED BY <1>2, <3>1 DEF Kept, SameOrigin, StateOf, KeyOf, Visible
    <2>6. /\ \A v : StateOf(e)' = v => States' = [States EXCEPT ![e] = v]
          /\ KeyOf(e)' = KeyOf(e) => Keys' = Keys
          /\ ~Commits(e) => Aheads' = Aheads
          /\ row'[e].replayed = row[e].replayed => Reopened' = Reopened
      BY <1>2, <2>5 DEF States, Keys, Aheads, Reopened
    <2>7. CASE Commits(e)
      <3>1. /\ StateOf(e) = "absent" /\ StateOf(e)' = "waiting" /\ KeyOf(e)' = row'[e].key
            /\ row'[e].replayed = row[e].replayed
        BY <2>7 DEF Commits, Kept, StateOf, KeyOf, Visible
      <3>2. /\ States' = [States EXCEPT ![e] = "waiting"] /\ States[e] = "absent"
            /\ Keys' = [Keys EXCEPT ![e] = row'[e].key] /\ Reopened' = Reopened
            /\ row'[e].key \in Key \cup {NoKey}
        <4>1. row'[e].key \in Key \cup {NoKey}
          BY <1>1, <2>1 DEF TypedRow, RowRecord
        <4>2. Keys' = [Keys EXCEPT ![e] = row'[e].key]
          BY <2>5, <3>1 DEF Keys
        <4> QED BY <2>6, <3>1, <4>1, <4>2 DEF States
      <3>3. Aheads' = [Aheads EXCEPT ![e] =
                         {a \in Enqueued : /\ row'[e].key # NoKey /\ States[a] # "absent"
                                           /\ Keys[a] = row'[e].key}]
        <4>1. \A a \in Enqueued :
                 /\ States[a] # "absent" <=> Visible(a)
                 /\ Visible(a) => Keys[a] = row[a].key
          <5>1. ASSUME NEW a \in Enqueued
                PROVE  (StateOf(a) = "absent" <=> ~Visible(a))
            BY DEF StateOf, Visible
          <5>2. \A a \in Enqueued : Visible(a) => Keys[a] = row[a].key
            BY DEF Keys, KeyOf
          <5> QED BY <5>1, <5>2 DEF States
        <4>2. AheadOf(e)' = {a \in Enqueued : /\ row'[e].key # NoKey /\ Visible(a)
                                              /\ row[a].key = row'[e].key}
          BY <2>4, <2>7, AheadAtCommit
        <4>3. AheadOf(e)' = {a \in Enqueued : /\ row'[e].key # NoKey /\ States[a] # "absent"
                                              /\ Keys[a] = row'[e].key}
          BY <4>1, <4>2
        <4> HIDE <4>2
        <4> QED BY <2>5, <4>3 DEF Aheads
      <3> QED BY <3>2, <3>3 DEF Promise!Next, Promise!Commit, Promise!Become, States,
         Aheads, Keys, Reopened, StateOf, AheadOf, KeyOf
    <2>8. CASE Reopens(e)
      <3>1. /\ StateOf(e) = "settled" /\ StateOf(e)' = "waiting" /\ KeyOf(e)' = KeyOf(e)
            /\ ~Commits(e) /\ row'[e].replayed
        BY <2>8 DEF Reopens, Commits, SameOrigin, StateOf, KeyOf, Visible
      <3>2. /\ States' = [States EXCEPT ![e] = "waiting"] /\ States[e] = "settled"
            /\ Keys' = Keys /\ Reopened' = Reopened \cup {e} /\ Aheads' = Aheads
        <4>1. Reopened' = Reopened \cup {e}
          BY <2>5, <3>1 DEF Reopened
        <4> QED BY <2>6, <3>1, <4>1 DEF States
      <3> QED BY <3>2 DEF Promise!Next, Promise!Reopen, Promise!Become, States,
         Aheads, Keys, Reopened, StateOf, AheadOf, KeyOf
    <2>9. ASSUME NEW t \in Token, TakenBy(e, t), row[e].status = "pending"
          PROVE  Promise!Next
      <3>1. /\ StateOf(e) = "waiting" /\ StateOf(e)' = "held" /\ KeyOf(e)' = KeyOf(e)
            /\ ~Commits(e) /\ row'[e].replayed = row[e].replayed
        BY <2>9 DEF TakenBy, Commits, Kept, SameOrigin, StateOf, KeyOf, Visible
      <3>2. /\ States' = [States EXCEPT ![e] = "held"] /\ States[e] = "waiting"
            /\ Keys' = Keys /\ Reopened' = Reopened /\ Aheads' = Aheads
        BY <2>6, <3>1 DEF States
      <3>3. \A a \in Aheads[e] \ Reopened : States[a] = "settled"
        <4>1. Cleared(e)
          BY <2>9 DEF TakenBy, OInv, ClaimsInOrder
        <4> SUFFICES ASSUME NEW a \in Enqueued, Visible(a), Visible(e), SameKey(a, e),
                            Before(a, e), ~row[a].replayed
                     PROVE  States[a] = "settled"
          BY DEF Aheads, AheadOf, Reopened
        <4>2. a \in Row /\ IsRoot(a) /\ IsRoot(e)
          BY <2>1, EnqueuedAreRoots DEF OInv, IInv, Exists, Visible
        <4>3. a \notin late /\ e \notin late
          BY <4>2 DEF OInv, LateInOrder
        <4>4. Settled(a)
          BY <4>1, <4>2, <4>3 DEF Cleared, Ordered, SameRoute, IsRoot
        <4> QED BY <4>4 DEF States, StateOf, Settled, Visible
      <3> QED BY <3>2, <3>3 DEF Promise!Next, Promise!Hand, Promise!Become, States,
         Aheads, Keys, Reopened, StateOf, AheadOf, KeyOf
    <2>10. ASSUME NEW t \in Token, CompletedBy(e, t) \/ RetriedBy(e, t) \/ FailedBy(e, t)
           PROVE  Promise!Next
      <3>1. /\ StateOf(e) = "held" /\ KeyOf(e)' = KeyOf(e)
            /\ StateOf(e)' = "waiting" \/ StateOf(e)' = "settled"
            /\ ~Commits(e) /\ row'[e].replayed = row[e].replayed
        BY <2>10 DEF CompletedBy, RetriedBy, FailedBy, Holds, Commits, Kept, SameOrigin,
           StateOf, KeyOf, Visible
      <3>2. /\ \/ States' = [States EXCEPT ![e] = "waiting"]
               \/ States' = [States EXCEPT ![e] = "settled"]
            /\ States[e] = "held"
            /\ Keys' = Keys /\ Reopened' = Reopened /\ Aheads' = Aheads
        BY <2>6, <3>1 DEF States
      <3> QED BY <3>2 DEF Promise!Next, Promise!Return, Promise!Settle, Promise!Become,
         States, Aheads, Keys, Reopened, StateOf, AheadOf, KeyOf
    <2> QED BY <2>2, <2>7, <2>8, <2>9, <2>10
  <1> QED BY <1>3, <1>4

(* The mapping gives an empty queue at first. *)
LEMMA PromiseInit == Init => Promise!Init
  <1> SUFFICES ASSUME Init
               PROVE  Promise!Init
    OBVIOUS
  <1>1. \A e \in Enqueued : e \in Row
    BY FederationQueueAssumption DEF Enqueued
  <1>2. \A e \in Row : row[e].status = "absent"
    BY AbsentRowType DEF Init, TableInit
  <1>3. \A e \in Row : ~row[e].replayed
    BY <1>2, InitOInv, Zenon DEF OInv, Unreplayed
  <1>4. /\ States = [e \in Enqueued |-> "absent"] /\ Aheads = [e \in Enqueued |-> {}]
        /\ Keys = [e \in Enqueued |-> NoKey] /\ Reopened = {}
    BY <1>1, <1>2, <1>3 DEF States, Aheads, Keys, Reopened, StateOf, AheadOf, KeyOf, Visible
  <1> QED BY <1>4 DEF Promise!Init, States, Aheads, Keys, Reopened, StateOf, AheadOf, KeyOf

(* Whatever workers crash, stall, time out, lose a lease or claim in a     *)
(* race, the federation queues are a MessageQueue for what the application *)
(* sends: they hand the rows of a key out in the order of their commits.   *)
THEOREM ImplementsMessageQueue == Spec => KeepsPromise
  BY PromiseInit, PromiseStep, OrderInvariance, PTL DEF Spec, KeepsPromise, Promise!Spec

=============================================================================
