---------------------------- MODULE NewsRescore ----------------------------
(***************************************************************************)
(* The news rescore queue of models/news.ts: curating an actor as a        *)
(* preferred sharer changes the score of every link it has shared, and     *)
(* leaves the recomputation to the drains that every worker process runs   *)
(* once a minute.                                                          *)
(*                                                                         *)
(* A score is reduced to its promotion bonus, the strongest bonus of the   *)
(* link's preferred sharers, and who shared what is fixed.  A statement    *)
(* computes scores from the snapshot it began with and writes them when    *)
(* its transaction commits.                                                *)
(***************************************************************************)
EXTENDS Integers, FiniteSets

CONSTANTS
    Actor, NoActor,
    Link,
    SharedBy,      \* the links each actor has shared
    Bonus,         \* the bonuses a curator may give
    ChunkSize,     \* NEWS_RESCORE_CHUNK_SIZE
    Drain,         \* worker processes: each runs at most one drain at a time
    Refresher,     \* other recomputations: the sweep, a refresh after a post
    Recent,        \* the links these may touch
    Lease,         \* NEWS_RESCORE_LEASE_SECONDS, in ticks
    MaxChanges,    \* bound: curation changes
    MaxFaults,     \* bound: failed statements, crashed and stalled workers
    MaxStalls      \* bound: how many of them are workers that pause for long

ASSUME NewsRescoreAssumption ==
    /\ NoActor \notin Actor
    /\ IsFiniteSet(Actor) /\ IsFiniteSet(Link)
    /\ SharedBy \in [Actor -> SUBSET Link]
    /\ Bonus \subseteq Nat \ {0}
    /\ ChunkSize \in Nat \ {0}
    /\ Recent \subseteq Link
    /\ Lease \in Nat \ {0}
    /\ MaxChanges \in Nat /\ MaxFaults \in Nat /\ MaxStalls \in Nat

VARIABLES
    preferred,  \* news_preferred_sharer: the bonus of each actor, 0 for none
    promotion,  \* post_link.promotion_bonus
    queue,      \* news_rescore_queue: the row of each actor
    drain,      \* the drain of each worker process
    refresh,    \* the other recomputations under way
    changes, faults, stalls,
    rescored    \* history: the links of each actor whose score was computed
                \* from its present curation, since the last change of it

vars == <<preferred, promotion, queue, drain, refresh, changes, faults, stalls,
          rescored>>
bounds == <<changes, faults, stalls>>

Curation == [Actor -> Bonus \cup {0}]

(* "enqueued" is 0 while the actor has no row; "lease" is                  *)
(* claimed + leaseSeconds - now, floored at 0, and 0 for a null claimed.   *)
QueueRow == [enqueued : Nat, lease : 0..Lease, dirty : BOOLEAN]
NoQueueRow == [enqueued |-> 0, lease |-> 0, dirty |-> FALSE]
TypedQueueRow == {q \in QueueRow : q.enqueued = 0 => q = NoQueueRow}

(* ready: about to begin the next chunk, or to finish; computing: the      *)
(* statement has its snapshot; written: the lease is to be refreshed;      *)
(* reopening: the delete found the row dirty.  "age" counts the ticks      *)
(* since the drain last claimed the row or refreshed its lease.            *)
DrainRecord ==
    [pc : {"idle", "ready", "computing", "written", "reopening"},
     actor : Actor \cup {NoActor}, todo : SUBSET Link, chunk : SUBSET Link,
     seen : Curation, age : 0..Lease, stalled : BOOLEAN]

NoCuration == [a \in Actor |-> 0]

IdleDrain ==
    [pc |-> "idle", actor |-> NoActor, todo |-> {}, chunk |-> {},
     seen |-> NoCuration, age |-> 0, stalled |-> FALSE]

NoRefresh == [links |-> {}, seen |-> NoCuration]

TypeOK ==
    /\ preferred \in Curation
    /\ promotion \in [Link -> Bonus \cup {0}]
    /\ queue \in [Actor -> TypedQueueRow]
    /\ drain \in [Drain -> DrainRecord]
    /\ refresh \in [Refresher -> [links : SUBSET Link, seen : Curation]]
    /\ changes \in Nat /\ faults \in Nat /\ stalls \in Nat
    /\ rescored \in [Actor -> SUBSET Link]

Init ==
    /\ preferred = NoCuration
    /\ promotion = [l \in Link |-> 0]
    /\ queue = [a \in Actor |-> NoQueueRow]
    /\ drain = [d \in Drain |-> IdleDrain]
    /\ refresh = [r \in Refresher |-> NoRefresh]
    /\ changes = 0 /\ faults = 0 /\ stalls = 0
    /\ rescored = SharedBy

-----------------------------------------------------------------------------
(* Recomputing. *)

Sharers(l) == {a \in Actor : l \in SharedBy[a]}

(* max(preferred_bonus) over the shares of the link. *)
StrongestBonus(l, curation) ==
    LET bonuses == {0} \cup {curation[a] : a \in Sharers(l)}
    IN CHOOSE b \in bonuses : \A c \in bonuses : c <= b

(* recomputeNewsScores: the update of these links, from that snapshot. *)
Recomputed(links, seen) ==
    /\ promotion' = [l \in Link |-> IF l \in links THEN StrongestBonus(l, seen)
                                    ELSE promotion[l]]
    /\ rescored' = [a \in Actor |->
                       IF seen[a] = preferred[a]
                       THEN rescored[a] \cup (links \cap SharedBy[a])
                       ELSE rescored[a]]

-----------------------------------------------------------------------------
(* The curator: addNewsPreferredSharer and removeNewsPreferredSharer, one  *)
(* transaction each with enqueueNewsRescore.                               *)

Queued(a) == queue[a].enqueued > 0

\* mutants: the upsert leaves an existing row as it is; it inserts none
Mutant_EnqueuedClean(a) ==
    IF Queued(a) THEN queue[a] ELSE [NoQueueRow EXCEPT !.enqueued = changes + 1]
Mutant_EnqueuedUpdate(a) == [queue[a] EXCEPT !.dirty = TRUE]
Enqueued(a) ==
    IF Queued(a) THEN [queue[a] EXCEPT !.dirty = TRUE]
                 ELSE [NoQueueRow EXCEPT !.enqueued = changes + 1]

Curate(a, b) ==
    /\ changes < MaxChanges
    /\ b = 0 => preferred[a] # 0
    /\ preferred' = [preferred EXCEPT ![a] = b]
    /\ queue' = [queue EXCEPT ![a] = Enqueued(a)]
    /\ changes' = changes + 1
    /\ rescored' = [rescored EXCEPT ![a] = {}]
    /\ UNCHANGED <<promotion, drain, refresh, faults, stalls>>

-----------------------------------------------------------------------------
(* drainNewsRescoreQueue. *)

Claimable(a) == Queued(a) /\ queue[a].lease = 0

\* mutant: the claim leaves the row dirty
Mutant_ClaimedDirty(a) == [queue[a] EXCEPT !.lease = Lease]
ClaimedRow(a) == [queue[a] EXCEPT !.lease = Lease, !.dirty = FALSE]

(* The oldest claimable actor, leased, and the links it has shared. *)
Claim(d, a) ==
    /\ drain[d].pc = "idle"
    /\ Claimable(a)
    /\ \A b \in Actor : Claimable(b) => queue[a].enqueued <= queue[b].enqueued
    /\ queue' = [queue EXCEPT ![a] = ClaimedRow(a)]
    /\ drain' = [drain EXCEPT ![d] = [IdleDrain EXCEPT !.pc = "ready",
                                                       !.actor = a,
                                                       !.todo = SharedBy[a]]]
    /\ UNCHANGED <<preferred, promotion, refresh, bounds, rescored>>

At(d, pc) == drain[d].pc = pc /\ ~drain[d].stalled

Begin(d, chunk) ==
    /\ At(d, "ready")
    /\ chunk # {}
    /\ \/ Cardinality(chunk) = ChunkSize
       \/ chunk = drain[d].todo /\ Cardinality(chunk) < ChunkSize
    /\ drain' = [drain EXCEPT ![d].pc = "computing", ![d].chunk = chunk,
                              ![d].seen = preferred]
    /\ UNCHANGED <<preferred, promotion, queue, refresh, bounds, rescored>>

Write(d) ==
    /\ At(d, "computing")
    /\ Recomputed(drain[d].chunk, drain[d].seen)
    /\ drain' = [drain EXCEPT ![d].pc = "written",
                              ![d].todo = @ \ drain[d].chunk,
                              ![d].chunk = {}, ![d].seen = NoCuration]
    /\ UNCHANGED <<preferred, queue, refresh, bounds>>

\* mutant: the lease is not refreshed between chunks
Mutant_RefreshedNever(a) == queue[a]
RefreshedRow(a) ==
    IF Queued(a) THEN [queue[a] EXCEPT !.lease = Lease] ELSE queue[a]

RefreshLease(d) ==
    /\ At(d, "written")
    /\ queue' = [queue EXCEPT ![drain[d].actor] = RefreshedRow(drain[d].actor)]
    /\ drain' = [drain EXCEPT ![d].pc = "ready", ![d].age = 0]
    /\ UNCHANGED <<preferred, promotion, refresh, bounds, rescored>>

(* delete ... where actor_id = ... and dirty = false *)
Deletable(a) == Queued(a) /\ ~queue[a].dirty

Finish(d) ==
    LET a == drain[d].actor IN
    /\ At(d, "ready") /\ drain[d].todo = {}
    /\ IF Deletable(a)
       THEN /\ queue' = [queue EXCEPT ![a] = NoQueueRow]
            /\ drain' = [drain EXCEPT ![d] = IdleDrain]
       ELSE /\ drain' = [drain EXCEPT ![d].pc = "reopening"]
            /\ UNCHANGED queue
    /\ UNCHANGED <<preferred, promotion, refresh, bounds, rescored>>

Reopen(d) ==
    /\ At(d, "reopening")
    /\ queue' = [queue EXCEPT ![drain[d].actor].lease = 0]
    /\ drain' = [drain EXCEPT ![d] = IdleDrain]
    /\ UNCHANGED <<preferred, promotion, refresh, bounds, rescored>>

(* A statement fails and the drain stops, or its process dies: the lease   *)
(* stays.                                                                  *)
Fail(d) ==
    /\ drain[d].pc # "idle"
    /\ faults < MaxFaults /\ faults' = faults + 1
    /\ drain' = [drain EXCEPT ![d] = IdleDrain]
    /\ UNCHANGED <<preferred, promotion, queue, refresh, changes, stalls, rescored>>

-----------------------------------------------------------------------------
(* The environment. *)

(* refreshNewsScores after a post, or the periodic sweep under its own     *)
(* advisory lock: neither takes part in the queue.                         *)
BeginRefresh(r, l) ==
    /\ refresh[r].links = {}
    /\ refresh' = [refresh EXCEPT ![r] = [links |-> {l}, seen |-> preferred]]
    /\ UNCHANGED <<preferred, promotion, queue, drain, bounds, rescored>>

EndRefresh(r) ==
    /\ refresh[r].links # {}
    /\ Recomputed(refresh[r].links, refresh[r].seen)
    /\ refresh' = [refresh EXCEPT ![r] = NoRefresh]
    /\ UNCHANGED <<preferred, queue, drain, bounds>>

Stall(d) ==
    /\ drain[d].pc # "idle" /\ ~drain[d].stalled
    /\ faults < MaxFaults /\ faults' = faults + 1
    /\ stalls < MaxStalls /\ stalls' = stalls + 1
    /\ drain' = [drain EXCEPT ![d].stalled = TRUE]
    /\ UNCHANGED <<preferred, promotion, queue, refresh, changes, rescored>>

Wake(d) ==
    /\ drain[d].stalled
    /\ drain' = [drain EXCEPT ![d].stalled = FALSE]
    /\ UNCHANGED <<preferred, promotion, queue, refresh, bounds, rescored>>

(* The recomputation of a chunk takes less than a lease, unless the worker *)
(* stalls.                                                                 *)
Tick ==
    /\ \E a \in Actor : queue[a].lease > 0
    /\ \A d \in Drain :
         drain[d].pc # "idle" /\ ~drain[d].stalled => drain[d].age + 1 < Lease
    /\ queue' = [a \in Actor |->
                    [queue[a] EXCEPT !.lease = IF @ = 0 THEN 0 ELSE @ - 1]]
    /\ drain' = [d \in Drain |->
                    IF drain[d].pc # "idle" /\ ~drain[d].stalled
                    THEN [drain[d] EXCEPT !.age = @ + 1] ELSE drain[d]]
    /\ UNCHANGED <<preferred, promotion, refresh, bounds, rescored>>

-----------------------------------------------------------------------------
Step(d) ==
    \/ \E chunk \in SUBSET drain[d].todo : Begin(d, chunk)
    \/ Write(d) \/ RefreshLease(d) \/ Finish(d) \/ Reopen(d)

Next ==
    \/ \E a \in Actor, b \in Bonus \cup {0} : Curate(a, b)
    \/ \E d \in Drain :
         \/ \E a \in Actor : Claim(d, a)
         \/ Step(d) \/ Fail(d) \/ Stall(d) \/ Wake(d)
    \/ \E r \in Refresher :
         \/ \E l \in Recent : BeginRefresh(r, l)
         \/ EndRefresh(r)
    \/ Tick

Spec == Init /\ [][Next]_vars

-----------------------------------------------------------------------------
(* Properties. *)

(* An actor is processed by one drain at a time, however many chunks it    *)
(* has, and whatever fails: the lease a drain refreshes after every chunk  *)
(* is never taken from it.  Only a drain that stalls can lose it.          *)
OneDrainPerActor ==
    stalls = 0 =>
        \A d, e \in Drain :
            d # e /\ drain[d].pc # "idle" => drain[d].actor # drain[e].actor

(* "The row is deleted only after the actor is fully rescored": when the   *)
(* row goes, every link the actor has shared has been recomputed from the  *)
(* actor's present curation, even if the last change of it fell into the   *)
(* middle of a pass and earlier passes failed.  A drain that stalled       *)
(* beyond its lease can delete the row another one is working for.         *)
DeletedWhenRescored ==
    [][\A a \in Actor :
          stalls = 0 /\ Queued(a) /\ ~Queued(a)' => rescored[a] = SharedBy[a]]_vars

(* Fairness: the cron of a worker runs its drain again and again, and a    *)
(* running statement ends.                                                 *)
Fairness ==
    /\ \A d \in Drain :
         /\ WF_vars(\E a \in Actor : Claim(d, a))
         /\ WF_vars(Step(d))
         /\ WF_vars(Wake(d))
    /\ WF_vars(Tick)

FairSpec == Spec /\ Fairness

(* Every queued actor is dealt with: rows of failed drains are reclaimed,  *)
(* and a row made dirty is reopened, not processed for ever.               *)
QueueDrains == \A a \in Actor : Queued(a) ~> ~Queued(a)

-----------------------------------------------------------------------------
(* What a comment of the code says, and the code does not keep.            *)

(* models/schema.ts: a dirty row is reopened "so links rescored before the *)
(* change are not left with stale state".  Once none of a link's sharers   *)
(* is queued, its bonus is the strongest one in force.                     *)
NoStaleBonus ==
    \A l \in Link :
        (\A a \in Sharers(l) : ~Queued(a))
        => promotion[l] = StrongestBonus(l, preferred)

=============================================================================
