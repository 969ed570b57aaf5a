------------------------- MODULE NewsRescoreProofs -------------------------
(***************************************************************************)
(* Proofs about the news rescore queue, for any number of actors, links,   *)
(* worker processes, curation changes, faults and stalls: types, that no   *)
(* two drains work for the same actor unless one stalled, and that a row   *)
(* is deleted only when its actor is fully rescored.                       *)
(***************************************************************************)
EXTENDS NewsRescore, FiniteSetTheorems, TLAPS

Working(d) == drain[d].pc # "idle"

(* A drain works through what is left of the links of one actor, and an    *)
(* idle one remembers nothing.                                             *)
DrainShape ==
    \A d \in Drain :
        /\ IF Working(d)
           THEN /\ drain[d].actor \in Actor
                /\ drain[d].todo \subseteq SharedBy[drain[d].actor]
                /\ drain[d].chunk \subseteq drain[d].todo
           ELSE drain[d] = IdleDrain
        /\ drain[d].stalled => stalls > 0
        /\ drain[d].age < Lease

RescoredShared == \A a \in Actor : rescored[a] \subseteq SharedBy[a]

(* The row a drain works for is there, and has all the lease the drain has *)
(* not used up since it took or refreshed it.                              *)
LeaseHeld ==
    stalls = 0 =>
        \A d \in Drain : Working(d) =>
            /\ Queued(drain[d].actor)
            /\ queue[drain[d].actor].lease + drain[d].age >= Lease

(* While the row is clean, what the drain has not rescored from the        *)
(* present curation is still on its list, and the snapshot of its          *)
(* statement shows the present curation.                                   *)
RestIsTodo ==
    stalls = 0 =>
        \A d \in Drain : Working(d) /\ ~queue[drain[d].actor].dirty =>
            /\ SharedBy[drain[d].actor]
                 \subseteq rescored[drain[d].actor] \cup drain[d].todo
            /\ drain[d].pc = "computing"
               => drain[d].seen[drain[d].actor] = preferred[drain[d].actor]

IInv ==
    /\ TypeOK
    /\ DrainShape
    /\ RescoredShared
    /\ OneDrainPerActor
    /\ LeaseHeld
    /\ RestIsTodo

-----------------------------------------------------------------------------
(* Recomputing. *)

(* The strongest bonus of a link, under any curation, is a bonus or 0: a   *)
(* finite set of sharers has one whose bonus no other exceeds.             *)
LEMMA StrongestBonusIsBonus ==
    ASSUME NewsRescoreAssumption, NEW l, NEW curation \in Curation
    PROVE  StrongestBonus(l, curation) \in Bonus \cup {0}
<1> DEFINE bonuses == {0} \cup {curation[a] : a \in Sharers(l)}
           Above(b) == {a \in Actor : curation[a] > b}
           aboves == {Above(b) : b \in bonuses}
<1>1. bonuses \subseteq Bonus \cup {0} /\ Bonus \cup {0} \subseteq Nat
  BY DEF Sharers, Curation, NewsRescoreAssumption
<1>2. IsWellFoundedOn(StrictSubsetOrdering(Actor), SUBSET Actor)
  BY FS_StrictSubsetOrderingWellFounded, FS_FiniteSubsetsOfFinite
     DEF NewsRescoreAssumption
<1>3. aboves \subseteq SUBSET Actor /\ aboves # {}
  <2>1. Above(0) \in aboves
    OBVIOUS
  <2>2. \A above \in aboves : above \subseteq Actor
    OBVIOUS
  <2> HIDE DEF aboves
  <2> QED  BY <2>1, <2>2
<1>4. PICK least \in aboves :
         \A above \in aboves : <<above, least>> \notin StrictSubsetOrdering(Actor)
  <2> HIDE DEF aboves
  <2> QED  BY <1>2, <1>3, WFMin
<1>5. PICK b \in bonuses : least = Above(b)
  OBVIOUS
<1>6. ASSUME NEW c \in bonuses  PROVE c <= b
  <2> SUFFICES ASSUME c > b  PROVE FALSE
    BY <1>1
  <2>1. b \in Nat /\ c \in Nat
    BY <1>1
  <2>2. PICK a \in Sharers(l) : c = curation[a]
    BY <2>1
  <2>3. a \in Actor /\ a \in Above(b) /\ a \notin Above(c)
    BY <2>1, <2>2 DEF Sharers
  <2>4. \A x \in Actor : curation[x] \in Nat
    BY <1>1 DEF Curation
  <2>5. Above(c) \subseteq Above(b)
    BY <2>1, <2>4
  <2>6. <<Above(c), Above(b)>> \in StrictSubsetOrdering(Actor)
    BY <2>3, <2>5 DEF StrictSubsetOrdering
  <2> QED  BY <1>4, <1>5, <2>6
<1>7. StrongestBonus(l, curation) \in bonuses
  BY <1>6 DEF StrongestBonus
<1> QED  BY <1>1, <1>7

(* A recomputation keeps the types, and what has been rescored: it adds    *)
(* the links whose bonus it computed from the present curation.            *)
LEMMA RecomputedKeeps ==
    ASSUME NewsRescoreAssumption, IInv, UNCHANGED preferred,
           NEW links \in SUBSET Link, NEW seen \in Curation,
           Recomputed(links, seen)
    PROVE  /\ promotion' \in [Link -> Bonus \cup {0}]
           /\ rescored' \in [Actor -> SUBSET Link]
           /\ RescoredShared'
           /\ \A a \in Actor :
                 /\ rescored[a] \subseteq rescored'[a]
                 /\ seen[a] = preferred[a]
                    => links \cap SharedBy[a] \subseteq rescored'[a]
<1>1. SharedBy \in [Actor -> SUBSET Link]
  BY DEF NewsRescoreAssumption
<1>2. \A l \in Link : StrongestBonus(l, seen) \in Bonus \cup {0}
  BY StrongestBonusIsBonus
<1>3. promotion' \in [Link -> Bonus \cup {0}]
  BY <1>2 DEF Recomputed, IInv, TypeOK
<1>4. \A a \in Actor :
         rescored'[a] = IF seen[a] = preferred[a]
                        THEN rescored[a] \cup (links \cap SharedBy[a])
                        ELSE rescored[a]
  BY DEF Recomputed
<1>5. rescored' \in [Actor -> SUBSET Link]
  BY <1>1 DEF Recomputed, IInv, TypeOK
<1>6. RescoredShared'
  BY <1>4 DEF RescoredShared, IInv
<1> QED  BY <1>3, <1>4, <1>5, <1>6

-----------------------------------------------------------------------------
(* The initial states. *)

(* Everything is quiet at first.                                           *)
LEMMA InitIInv == NewsRescoreAssumption /\ Init => IInv
<1> SUFFICES ASSUME NewsRescoreAssumption, Init  PROVE IInv
  OBVIOUS
<1>1. SharedBy \in [Actor -> SUBSET Link] /\ Lease \in Nat \ {0}
  BY DEF NewsRescoreAssumption
<1>2. IdleDrain \in DrainRecord
  BY <1>1 DEF IdleDrain, DrainRecord, NoCuration, Curation
<1>3. NoQueueRow \in TypedQueueRow
  BY <1>1 DEF NoQueueRow, TypedQueueRow, QueueRow
<1>4. TypeOK
  BY <1>1, <1>2, <1>3
     DEF Init, TypeOK, Curation, NoCuration, NoRefresh
<1>5. \A d \in Drain : drain[d] = IdleDrain /\ ~Working(d)
  BY DEF Init, IdleDrain, Working
<1>6. DrainShape
  <2>1. IdleDrain.stalled = FALSE /\ IdleDrain.age = 0
    BY DEF IdleDrain
  <2> QED  BY <1>1, <1>5, <2>1 DEF DrainShape
<1>7. RescoredShared
  BY DEF Init, RescoredShared
<1>8. OneDrainPerActor /\ LeaseHeld /\ RestIsTodo
  BY <1>5 DEF OneDrainPerActor, LeaseHeld, RestIsTodo, Working
<1> QED  BY <1>4, <1>6, <1>7, <1>8 DEF IInv

-----------------------------------------------------------------------------
(* One drain moves, or one row. *)

(* What becomes of the drains when one of them moves.                      *)
LEMMA OneDrainMoves ==
    ASSUME TypeOK, NEW d \in Drain, NEW s \in DrainRecord,
           drain' = [drain EXCEPT ![d] = s]
    PROVE  /\ drain' \in [Drain -> DrainRecord]
           /\ drain'[d] = s
           /\ \A e \in Drain \ {d} : drain'[e] = drain[e]
BY DEF TypeOK

(* What becomes of the queue when one row changes.                         *)
LEMMA OneRowChanges ==
    ASSUME TypeOK, NEW a \in Actor, NEW q \in TypedQueueRow,
           queue' = [queue EXCEPT ![a] = q]
    PROVE  /\ queue' \in [Actor -> TypedQueueRow]
           /\ queue'[a] = q
           /\ \A b \in Actor \ {a} : queue'[b] = queue[b]
BY DEF TypeOK

(* An idle drain is one, and the others keep what they have: a drain that  *)
(* stops disturbs nothing by itself.                                       *)
LEMMA IdleDrainTyped ==
    ASSUME NewsRescoreAssumption
    PROVE  IdleDrain \in DrainRecord
BY DEF NewsRescoreAssumption, IdleDrain, DrainRecord, NoCuration, Curation

(* The row of a drain at work is a row of the queue.                       *)
LEMMA RowTyped ==
    ASSUME NewsRescoreAssumption, TypeOK, NEW a \in Actor
    PROVE  /\ queue[a] \in QueueRow
           /\ queue[a].enqueued \in Nat
           /\ queue[a].lease \in 0..Lease
           /\ queue[a].dirty \in BOOLEAN
           /\ queue[a].enqueued = 0 => queue[a] = NoQueueRow
           /\ Lease \in Nat /\ Lease > 0
BY DEF NewsRescoreAssumption, TypeOK, TypedQueueRow, QueueRow

-----------------------------------------------------------------------------
(* The curator. *)

(* A changed curation makes the row of a drain at work dirty.              *)
LEMMA CurateIInv ==
    ASSUME NewsRescoreAssumption, IInv,
           NEW a \in Actor, NEW b \in Bonus \cup {0}, Curate(a, b)
    PROVE  IInv'
<1> USE DEF IInv
<1>1. Enqueued(a) \in TypedQueueRow /\ Enqueued(a).enqueued > 0
      /\ Enqueued(a).lease = queue[a].lease /\ Enqueued(a).dirty = IF Queued(a) THEN TRUE ELSE FALSE
  <2>1. CASE Queued(a)
    <3>1. Enqueued(a) = [queue[a] EXCEPT !.dirty = TRUE]
      BY <2>1 DEF Enqueued
    <3>2. Enqueued(a) = [enqueued |-> queue[a].enqueued, lease |-> queue[a].lease,
                         dirty |-> TRUE]
      BY <3>1, RowTyped DEF QueueRow
    <3> QED  BY <2>1, <3>2, RowTyped DEF TypedQueueRow, QueueRow, Queued
  <2>2. CASE ~Queued(a)
    <3>1. Enqueued(a) = [NoQueueRow EXCEPT !.enqueued = changes + 1]
      BY <2>2 DEF Enqueued
    <3>2. Enqueued(a) = [enqueued |-> changes + 1, lease |-> 0, dirty |-> FALSE]
      BY <3>1 DEF NoQueueRow
    <3>3. queue[a].lease = 0
      BY <2>2, RowTyped DEF Queued, NoQueueRow
    <3>4. changes + 1 \in Nat /\ changes + 1 > 0
      BY DEF TypeOK
    <3> QED  BY <2>2, <3>2, <3>3, <3>4, RowTyped DEF TypedQueueRow, QueueRow
  <2> QED  BY <2>1, <2>2
<1>2. /\ queue' \in [Actor -> TypedQueueRow]
      /\ queue'[a] = Enqueued(a)
      /\ \A c \in Actor \ {a} : queue'[c] = queue[c]
  BY <1>1, OneRowChanges DEF Curate
<1>3. /\ drain' = drain /\ stalls' = stalls
      /\ preferred' = [preferred EXCEPT ![a] = b]
      /\ rescored' = [rescored EXCEPT ![a] = {}]
  BY DEF Curate
<1>4. TypeOK'
  BY <1>2 DEF TypeOK, Curate, Curation
<1>5. DrainShape'
  BY <1>3 DEF DrainShape, Working
<1>6. RescoredShared'
  BY <1>3 DEF RescoredShared, TypeOK
<1>7. OneDrainPerActor'
  BY <1>3 DEF OneDrainPerActor
<1>8. LeaseHeld'
  BY <1>1, <1>2, <1>3 DEF LeaseHeld, Working, Queued, DrainShape
<1>9. RestIsTodo'
  <2> SUFFICES ASSUME stalls = 0, NEW d \in Drain, Working(d),
                      ~queue'[drain[d].actor].dirty
               PROVE  /\ SharedBy[drain[d].actor]
                           \subseteq rescored'[drain[d].actor] \cup drain[d].todo
                      /\ drain[d].pc = "computing"
                         => drain[d].seen[drain[d].actor] = preferred'[drain[d].actor]
    BY <1>3 DEF RestIsTodo, Working
  <2>1. drain[d].actor \in Actor /\ Queued(drain[d].actor)
    BY DEF DrainShape, LeaseHeld
  <2>2. drain[d].actor # a
    BY <1>1, <1>2, <2>1
  <2> QED  BY <1>2, <1>3, <2>1, <2>2 DEF RestIsTodo, TypeOK, Curation
<1> QED  BY <1>4, <1>5, <1>6, <1>7, <1>8, <1>9

-----------------------------------------------------------------------------
(* The drains. *)

(* Nobody works for the actor that is claimed: its row has no lease left.  *)
LEMMA ClaimIInv ==
    ASSUME NewsRescoreAssumption, IInv,
           NEW d \in Drain, NEW a \in Actor, Claim(d, a)
    PROVE  IInv'
<1> USE DEF IInv
<1> DEFINE s == [IdleDrain EXCEPT !.pc = "ready", !.actor = a, !.todo = SharedBy[a]]
<1>1. SharedBy[a] \subseteq Link
  BY DEF NewsRescoreAssumption
<1>2. /\ s \in DrainRecord /\ s.pc = "ready" /\ s.actor = a /\ s.todo = SharedBy[a]
      /\ s.chunk = {} /\ s.age = 0 /\ s.stalled = FALSE
  BY <1>1, IdleDrainTyped DEF DrainRecord, IdleDrain
<1>3. /\ drain' \in [Drain -> DrainRecord]
      /\ drain'[d] = s
      /\ \A e \in Drain \ {d} : drain'[e] = drain[e]
  <2> HIDE DEF s
  <2>1. drain' = [drain EXCEPT ![d] = s]
    BY DEF Claim, s
  <2> QED  BY <1>2, <2>1, OneDrainMoves
<1> HIDE DEF s
<1>4. /\ ClaimedRow(a) \in TypedQueueRow /\ ClaimedRow(a).enqueued > 0
      /\ ClaimedRow(a).lease = Lease /\ ClaimedRow(a).dirty = FALSE
  <2>1. ClaimedRow(a) = [enqueued |-> queue[a].enqueued, lease |-> Lease, dirty |-> FALSE]
    <3>1. ClaimedRow(a) = [queue[a] EXCEPT !.lease = Lease, !.dirty = FALSE]
      BY DEF ClaimedRow
    <3> QED  BY <3>1, RowTyped DEF QueueRow
  <2>2. queue[a].enqueued > 0
    BY DEF Claim, Claimable, Queued
  <2> QED  BY <2>1, <2>2, RowTyped DEF TypedQueueRow, QueueRow
<1>5. /\ queue' \in [Actor -> TypedQueueRow]
      /\ queue'[a] = ClaimedRow(a)
      /\ \A c \in Actor \ {a} : queue'[c] = queue[c]
  BY <1>4, OneRowChanges DEF Claim
<1>6. UNCHANGED <<preferred, promotion, refresh, bounds, rescored>>
  BY DEF Claim
<1>7. TypeOK'
  BY <1>3, <1>5, <1>6 DEF TypeOK, bounds
<1>8. DrainShape'
  <2> SUFFICES ASSUME NEW e \in Drain
               PROVE  /\ IF drain'[e].pc # "idle"
                         THEN /\ drain'[e].actor \in Actor
                              /\ drain'[e].todo \subseteq SharedBy[drain'[e].actor]
                              /\ drain'[e].chunk \subseteq drain'[e].todo
                         ELSE drain'[e] = IdleDrain
                      /\ drain'[e].stalled => stalls > 0
                      /\ drain'[e].age < Lease
    BY <1>6 DEF DrainShape, Working, bounds
  <2>1. CASE e = d
    BY <1>2, <1>3, <2>1, RowTyped
  <2>2. CASE e # d
    BY <1>3, <2>2 DEF DrainShape, Working
  <2> QED  BY <2>1, <2>2
<1>9. RescoredShared'
  BY <1>6 DEF RescoredShared
<1>10. ASSUME stalls = 0, NEW e \in Drain \ {d}
       PROVE  /\ drain'[e] = drain[e]
              /\ Working(e) => drain[e].actor \in Actor \ {a}
  <2>1. drain'[e] = drain[e]
    BY <1>3
  <2>2. ASSUME Working(e)  PROVE drain[e].actor # a
    <3> SUFFICES ASSUME drain[e].actor = a  PROVE FALSE
      OBVIOUS
    <3>1. queue[a].lease + drain[e].age >= Lease /\ drain[e].age < Lease
      BY <1>10, <2>2 DEF LeaseHeld, DrainShape
    <3>2. queue[a].lease = 0
      BY DEF Claim, Claimable
    <3>3. drain[e].age \in 0..Lease
      BY DEF TypeOK, DrainRecord
    <3> QED  BY <3>1, <3>2, <3>3, RowTyped
  <2> QED  BY <2>1, <2>2 DEF DrainShape
<1>11. OneDrainPerActor'
  <2> SUFFICES ASSUME stalls = 0, NEW e \in Drain, NEW f \in Drain, e # f,
                      drain'[e].pc # "idle"
               PROVE  drain'[e].actor # drain'[f].actor
    BY <1>6 DEF OneDrainPerActor, bounds
  <2>1. NoActor \notin Actor
    BY DEF NewsRescoreAssumption
  <2>2. \A g \in Drain : ~Working(g) => drain[g].actor = NoActor
    BY DEF DrainShape, IdleDrain
  <2>3. CASE e = d
    BY <1>2, <1>3, <1>10, <2>1, <2>2, <2>3
  <2>4. CASE f = d
    BY <1>2, <1>3, <1>10, <2>4 DEF Working
  <2>5. CASE e # d /\ f # d
    BY <1>10, <2>5 DEF OneDrainPerActor
  <2> QED  BY <2>3, <2>4, <2>5
<1>12. LeaseHeld'
  <2> SUFFICES ASSUME stalls = 0, NEW e \in Drain, drain'[e].pc # "idle"
               PROVE  /\ queue'[drain'[e].actor].enqueued > 0
                      /\ queue'[drain'[e].actor].lease + drain'[e].age >= Lease
    BY <1>6 DEF LeaseHeld, Working, Queued, bounds
  <2>1. CASE e = d
    BY <1>2, <1>3, <1>4, <1>5, <2>1, RowTyped
  <2>2. CASE e # d
    BY <1>5, <1>10, <2>2 DEF LeaseHeld, Working, Queued
  <2> QED  BY <2>1, <2>2
<1>13. RestIsTodo'
  <2> SUFFICES ASSUME stalls = 0, NEW e \in Drain, drain'[e].pc # "idle",
                      ~queue'[drain'[e].actor].dirty
               PROVE  /\ SharedBy[drain'[e].actor]
                           \subseteq rescored[drain'[e].actor] \cup drain'[e].todo
                      /\ drain'[e].pc = "computing"
                         => drain'[e].seen[drain'[e].actor] = preferred[drain'[e].actor]
    BY <1>6 DEF RestIsTodo, Working, bounds
  <2>1. CASE e = d
    BY <1>2, <1>3, <2>1
  <2>2. CASE e # d
    BY <1>5, <1>10, <2>2 DEF RestIsTodo, Working
  <2> QED  BY <2>1, <2>2
<1> QED  BY <1>7, <1>8, <1>9, <1>11, <1>12, <1>13

(* A drain that moves while the queue stays as it is: when it keeps its    *)
(* actor, and takes off its list only what it has rescored.                *)
LEMMA DrainMoves ==
    ASSUME NewsRescoreAssumption, IInv, NEW d \in Drain, NEW s \in DrainRecord,
           drain' = [drain EXCEPT ![d] = s],
           UNCHANGED <<queue, preferred>>,
           stalls' = 0 => stalls = 0, stalls > 0 => stalls' > 0,
           \A a \in Actor : rescored[a] \subseteq rescored'[a],
           \/ s = IdleDrain
           \/ /\ Working(d) /\ s.pc # "idle"
              /\ s.actor = drain[d].actor /\ s.age = drain[d].age
              /\ s.chunk \subseteq s.todo /\ s.todo \subseteq drain[d].todo
              /\ s.stalled => stalls' > 0
              /\ stalls' = 0 /\ ~queue[s.actor].dirty =>
                    /\ SharedBy[s.actor] \subseteq rescored'[s.actor] \cup s.todo
                    /\ s.pc = "computing" => s.seen[s.actor] = preferred[s.actor]
    PROVE  /\ drain' \in [Drain -> DrainRecord]
           /\ DrainShape' /\ OneDrainPerActor' /\ LeaseHeld' /\ RestIsTodo'
<1> USE DEF IInv
<1>1. /\ drain' \in [Drain -> DrainRecord]
      /\ drain'[d] = s
      /\ \A e \in Drain \ {d} : drain'[e] = drain[e]
  BY OneDrainMoves
<1>2. /\ IdleDrain.pc = "idle" /\ IdleDrain.actor = NoActor
      /\ IdleDrain.stalled = FALSE /\ IdleDrain.age = 0
  BY DEF IdleDrain
<1>3. Lease \in Nat /\ Lease > 0 /\ NoActor \notin Actor
  BY DEF NewsRescoreAssumption
<1>4. s.pc # "idle" =>
         /\ Working(d) /\ s.actor = drain[d].actor /\ s.age = drain[d].age
         /\ s.chunk \subseteq s.todo /\ s.todo \subseteq drain[d].todo
         /\ s.stalled => stalls' > 0
         /\ stalls' = 0 /\ ~queue[s.actor].dirty =>
               /\ SharedBy[s.actor] \subseteq rescored'[s.actor] \cup s.todo
               /\ s.pc = "computing" => s.seen[s.actor] = preferred[s.actor]
  BY <1>2
<1>5. s.pc = "idle" => s = IdleDrain
  OBVIOUS
<1>6. DrainShape'
  <2> SUFFICES ASSUME NEW e \in Drain
               PROVE  /\ IF drain'[e].pc # "idle"
                         THEN /\ drain'[e].actor \in Actor
                              /\ drain'[e].todo \subseteq SharedBy[drain'[e].actor]
                              /\ drain'[e].chunk \subseteq drain'[e].todo
                         ELSE drain'[e] = IdleDrain
                      /\ drain'[e].stalled => stalls' > 0
                      /\ drain'[e].age < Lease
    BY DEF DrainShape, Working
  <2>1. CASE e # d
    BY <1>1, <2>1 DEF DrainShape, Working
  <2>2. CASE e = d /\ s.pc = "idle"
    BY <1>1, <1>2, <1>3, <1>5, <2>2
  <2>3. CASE e = d /\ s.pc # "idle"
    <3>1. /\ drain[d].actor \in Actor
          /\ drain[d].todo \subseteq SharedBy[drain[d].actor]
          /\ drain[d].age < Lease
      BY <1>4, <2>3 DEF DrainShape
    <3> QED  BY <1>1, <1>4, <2>3, <3>1
  <2> QED  BY <2>1, <2>2, <2>3
<1>7. OneDrainPerActor'
  <2> SUFFICES ASSUME stalls = 0, NEW e \in Drain, NEW f \in Drain, e # f,
                      drain'[e].pc # "idle"
               PROVE  drain'[e].actor # drain'[f].actor
    BY DEF OneDrainPerActor
  <2>1. drain[e].pc # "idle" /\ drain'[e].actor = drain[e].actor
    BY <1>1, <1>4 DEF Working
  <2>2. drain[e].actor \in Actor
    BY <2>1 DEF DrainShape, Working
  <2>3. drain'[f].actor = drain[f].actor \/ drain'[f].actor = NoActor
    BY <1>1, <1>2, <1>4, <1>5
  <2> QED  BY <1>3, <2>1, <2>2, <2>3 DEF OneDrainPerActor
<1>8. LeaseHeld'
  <2> SUFFICES ASSUME stalls = 0, NEW e \in Drain, drain'[e].pc # "idle"
               PROVE  /\ queue[drain'[e].actor].enqueued > 0
                      /\ queue[drain'[e].actor].lease + drain'[e].age >= Lease
    BY DEF LeaseHeld, Working, Queued
  <2> QED  BY <1>1, <1>4 DEF LeaseHeld, Working, Queued
<1>9. RestIsTodo'
  <2> SUFFICES ASSUME stalls' = 0, NEW e \in Drain, drain'[e].pc # "idle",
                      ~queue[drain'[e].actor].dirty
               PROVE  /\ SharedBy[drain'[e].actor]
                           \subseteq rescored'[drain'[e].actor] \cup drain'[e].todo
                      /\ drain'[e].pc = "computing"
                         => drain'[e].seen[drain'[e].actor] = preferred[drain'[e].actor]
    BY DEF RestIsTodo, Working
  <2>1. CASE e = d
    BY <1>1, <1>4, <2>1
  <2>2. CASE e # d
    <3>1. drain'[e] = drain[e] /\ Working(e)
      BY <1>1, <2>2 DEF Working
    <3>2. drain[e].actor \in Actor
      BY <3>1 DEF DrainShape
    <3> QED  BY <3>1, <3>2 DEF RestIsTodo
  <2> QED  BY <2>1, <2>2
<1> QED  BY <1>1, <1>6, <1>7, <1>8, <1>9

(* The next statement takes its snapshot: it shows the present curation.   *)
LEMMA BeginIInv ==
    ASSUME NewsRescoreAssumption, IInv, NEW d \in Drain,
           NEW chunk \in SUBSET drain[d].todo, Begin(d, chunk)
    PROVE  IInv'
<1> USE DEF IInv
<1> DEFINE s == [drain[d] EXCEPT !.pc = "computing", !.chunk = chunk,
                                 !.seen = preferred]
<1>1. drain[d] \in DrainRecord /\ preferred \in Curation
  BY DEF TypeOK
<1>2. /\ s \in DrainRecord /\ s.pc = "computing" /\ s.actor = drain[d].actor
      /\ s.age = drain[d].age /\ s.chunk = chunk /\ s.todo = drain[d].todo
      /\ s.stalled = drain[d].stalled /\ s.seen = preferred
  BY <1>1 DEF DrainRecord
<1>3. drain' = [drain EXCEPT ![d] = s]
  BY DEF Begin
<1> HIDE DEF s
<1>4. /\ UNCHANGED <<preferred, promotion, queue, refresh, bounds, rescored>>
      /\ Working(d) /\ ~drain[d].stalled
  BY DEF Begin, At, Working
<1>5. stalls' = stalls /\ rescored' = rescored
  BY <1>4 DEF bounds
<1>6. stalls = 0 /\ ~queue[drain[d].actor].dirty
      => SharedBy[drain[d].actor] \subseteq rescored[drain[d].actor] \cup drain[d].todo
  BY <1>4 DEF RestIsTodo
<1>7. /\ drain' \in [Drain -> DrainRecord]
      /\ DrainShape' /\ OneDrainPerActor' /\ LeaseHeld' /\ RestIsTodo'
  BY <1>2, <1>3, <1>4, <1>5, <1>6, DrainMoves
<1>8. TypeOK'
  BY <1>4, <1>7 DEF TypeOK, bounds
<1>9. RescoredShared'
  BY <1>5 DEF RescoredShared
<1> QED  BY <1>7, <1>8, <1>9

(* The chunk is off the list, and rescored from the snapshot: from the     *)
(* present curation as long as the row is clean.                           *)
LEMMA WriteIInv ==
    ASSUME NewsRescoreAssumption, IInv, NEW d \in Drain, Write(d)
    PROVE  IInv'
<1> USE DEF IInv
<1> DEFINE s == [drain[d] EXCEPT !.pc = "written", !.todo = @ \ drain[d].chunk,
                                 !.chunk = {}, !.seen = NoCuration]
           a == drain[d].actor
<1>1. drain[d] \in DrainRecord /\ NoCuration \in Curation
  BY DEF TypeOK, NoCuration, Curation
<1>2. /\ s \in DrainRecord /\ s.pc = "written" /\ s.actor = drain[d].actor
      /\ s.age = drain[d].age /\ s.chunk = {} /\ s.todo = drain[d].todo \ drain[d].chunk
      /\ s.stalled = drain[d].stalled
  BY <1>1 DEF DrainRecord
<1>3. drain' = [drain EXCEPT ![d] = s]
  BY DEF Write
<1> HIDE DEF s
<1>4. /\ UNCHANGED <<preferred, queue, refresh, bounds>>
      /\ Working(d) /\ ~drain[d].stalled /\ drain[d].pc = "computing"
  BY DEF Write, At, Working
<1>5. /\ drain[d].chunk \in SUBSET Link /\ drain[d].seen \in Curation
      /\ a \in Actor /\ drain[d].todo \subseteq SharedBy[a]
      /\ drain[d].chunk \subseteq drain[d].todo
  BY <1>1, <1>4 DEF DrainRecord, DrainShape
<1>6. /\ promotion' \in [Link -> Bonus \cup {0}]
      /\ rescored' \in [Actor -> SUBSET Link]
      /\ RescoredShared'
      /\ \A b \in Actor :
            /\ rescored[b] \subseteq rescored'[b]
            /\ drain[d].seen[b] = preferred[b]
               => drain[d].chunk \cap SharedBy[b] \subseteq rescored'[b]
  BY <1>4, <1>5, RecomputedKeeps DEF Write
<1>7. stalls' = stalls
  BY <1>4 DEF bounds
<1>8. ASSUME stalls = 0, ~queue[a].dirty
      PROVE  SharedBy[a] \subseteq rescored'[a] \cup s.todo
  <2>1. /\ SharedBy[a] \subseteq rescored[a] \cup drain[d].todo
        /\ drain[d].seen[a] = preferred[a]
    BY <1>4, <1>8 DEF RestIsTodo
  <2>2. drain[d].chunk \subseteq rescored'[a]
    BY <1>5, <1>6, <2>1
  <2> QED  BY <1>2, <1>5, <1>6, <2>1, <2>2
<1>9. /\ drain' \in [Drain -> DrainRecord]
      /\ DrainShape' /\ OneDrainPerActor' /\ LeaseHeld' /\ RestIsTodo'
  <2>1. s.chunk \subseteq s.todo /\ s.todo \subseteq drain[d].todo /\ s.pc # "idle"
    BY <1>2
  <2>2. \A b \in Actor : rescored[b] \subseteq rescored'[b]
    BY <1>6
  <2> QED  BY <1>2, <1>3, <1>4, <1>7, <1>8, <2>1, <2>2, DrainMoves
<1>10. TypeOK'
  BY <1>4, <1>6, <1>9 DEF TypeOK, bounds
<1> QED  BY <1>6, <1>9, <1>10

(* A drain stops: on a failure, or because its process died.               *)
LEMMA FailIInv ==
    ASSUME NewsRescoreAssumption, IInv, NEW d \in Drain, Fail(d)
    PROVE  IInv'
<1> USE DEF IInv
<1>1. /\ drain' = [drain EXCEPT ![d] = IdleDrain]
      /\ UNCHANGED <<preferred, promotion, queue, refresh, changes, stalls, rescored>>
      /\ faults' = faults + 1
  BY DEF Fail
<1>2. /\ drain' \in [Drain -> DrainRecord]
      /\ DrainShape' /\ OneDrainPerActor' /\ LeaseHeld' /\ RestIsTodo'
  BY <1>1, IdleDrainTyped, DrainMoves
<1>3. TypeOK'
  BY <1>1, <1>2 DEF TypeOK
<1>4. RescoredShared'
  BY <1>1 DEF RescoredShared
<1> QED  BY <1>2, <1>3, <1>4

(* A worker stalls, and is counted; or it goes on.                         *)
LEMMA StallIInv ==
    ASSUME NewsRescoreAssumption, IInv, NEW d \in Drain, Stall(d) \/ Wake(d)
    PROVE  IInv'
<1> USE DEF IInv
<1>1. PICK b \in BOOLEAN :
         /\ drain' = [drain EXCEPT ![d].stalled = b]
         /\ b => stalls' = stalls + 1
         /\ ~b => stalls' = stalls /\ drain[d].stalled
  BY DEF Stall, Wake, bounds
<1> DEFINE s == [drain[d] EXCEPT !.stalled = b]
<1>2. drain[d] \in DrainRecord
  BY DEF TypeOK
<1>3. /\ s \in DrainRecord /\ s.pc = drain[d].pc /\ s.actor = drain[d].actor
      /\ s.age = drain[d].age /\ s.chunk = drain[d].chunk /\ s.todo = drain[d].todo
      /\ s.stalled = b /\ s.seen = drain[d].seen
  BY <1>2 DEF DrainRecord
<1>4. drain' = [drain EXCEPT ![d] = s]
  BY <1>1
<1> HIDE DEF s
<1>5. UNCHANGED <<preferred, promotion, queue, refresh, changes, rescored>>
  BY DEF Stall, Wake, bounds
<1>6. stalls \in Nat /\ faults \in Nat
  BY DEF TypeOK
<1>7. /\ stalls' \in Nat /\ (stalls' = 0 => stalls = 0) /\ (stalls > 0 => stalls' > 0)
      /\ b => stalls' > 0
  BY <1>1, <1>6
<1>8. faults' \in Nat
  BY <1>6 DEF Stall, Wake, bounds
<1>9. Working(d)
  <2>1. CASE Stall(d)
    BY <2>1 DEF Stall, Working
  <2>2. CASE Wake(d)
    BY <2>2 DEF Wake, DrainShape, IdleDrain
  <2> QED  BY <2>1, <2>2
<1>10. s.chunk \subseteq s.todo
  BY <1>3, <1>9 DEF DrainShape
<1>11. stalls' = 0 /\ ~queue[s.actor].dirty =>
         /\ SharedBy[s.actor] \subseteq rescored'[s.actor] \cup s.todo
         /\ s.pc = "computing" => s.seen[s.actor] = preferred[s.actor]
  BY <1>3, <1>5, <1>7, <1>9 DEF RestIsTodo
<1>12. /\ drain' \in [Drain -> DrainRecord]
       /\ DrainShape' /\ OneDrainPerActor' /\ LeaseHeld' /\ RestIsTodo'
  <2>1. s.pc # "idle"
    BY <1>3, <1>9 DEF Working
  <2>2. \A a \in Actor : rescored[a] \subseteq rescored'[a]
    BY <1>5
  <2> QED  BY <1>3, <1>4, <1>5, <1>7, <1>9, <1>10, <1>11, <2>1, <2>2, DrainMoves
<1>13. TypeOK'
  BY <1>5, <1>7, <1>8, <1>12 DEF TypeOK
<1>14. RescoredShared'
  BY <1>5 DEF RescoredShared
<1> QED  BY <1>12, <1>13, <1>14

(* The lease is full again: the row is still there.                        *)
LEMMA RefreshLeaseIInv ==
    ASSUME NewsRescoreAssumption, IInv, NEW d \in Drain, RefreshLease(d)
    PROVE  IInv'
<1> USE DEF IInv
<1> DEFINE s == [drain[d] EXCEPT !.pc = "ready", !.age = 0]
           a == drain[d].actor
<1>1. drain[d] \in DrainRecord
  BY DEF TypeOK
<1>2. /\ s \in DrainRecord /\ s.pc = "ready" /\ s.actor = a
      /\ s.age = 0 /\ s.chunk = drain[d].chunk /\ s.todo = drain[d].todo
      /\ s.stalled = drain[d].stalled
  <2>1. 0 \in 0..Lease
    BY DEF NewsRescoreAssumption
  <2> QED  BY <1>1, <2>1 DEF DrainRecord
<1>3. drain' = [drain EXCEPT ![d] = s]
  BY DEF RefreshLease
<1> HIDE DEF s
<1>4. /\ UNCHANGED <<preferred, promotion, refresh, bounds, rescored>>
      /\ Working(d) /\ ~drain[d].stalled
      /\ queue' = [queue EXCEPT ![a] = RefreshedRow(a)]
  BY DEF RefreshLease, At, Working
<1>5. stalls' = stalls /\ rescored' = rescored /\ preferred' = preferred
  BY <1>4 DEF bounds
<1>6. /\ drain' \in [Drain -> DrainRecord]
      /\ drain'[d] = s
      /\ \A e \in Drain \ {d} : drain'[e] = drain[e]
  BY <1>2, <1>3, OneDrainMoves
<1>7. /\ a \in Actor
      /\ drain[d].todo \subseteq SharedBy[a]
      /\ drain[d].chunk \subseteq drain[d].todo
  BY <1>4 DEF DrainShape
<1>8. /\ RefreshedRow(a) \in TypedQueueRow
      /\ RefreshedRow(a).enqueued = queue[a].enqueued
      /\ RefreshedRow(a).dirty = queue[a].dirty
      /\ Queued(a) => RefreshedRow(a).lease = Lease
  <2>1. CASE Queued(a)
    <3>1. RefreshedRow(a) = [queue[a] EXCEPT !.lease = Lease]
      BY <2>1 DEF RefreshedRow
    <3>2. RefreshedRow(a) = [enqueued |-> queue[a].enqueued, lease |-> Lease,
                             dirty |-> queue[a].dirty]
      BY <1>7, <3>1, RowTyped DEF QueueRow
    <3> QED  BY <1>7, <2>1, <3>2, RowTyped DEF TypedQueueRow, QueueRow, Queued
  <2>2. CASE ~Queued(a)
    BY <1>7, <2>2 DEF RefreshedRow, TypeOK
  <2> QED  BY <2>1, <2>2
<1>9. /\ queue' \in [Actor -> TypedQueueRow]
      /\ queue'[a] = RefreshedRow(a)
      /\ \A b \in Actor \ {a} : queue'[b] = queue[b]
  BY <1>4, <1>7, <1>8, OneRowChanges
<1>10. TypeOK'
  BY <1>4, <1>6, <1>9 DEF TypeOK, bounds
<1>11. DrainShape'
  <2> SUFFICES ASSUME NEW e \in Drain
               PROVE  /\ IF drain'[e].pc # "idle"
                         THEN /\ drain'[e].actor \in Actor
                              /\ drain'[e].todo \subseteq SharedBy[drain'[e].actor]
                              /\ drain'[e].chunk \subseteq drain'[e].todo
                         ELSE drain'[e] = IdleDrain
                      /\ drain'[e].stalled => stalls > 0
                      /\ drain'[e].age < Lease
    BY <1>5 DEF DrainShape, Working
  <2>1. CASE e = d
    BY <1>2, <1>4, <1>6, <1>7, <2>1, RowTyped
  <2>2. CASE e # d
    BY <1>6, <2>2 DEF DrainShape, Working
  <2> QED  BY <2>1, <2>2
<1>12. RescoredShared'
  BY <1>5 DEF RescoredShared
<1>13. OneDrainPerActor'
  <2> SUFFICES ASSUME stalls = 0, NEW e \in Drain, NEW f \in Drain, e # f,
                      drain'[e].pc # "idle"
               PROVE  drain'[e].actor # drain'[f].actor
    BY <1>5 DEF OneDrainPerActor
  <2>1. \A g \in Drain : drain'[g].actor = drain[g].actor
    BY <1>2, <1>6
  <2>2. drain[e].pc # "idle"
    BY <1>4, <1>6 DEF Working
  <2> QED  BY <2>1, <2>2 DEF OneDrainPerActor
<1>14. ASSUME stalls = 0, NEW e \in Drain \ {d}, drain'[e].pc # "idle"
       PROVE  /\ drain'[e] = drain[e] /\ Working(e)
              /\ drain[e].actor \in Actor /\ queue'[drain[e].actor] = queue[drain[e].actor]
  <2>1. drain'[e] = drain[e] /\ Working(e)
    BY <1>6, <1>14 DEF Working
  <2>2. drain[e].actor \in Actor /\ drain[e].actor # a
    BY <1>14, <2>1 DEF DrainShape, OneDrainPerActor, Working
  <2> QED  BY <1>9, <2>1, <2>2
<1>15. LeaseHeld'
  <2> SUFFICES ASSUME stalls = 0, NEW e \in Drain, drain'[e].pc # "idle"
               PROVE  /\ queue'[drain'[e].actor].enqueued > 0
                      /\ queue'[drain'[e].actor].lease + drain'[e].age >= Lease
    BY <1>5 DEF LeaseHeld, Working, Queued
  <2>1. CASE e = d
    <3>1. Queued(a)
      BY <1>4 DEF LeaseHeld
    <3> QED  BY <1>2, <1>6, <1>7, <1>8, <1>9, <2>1, <3>1, RowTyped DEF Queued
  <2>2. CASE e # d
    BY <1>14, <2>2 DEF LeaseHeld, Queued
  <2> QED  BY <2>1, <2>2
<1>16. RestIsTodo'
  <2> SUFFICES ASSUME stalls = 0, NEW e \in Drain, drain'[e].pc # "idle",
                      ~queue'[drain'[e].actor].dirty
               PROVE  /\ SharedBy[drain'[e].actor]
                           \subseteq rescored[drain'[e].actor] \cup drain'[e].todo
                      /\ drain'[e].pc = "computing"
                         => drain'[e].seen[drain'[e].actor] = preferred[drain'[e].actor]
    BY <1>5 DEF RestIsTodo, Working
  <2>1. CASE e = d
    BY <1>2, <1>4, <1>6, <1>8, <1>9, <2>1 DEF RestIsTodo
  <2>2. CASE e # d
    BY <1>14, <2>2 DEF RestIsTodo
  <2> QED  BY <2>1, <2>2
<1> QED  BY <1>10, <1>11, <1>12, <1>13, <1>15, <1>16

(* A drain goes, and with it its row, or what was left of its lease: no    *)
(* other drain works for that actor.                                       *)
LEMMA DrainLeaves ==
    ASSUME NewsRescoreAssumption, IInv, NEW d \in Drain, Working(d),
           NEW q \in TypedQueueRow,
           drain' = [drain EXCEPT ![d] = IdleDrain],
           queue' = [queue EXCEPT ![drain[d].actor] = q],
           UNCHANGED <<preferred, promotion, refresh, bounds, rescored>>
    PROVE  IInv'
<1> USE DEF IInv
<1> DEFINE a == drain[d].actor
<1>1. a \in Actor
  BY DEF DrainShape
<1>2. /\ drain' \in [Drain -> DrainRecord]
      /\ drain'[d] = IdleDrain
      /\ \A e \in Drain \ {d} : drain'[e] = drain[e]
  BY IdleDrainTyped, OneDrainMoves
<1>3. /\ queue' \in [Actor -> TypedQueueRow]
      /\ \A b \in Actor \ {a} : queue'[b] = queue[b]
  BY <1>1, OneRowChanges
<1>4. /\ IdleDrain.pc = "idle" /\ IdleDrain.actor = NoActor
      /\ IdleDrain.stalled = FALSE /\ IdleDrain.age = 0
  BY DEF IdleDrain
<1>5. stalls' = stalls
  BY DEF bounds
<1>6. TypeOK'
  BY <1>2, <1>3 DEF TypeOK, bounds
<1>7. DrainShape'
  <2> SUFFICES ASSUME NEW e \in Drain
               PROVE  /\ IF drain'[e].pc # "idle"
                         THEN /\ drain'[e].actor \in Actor
                              /\ drain'[e].todo \subseteq SharedBy[drain'[e].actor]
                              /\ drain'[e].chunk \subseteq drain'[e].todo
                         ELSE drain'[e] = IdleDrain
                      /\ drain'[e].stalled => stalls > 0
                      /\ drain'[e].age < Lease
    BY <1>5 DEF DrainShape, Working
  <2>1. CASE e = d
    BY <1>1, <1>2, <1>4, <2>1, RowTyped
  <2>2. CASE e # d
    BY <1>2, <2>2 DEF DrainShape, Working
  <2> QED  BY <2>1, <2>2
<1>8. RescoredShared'
  BY DEF RescoredShared
<1>9. ASSUME stalls = 0, NEW e \in Drain, drain'[e].pc # "idle"
      PROVE  /\ e # d /\ drain'[e] = drain[e] /\ Working(e)
             /\ drain[e].actor \in Actor /\ queue'[drain[e].actor] = queue[drain[e].actor]
  <2>1. e # d /\ drain'[e] = drain[e] /\ Working(e)
    BY <1>2, <1>4, <1>9 DEF Working
  <2>2. drain[e].actor \in Actor /\ drain[e].actor # a
    BY <1>9, <2>1 DEF DrainShape, OneDrainPerActor, Working
  <2> QED  BY <1>3, <2>1, <2>2
<1>10. OneDrainPerActor'
  <2> SUFFICES ASSUME stalls = 0, NEW e \in Drain, NEW f \in Drain, e # f,
                      drain'[e].pc # "idle"
               PROVE  drain'[e].actor # drain'[f].actor
    BY <1>5 DEF OneDrainPerActor
  <2>1. drain'[e].actor = drain[e].actor /\ drain[e].pc # "idle" /\ drain[e].actor \in Actor
    BY <1>9 DEF Working
  <2>2. NoActor \notin Actor
    BY DEF NewsRescoreAssumption
  <2> QED  BY <1>2, <1>4, <2>1, <2>2 DEF OneDrainPerActor
<1>11. LeaseHeld'
  BY <1>5, <1>9 DEF LeaseHeld, Working, Queued
<1>12. RestIsTodo'
  BY <1>5, <1>9 DEF RestIsTodo, Working
<1> QED  BY <1>6, <1>7, <1>8, <1>10, <1>11, <1>12

(* The delete, when it finds the row clean, and when it does not.          *)
LEMMA FinishIInv ==
    ASSUME NewsRescoreAssumption, IInv, NEW d \in Drain, Finish(d)
    PROVE  IInv'
<1> USE DEF IInv
<1>1. Working(d) /\ ~drain[d].stalled /\ drain[d].pc = "ready"
      /\ UNCHANGED <<preferred, promotion, refresh, bounds, rescored>>
  BY DEF Finish, At, Working
<1>2. CASE Deletable(drain[d].actor)
  <2>1. NoQueueRow \in TypedQueueRow
    BY NewsRescoreAssumption
       DEF NewsRescoreAssumption, NoQueueRow, TypedQueueRow, QueueRow
  <2>2. /\ drain' = [drain EXCEPT ![d] = IdleDrain]
        /\ queue' = [queue EXCEPT ![drain[d].actor] = NoQueueRow]
    BY <1>2 DEF Finish
  <2> QED  BY <1>1, <2>1, <2>2, DrainLeaves
<1>3. CASE ~Deletable(drain[d].actor)
  <2> DEFINE s == [drain[d] EXCEPT !.pc = "reopening"]
  <2>1. drain[d] \in DrainRecord
    BY DEF TypeOK
  <2>2. /\ s \in DrainRecord /\ s.pc = "reopening" /\ s.actor = drain[d].actor
        /\ s.age = drain[d].age /\ s.chunk = drain[d].chunk /\ s.todo = drain[d].todo
        /\ s.stalled = drain[d].stalled
    BY <2>1 DEF DrainRecord
  <2>3. drain' = [drain EXCEPT ![d] = s] /\ queue' = queue
    BY <1>3 DEF Finish
  <2> HIDE DEF s
  <2>4. stalls' = stalls /\ rescored' = rescored
    BY <1>1 DEF bounds
  <2>5. stalls = 0 /\ ~queue[drain[d].actor].dirty
        => SharedBy[drain[d].actor] \subseteq rescored[drain[d].actor] \cup drain[d].todo
    BY <1>1 DEF RestIsTodo
  <2>6. drain[d].chunk \subseteq drain[d].todo
    BY <1>1 DEF DrainShape
  <2>7. /\ drain' \in [Drain -> DrainRecord]
        /\ DrainShape' /\ OneDrainPerActor' /\ LeaseHeld' /\ RestIsTodo'
    BY <1>1, <2>2, <2>3, <2>4, <2>5, <2>6, DrainMoves
  <2>8. TypeOK'
    BY <1>1, <2>3, <2>7 DEF TypeOK, bounds
  <2>9. RescoredShared'
    BY <2>4 DEF RescoredShared
  <2> QED  BY <2>7, <2>8, <2>9
<1> QED  BY <1>2, <1>3

(* The row that was found dirty is released.                               *)
LEMMA ReopenIInv ==
    ASSUME NewsRescoreAssumption, IInv, NEW d \in Drain, Reopen(d)
    PROVE  IInv'
<1> USE DEF IInv
<1> DEFINE a == drain[d].actor
           q == [queue[a] EXCEPT !.lease = 0]
<1>1. /\ Working(d) /\ UNCHANGED <<preferred, promotion, refresh, bounds, rescored>>
      /\ drain' = [drain EXCEPT ![d] = IdleDrain]
      /\ queue' = [queue EXCEPT ![a] = q]
  BY DEF Reopen, At, Working
<1>2. a \in Actor
  BY <1>1 DEF DrainShape
<1>3. q = [enqueued |-> queue[a].enqueued, lease |-> 0, dirty |-> queue[a].dirty]
  BY <1>2, RowTyped DEF QueueRow
<1>4. q \in QueueRow
  BY <1>2, <1>3, RowTyped DEF QueueRow
<1>5. q.enqueued = 0 => q = NoQueueRow
  BY <1>2, <1>3, RowTyped DEF NoQueueRow
<1>6. q \in TypedQueueRow
  BY <1>4, <1>5 DEF TypedQueueRow
<1> QED  BY <1>1, <1>6, DrainLeaves

-----------------------------------------------------------------------------
(* The environment. *)

(* The sweep and the refreshes compute scores beside the queue.            *)
LEMMA RefreshIInv ==
    ASSUME NewsRescoreAssumption, IInv, NEW r \in Refresher,
           (\E l \in Recent : BeginRefresh(r, l)) \/ EndRefresh(r)
    PROVE  IInv'
<1> USE DEF IInv
<1>1. /\ UNCHANGED <<preferred, queue, drain>> /\ stalls' = stalls
      /\ changes' = changes /\ faults' = faults
  BY DEF BeginRefresh, EndRefresh, bounds
<1>2. /\ promotion' \in [Link -> Bonus \cup {0}]
      /\ rescored' \in [Actor -> SUBSET Link]
      /\ RescoredShared'
      /\ \A a \in Actor : rescored[a] \subseteq rescored'[a]
  <2>1. CASE \E l \in Recent : BeginRefresh(r, l)
    BY <2>1 DEF BeginRefresh, RescoredShared, TypeOK
  <2>2. CASE EndRefresh(r)
    <3>1. refresh[r].links \in SUBSET Link /\ refresh[r].seen \in Curation
      BY DEF TypeOK
    <3> QED  BY <1>1, <2>2, <3>1, RecomputedKeeps DEF EndRefresh
  <2> QED  BY <2>1, <2>2
<1>3. refresh' \in [Refresher -> [links : SUBSET Link, seen : Curation]]
  <2>1. CASE \E l \in Recent : BeginRefresh(r, l)
    <3>1. \A l \in Recent :
             [links |-> {l}, seen |-> preferred] \in [links : SUBSET Link, seen : Curation]
      BY DEF TypeOK, NewsRescoreAssumption
    <3> QED  BY <2>1, <3>1 DEF BeginRefresh, TypeOK
  <2>2. CASE EndRefresh(r)
    <3>1. NoRefresh \in [links : SUBSET Link, seen : Curation]
      BY DEF NoRefresh, NoCuration, Curation
    <3> QED  BY <2>2, <3>1 DEF EndRefresh, TypeOK
  <2> QED  BY <2>1, <2>2
<1>4. TypeOK'
  BY <1>1, <1>2, <1>3 DEF TypeOK
<1>5. DrainShape'
  BY <1>1 DEF DrainShape, Working
<1>6. OneDrainPerActor' /\ LeaseHeld'
  BY <1>1 DEF OneDrainPerActor, LeaseHeld, Working, Queued
<1>7. RestIsTodo'
  <2> SUFFICES ASSUME stalls = 0, NEW e \in Drain, Working(e),
                      ~queue[drain[e].actor].dirty
               PROVE  /\ SharedBy[drain[e].actor]
                           \subseteq rescored'[drain[e].actor] \cup drain[e].todo
                      /\ drain[e].pc = "computing"
                         => drain[e].seen[drain[e].actor] = preferred[drain[e].actor]
    BY <1>1 DEF RestIsTodo, Working
  <2>1. drain[e].actor \in Actor
    BY DEF DrainShape
  <2> QED  BY <1>2, <2>1 DEF RestIsTodo
<1> QED  BY <1>2, <1>4, <1>5, <1>6, <1>7

(* A tick takes from a lease what it adds to the age of the drain that     *)
(* holds it.                                                               *)
LEMMA TickIInv ==
    ASSUME NewsRescoreAssumption, IInv, Tick
    PROVE  IInv'
<1> USE DEF IInv
<1> DEFINE Ages(d) == drain[d].pc # "idle" /\ ~drain[d].stalled
<1>1. /\ UNCHANGED <<preferred, promotion, refresh, bounds, rescored>>
      /\ queue' = [a \in Actor |->
                      [queue[a] EXCEPT !.lease = IF @ = 0 THEN 0 ELSE @ - 1]]
      /\ drain' = [d \in Drain |->
                      IF Ages(d) THEN [drain[d] EXCEPT !.age = @ + 1] ELSE drain[d]]
      /\ \A d \in Drain : Ages(d) => drain[d].age + 1 < Lease
  BY DEF Tick
<1>2. stalls' = stalls /\ rescored' = rescored /\ preferred' = preferred
  BY <1>1 DEF bounds
<1>3. ASSUME NEW a \in Actor
      PROVE  /\ queue'[a] \in TypedQueueRow
             /\ queue'[a].enqueued = queue[a].enqueued
             /\ queue'[a].dirty = queue[a].dirty
             /\ queue'[a].lease = IF queue[a].lease = 0 THEN 0 ELSE queue[a].lease - 1
  <2> DEFINE less == IF queue[a].lease = 0 THEN 0 ELSE queue[a].lease - 1
  <2>1. less \in 0..Lease
    BY RowTyped
  <2>2. queue'[a] = [queue[a] EXCEPT !.lease = less]
    BY <1>1
  <2> HIDE DEF less
  <2>3. queue'[a] = [enqueued |-> queue[a].enqueued, lease |-> less,
                     dirty |-> queue[a].dirty]
    BY <2>2, RowTyped DEF QueueRow
  <2>4. queue[a].enqueued = 0 => less = 0 /\ queue[a].dirty = FALSE
    BY RowTyped DEF NoQueueRow, less
  <2>5. queue'[a] \in QueueRow
    BY <2>1, <2>3, RowTyped DEF QueueRow
  <2>6. queue'[a].enqueued = 0 => queue'[a] = NoQueueRow
    <3> SUFFICES ASSUME queue[a].enqueued = 0  PROVE queue'[a] = NoQueueRow
      BY <2>3
    <3> QED  BY <2>3, <2>4, Zenon DEF NoQueueRow
  <2> QED  BY <2>3, <2>5, <2>6 DEF TypedQueueRow, less
<1>4. ASSUME NEW d \in Drain
      PROVE  /\ drain'[d] \in DrainRecord
             /\ drain'[d].pc = drain[d].pc /\ drain'[d].actor = drain[d].actor
             /\ drain'[d].todo = drain[d].todo /\ drain'[d].chunk = drain[d].chunk
             /\ drain'[d].seen = drain[d].seen /\ drain'[d].stalled = drain[d].stalled
             /\ drain'[d].age = IF Ages(d) THEN drain[d].age + 1 ELSE drain[d].age
             /\ ~Ages(d) => drain'[d] = drain[d]
  <2>1. drain[d] \in DrainRecord /\ Lease \in Nat
    BY DEF TypeOK, NewsRescoreAssumption
  <2>2. CASE Ages(d)
    <3>1. drain'[d] = [drain[d] EXCEPT !.age = drain[d].age + 1]
      BY <1>1, <2>2
    <3>2. drain[d].age + 1 \in 0..Lease
      BY <1>1, <2>1, <2>2 DEF DrainRecord
    <3> HIDE DEF Ages
    <3> QED  BY <2>1, <2>2, <3>1, <3>2 DEF DrainRecord
  <2>3. CASE ~Ages(d)
    <3>1. drain'[d] = drain[d]
      BY <1>1, <2>3
    <3> HIDE DEF Ages
    <3> QED  BY <2>1, <2>3, <3>1
  <2> QED  BY <2>2, <2>3
<1>5. TypeOK'
  <2>1. queue' \in [Actor -> TypedQueueRow]
    BY <1>1, <1>3
  <2>2. drain' \in [Drain -> DrainRecord]
    BY <1>1, <1>4
  <2> QED  BY <1>1, <2>1, <2>2 DEF TypeOK, bounds
<1>6. DrainShape'
  <2> SUFFICES ASSUME NEW e \in Drain
               PROVE  /\ IF drain'[e].pc # "idle"
                         THEN /\ drain'[e].actor \in Actor
                              /\ drain'[e].todo \subseteq SharedBy[drain'[e].actor]
                              /\ drain'[e].chunk \subseteq drain'[e].todo
                         ELSE drain'[e] = IdleDrain
                      /\ drain'[e].stalled => stalls > 0
                      /\ drain'[e].age < Lease
    BY <1>2 DEF DrainShape, Working
  <2>1. CASE Ages(e)
    <3>1. drain'[e].age < Lease
      BY <1>1, <1>4, <2>1
    <3>2. Working(e)
      BY <2>1 DEF Working
    <3> QED  BY <1>4, <3>1, <3>2 DEF DrainShape, Working
  <2>2. CASE ~Ages(e)
    <3>1. drain'[e] = drain[e]
      BY <1>4, <2>2
    <3> QED  BY <3>1 DEF DrainShape, Working
  <2> QED  BY <2>1, <2>2
<1>7. RescoredShared'
  BY <1>2 DEF RescoredShared
<1>8. OneDrainPerActor'
  BY <1>2, <1>4 DEF OneDrainPerActor
<1>9. LeaseHeld'
  <2> SUFFICES ASSUME stalls = 0, NEW e \in Drain, drain'[e].pc # "idle"
               PROVE  /\ queue'[drain'[e].actor].enqueued > 0
                      /\ queue'[drain'[e].actor].lease + drain'[e].age >= Lease
    BY <1>2 DEF LeaseHeld, Working, Queued
  <2>1. Working(e) /\ Ages(e)
    BY <1>4 DEF Working, DrainShape
  <2>2. drain[e].actor \in Actor /\ drain[e].age \in 0..Lease
    BY <2>1 DEF DrainShape, TypeOK, DrainRecord
  <2>3. /\ queue[drain[e].actor].enqueued > 0
        /\ queue[drain[e].actor].lease + drain[e].age >= Lease
        /\ drain[e].age < Lease
    BY <2>1 DEF LeaseHeld, Queued, DrainShape
  <2>4. drain'[e].age = drain[e].age + 1 /\ drain'[e].actor = drain[e].actor
    BY <1>4, <2>1
  <2>5. queue'[drain[e].actor].lease = queue[drain[e].actor].lease - 1
    BY <1>3, <2>2, <2>3, RowTyped
  <2> HIDE DEF Ages
  <2> QED  BY <1>3, <2>2, <2>3, <2>4, <2>5, RowTyped
<1>10. RestIsTodo'
  <2> SUFFICES ASSUME stalls = 0, NEW e \in Drain, drain'[e].pc # "idle",
                      ~queue'[drain'[e].actor].dirty
               PROVE  /\ SharedBy[drain'[e].actor]
                           \subseteq rescored[drain'[e].actor] \cup drain'[e].todo
                      /\ drain'[e].pc = "computing"
                         => drain'[e].seen[drain'[e].actor] = preferred[drain'[e].actor]
    BY <1>2 DEF RestIsTodo, Working
  <2>1. Working(e) /\ drain[e].actor \in Actor
    BY <1>4 DEF Working, DrainShape
  <2>2. ~queue[drain[e].actor].dirty
    BY <1>3, <1>4, <2>1
  <2>3. /\ SharedBy[drain[e].actor] \subseteq rescored[drain[e].actor] \cup drain[e].todo
        /\ drain[e].pc = "computing"
           => drain[e].seen[drain[e].actor] = preferred[drain[e].actor]
    BY <2>1, <2>2 DEF RestIsTodo
  <2> QED  BY <1>4, <2>3
<1> QED  BY <1>5, <1>6, <1>7, <1>8, <1>9, <1>10

-----------------------------------------------------------------------------
(* The theorems. *)

(* Every step keeps the invariant.                                         *)
LEMMA NextIInv ==
    ASSUME NewsRescoreAssumption, IInv, [Next]_vars
    PROVE  IInv'
<1>1. ASSUME NEW a \in Actor, NEW b \in Bonus \cup {0}, Curate(a, b)  PROVE IInv'
  BY <1>1, CurateIInv
<1>2. ASSUME NEW d \in Drain, NEW a \in Actor, Claim(d, a)  PROVE IInv'
  BY <1>2, ClaimIInv
<1>3. ASSUME NEW d \in Drain, Step(d)  PROVE IInv'
  BY <1>3, BeginIInv, WriteIInv, RefreshLeaseIInv, FinishIInv, ReopenIInv DEF Step
<1>4. ASSUME NEW d \in Drain, Fail(d) \/ Stall(d) \/ Wake(d)  PROVE IInv'
  BY <1>4, FailIInv, StallIInv
<1>5. ASSUME NEW r \in Refresher, NEW l \in Recent, BeginRefresh(r, l)  PROVE IInv'
  BY <1>5, RefreshIInv
<1>6. ASSUME NEW r \in Refresher, EndRefresh(r)  PROVE IInv'
  BY <1>6, RefreshIInv
<1>7. CASE Tick
  BY <1>7, TickIInv
<1>8. CASE UNCHANGED vars
  BY <1>8 DEF vars, bounds, IInv, TypeOK, DrainShape, RescoredShared, OneDrainPerActor,
              LeaseHeld, RestIsTodo, Working, Queued
<1> QED  BY <1>1, <1>2, <1>3, <1>4, <1>5, <1>6, <1>7, <1>8 DEF Next

(* The invariant holds in every reachable state.                           *)
LEMMA AlwaysIInv == Spec => []IInv
<1>1. IInv /\ [Next]_vars => IInv'
  BY NextIInv, NewsRescoreAssumption
<1>2. Init => IInv
  BY InitIInv, NewsRescoreAssumption
<1> QED  BY <1>1, <1>2, PTL DEF Spec

(* Every reachable state is well typed.                                    *)
THEOREM TypeCorrect == Spec => []TypeOK
<1>1. IInv => TypeOK
  BY DEF IInv
<1> QED  BY <1>1, AlwaysIInv, PTL

(* An actor is processed by one drain at a time, as long as none stalls:   *)
(* the claim of drainNewsRescoreQueue takes only rows without a lease.     *)
THEOREM OneDrains == Spec => []OneDrainPerActor
<1>1. IInv => OneDrainPerActor
  BY DEF IInv
<1> QED  BY <1>1, AlwaysIInv, PTL

(* Only the delete of a finished drain takes a row away, and it takes a    *)
(* clean one: everything the actor shared has been rescored by then.       *)
LEMMA StepDeletesRescored ==
    ASSUME NewsRescoreAssumption, IInv, [Next]_vars,
           NEW a \in Actor, stalls = 0, Queued(a), ~Queued(a)'
    PROVE  rescored[a] = SharedBy[a]
<1> USE DEF IInv
<1>1. queue'[a] # queue[a]
  BY DEF Queued
<1>2. PICK d \in Drain : Finish(d) /\ Deletable(drain[d].actor) /\ drain[d].actor = a
  <2>1. ASSUME NEW b \in Actor, NEW v \in Bonus \cup {0}, Curate(b, v)  PROVE FALSE
    <3>1. queue' = [queue EXCEPT ![b] = Enqueued(b)] /\ b = a
      BY <1>1, <2>1 DEF Curate, TypeOK
    <3>2. Enqueued(a) = [queue[a] EXCEPT !.dirty = TRUE]
      BY DEF Enqueued
    <3>3. queue'[a] = [queue[a] EXCEPT !.dirty = TRUE]
      BY <3>1, <3>2 DEF TypeOK
    <3> QED  BY <3>3, RowTyped DEF Queued, QueueRow
  <2>2. ASSUME NEW d \in Drain, NEW b \in Actor, Claim(d, b)  PROVE FALSE
    <3>1. queue'[a] = [queue[a] EXCEPT !.lease = Lease, !.dirty = FALSE]
      BY <1>1, <2>2 DEF Claim, ClaimedRow, TypeOK
    <3> QED  BY <3>1, RowTyped DEF Queued, QueueRow
  <2>3. ASSUME NEW d \in Drain, RefreshLease(d)  PROVE FALSE
    <3>1. queue'[a] = [queue[a] EXCEPT !.lease = Lease]
      BY <1>1, <2>3 DEF RefreshLease, RefreshedRow, TypeOK
    <3> QED  BY <3>1, RowTyped DEF Queued, QueueRow
  <2>4. ASSUME NEW d \in Drain, Reopen(d)  PROVE FALSE
    <3>1. queue'[a] = [queue[a] EXCEPT !.lease = 0]
      BY <1>1, <2>4 DEF Reopen, TypeOK
    <3> QED  BY <3>1, RowTyped DEF Queued, QueueRow
  <2>5. ASSUME NEW d \in Drain, Finish(d)
        PROVE  Deletable(drain[d].actor) /\ drain[d].actor = a
    BY <1>1, <2>5 DEF Finish, TypeOK
  <2>6. ASSUME Tick  PROVE FALSE
    <3>1. queue'[a] = [queue[a] EXCEPT !.lease = IF @ = 0 THEN 0 ELSE @ - 1]
      BY <2>6 DEF Tick
    <3> QED  BY <3>1, RowTyped DEF Queued, QueueRow
  <2>7. ASSUME NEW d \in Drain,
               \/ \E chunk \in SUBSET drain[d].todo : Begin(d, chunk)
               \/ Write(d) \/ Fail(d) \/ Stall(d) \/ Wake(d)
        PROVE  FALSE
    BY <1>1, <2>7 DEF Begin, Write, Fail, Stall, Wake
  <2>8. ASSUME NEW r \in Refresher,
               (\E l \in Recent : BeginRefresh(r, l)) \/ EndRefresh(r)
        PROVE  FALSE
    BY <1>1, <2>8 DEF BeginRefresh, EndRefresh
  <2>9. ~UNCHANGED vars
    BY <1>1 DEF vars
  <2> QED  BY <2>1, <2>2, <2>3, <2>4, <2>5, <2>6, <2>7, <2>8, <2>9 DEF Next, Step
<1>3. Working(d) /\ drain[d].todo = {} /\ ~queue[a].dirty
  BY <1>2 DEF Finish, At, Working, Deletable
<1>4. SharedBy[a] \subseteq rescored[a]
  BY <1>2, <1>3 DEF RestIsTodo
<1> QED  BY <1>4 DEF RescoredShared

(* "The row is deleted only after the actor is fully rescored", with its   *)
(* present curation, unless a drain stalled.                               *)
THEOREM RowsDeletedWhenRescored == Spec => DeletedWhenRescored
<1>1. IInv /\ [Next]_vars
      => [\A a \in Actor : stalls = 0 /\ Queued(a) /\ ~Queued(a)'
                           => rescored[a] = SharedBy[a]]_vars
  BY StepDeletesRescored, NewsRescoreAssumption
<1> QED  BY <1>1, AlwaysIInv, PTL DEF Spec, DeletedWhenRescored

=============================================================================
