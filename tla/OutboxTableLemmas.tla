------------------------- MODULE OutboxTableLemmas -------------------------
(***************************************************************************)
(* What the statements of OutboxTable make of a row, stated once for the   *)
(* proofs about the queues: every update of a well-typed row is well typed *)
(* and keeps the lease columns in step with the status.                    *)
(***************************************************************************)
EXTENDS OutboxTable, TLAPS

(* What the insertion of a row fixes for good.                             *)
SameOrigin(r, s) ==
    r.key = s.key /\ r.group = s.group /\ r.seq = s.seq /\ r.pos = s.pos

(* The values the statements write into the columns are in their domains. *)
LEMMA ColumnTypes ==
    /\ 0 \in 0..MaxWait /\ 0 \in 0..Lease /\ Lease \in 0..Lease
    /\ NoToken \in Token \cup {NoToken} /\ NoToken \notin Token
    /\ NoInbox \in Inbox \cup {NoInbox} /\ NoKey \in Key \cup {NoKey}
    /\ TRUE \in BOOLEAN /\ FALSE \in BOOLEAN /\ 0 \in Nat
    /\ \A n \in Nat : n + 1 \in Nat /\ Refunded(n) \in Nat
    /\ \A n \in 0..MaxWait : Less(n) \in 0..MaxWait
    /\ \A n \in 0..Lease : Less(n) \in 0..Lease /\ (Less(n) > 0 => n > 0)
  BY OutboxTableAssumption DEF Refunded, Less

(* A row of the table is a typed record. *)
LEMMA RowFields ==
    ASSUME row \in [Row -> TypedRow], NEW e \in Row
    PROVE  /\ row[e] \in RowRecord /\ row[e] \in TypedRow
           /\ row[e].token # NoToken <=> row[e].status = "processing"
           /\ row[e].lease > 0 => row[e].status = "processing"
           /\ row[e].group \in Row /\ row[e].attempts \in Nat
           /\ row[e].wait \in 0..MaxWait /\ row[e].lease \in 0..Lease
           /\ row[e].seq \in Nat /\ row[e].pos \in Nat
           /\ row[e].key \in Key \cup {NoKey} /\ row[e].replayed \in BOOLEAN
           /\ row[e].status \in Status /\ row[e].token \in Token \cup {NoToken}
  BY DEF TypedRow, RowRecord

(* A row that was never inserted is well typed, and belongs to no lease. *)
LEMMA AbsentRowType ==
    ASSUME NEW e \in Row
    PROVE  /\ AbsentRow(e) \in TypedRow
           /\ AbsentRow(e).status = "absent"
           /\ AbsentRow(e).token = NoToken
           /\ AbsentRow(e).lease = 0
  <1>1. "absent" \in Status /\ NoKey \in Key \cup {NoKey} /\ 0 \in Nat
        /\ NoInbox \in Inbox \cup {NoInbox} /\ NoToken \in Token \cup {NoToken}
        /\ 0 \in 0..MaxWait /\ 0 \in 0..Lease /\ FALSE \in BOOLEAN
    BY ColumnTypes DEF Status
  <1>2. AbsentRow(e) \in RowRecord
    BY <1>1, Zenon DEF AbsentRow, RowRecord
  <1>3. /\ AbsentRow(e).status = "absent"
        /\ AbsentRow(e).token = NoToken
        /\ AbsentRow(e).lease = 0
    BY Zenon DEF AbsentRow, RowRecord
  <1> QED BY <1>2, <1>3, OutboxTableAssumption DEF TypedRow

(* A row of the group g just inserted. *)
NewRow(g) ==
    {r \in TypedRow : r.status = "uncommitted" /\ r.group = g /\ r.token = NoToken}

(* An insertion is well typed, and belongs to no lease. *)
LEMMA InsertedRowType ==
    ASSUME row \in [Row -> TypedRow], NEW e \in Row, NEW g \in Row,
           NEW k \in Key \cup {NoKey}, NEW i \in Inbox \cup {NoInbox},
           NEW s \in Nat, NEW p \in Nat
    PROVE  InsertedRow(e, k, g, i, s, p, 0) \in NewRow(g)
  <1>1. AbsentRow(e) \in RowRecord /\ row[g].replayed \in BOOLEAN
        /\ AbsentRow(e).token = NoToken /\ AbsentRow(e).lease = 0
    BY RowFields, ColumnTypes, AbsentRowType DEF TypedRow
  <1>2. "uncommitted" \in Status /\ 0 \in 0..MaxWait /\ TRUE \in BOOLEAN
    BY ColumnTypes DEF Status
  <1>3. InsertedRow(e, k, g, i, s, p, 0) \in RowRecord
    BY <1>1, <1>2, Zenon DEF InsertedRow, RowRecord
  <1>4. /\ InsertedRow(e, k, g, i, s, p, 0).status = "uncommitted"
        /\ InsertedRow(e, k, g, i, s, p, 0).group = g
        /\ InsertedRow(e, k, g, i, s, p, 0).token = NoToken
        /\ InsertedRow(e, k, g, i, s, p, 0).lease = 0
    BY <1>1, Zenon DEF InsertedRow, RowRecord
  <1> QED BY <1>3, <1>4, OutboxTableAssumption DEF TypedRow, NewRow

(* An insertion writes the columns it is given, and counts no attempt. *)
LEMMA InsertedRowColumns ==
    ASSUME NEW e \in Row, NEW g, NEW k, NEW i, NEW s, NEW p
    PROVE  /\ InsertedRow(e, k, g, i, s, p, 0).key = k
           /\ InsertedRow(e, k, g, i, s, p, 0).inbox = i
           /\ InsertedRow(e, k, g, i, s, p, 0).seq = s
           /\ InsertedRow(e, k, g, i, s, p, 0).pos = p
           /\ InsertedRow(e, k, g, i, s, p, 0).attempts = 0
           /\ InsertedRow(e, k, g, i, s, p, 0).replayed = row[g].replayed
  <1>1. AbsentRow(e) \in RowRecord
    BY AbsentRowType DEF TypedRow
  <1>2. AbsentRow(e).attempts = 0
    BY Zenon DEF AbsentRow
  <1> QED BY <1>1, <1>2, Zenon DEF InsertedRow, RowRecord

(* It comes with its payload. *)
LEMMA InsertedRowPayload ==
    ASSUME NEW e \in Row, NEW g, NEW k, NEW i, NEW s, NEW p
    PROVE  InsertedRow(e, k, g, i, s, p, 0).payload
  <1>1. AbsentRow(e) \in RowRecord
    BY AbsentRowType DEF TypedRow
  <1> QED BY <1>1, Zenon DEF InsertedRow, RowRecord

(* Committing an uncommitted row makes it pending. *)
LEMMA PublishedType ==
    ASSUME row \in [Row -> TypedRow], NEW e \in Row, Uncommitted(e)
    PROVE  /\ Published(e) \in TypedRow
           /\ Published(e).status = "pending"
           /\ Published(e).token = NoToken
           /\ Published(e).group = row[e].group
           /\ SameOrigin(Published(e), row[e])
           /\ Published(e).replayed = row[e].replayed
           /\ Published(e).attempts = row[e].attempts
           /\ Published(e).payload = row[e].payload
  <1>1. row[e] \in RowRecord /\ row[e].token = NoToken /\ row[e].lease = 0
    BY RowFields, ColumnTypes DEF Uncommitted
  <1>2. "pending" \in Status
    BY ColumnTypes DEF Status
  <1>3. Published(e) \in RowRecord
    BY <1>1, <1>2, Zenon DEF Published, RowRecord
  <1>4. /\ Published(e).status = "pending"
        /\ Published(e).token = NoToken
        /\ Published(e).group = row[e].group
        /\ Published(e).lease = 0
    BY <1>1, Zenon DEF Published, RowRecord
  <1>5. /\ SameOrigin(Published(e), row[e])
        /\ Published(e).replayed = row[e].replayed
        /\ Published(e).attempts = row[e].attempts
        /\ Published(e).payload = row[e].payload
    BY <1>1, Zenon DEF Published, RowRecord, SameOrigin
  <1> QED BY <1>3, <1>4, <1>5, OutboxTableAssumption DEF TypedRow

(* A claim gives the row its token and a whole lease. *)
LEMMA ClaimedRowType ==
    ASSUME row \in [Row -> TypedRow], NEW e \in Row, NEW t \in Token
    PROVE  /\ ClaimedRow(e, t) \in TypedRow
           /\ ClaimedRow(e, t).status = "processing"
           /\ ClaimedRow(e, t).token = t
           /\ ClaimedRow(e, t).group = row[e].group
           /\ SameOrigin(ClaimedRow(e, t), row[e])
           /\ ClaimedRow(e, t).replayed = row[e].replayed
           /\ ClaimedRow(e, t).attempts = row[e].attempts + 1
           /\ ClaimedRow(e, t).payload = row[e].payload
           /\ ClaimedRow(e, t).lease = Lease
  <1>1. row[e] \in RowRecord /\ row[e].attempts + 1 \in Nat
    BY RowFields, ColumnTypes
  <1>2. "processing" \in Status /\ t \in Token \cup {NoToken} /\ Lease \in 0..Lease
    BY ColumnTypes DEF Status
  <1>3. ClaimedRow(e, t) \in RowRecord
    BY <1>1, <1>2, Zenon DEF ClaimedRow, RowRecord
  <1>4. /\ ClaimedRow(e, t).status = "processing"
        /\ ClaimedRow(e, t).token = t
        /\ ClaimedRow(e, t).group = row[e].group
        /\ ClaimedRow(e, t).lease = Lease
    BY <1>1, Zenon DEF ClaimedRow, RowRecord
  <1>5. /\ SameOrigin(ClaimedRow(e, t), row[e])
        /\ ClaimedRow(e, t).replayed = row[e].replayed
        /\ ClaimedRow(e, t).attempts = row[e].attempts + 1
        /\ ClaimedRow(e, t).payload = row[e].payload
        /\ ClaimedRow(e, t).lease = Lease
    BY <1>1, Zenon DEF ClaimedRow, RowRecord, SameOrigin
  <1> QED BY <1>3, <1>4, <1>5, OutboxTableAssumption DEF TypedRow

(* Every acknowledgement gives the token up: completing the row, *)
LEMMA CompletedRowType ==
    ASSUME row \in [Row -> TypedRow], NEW e \in Row
    PROVE  /\ CompletedRow(e) \in TypedRow
           /\ CompletedRow(e).status = "completed"
           /\ CompletedRow(e).token = NoToken
           /\ CompletedRow(e).group = row[e].group
           /\ SameOrigin(CompletedRow(e), row[e])
           /\ CompletedRow(e).replayed = row[e].replayed
           /\ CompletedRow(e).attempts = row[e].attempts
  <1>1. row[e] \in RowRecord
    BY RowFields, ColumnTypes
  <1>2. "completed" \in Status /\ NoToken \in Token \cup {NoToken} /\ 0 \in 0..Lease
        /\ NoInbox \in Inbox \cup {NoInbox} /\ FALSE \in BOOLEAN
    BY ColumnTypes DEF Status
  <1>3. CompletedRow(e) \in RowRecord
    BY <1>1, <1>2, Zenon DEF CompletedRow, RowRecord
  <1>4. /\ CompletedRow(e).status = "completed"
        /\ CompletedRow(e).token = NoToken
        /\ CompletedRow(e).group = row[e].group
        /\ CompletedRow(e).lease = 0
    BY <1>1, Zenon DEF CompletedRow, RowRecord
  <1>5. /\ SameOrigin(CompletedRow(e), row[e])
        /\ CompletedRow(e).replayed = row[e].replayed
        /\ CompletedRow(e).attempts = row[e].attempts
    BY <1>1, Zenon DEF CompletedRow, RowRecord, SameOrigin
  <1> QED BY <1>3, <1>4, <1>5, OutboxTableAssumption DEF TypedRow

(* scheduling it again, *)
LEMMA RetriedRowType ==
    ASSUME row \in [Row -> TypedRow], NEW e \in Row, NEW w \in 0..MaxWait,
           NEW c \in BOOLEAN
    PROVE  /\ RetriedRow(e, w, c) \in TypedRow
           /\ RetriedRow(e, w, c).status = "pending"
           /\ RetriedRow(e, w, c).token = NoToken
           /\ RetriedRow(e, w, c).group = row[e].group
           /\ SameOrigin(RetriedRow(e, w, c), row[e])
           /\ RetriedRow(e, w, c).replayed = row[e].replayed
           /\ RetriedRow(e, w, c).payload
           /\ RetriedRow(e, w, c).attempts = IF c THEN row[e].attempts ELSE Refunded(row[e].attempts)
  <1>1. row[e] \in RowRecord /\ row[e].attempts \in Nat
        /\ Refunded(row[e].attempts) \in Nat
    BY RowFields, ColumnTypes
  <1>2. "pending" \in Status /\ NoToken \in Token \cup {NoToken} /\ 0 \in 0..Lease
        /\ TRUE \in BOOLEAN
    BY ColumnTypes DEF Status
  <1>3. RetriedRow(e, w, c) \in RowRecord
    BY <1>1, <1>2, Zenon DEF RetriedRow, RowRecord
  <1>4. /\ RetriedRow(e, w, c).status = "pending"
        /\ RetriedRow(e, w, c).token = NoToken
        /\ RetriedRow(e, w, c).group = row[e].group
        /\ RetriedRow(e, w, c).lease = 0
    BY <1>1, Zenon DEF RetriedRow, RowRecord
  <1>5. /\ SameOrigin(RetriedRow(e, w, c), row[e])
        /\ RetriedRow(e, w, c).replayed = row[e].replayed
        /\ RetriedRow(e, w, c).payload
        /\ RetriedRow(e, w, c).attempts = IF c THEN row[e].attempts ELSE Refunded(row[e].attempts)
    BY <1>1, Zenon DEF RetriedRow, RowRecord, SameOrigin
  <1> QED BY <1>3, <1>4, <1>5, OutboxTableAssumption DEF TypedRow

(* releasing it, *)
LEMMA ReleasedRowType ==
    ASSUME row \in [Row -> TypedRow], NEW e \in Row
    PROVE  /\ ReleasedRow(e) \in TypedRow
           /\ ReleasedRow(e).status = "pending"
           /\ ReleasedRow(e).token = NoToken
           /\ ReleasedRow(e).group = row[e].group
           /\ SameOrigin(ReleasedRow(e), row[e])
           /\ ReleasedRow(e).replayed = row[e].replayed
           /\ ReleasedRow(e).payload = row[e].payload
           /\ ReleasedRow(e).attempts = Refunded(row[e].attempts)
  <1>1. row[e] \in RowRecord /\ Refunded(row[e].attempts) \in Nat
    BY RowFields, ColumnTypes
  <1>2. "pending" \in Status /\ NoToken \in Token \cup {NoToken} /\ 0 \in 0..Lease
        /\ 0 \in 0..MaxWait
    BY ColumnTypes DEF Status
  <1>3. ReleasedRow(e) \in RowRecord
    BY <1>1, <1>2, Zenon DEF ReleasedRow, RowRecord
  <1>4. /\ ReleasedRow(e).status = "pending"
        /\ ReleasedRow(e).token = NoToken
        /\ ReleasedRow(e).group = row[e].group
        /\ ReleasedRow(e).lease = 0
    BY <1>1, Zenon DEF ReleasedRow, RowRecord
  <1>5. /\ SameOrigin(ReleasedRow(e), row[e])
        /\ ReleasedRow(e).replayed = row[e].replayed
        /\ ReleasedRow(e).payload = row[e].payload
        /\ ReleasedRow(e).attempts = Refunded(row[e].attempts)
    BY <1>1, Zenon DEF ReleasedRow, RowRecord, SameOrigin
  <1> QED BY <1>3, <1>4, <1>5, OutboxTableAssumption DEF TypedRow

(* or giving it up. *)
LEMMA FailedRowType ==
    ASSUME row \in [Row -> TypedRow], NEW e \in Row
    PROVE  /\ FailedRow(e) \in TypedRow
           /\ FailedRow(e).status = "dead"
           /\ FailedRow(e).token = NoToken
           /\ FailedRow(e).group = row[e].group
           /\ SameOrigin(FailedRow(e), row[e])
           /\ FailedRow(e).replayed = row[e].replayed
           /\ FailedRow(e).payload = row[e].payload
           /\ FailedRow(e).attempts = row[e].attempts
  <1>1. row[e] \in RowRecord
    BY RowFields, ColumnTypes
  <1>2. "dead" \in Status /\ NoToken \in Token \cup {NoToken} /\ 0 \in 0..Lease
    BY ColumnTypes DEF Status
  <1>3. FailedRow(e) \in RowRecord
    BY <1>1, <1>2, Zenon DEF FailedRow, RowRecord
  <1>4. /\ FailedRow(e).status = "dead"
        /\ FailedRow(e).token = NoToken
        /\ FailedRow(e).group = row[e].group
        /\ FailedRow(e).lease = 0
    BY <1>1, Zenon DEF FailedRow, RowRecord
  <1>5. /\ SameOrigin(FailedRow(e), row[e])
        /\ FailedRow(e).replayed = row[e].replayed
        /\ FailedRow(e).payload = row[e].payload
        /\ FailedRow(e).attempts = row[e].attempts
    BY <1>1, Zenon DEF FailedRow, RowRecord, SameOrigin
  <1> QED BY <1>3, <1>4, <1>5, OutboxTableAssumption DEF TypedRow

(* A renewal changes nothing but the lease. *)
LEMMA RenewedRowType ==
    ASSUME row \in [Row -> TypedRow], NEW e \in Row, row[e].status = "processing"
    PROVE  /\ RenewedRow(e) \in TypedRow
           /\ RenewedRow(e).status = "processing"
           /\ RenewedRow(e).token = row[e].token
           /\ RenewedRow(e).group = row[e].group
           /\ SameOrigin(RenewedRow(e), row[e])
           /\ RenewedRow(e).replayed = row[e].replayed
           /\ RenewedRow(e).payload = row[e].payload
           /\ RenewedRow(e).attempts = row[e].attempts
           /\ RenewedRow(e).lease = Lease
  <1>1. row[e] \in RowRecord /\ row[e].status = "processing"
    BY RowFields, ColumnTypes
  <1>2. "processing" \in Status /\ Lease \in 0..Lease
    BY ColumnTypes DEF Status
  <1>3. RenewedRow(e) \in RowRecord
    BY <1>1, <1>2, Zenon DEF RenewedRow, RowRecord
  <1>4. /\ RenewedRow(e).status = "processing"
        /\ RenewedRow(e).token = row[e].token
        /\ RenewedRow(e).group = row[e].group
        /\ RenewedRow(e).lease = Lease
    BY <1>1, Zenon DEF RenewedRow, RowRecord
  <1>5. /\ SameOrigin(RenewedRow(e), row[e])
        /\ RenewedRow(e).replayed = row[e].replayed
        /\ RenewedRow(e).payload = row[e].payload
        /\ RenewedRow(e).attempts = row[e].attempts
        /\ RenewedRow(e).lease = Lease
    BY <1>1, Zenon DEF RenewedRow, RowRecord, SameOrigin
  <1> QED BY <1>3, <1>4, <1>5, OutboxTableAssumption, RowFields DEF TypedRow

(* A replay makes the row pending, without a lease. *)
LEMMA ReplayedRowType ==
    ASSUME row \in [Row -> TypedRow], NEW e \in Row
    PROVE  /\ ReplayedRow(e) \in TypedRow
           /\ ReplayedRow(e).status = "pending"
           /\ ReplayedRow(e).token = NoToken
           /\ ReplayedRow(e).group = row[e].group
           /\ SameOrigin(ReplayedRow(e), row[e])
           /\ ReplayedRow(e).replayed = TRUE
           /\ ReplayedRow(e).payload = row[e].payload
           /\ ReplayedRow(e).attempts = 0
  <1>1. row[e] \in RowRecord
    BY RowFields, ColumnTypes
  <1>2. "pending" \in Status /\ NoToken \in Token \cup {NoToken} /\ 0 \in 0..Lease
        /\ 0 \in 0..MaxWait /\ 0 \in Nat /\ TRUE \in BOOLEAN
    BY ColumnTypes DEF Status
  <1>3. ReplayedRow(e) \in RowRecord
    BY <1>1, <1>2, Zenon DEF ReplayedRow, RowRecord
  <1>4. /\ ReplayedRow(e).status = "pending"
        /\ ReplayedRow(e).token = NoToken
        /\ ReplayedRow(e).group = row[e].group
        /\ ReplayedRow(e).lease = 0
    BY <1>1, Zenon DEF ReplayedRow, RowRecord
  <1>5. /\ SameOrigin(ReplayedRow(e), row[e])
        /\ ReplayedRow(e).replayed = TRUE
        /\ ReplayedRow(e).payload = row[e].payload
        /\ ReplayedRow(e).attempts = 0
    BY <1>1, Zenon DEF ReplayedRow, RowRecord, SameOrigin
  <1> QED BY <1>3, <1>4, <1>5, OutboxTableAssumption DEF TypedRow

(* Only a settled row is pruned. *)
LEMMA PrunedRowType ==
    ASSUME row \in [Row -> TypedRow], NEW e \in Row, NEW isTask \in BOOLEAN,
           Prunable(e, isTask)
    PROVE  /\ PrunedRow(e) \in TypedRow
           /\ PrunedRow(e).status = "deleted"
           /\ PrunedRow(e).token = NoToken
           /\ PrunedRow(e).group = row[e].group
           /\ SameOrigin(PrunedRow(e), row[e])
           /\ PrunedRow(e).replayed = row[e].replayed
           /\ PrunedRow(e).payload = row[e].payload
           /\ PrunedRow(e).attempts = row[e].attempts
  <1>1. row[e] \in RowRecord /\ row[e].token = NoToken /\ row[e].lease = 0
    BY RowFields, ColumnTypes DEF Prunable
  <1>2. "deleted" \in Status
    BY ColumnTypes DEF Status
  <1>3. PrunedRow(e) \in RowRecord
    BY <1>1, <1>2, Zenon DEF PrunedRow, RowRecord
  <1>4. /\ PrunedRow(e).status = "deleted"
        /\ PrunedRow(e).token = NoToken
        /\ PrunedRow(e).group = row[e].group
        /\ PrunedRow(e).lease = 0
    BY <1>1, Zenon DEF PrunedRow, RowRecord
  <1>5. /\ SameOrigin(PrunedRow(e), row[e])
        /\ PrunedRow(e).replayed = row[e].replayed
        /\ PrunedRow(e).payload = row[e].payload
        /\ PrunedRow(e).attempts = row[e].attempts
    BY <1>1, Zenon DEF PrunedRow, RowRecord, SameOrigin
  <1> QED BY <1>3, <1>4, <1>5, OutboxTableAssumption DEF TypedRow

(* Time passes for every row, and changes neither status nor token. *)
LEMMA TickType ==
    ASSUME row \in [Row -> TypedRow], TableTick
    PROVE  /\ row' \in [Row -> TypedRow]
           /\ \A e \in Row : /\ row'[e].status = row[e].status
                             /\ row'[e].token = row[e].token
                             /\ row'[e].group = row[e].group
                             /\ SameOrigin(row'[e], row[e])
                             /\ row'[e].replayed = row[e].replayed
                             /\ row'[e].payload = row[e].payload
                             /\ row'[e].attempts = row[e].attempts
                             /\ row'[e].inbox = row[e].inbox
                             /\ row'[e].lease = Less(row[e].lease)
  <1> DEFINE Aged(e) == [row[e] EXCEPT !.wait = Less(@), !.lease = Less(@)]
  <1>1. ASSUME NEW e \in Row
        PROVE  /\ Aged(e) \in TypedRow
               /\ Aged(e).status = row[e].status
               /\ Aged(e).token = row[e].token
               /\ Aged(e).group = row[e].group
               /\ SameOrigin(Aged(e), row[e])
               /\ Aged(e).replayed = row[e].replayed
               /\ Aged(e).payload = row[e].payload
               /\ Aged(e).attempts = row[e].attempts
               /\ Aged(e).inbox = row[e].inbox
               /\ Aged(e).lease = Less(row[e].lease)
    <2>0. row[e] \in RowRecord
      BY RowFields
    <2>1. Less(row[e].wait) \in 0..MaxWait /\ Less(row[e].lease) \in 0..Lease
          /\ (Less(row[e].lease) > 0 => row[e].lease > 0)
      BY RowFields, ColumnTypes
    <2>2. Aged(e) \in RowRecord
      BY <2>0, <2>1, Zenon DEF RowRecord
    <2>3. /\ Aged(e).status = row[e].status /\ Aged(e).token = row[e].token
          /\ Aged(e).group = row[e].group /\ Aged(e).lease = Less(row[e].lease)
      BY <2>0, Zenon DEF RowRecord
    <2>4. /\ SameOrigin(Aged(e), row[e]) /\ Aged(e).replayed = row[e].replayed
          /\ Aged(e).payload = row[e].payload /\ Aged(e).attempts = row[e].attempts
          /\ Aged(e).inbox = row[e].inbox
      BY <2>0, Zenon DEF RowRecord, SameOrigin
    <2> QED BY <2>1, <2>2, <2>3, <2>4, RowFields DEF TypedRow
  <1>2. row' = [e \in Row |-> Aged(e)]
    BY DEF TableTick
  <1> HIDE DEF Aged
  <1> QED BY <1>1, <1>2

=============================================================================
