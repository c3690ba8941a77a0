------------------------- MODULE EventOutbox_proofs -------------------------
(***************************************************************************)
(* Theorems about the event outbox of a session, for any number of         *)
(* envelopes, polls, attempts, failures, retries and crashes.              *)
(*                                                                         *)
(* What keeps workers with old snapshots harmless: numbers are unique, so  *)
(* the first row of a batch is one row; a snapshot never runs ahead of its *)
(* row's attempts; and at the marks the first row is already published or  *)
(* has failed.  The chain needs one fact more: whatever it has recorded    *)
(* and neither published nor failed is the one row it holds.               *)
(***************************************************************************)
EXTENDS EventOutbox, TLAPS

NumbersUnique == \A d, e \in Envelope :
  row[d].seq = row[e].seq /\ row[d].seq # 0 => d = e

\* What a worker holds, and what it knows of its first row at the marks.
WorkerSound(w) ==
  /\ work[w] = {} => stage[w] = "publish"
  /\ \A it \in work[w] :
       /\ row[it.env].status # "absent" /\ it.attempts <= row[it.env].attempts
       /\ Current(w, it) /\ stage[w] = "mark" => it.env \in sent
       /\ Current(w, it) /\ stage[w] = "fail" => it.env \in faulty

DeliveriesRecorded == \A i \in 1..Len(chain) :
  chain[i].kind = "deliver" => row[chain[i].env].status # "absent"

PublishedRows ==
  /\ \A e \in Envelope : row[e].status \in {"delivered", "deleted"} => e \in sent
  /\ \A e \in sent : row[e].status # "absent"

HeldByChain ==
  /\ \A i, j \in work[Chain] : i = j
  /\ \A d \in chained : d \in sent \cup faulty \/ \E it \in work[Chain] : it.env = d
  /\ \A d \in chained : row[d].status # "absent"
  /\ \A d, e \in chained : d \notin sent \cup faulty => row[e].seq <= row[d].seq

OutboxInv ==
  /\ OutboxTypeOK
  /\ NumbersUnique
  /\ \A w \in Worker : WorkerSound(w)
  /\ DeliveriesRecorded
  /\ PublishedRows
  /\ HeldByChain
  /\ GivenUpLate

\* What a step does to the rows: one is recorded, or each that exists keeps its
\* number and does not forget attempts.
RowRecorded(e) ==
  /\ row[e].status = "absent"
  /\ row' = [row EXCEPT ![e] = NewRow]
  /\ last' = last + 1

RowKept(e) ==
  /\ row'[e] \in Row
  /\ row'[e].seq = row[e].seq
  /\ row'[e].status = "absent" <=> row[e].status = "absent"
  /\ row'[e].attempts >= row[e].attempts
  /\ row'[e].lock # "none" => row'[e].status \in {"pending", "retrying"}

RowsKept ==
  /\ row' \in [Envelope -> Row]
  /\ last' = last
  /\ \A e \in Envelope : RowKept(e)

\* The step changes the row of e to new and no other.
OneRow(e, new) == row' = [row EXCEPT ![e] = new] /\ last' = last

RowStep == RowsKept \/ \E e \in Envelope : RowRecorded(e)

USE OutboxConstants

-----------------------------------------------------------------------------
(* The operators on rows.                                                  *)

LEMMA NewRowTyped ==
  ASSUME OutboxTypeOK
  PROVE  NewRow \in Row /\ NewRow.seq = last + 1 /\ NewRow.status = "pending"
         /\ NewRow.attempts = 0 /\ NewRow.lock = "none"
  BY DEF NewRow, NextSeq, Row, OutboxTypeOK

LEMMA RecordedStep ==
  ASSUME OutboxTypeOK, NEW e \in Envelope, Append1(e)
  PROVE  RowRecorded(e)
  BY DEF Append1, RowRecorded, NextSeq

LEMMA SameRows ==
  ASSUME OutboxTypeOK, row' = row, last' = last
  PROVE  RowsKept
  BY DEF RowsKept, RowKept, OutboxTypeOK, Row, Open

LEMMA OneRowChanged ==
  ASSUME OutboxTypeOK, NEW e \in Envelope, NEW new \in Row,
         OneRow(e, new),
         new.seq = row[e].seq, new.attempts >= row[e].attempts,
         new.status = "absent" <=> row[e].status = "absent",
         new.lock # "none" => new.status \in {"pending", "retrying"}
  PROVE  RowsKept
  BY DEF OneRow, RowsKept, RowKept, OutboxTypeOK, Row, Open

\* A mark changes the row it names, if it still exists, and nothing else.
LEMMA MarkKeeps ==
  ASSUME OutboxTypeOK, NEW e \in Envelope, NEW new \in Row, Mark(e, new), last' = last,
         new.seq = row[e].seq, new.attempts >= row[e].attempts,
         new.status # "absent", new.lock = "none"
  PROVE  RowsKept
<1>1. CASE Stored(e)
  <2>1. OneRow(e, new) /\ row[e].status # "absent"
    BY <1>1 DEF OneRow, Mark, Stored
  <2>2. QED BY <2>1, OneRowChanged
<1>2. CASE ~Stored(e)
  BY <1>2, SameRows DEF Mark
<1>3. QED BY <1>1, <1>2

LEMMA FailedRowTyped ==
  ASSUME OutboxTypeOK, NEW e \in Envelope, NEW k \in Nat
  PROVE  /\ FailedRow(e, k) \in Row
         /\ FailedRow(e, k).seq = row[e].seq
         /\ FailedRow(e, k).attempts = row[e].attempts + 1
         /\ FailedRow(e, k).status \in {"failed", "retrying"}
         /\ FailedRow(e, k).status = "failed" => k + 1 >= MaxAttempts
         /\ FailedRow(e, k).lock = "none"
<1> DEFINE r == row[e]
           st == IF k + 1 >= MaxAttempts THEN "failed" ELSE "retrying"
           rd == IF k + 1 >= MaxAttempts THEN r.ready ELSE FALSE
           n == r.attempts + 1
<1>1. r \in Row
  BY DEF OutboxTypeOK
<1>2. n \in Nat
  BY <1>1 DEF Row
<1>3. rd \in BOOLEAN
  BY <1>1, Zenon DEF Row
<1>4. st \in {"failed", "retrying"} /\ (st = "failed" => k + 1 >= MaxAttempts)
  OBVIOUS
<1>5. FailedRow(e, k) = [r EXCEPT !.status = st, !.attempts = n, !.ready = rd, !.lock = "none"]
  BY Zenon DEF FailedRow
<1> HIDE DEF r, st, rd, n
<1>6. [r EXCEPT !.status = st, !.attempts = n, !.ready = rd, !.lock = "none"] \in Row
  BY <1>1, <1>2, <1>3, <1>4 DEF Row
<1>7. /\ FailedRow(e, k).seq = r.seq /\ FailedRow(e, k).attempts = n
      /\ FailedRow(e, k).status = st /\ FailedRow(e, k).lock = "none"
  BY <1>1, <1>5 DEF Row
<1>8. QED BY <1>4, <1>5, <1>6, <1>7 DEF r, n

LEMMA RequeuedRowTyped ==
  ASSUME NEW r \in Row
  PROVE  /\ RequeuedRow(r) \in Row
         /\ RequeuedRow(r).seq = r.seq /\ RequeuedRow(r).attempts = r.attempts
         /\ RequeuedRow(r).status = "pending" /\ RequeuedRow(r).lock = "none"
  BY DEF RequeuedRow, Row

LEMMA ItemTyped ==
  ASSUME OutboxTypeOK, NEW w \in Worker, NEW it \in work[w]
  PROVE  it \in Snapshot /\ it.env \in Envelope /\ it.attempts \in Nat
  BY DEF OutboxTypeOK, Snapshot

-----------------------------------------------------------------------------
(* What every action does to the rows.                                     *)

\* The claim of a poll locks rows that are due.
LEMMA PollKeeps ==
  ASSUME OutboxTypeOK, NEW p \in Poller, Poll(p)
  PROVE  RowsKept
<1>1. last' = last
  BY DEF Poll
<1>2. ASSUME NEW e \in Envelope
      PROVE  RowKept(e) /\ row'[e] \in Row
  <2>1. row'[e] = IF e \in Batch THEN [row[e] EXCEPT !.lock = "held"] ELSE row[e]
    BY DEF Poll
  <2>2. row[e] \in Row /\ (row[e].lock # "none" => Open(e))
    BY DEF OutboxTypeOK
  <2>3. CASE e \in Batch
    <3>1. Open(e)
      BY <2>3 DEF Batch, Claimable
    <3>2. QED BY <2>1, <2>2, <2>3, <3>1 DEF RowKept, Row, Open
  <2>4. CASE e \notin Batch
    BY <2>1, <2>2, <2>4 DEF RowKept, Row, Open
  <2>5. QED BY <2>3, <2>4
<1>3. row' = [e \in Envelope |-> row'[e]]
  BY DEF Poll
<1>4. row' \in [Envelope -> Row]
  BY <1>2, <1>3
<1>5. QED BY <1>1, <1>2, <1>4 DEF RowsKept

\* The marks of a worker.
LEMMA DispatchKeeps ==
  ASSUME OutboxTypeOK, NEW w \in Worker, NEW it \in work[w],
         \/ PublishRow(w, it) \/ PublishThrows(w, it)
         \/ MarkDelivered(w, it) \/ MarkDeliveredThrows(w, it)
         \/ MarkFailure(w, it) \/ MarkFailureThrows(w, it)
  PROVE  RowsKept
<1>1. it.env \in Envelope /\ it.attempts \in Nat
  BY ItemTyped
<1>2. CASE MarkDelivered(w, it)
  <2> DEFINE new == [row[it.env] EXCEPT !.status = "delivered", !.lock = "none"]
  <2>1. row[it.env] \in Row
    BY <1>1 DEF OutboxTypeOK
  <2>2. new \in Row /\ new.seq = row[it.env].seq /\ new.attempts = row[it.env].attempts
        /\ new.status = "delivered" /\ new.lock = "none" /\ new.attempts \in Nat
    BY <2>1 DEF Row
  <2>3. Mark(it.env, new) /\ last' = last
    BY <1>2 DEF MarkDelivered
  <2> HIDE DEF new
  <2>4. QED BY <1>1, <2>2, <2>3, MarkKeeps
<1>3. CASE MarkFailure(w, it)
  <2>1. Mark(it.env, FailedRow(it.env, it.attempts)) /\ last' = last
    BY <1>3 DEF MarkFailure
  <2>2. row[it.env].attempts \in Nat
    BY <1>1 DEF OutboxTypeOK, Row
  <2>3. QED BY <1>1, <2>1, <2>2, FailedRowTyped, MarkKeeps
<1>4. CASE PublishRow(w, it) \/ PublishThrows(w, it) \/ MarkDeliveredThrows(w, it)
             \/ MarkFailureThrows(w, it)
  BY <1>4, SameRows DEF PublishRow, PublishThrows, MarkDeliveredThrows, MarkFailureThrows
<1>5. QED BY <1>2, <1>3, <1>4

LEMMA RowChangesKeep ==
  ASSUME OutboxTypeOK, NEW e \in Envelope,
         RetryOutbox(e) \/ DeleteDelivered(e) \/ LockGoesStale(e) \/ DelayElapses(e)
  PROVE  RowsKept
<1>1. row[e] \in Row /\ (row[e].lock # "none" => Open(e))
  BY DEF OutboxTypeOK
<1>2. CASE RetryOutbox(e)
  <2>1. OneRow(e, RequeuedRow(row[e])) /\ row[e].status # "absent"
    BY <1>2 DEF OneRow, RetryOutbox, Stored
  <2>2. row[e].attempts \in Nat
    BY <1>1 DEF Row
  <2>3. QED BY <1>1, <2>1, <2>2, RequeuedRowTyped, OneRowChanged
<1>3. CASE DeleteDelivered(e)
  <2> DEFINE new == [row[e] EXCEPT !.status = "deleted"]
  <2>1. OneRow(e, new) /\ row[e].status = "delivered"
    BY <1>3 DEF OneRow, DeleteDelivered
  <2>2. new \in Row /\ new.seq = row[e].seq /\ new.attempts = row[e].attempts
        /\ new.status = "deleted" /\ new.lock = "none" /\ new.attempts \in Nat
    BY <1>1, <2>1 DEF Row, Open
  <2> HIDE DEF new
  <2>3. QED BY <2>1, <2>2, OneRowChanged
<1>4. CASE LockGoesStale(e)
  <2> DEFINE new == [row[e] EXCEPT !.lock = "stale"]
  <2>1. OneRow(e, new) /\ row[e].lock = "held"
    BY <1>4 DEF OneRow, LockGoesStale
  <2>2. new \in Row /\ new.seq = row[e].seq /\ new.attempts = row[e].attempts
        /\ new.status = row[e].status /\ new.attempts \in Nat
        /\ new.status \in {"pending", "retrying"}
    BY <1>1, <2>1 DEF Row, Open
  <2> HIDE DEF new
  <2>3. QED BY <2>1, <2>2, OneRowChanged
<1>5. CASE DelayElapses(e)
  <2> DEFINE new == [row[e] EXCEPT !.ready = TRUE]
  <2>1. OneRow(e, new) /\ Open(e)
    BY <1>5 DEF OneRow, DelayElapses
  <2>2. new \in Row /\ new.seq = row[e].seq /\ new.attempts = row[e].attempts
        /\ new.status = row[e].status /\ new.attempts \in Nat
        /\ new.status \in {"pending", "retrying"}
    BY <1>1, <2>1 DEF Row, Open
  <2> HIDE DEF new
  <2>3. QED BY <2>1, <2>2, OneRowChanged
<1>6. QED BY <1>2, <1>3, <1>4, <1>5

LEMMA EveryRowStep ==
  ASSUME OutboxTypeOK, [Next]_vars
  PROVE  RowStep
<1>1. ASSUME NEW e \in Envelope, PublishCall(e) \/ CommitRow(e) \/ DeliverCall(e)
      PROVE  RowStep
  BY <1>1, RecordedStep, SameRows DEF PublishCall, CommitRow, DeliverCall, RowStep
<1>2. CASE ChainStep
  BY <1>2, RecordedStep, SameRows
     DEF ChainStep, ChainRecord, ChainRepeat, ChainRefused, ChainDeliver, RowStep
<1>3. ASSUME NEW p \in Poller, Poll(p)
      PROVE  RowStep
  BY <1>3, PollKeeps DEF RowStep
<1>4. ASSUME NEW w \in Worker, DispatchStep(w)
      PROVE  RowStep
  BY <1>4, DispatchKeeps DEF DispatchStep, RowStep
<1>5. ASSUME NEW e \in Envelope,
             RetryOutbox(e) \/ DeleteDelivered(e) \/ LockGoesStale(e) \/ DelayElapses(e)
      PROVE  RowStep
  BY <1>5, RowChangesKeep DEF RowStep
<1>6. CASE Crash \/ UNCHANGED vars
  BY <1>6, SameRows DEF Crash, vars, RowStep
<1>7. QED BY <1>1, <1>2, <1>3, <1>4, <1>5, <1>6 DEF Next

\* A step keeps the rows well formed, their numbers unique and rising.
LEMMA RowsStay ==
  ASSUME OutboxTypeOK, NumbersUnique, RowStep
  PROVE  /\ row' \in [Envelope -> Row] /\ last' \in Nat
         /\ \A e \in Envelope : row'[e].seq <= last' /\ (row'[e].status = "absent" <=> row'[e].seq = 0)
         /\ \A e \in Envelope : row'[e].lock # "none" => row'[e].status \in {"pending", "retrying"}
         /\ NumbersUnique'
         /\ \A e \in Envelope : row[e].status # "absent" =>
              /\ row'[e].status # "absent" /\ row'[e].seq = row[e].seq
              /\ row'[e].attempts >= row[e].attempts
<1>0. /\ row \in [Envelope -> Row] /\ last \in Nat
      /\ \A e \in Envelope : row[e].seq <= last /\ (row[e].status = "absent" <=> row[e].seq = 0)
      /\ \A e \in Envelope : row[e].lock # "none" => row[e].status \in {"pending", "retrying"}
      /\ \A e \in Envelope : row[e].seq \in Nat /\ row[e].attempts \in Nat
  BY DEF OutboxTypeOK, Open, Row
<1>1. CASE RowsKept
  BY <1>0, <1>1 DEF RowsKept, RowKept, NumbersUnique
<1>2. ASSUME NEW e \in Envelope, RowRecorded(e)
      PROVE  /\ row' \in [Envelope -> Row] /\ last' \in Nat
             /\ \A d \in Envelope : row'[d].seq <= last' /\ (row'[d].status = "absent" <=> row'[d].seq = 0)
             /\ \A d \in Envelope : row'[d].lock # "none" => row'[d].status \in {"pending", "retrying"}
             /\ NumbersUnique'
             /\ \A d \in Envelope : row[d].status # "absent" =>
                  /\ row'[d].status # "absent" /\ row'[d].seq = row[d].seq
                  /\ row'[d].attempts >= row[d].attempts
  <2>1. row'[e] = NewRow /\ \A d \in Envelope \ {e} : row'[d] = row[d]
    BY <1>0, <1>2 DEF RowRecorded
  <2>2. row' \in [Envelope -> Row]
    BY <1>0, <1>2, NewRowTyped DEF RowRecorded
  <2>3. last' = last + 1 /\ row[e].status = "absent"
    BY <1>2 DEF RowRecorded
  <2>4. QED BY <1>0, <2>1, <2>2, <2>3, NewRowTyped DEF NumbersUnique
<1>3. QED BY <1>1, <1>2 DEF RowStep

-----------------------------------------------------------------------------
(* Types.                                                                  *)

LEMMA QueueStep ==
  ASSUME OutboxTypeOK, NEW op \in Operation, Enqueue(op)
  PROVE  /\ chain' \in Seq(Operation)
         /\ \A i \in 1..Len(chain') : chain'[i] = op \/ \E j \in 1..Len(chain) : chain'[i] = chain[j]
<1>1. chain \in Seq(Operation) /\ chain' = Append(chain, op)
  BY DEF OutboxTypeOK, Enqueue
<1>2. QED BY <1>1

LEMMA DequeueStep ==
  ASSUME OutboxTypeOK, NEW k, NEW e, NextOperation(k, e)
  PROVE  /\ chain' \in Seq(Operation)
         /\ 1 \in 1..Len(chain) /\ chain[1] = [kind |-> k, env |-> e]
         /\ \A i \in 1..Len(chain') : \E j \in 1..Len(chain) : chain'[i] = chain[j]
<1>1. chain \in Seq(Operation) /\ chain # <<>> /\ chain' = Tail(chain)
      /\ Head(chain) = [kind |-> k, env |-> e]
  BY DEF OutboxTypeOK, NextOperation
<1>2. Len(chain') = Len(chain) - 1 /\ Len(chain) \in Nat \ {0}
      /\ \A i \in 1..Len(chain') : chain'[i] = chain[i + 1]
  BY <1>1
<1>3. \A i \in 1..Len(chain') : i + 1 \in 1..Len(chain)
  BY <1>2
<1>4. QED BY <1>1, <1>2, <1>3

LEMMA SnapshotTyped ==
  ASSUME OutboxTypeOK, NEW e \in Envelope
  PROVE  /\ SnapshotOf(e) \in Snapshot /\ [env |-> e, attempts |-> 0] \in Snapshot
         /\ SnapshotOf(e).env = e /\ SnapshotOf(e).attempts = row[e].attempts
         /\ row[e].attempts \in Nat
  BY DEF SnapshotOf, Snapshot, OutboxTypeOK, Row

\* What a step does to the work of a worker.
LEMMA DispatchTyped ==
  ASSUME OutboxTypeOK, NEW items \in SUBSET Snapshot, Dispatch(items)
  PROVE  /\ work' \in [Worker -> SUBSET Snapshot]
         /\ stage' \in [Worker -> {"publish", "mark", "fail"}]
         /\ work'[Chain] = items /\ stage'[Chain] = "publish"
         /\ \A w \in Worker \ {Chain} : work'[w] = work[w] /\ stage'[w] = stage[w]
  BY DEF Dispatch, OutboxTypeOK, Worker

LEMMA DoneTyped ==
  ASSUME OutboxTypeOK, NEW w \in Worker, NEW it, Done(w, it)
  PROVE  /\ work' \in [Worker -> SUBSET Snapshot]
         /\ stage' \in [Worker -> {"publish", "mark", "fail"}]
         /\ work'[w] = work[w] \ {it} /\ stage'[w] = "publish"
         /\ \A v \in Worker \ {w} : work'[v] = work[v] /\ stage'[v] = stage[v]
  BY DEF Done, At, OutboxTypeOK

LEMMA AtTyped ==
  ASSUME OutboxTypeOK, NEW w \in Worker, NEW s \in {"publish", "mark", "fail"}, At(w, s)
  PROVE  /\ stage' \in [Worker -> {"publish", "mark", "fail"}]
         /\ stage'[w] = s /\ \A v \in Worker \ {w} : stage'[v] = stage[v]
  BY DEF At, OutboxTypeOK

LEMMA OutboxInit ==
  ASSUME Init
  PROVE  OutboxInv
  BY DEF Init, OutboxInv, OutboxTypeOK, NumbersUnique, WorkerSound, DeliveriesRecorded, PublishedRows,
         HeldByChain, GivenUpLate, Row, Open, Current, Operation, Worker, Snapshot

MemoryTypeOK ==
  /\ work \in [Worker -> SUBSET Snapshot]
  /\ stage \in [Worker -> {"publish", "mark", "fail"}]
  /\ chain \in Seq(Operation)
  /\ committed \subseteq Envelope
  /\ sent \subseteq Envelope /\ chained \subseteq Envelope /\ faulty \subseteq Envelope
  /\ faults \in Nat /\ retries \in Nat /\ crashes \in Nat
  /\ \A e \in committed : row[e].status # "absent"

\* Without the rows, for the steps of producers and of the chain.
LEMMA ProducerTyped ==
  ASSUME OutboxTypeOK, RowStep, NEW e \in Envelope,
         \/ PublishCall(e) \/ CommitRow(e) \/ DeliverCall(e)
         \/ ChainRecord(e) \/ ChainRepeat(e) \/ ChainRefused(e) \/ ChainDeliver(e),
         \A d \in Envelope : row[d].status # "absent" => row'[d].status # "absent"
  PROVE  MemoryTypeOK'
<1>0. MemoryTypeOK
  BY DEF OutboxTypeOK, MemoryTypeOK
<1>1. [kind |-> "publish", env |-> e] \in Operation /\ [kind |-> "deliver", env |-> e] \in Operation
  BY DEF Operation
<1>2. CASE PublishCall(e)
  BY <1>0, <1>1, <1>2, QueueStep DEF PublishCall, MemoryTypeOK
<1>3. CASE CommitRow(e)
  <2>1. row'[e].status # "absent"
    BY <1>3, NewRowTyped DEF CommitRow, Append1, OutboxTypeOK
  <2>2. QED BY <1>0, <1>3, <2>1 DEF CommitRow, MemoryTypeOK
<1>4. CASE DeliverCall(e)
  BY <1>0, <1>1, <1>4, QueueStep DEF DeliverCall, MemoryTypeOK
<1>5. CASE ChainRecord(e)
  BY <1>0, <1>5, DequeueStep, DispatchTyped, SnapshotTyped DEF ChainRecord, MemoryTypeOK
<1>6. CASE ChainRepeat(e)
  BY <1>0, <1>6, DequeueStep, DispatchTyped, SnapshotTyped DEF ChainRepeat, MemoryTypeOK
<1>7. CASE ChainRefused(e)
  <2>1. chain' \in Seq(Operation)
    BY <1>7, DequeueStep DEF ChainRefused
  <2>2. /\ faults' = faults + 1
        /\ UNCHANGED <<row, work, stage, committed, sent, chained, faulty, retries, crashes>>
    BY <1>7 DEF ChainRefused
  <2>3. QED BY <1>0, <2>1, <2>2 DEF MemoryTypeOK
<1>8. CASE ChainDeliver(e)
  BY <1>0, <1>8, DequeueStep, DispatchTyped, SnapshotTyped DEF ChainDeliver, MemoryTypeOK
<1>9. QED BY <1>2, <1>3, <1>4, <1>5, <1>6, <1>7, <1>8

LEMMA WorkerTyped ==
  ASSUME OutboxTypeOK, NEW w \in Worker, DispatchStep(w),
         \A d \in Envelope : row[d].status # "absent" => row'[d].status # "absent"
  PROVE  MemoryTypeOK'
<1>0. MemoryTypeOK
  BY DEF OutboxTypeOK, MemoryTypeOK
<1>1. PICK it \in work[w] :
        \/ PublishRow(w, it) \/ PublishThrows(w, it)
        \/ MarkDelivered(w, it) \/ MarkDeliveredThrows(w, it)
        \/ MarkFailure(w, it) \/ MarkFailureThrows(w, it)
  BY DEF DispatchStep
<1>2. it.env \in Envelope
  BY ItemTyped
<1>3. CASE PublishRow(w, it)
  BY <1>0, <1>2, <1>3, AtTyped DEF PublishRow, MemoryTypeOK
<1>4. CASE PublishThrows(w, it)
  BY <1>0, <1>2, <1>4, AtTyped DEF PublishThrows, MemoryTypeOK, Fault
<1>5. CASE MarkDelivered(w, it)
  BY <1>0, <1>5, DoneTyped DEF MarkDelivered, MemoryTypeOK
<1>6. CASE MarkDeliveredThrows(w, it)
  BY <1>0, <1>2, <1>6, AtTyped DEF MarkDeliveredThrows, MemoryTypeOK, Fault
<1>7. CASE MarkFailure(w, it)
  BY <1>0, <1>7, DoneTyped DEF MarkFailure, MemoryTypeOK
<1>8. CASE MarkFailureThrows(w, it)
  BY <1>0, <1>8, AtTyped DEF MarkFailureThrows, MemoryTypeOK, Fault
<1>9. QED BY <1>1, <1>3, <1>4, <1>5, <1>6, <1>7, <1>8

LEMMA TypeStep ==
  ASSUME OutboxTypeOK, NumbersUnique, [Next]_vars
  PROVE  OutboxTypeOK' /\ NumbersUnique'
<1>0. MemoryTypeOK
  BY DEF OutboxTypeOK, MemoryTypeOK
<1>1. RowStep
  BY EveryRowStep
<1>2. /\ row' \in [Envelope -> Row] /\ last' \in Nat
      /\ \A e \in Envelope : row'[e].seq <= last' /\ (row'[e].status = "absent" <=> row'[e].seq = 0)
      /\ \A e \in Envelope : row'[e].lock # "none" => row'[e].status \in {"pending", "retrying"}
      /\ NumbersUnique'
      /\ \A d \in Envelope : row[d].status # "absent" => row'[d].status # "absent"
  BY <1>1, RowsStay
<1>3. MemoryTypeOK'
  <2>1. CASE \E e \in Envelope : PublishCall(e) \/ CommitRow(e) \/ DeliverCall(e)
    BY <1>1, <1>2, <2>1, ProducerTyped
  <2>2. CASE ChainStep
    BY <1>1, <1>2, <2>2, ProducerTyped DEF ChainStep
  <2>3. ASSUME NEW p \in Poller, Poll(p)
        PROVE  MemoryTypeOK'
    <3>1. {SnapshotOf(e) : e \in Batch} \in SUBSET Snapshot
      BY SnapshotTyped DEF Batch
    <3>2. work' = [work EXCEPT ![p] = {SnapshotOf(e) : e \in Batch}]
      BY <2>3 DEF Poll
    <3>3. work' \in [Worker -> SUBSET Snapshot]
      BY <1>0, <3>1, <3>2 DEF MemoryTypeOK
    <3>4. QED BY <1>0, <1>2, <2>3, <3>3 DEF Poll, MemoryTypeOK
  <2>4. CASE \E w \in Worker : DispatchStep(w)
    BY <1>2, <2>4, WorkerTyped
  <2>5. CASE \E e \in Envelope : RetryOutbox(e) \/ DeleteDelivered(e) \/ LockGoesStale(e) \/ DelayElapses(e)
    BY <1>0, <1>2, <2>5 DEF RetryOutbox, DeleteDelivered, LockGoesStale, DelayElapses, MemoryTypeOK
  <2>6. CASE Crash
    <3>1. /\ work' = [w \in Worker |-> {}] /\ stage' = [w \in Worker |-> "publish"]
          /\ chain' = <<>> /\ committed' = {} /\ chained' = {} /\ crashes' = crashes + 1
          /\ UNCHANGED <<sent, faulty, faults, retries>>
      BY <2>6 DEF Crash
    <3>2. work' \in [Worker -> SUBSET Snapshot] /\ stage' \in [Worker -> {"publish", "mark", "fail"}]
      BY <3>1
    <3>3. chain' \in Seq(Operation)
      BY <3>1
    <3>4. QED BY <1>0, <3>1, <3>2, <3>3 DEF MemoryTypeOK
  <2>7. CASE UNCHANGED vars
    BY <1>0, <1>2, <2>7 DEF vars, MemoryTypeOK
  <2>8. QED BY <2>1, <2>2, <2>3, <2>4, <2>5, <2>6, <2>7 DEF Next
<1>4. QED BY <1>2, <1>3 DEF OutboxTypeOK, MemoryTypeOK, Open

-----------------------------------------------------------------------------
(* Where statuses come from.                                               *)

StatusFrom(e) ==
  /\ row'[e].status = "delivered" => row[e].status = "delivered" \/ e \in sent
  /\ row'[e].status = "deleted" => row[e].status \in {"delivered", "deleted"}
  /\ row'[e].status = "failed" => row[e].status = "failed" \/ row'[e].attempts >= MaxAttempts

LEMMA StatusKept ==
  ASSUME NEW e \in Envelope, row'[e].status = row[e].status \/ row'[e].status \in {"pending", "retrying"}
  PROVE  StatusFrom(e)
  BY DEF StatusFrom

\* A write to one row leaves the others alone.
LEMMA OthersKept ==
  ASSUME OutboxTypeOK, NEW e \in Envelope, NEW new, OneRow(e, new)
  PROVE  row'[e] = new /\ \A d \in Envelope \ {e} : row'[d] = row[d]
  BY DEF OneRow, OutboxTypeOK

LEMMA StatusStep ==
  ASSUME OutboxInv, [Next]_vars
  PROVE  \A e \in Envelope : StatusFrom(e)
<1>0. OutboxTypeOK
  BY DEF OutboxInv
<1>1. CASE row' = row
  BY <1>1 DEF StatusFrom
<1>2. ASSUME NEW e \in Envelope, RowRecorded(e)
      PROVE  \A d \in Envelope : StatusFrom(d)
  <2>1. row'[e] = NewRow /\ \A d \in Envelope \ {e} : row'[d] = row[d]
    BY <1>0, <1>2 DEF RowRecorded, OutboxTypeOK
  <2>2. QED BY <1>0, <2>1, NewRowTyped, StatusKept
<1>3. ASSUME NEW p \in Poller, Poll(p)
      PROVE  \A d \in Envelope : StatusFrom(d)
  <2>1. SUFFICES ASSUME NEW d \in Envelope PROVE row'[d].status = row[d].status
    BY StatusKept
  <2>2. row'[d] = IF d \in Batch THEN [row[d] EXCEPT !.lock = "held"] ELSE row[d]
    BY <1>3 DEF Poll
  <2>3. row[d] \in Row
    BY <1>0 DEF OutboxTypeOK
  <2>4. QED BY <2>2, <2>3 DEF Row
<1>4. ASSUME NEW w \in Worker, NEW it \in work[w], MarkDelivered(w, it)
      PROVE  \A d \in Envelope : StatusFrom(d)
  <2> DEFINE new == [row[it.env] EXCEPT !.status = "delivered", !.lock = "none"]
  <2>1. it.env \in Envelope /\ row[it.env] \in Row
    BY <1>0, ItemTyped DEF OutboxTypeOK
  <2>2. it.env \in sent
    BY <1>4 DEF OutboxInv, WorkerSound, MarkDelivered
  <2>3. new.status = "delivered"
    BY <2>1 DEF Row
  <2>4. row' = row \/ OneRow(it.env, new)
    BY <1>4 DEF MarkDelivered, Mark, OneRow
  <2> HIDE DEF new
  <2>5. CASE OneRow(it.env, new)
    BY <1>0, <2>1, <2>2, <2>3, <2>5, OthersKept DEF StatusFrom
  <2>6. QED BY <1>1, <2>4, <2>5
<1>5. ASSUME NEW w \in Worker, NEW it \in work[w], MarkFailure(w, it)
      PROVE  \A d \in Envelope : StatusFrom(d)
  <2> DEFINE new == FailedRow(it.env, it.attempts)
  <2>1. it.env \in Envelope /\ it.attempts \in Nat /\ row[it.env].attempts \in Nat
        /\ it.attempts <= row[it.env].attempts
    BY <1>0, ItemTyped DEF OutboxTypeOK, Row, OutboxInv, WorkerSound
  <2>2. new.status \in {"failed", "retrying"} /\ (new.status = "failed" => new.attempts >= MaxAttempts)
    BY <1>0, <2>1, FailedRowTyped
  <2>3. row' = row \/ OneRow(it.env, new)
    BY <1>5 DEF MarkFailure, Mark, OneRow
  <2> HIDE DEF new
  <2>4. CASE OneRow(it.env, new)
    BY <1>0, <2>1, <2>2, <2>4, OthersKept DEF StatusFrom
  <2>5. QED BY <1>1, <2>3, <2>4
<1>6. ASSUME NEW e \in Envelope, RetryOutbox(e)
      PROVE  \A d \in Envelope : StatusFrom(d)
  <2>1. OneRow(e, RequeuedRow(row[e])) /\ row[e] \in Row
    BY <1>0, <1>6 DEF OneRow, RetryOutbox, OutboxTypeOK
  <2>2. QED BY <1>0, <2>1, OthersKept, RequeuedRowTyped, StatusKept
<1>7. ASSUME NEW e \in Envelope, DeleteDelivered(e)
      PROVE  \A d \in Envelope : StatusFrom(d)
  <2> DEFINE new == [row[e] EXCEPT !.status = "deleted"]
  <2>1. OneRow(e, new) /\ row[e] \in Row /\ row[e].status = "delivered"
    BY <1>0, <1>7 DEF OneRow, DeleteDelivered, OutboxTypeOK
  <2>2. new.status = "deleted"
    BY <2>1 DEF Row
  <2> HIDE DEF new
  <2>3. QED BY <1>0, <2>1, <2>2, OthersKept DEF StatusFrom
<1>8. ASSUME NEW e \in Envelope, LockGoesStale(e) \/ DelayElapses(e)
      PROVE  \A d \in Envelope : StatusFrom(d)
  <2> DEFINE stale == [row[e] EXCEPT !.lock = "stale"]
             due == [row[e] EXCEPT !.ready = TRUE]
  <2>1. (OneRow(e, stale) \/ OneRow(e, due)) /\ row[e] \in Row
    BY <1>0, <1>8 DEF OneRow, LockGoesStale, DelayElapses, OutboxTypeOK
  <2>2. stale.status = row[e].status /\ due.status = row[e].status
    BY <2>1 DEF Row
  <2> HIDE DEF stale, due
  <2>3. QED BY <1>0, <2>1, <2>2, OthersKept, StatusKept
<1>9. CASE ChainStep
  BY <1>0, <1>1, <1>2, <1>9, RecordedStep
     DEF ChainStep, ChainRecord, ChainRepeat, ChainRefused, ChainDeliver
<1>10. CASE \E e \in Envelope : PublishCall(e) \/ CommitRow(e) \/ DeliverCall(e)
  BY <1>0, <1>1, <1>2, <1>10, RecordedStep DEF PublishCall, CommitRow, DeliverCall
<1>11. CASE \E w \in Worker : DispatchStep(w)
  BY <1>1, <1>4, <1>5, <1>11
     DEF DispatchStep, PublishRow, PublishThrows, MarkDeliveredThrows, MarkFailureThrows
<1>12. CASE Crash \/ UNCHANGED vars
  BY <1>1, <1>12 DEF Crash, vars
<1>13. QED
  BY <1>3, <1>6, <1>7, <1>8, <1>9, <1>10, <1>11, <1>12 DEF Next

-----------------------------------------------------------------------------
(* Workers and the chain.                                                  *)

\* What every step of the system leaves true of the rows.
RowsMove ==
  /\ NumbersUnique /\ OutboxTypeOK /\ OutboxTypeOK'
  /\ \A e \in Envelope : row[e].status # "absent" =>
       /\ row'[e].status # "absent" /\ row'[e].seq = row[e].seq
       /\ row'[e].attempts >= row[e].attempts
  /\ sent \subseteq sent' /\ faulty \subseteq faulty'

\* What a worker may be given: a snapshot of a row, old or new.
Startable(it) ==
  \/ row[it.env].status # "absent" /\ it.attempts <= row[it.env].attempts
  \/ row'[it.env].status # "absent" /\ it.attempts = 0

LEMMA RowsMoveAlways ==
  ASSUME OutboxInv, [Next]_vars
  PROVE  RowsMove
<1>1. RowStep /\ OutboxTypeOK' /\ OutboxTypeOK /\ NumbersUnique
  BY EveryRowStep, TypeStep DEF OutboxInv
<1>2. sent \subseteq sent' /\ faulty \subseteq faulty'
  BY DEF Next, PublishCall, CommitRow, DeliverCall, ChainStep, ChainRecord, ChainRepeat,
     ChainRefused, ChainDeliver, Poll, DispatchStep, PublishRow, PublishThrows, MarkDelivered,
     MarkDeliveredThrows, MarkFailure, MarkFailureThrows, RetryOutbox, DeleteDelivered,
     LockGoesStale, DelayElapses, Crash, vars
<1>3. QED BY <1>1, <1>2, RowsStay DEF RowsMove

\* Two rows of a batch that could both be the first are the same row.
LEMMA FirstIsOne ==
  ASSUME OutboxTypeOK, NumbersUnique, NEW w \in Worker, WorkerSound(w),
         NEW i \in work[w], NEW j \in work[w], Current(w, i), Current(w, j)
  PROVE  i.env = j.env
<1>1. i.env \in Envelope /\ j.env \in Envelope
  BY ItemTyped
<1>2. row[i.env].seq = row[j.env].seq /\ row[i.env].seq # 0
  BY <1>1 DEF Current, WorkerSound, OutboxTypeOK, Row
<1>3. QED BY <1>1, <1>2 DEF NumbersUnique

LEMMA SameWorker ==
  ASSUME RowsMove, NEW w \in Worker, WorkerSound(w),
         work'[w] = work[w], stage'[w] = stage[w]
  PROVE  WorkerSound(w)'
<1>1. \A it \in work[w] : it.env \in Envelope /\ it.attempts \in Nat
  BY ItemTyped DEF RowsMove
<1>2. \A e \in Envelope : row[e].attempts \in Nat /\ row'[e].attempts \in Nat
  BY DEF RowsMove, OutboxTypeOK, Row
<1>3. ASSUME NEW it \in work[w], Current(w, it)'
      PROVE  Current(w, it)
  BY <1>1, <1>3 DEF Current, RowsMove, WorkerSound
<1>4. ASSUME NEW it \in work[w]
      PROVE  row'[it.env].status # "absent" /\ it.attempts <= row'[it.env].attempts
  BY <1>1, <1>2 DEF RowsMove, WorkerSound
<1>5. QED BY <1>3, <1>4 DEF WorkerSound, RowsMove

\* A worker that starts with a batch, or goes on to the next row.
LEMMA FreshWorker ==
  ASSUME RowsMove, NEW w \in Worker, stage'[w] = "publish",
         \A it \in work'[w] : Startable(it)
  PROVE  WorkerSound(w)'
<1>1. \A it \in work'[w] : it.env \in Envelope /\ it.attempts \in Nat
  BY DEF RowsMove, OutboxTypeOK, Snapshot
<1>2. \A e \in Envelope : row[e].attempts \in Nat /\ row'[e].attempts \in Nat
  BY DEF RowsMove, OutboxTypeOK, Row
<1>3. ASSUME NEW it \in work'[w]
      PROVE  row'[it.env].status # "absent" /\ it.attempts <= row'[it.env].attempts
  BY <1>1, <1>2 DEF RowsMove, Startable
<1>4. QED BY <1>3 DEF WorkerSound

\* The step of a worker at its first row.
LEMMA WorkerStep ==
  ASSUME RowsMove, NEW w \in Worker, \A v \in Worker : WorkerSound(v), DispatchStep(w)
  PROVE  \A v \in Worker : WorkerSound(v)'
<1>0. OutboxTypeOK /\ NumbersUnique /\ WorkerSound(w)
  BY DEF RowsMove
<1>1. PICK it \in work[w] :
        \/ PublishRow(w, it) \/ PublishThrows(w, it)
        \/ MarkDelivered(w, it) \/ MarkDeliveredThrows(w, it)
        \/ MarkFailure(w, it) \/ MarkFailureThrows(w, it)
  BY DEF DispatchStep
<1>2. Current(w, it)
  BY <1>1 DEF PublishRow, PublishThrows, MarkDelivered, MarkDeliveredThrows, MarkFailure, MarkFailureThrows
<1>3. CASE MarkDelivered(w, it) \/ MarkFailure(w, it)
  <2>1. Done(w, it)
    BY <1>3 DEF MarkDelivered, MarkFailure
  <2>2. work'[w] = work[w] \ {it} /\ stage'[w] = "publish"
        /\ \A v \in Worker \ {w} : work'[v] = work[v] /\ stage'[v] = stage[v]
    BY <1>0, <2>1, DoneTyped
  <2>3. \A i \in work'[w] : Startable(i)
    BY <1>0, <2>2 DEF WorkerSound, Startable
  <2>4. WorkerSound(w)'
    BY <2>2, <2>3, FreshWorker
  <2>5. QED BY <2>2, <2>4, SameWorker
<1>4. CASE MarkFailureThrows(w, it)
  <2>0. work' = [work EXCEPT ![w] = {}] /\ At(w, "publish")
    BY <1>4 DEF MarkFailureThrows
  <2>1. work'[w] = {} /\ stage'[w] = "publish"
        /\ \A v \in Worker \ {w} : work'[v] = work[v] /\ stage'[v] = stage[v]
    BY <1>0, <2>0, AtTyped DEF OutboxTypeOK
  <2>2. WorkerSound(w)'
    BY <2>1, FreshWorker
  <2>3. QED BY <2>1, <2>2, SameWorker
<1>5. CASE PublishRow(w, it) \/ PublishThrows(w, it) \/ MarkDeliveredThrows(w, it)
  <2>1. work' = work /\ row' = row
        /\ (\/ stage'[w] = "mark" /\ it.env \in sent'
            \/ stage'[w] = "fail" /\ it.env \in faulty')
        /\ \A v \in Worker \ {w} : stage'[v] = stage[v]
    BY <1>0, <1>5, AtTyped DEF PublishRow, PublishThrows, MarkDeliveredThrows
  <2>2. ASSUME NEW other \in work[w], Current(w, other)'
        PROVE  other.env = it.env
    <3>1. Current(w, other)
      BY <2>1, <2>2 DEF Current
    <3>2. QED BY <1>0, <1>2, <3>1, FirstIsOne
  <2>3. WorkerSound(w)'
    BY <1>0, <2>1, <2>2 DEF WorkerSound
  <2>4. QED BY <2>1, <2>3, SameWorker
<1>6. QED BY <1>1, <1>3, <1>4, <1>5

\* A chain operation that ends or begins a dispatch leaves the polls alone.
LEMMA ChainWorker ==
  ASSUME RowsMove, \A v \in Worker : WorkerSound(v), NEW items \in SUBSET Snapshot,
         Dispatch(items),
         \A it \in items : Startable(it)
  PROVE  \A v \in Worker : WorkerSound(v)'
<1>1. work'[Chain] = items /\ stage'[Chain] = "publish"
      /\ \A w \in Worker \ {Chain} : work'[w] = work[w] /\ stage'[w] = stage[w]
  BY DispatchTyped DEF RowsMove
<1>2. WorkerSound(Chain)'
  BY <1>1, FreshWorker DEF Worker
<1>3. QED BY <1>1, <1>2, SameWorker

LEMMA WorkersStep ==
  ASSUME OutboxInv, [Next]_vars
  PROVE  \A w \in Worker : WorkerSound(w)'
<1>0. RowsMove /\ OutboxTypeOK /\ \A w \in Worker : WorkerSound(w)
  BY RowsMoveAlways DEF OutboxInv
<1>1. CASE work' = work /\ stage' = stage
  BY <1>0, <1>1, SameWorker
<1>2. ASSUME NEW e \in Envelope, ChainRecord(e)
      PROVE  \A w \in Worker : WorkerSound(w)'
  <2> DEFINE it == [env |-> e, attempts |-> 0]
  <2>1. {it} \in SUBSET Snapshot /\ Dispatch({it}) /\ it.env = e /\ it.attempts = 0
    BY <1>0, <1>2, SnapshotTyped DEF ChainRecord
  <2>2. row'[e].status # "absent"
    BY <1>0, <1>2, NewRowTyped DEF ChainRecord, Append1, OutboxTypeOK
  <2> HIDE DEF it
  <2>3. \A i \in {it} : Startable(i)
    BY <2>1, <2>2 DEF Startable
  <2>4. QED BY <1>0, <2>1, <2>3, ChainWorker
<1>3. ASSUME NEW e \in Envelope, ChainRepeat(e)
      PROVE  \A w \in Worker : WorkerSound(w)'
  <2> DEFINE items == IF row[e].status = "pending" THEN {SnapshotOf(e)} ELSE {}
  <2>1. items \in SUBSET Snapshot /\ Dispatch(items) /\ row[e].status # "absent"
    BY <1>0, <1>3, SnapshotTyped DEF ChainRepeat
  <2>2. \A it \in items : it.env = e /\ it.attempts = row[e].attempts
    BY <1>0, SnapshotTyped
  <2>3. row[e].attempts \in Nat
    BY <1>0 DEF OutboxTypeOK, Row
  <2> HIDE DEF items
  <2>4. \A it \in items : Startable(it)
    BY <2>1, <2>2, <2>3 DEF Startable
  <2>5. QED BY <1>0, <2>1, <2>4, ChainWorker
<1>4. ASSUME NEW e \in Envelope, ChainDeliver(e)
      PROVE  \A w \in Worker : WorkerSound(w)'
  <2> DEFINE it == [env |-> e, attempts |-> 0]
  <2>1. {it} \in SUBSET Snapshot /\ Dispatch({it}) /\ it.env = e /\ it.attempts = 0
    BY <1>0, <1>4, SnapshotTyped DEF ChainDeliver
  <2>2. NextOperation("deliver", e)
    BY <1>4 DEF ChainDeliver
  <2>3. 1 \in 1..Len(chain) /\ chain[1] = [kind |-> "deliver", env |-> e]
    BY <1>0, <2>2, DequeueStep
  <2>4. row[e].status # "absent"
    BY <2>3 DEF OutboxInv, DeliveriesRecorded
  <2>5. row[e].attempts \in Nat
    BY <1>0 DEF OutboxTypeOK, Row
  <2> HIDE DEF it
  <2>6. \A i \in {it} : Startable(i)
    BY <2>1, <2>4, <2>5 DEF Startable
  <2>7. QED BY <1>0, <2>1, <2>6, ChainWorker
<1>5. ASSUME NEW p \in Poller, Poll(p)
      PROVE  \A w \in Worker : WorkerSound(w)'
  <2>1. p \in Worker /\ work[p] = {} /\ stage' = stage
        /\ work' = [work EXCEPT ![p] = {SnapshotOf(e) : e \in Batch}]
    BY <1>5 DEF Poll, Worker
  <2>2. stage'[p] = "publish" /\ work'[p] = {SnapshotOf(e) : e \in Batch}
        /\ \A w \in Worker \ {p} : work'[w] = work[w]
    BY <1>0, <2>1 DEF WorkerSound, OutboxTypeOK
  <2>3. \A it \in work'[p] : Startable(it)
    <3>1. SUFFICES ASSUME NEW e \in Batch PROVE Startable(SnapshotOf(e))
      BY <2>2
    <3>2. e \in Envelope /\ row[e].status # "absent"
      BY DEF Batch, Claimable, Open
    <3>3. SnapshotOf(e).env = e /\ SnapshotOf(e).attempts = row[e].attempts /\ row[e].attempts \in Nat
      BY <1>0, <3>2, SnapshotTyped
    <3>4. row[e].attempts <= row[e].attempts
      BY <3>3
    <3>5. QED BY <3>2, <3>3, <3>4 DEF Startable
  <2>4. WorkerSound(p)'
    BY <1>0, <2>1, <2>2, <2>3, FreshWorker
  <2>5. QED BY <1>0, <2>1, <2>2, <2>4, SameWorker
<1>6. CASE Crash
  <2>1. \A w \in Worker : work'[w] = {} /\ stage'[w] = "publish"
    BY <1>6 DEF Crash
  <2>2. QED BY <1>0, <2>1, FreshWorker
<1>7. CASE ChainStep
  BY <1>1, <1>2, <1>3, <1>4, <1>7 DEF ChainStep, ChainRefused
<1>8. CASE \E w \in Worker : DispatchStep(w)
  BY <1>0, <1>8, WorkerStep
<1>9. CASE \/ \E e \in Envelope : PublishCall(e) \/ CommitRow(e) \/ DeliverCall(e)
           \/ \E e \in Envelope : RetryOutbox(e) \/ DeleteDelivered(e) \/ LockGoesStale(e) \/ DelayElapses(e)
           \/ UNCHANGED vars
  BY <1>1, <1>9 DEF PublishCall, CommitRow, DeliverCall, RetryOutbox, DeleteDelivered, LockGoesStale,
     DelayElapses, vars
<1>10. QED BY <1>5, <1>6, <1>7, <1>8, <1>9 DEF Next

LEMMA DeliveriesStep ==
  ASSUME OutboxInv, [Next]_vars
  PROVE  DeliveriesRecorded'
<1>0. /\ RowsMove /\ OutboxTypeOK /\ DeliveriesRecorded
      /\ \A e \in Envelope : row[e].status # "absent" => row'[e].status # "absent"
      /\ \A i \in 1..Len(chain) : chain[i] \in Operation /\ chain[i].env \in Envelope
  <2>1. RowsMove /\ OutboxTypeOK /\ DeliveriesRecorded
    BY RowsMoveAlways DEF OutboxInv
  <2>2. \A i \in 1..Len(chain) : chain[i] \in Operation
    BY <2>1 DEF OutboxTypeOK
  <2>3. QED BY <2>1, <2>2 DEF RowsMove, Operation
<1>1. CASE \A i \in 1..Len(chain') : \E j \in 1..Len(chain) : chain'[i] = chain[j]
  BY <1>0, <1>1 DEF DeliveriesRecorded
<1>2. CASE chain' = chain
  BY <1>1, <1>2
<1>3. ASSUME NEW e \in Envelope, PublishCall(e)
      PROVE  DeliveriesRecorded'
  <2> DEFINE op == [kind |-> "publish", env |-> e]
  <2>1. op \in Operation /\ Enqueue(op) /\ op.kind = "publish"
    BY <1>3 DEF PublishCall, Operation
  <2> HIDE DEF op
  <2>2. \A i \in 1..Len(chain') : chain'[i] = op \/ \E j \in 1..Len(chain) : chain'[i] = chain[j]
    BY <1>0, <2>1, QueueStep
  <2>3. QED BY <1>0, <2>1, <2>2 DEF DeliveriesRecorded
<1>4. ASSUME NEW e \in Envelope, DeliverCall(e)
      PROVE  DeliveriesRecorded'
  <2> DEFINE op == [kind |-> "deliver", env |-> e]
  <2>1. op \in Operation /\ Enqueue(op) /\ op.env = e /\ row[e].status # "absent"
    BY <1>0, <1>4 DEF DeliverCall, Operation, OutboxTypeOK
  <2> HIDE DEF op
  <2>2. \A i \in 1..Len(chain') : chain'[i] = op \/ \E j \in 1..Len(chain) : chain'[i] = chain[j]
    BY <1>0, <2>1, QueueStep
  <2>3. QED BY <1>0, <2>1, <2>2 DEF DeliveriesRecorded
<1>5. CASE ChainStep
  <2>1. PICK e \in Envelope, k \in {"publish", "deliver"} : NextOperation(k, e)
    BY <1>5 DEF ChainStep, ChainRecord, ChainRepeat, ChainRefused, ChainDeliver
  <2>2. QED BY <1>0, <1>1, <2>1, DequeueStep
<1>6. CASE Crash
  BY <1>6 DEF Crash, DeliveriesRecorded
<1>7. CASE \/ \E e \in Envelope : CommitRow(e)
           \/ \E p \in Poller : Poll(p)
           \/ \E w \in Worker : DispatchStep(w)
           \/ \E e \in Envelope : RetryOutbox(e) \/ DeleteDelivered(e) \/ LockGoesStale(e) \/ DelayElapses(e)
           \/ UNCHANGED vars
  BY <1>2, <1>7 DEF CommitRow, Poll, DispatchStep, PublishRow, PublishThrows, MarkDelivered,
     MarkDeliveredThrows, MarkFailure, MarkFailureThrows, RetryOutbox, DeleteDelivered, LockGoesStale,
     DelayElapses, vars
<1>8. QED BY <1>3, <1>4, <1>5, <1>6, <1>7 DEF Next

-----------------------------------------------------------------------------
(* What was published, what was given up, and the order of the chain.      *)

LEMMA PublishedStep ==
  ASSUME OutboxInv, [Next]_vars
  PROVE  PublishedRows' /\ GivenUpLate'
<1>0. RowsMove /\ OutboxTypeOK /\ OutboxTypeOK' /\ PublishedRows /\ GivenUpLate
      /\ \A w \in Worker : WorkerSound(w)
  BY RowsMoveAlways DEF OutboxInv, RowsMove
<1>1. \A e \in Envelope : StatusFrom(e)
  BY StatusStep
<1>2. ASSUME NEW e \in Envelope, row'[e].status \in {"delivered", "deleted"}
      PROVE  e \in sent'
  BY <1>0, <1>1, <1>2 DEF StatusFrom, PublishedRows, RowsMove
<1>3. \A e \in sent' : e \in sent \/ row[e].status # "absent"
  <2>1. CASE sent' = sent
    BY <2>1
  <2>2. ASSUME NEW w \in Worker, NEW it \in work[w], PublishRow(w, it)
        PROVE  \A e \in sent' : e \in sent \/ row[e].status # "absent"
    BY <1>0, <2>2 DEF PublishRow, WorkerSound
  <2>3. QED BY <2>1, <2>2 DEF Next, PublishCall, CommitRow, DeliverCall, ChainStep, ChainRecord,
       ChainRepeat, ChainRefused, ChainDeliver, Poll, DispatchStep, PublishThrows, MarkDelivered,
       MarkDeliveredThrows, MarkFailure, MarkFailureThrows, RetryOutbox, DeleteDelivered,
       LockGoesStale, DelayElapses, Crash, vars
<1>4. ASSUME NEW e \in sent'
      PROVE  row'[e].status # "absent"
  BY <1>0, <1>3 DEF PublishedRows, RowsMove, OutboxTypeOK
<1>5. ASSUME NEW e \in Envelope, row'[e].status = "failed"
      PROVE  row'[e].attempts >= MaxAttempts
  <2>1. CASE row[e].status = "failed"
    <3>1. row'[e].attempts >= row[e].attempts /\ row[e].attempts >= MaxAttempts
      BY <1>0, <2>1 DEF RowsMove, GivenUpLate
    <3>2. row'[e].attempts \in Nat /\ row[e].attempts \in Nat /\ MaxAttempts \in Nat
      BY <1>0 DEF OutboxTypeOK, Row
    <3>3. QED BY <3>1, <3>2
  <2>2. CASE row[e].status # "failed"
    BY <1>1, <1>5, <2>2 DEF StatusFrom
  <2>3. QED BY <2>1, <2>2
<1>6. QED BY <1>2, <1>4, <1>5 DEF PublishedRows, GivenUpLate

\* What the chain has recorded keeps its place when the chain does not move.
LEMMA ChainRests ==
  ASSUME RowsMove, HeldByChain, chained' = chained,
         \A i, j \in work'[Chain] : i = j,
         \A d \in chained : d \in sent' \cup faulty' \/ \E it \in work'[Chain] : it.env = d
  PROVE  HeldByChain'
  BY DEF HeldByChain, RowsMove, OutboxTypeOK

LEMMA ChainOrderStep ==
  ASSUME OutboxInv, [Next]_vars
  PROVE  HeldByChain'
<1>0. /\ RowsMove /\ HeldByChain /\ OutboxTypeOK
      /\ \A w \in Worker : WorkerSound(w)
      /\ sent \subseteq sent' /\ faulty \subseteq faulty'
  BY RowsMoveAlways DEF OutboxInv, RowsMove
<1>1. CASE work'[Chain] = work[Chain] /\ chained' = chained
  BY <1>0, <1>1, ChainRests DEF HeldByChain
<1>2. ASSUME NEW e \in Envelope, ChainRecord(e)
      PROVE  HeldByChain'
  <2> DEFINE it == [env |-> e, attempts |-> 0]
  <2>1. Dispatch({it}) /\ work[Chain] = {} /\ chained' = chained \cup {e} /\ it.env = e
        /\ {it} \in SUBSET Snapshot
    BY <1>0, <1>2, SnapshotTyped DEF ChainRecord, NextOperation, ChainIdle
  <2> HIDE DEF it
  <2>2. work'[Chain] = {it}
    BY <1>0, <2>1, DispatchTyped
  <2>3. \A d \in chained : d \in sent \cup faulty /\ row[d].status # "absent"
    BY <1>0, <2>1 DEF HeldByChain
  <2>4. row'[e].seq = last + 1 /\ row'[e].status # "absent" /\ row[e].status = "absent" /\ last' = last + 1
    BY <1>0, <1>2, NewRowTyped DEF ChainRecord, Append1, OutboxTypeOK, NextSeq
  <2>5. \A d \in Envelope : row'[d].seq <= row'[e].seq
    BY <1>0, <2>4 DEF RowsMove, OutboxTypeOK
  <2>6. \A d \in chained' : row'[d].status # "absent" /\ d \in Envelope
    BY <1>0, <2>1, <2>3, <2>4 DEF RowsMove, OutboxTypeOK
  <2>7. \A d \in chained' : d \notin sent' \cup faulty' => d = e
    BY <1>0, <2>1, <2>3
  <2>8. QED BY <2>1, <2>2, <2>5, <2>6, <2>7 DEF HeldByChain
<1>3. ASSUME NEW e \in Envelope, ChainRepeat(e) \/ ChainDeliver(e)
      PROVE  HeldByChain'
  <2>1. PICK items \in SUBSET Snapshot : Dispatch(items) /\ (\A i, j \in items : i = j)
    <3> DEFINE again == IF row[e].status = "pending" THEN {SnapshotOf(e)} ELSE {}
               handed == {[env |-> e, attempts |-> 0]}
    <3>1. Dispatch(again) \/ Dispatch(handed)
      BY <1>3 DEF ChainRepeat, ChainDeliver
    <3>2. again \in SUBSET Snapshot /\ handed \in SUBSET Snapshot
          /\ (\A i, j \in again : i = j) /\ (\A i, j \in handed : i = j)
      BY <1>0, SnapshotTyped
    <3> HIDE DEF again, handed
    <3>3. QED BY <3>1, <3>2
  <2>2. work[Chain] = {} /\ chained' = chained
    BY <1>3 DEF ChainRepeat, ChainDeliver, NextOperation, ChainIdle
  <2>3. work'[Chain] = items
    BY <1>0, <2>1, DispatchTyped
  <2>4. QED BY <1>0, <2>1, <2>2, <2>3, ChainRests DEF HeldByChain
<1>4. ASSUME NEW w \in Worker, DispatchStep(w)
      PROVE  HeldByChain'
  <2>1. PICK it \in work[w] :
          \/ PublishRow(w, it) \/ PublishThrows(w, it)
          \/ MarkDelivered(w, it) \/ MarkDeliveredThrows(w, it)
          \/ MarkFailure(w, it) \/ MarkFailureThrows(w, it)
    BY <1>4 DEF DispatchStep
  <2>2. chained' = chained
    BY <2>1 DEF PublishRow, PublishThrows, MarkDelivered, MarkDeliveredThrows, MarkFailure, MarkFailureThrows
  <2>3. Chain \in Worker
    BY DEF Worker
  <2>4. CASE w # Chain
    <3>1. work'[Chain] = work[Chain]
      BY <1>0, <2>1, <2>3, <2>4 DEF PublishRow, PublishThrows, MarkDelivered, MarkDeliveredThrows,
         MarkFailure, MarkFailureThrows, Done, OutboxTypeOK
    <3>2. QED BY <1>1, <2>2, <3>1
  <2>5. CASE PublishRow(w, it) \/ PublishThrows(w, it) \/ MarkDeliveredThrows(w, it)
    <3>1. work' = work
      BY <2>5 DEF PublishRow, PublishThrows, MarkDeliveredThrows
    <3>2. QED BY <1>1, <2>2, <3>1
  <2>6. CASE w = Chain /\ (MarkDelivered(w, it) \/ MarkFailure(w, it) \/ MarkFailureThrows(w, it))
    <3>1. Current(w, it) /\ stage[w] \in {"mark", "fail"}
      BY <2>6 DEF MarkDelivered, MarkFailure, MarkFailureThrows
    <3>2. it.env \in sent' \cup faulty'
      BY <1>0, <3>1 DEF WorkerSound
    <3>3. work'[Chain] = {}
      <4>1. work[Chain] = {it}
        BY <1>0, <2>6 DEF HeldByChain
      <4>2. work'[Chain] = work[Chain] \ {it} \/ work'[Chain] = {}
        BY <1>0, <2>3, <2>6 DEF MarkDelivered, MarkFailure, MarkFailureThrows, Done, OutboxTypeOK
      <4>3. QED BY <4>1, <4>2
    <3>4. \A d \in chained : d \in sent' \cup faulty'
      BY <1>0, <2>6, <3>2 DEF HeldByChain
    <3>5. QED BY <1>0, <2>2, <3>3, <3>4, ChainRests
  <2>7. QED BY <2>1, <2>4, <2>5, <2>6
<1>5. CASE Crash
  <2>1. work'[Chain] = {} /\ chained' = {}
    BY <1>5 DEF Crash, Worker
  <2>2. QED BY <2>1 DEF HeldByChain
<1>6. ASSUME NEW p \in Poller, Poll(p)
      PROVE  HeldByChain'
  <2>1. work'[Chain] = work[Chain] /\ chained' = chained
    BY <1>0, <1>6 DEF Poll, OutboxTypeOK, Worker
  <2>2. QED BY <1>1, <2>1
<1>7. CASE ChainStep
  BY <1>1, <1>2, <1>3, <1>7 DEF ChainStep, ChainRefused
<1>8. CASE \/ \E e \in Envelope : PublishCall(e) \/ CommitRow(e) \/ DeliverCall(e)
           \/ \E e \in Envelope : RetryOutbox(e) \/ DeleteDelivered(e) \/ LockGoesStale(e) \/ DelayElapses(e)
           \/ UNCHANGED vars
  BY <1>1, <1>8 DEF PublishCall, CommitRow, DeliverCall, RetryOutbox, DeleteDelivered, LockGoesStale,
     DelayElapses, vars
<1>9. QED BY <1>4, <1>5, <1>6, <1>7, <1>8 DEF Next

LEMMA OutboxStep ==
  ASSUME OutboxInv, [Next]_vars
  PROVE  OutboxInv'
  BY TypeStep, WorkersStep, DeliveriesStep, PublishedStep, ChainOrderStep DEF OutboxInv

\* The invariant the theorems below rest on.
THEOREM OutboxInvariant == Spec => []OutboxInv
<1>1. Init => OutboxInv
  BY OutboxInit
<1>2. OutboxInv /\ [Next]_vars => OutboxInv'
  BY OutboxStep
<1>3. QED BY <1>1, <1>2, PTL DEF Spec

-----------------------------------------------------------------------------
(* The theorems.                                                           *)

\* Type correctness of rows, workers and chain (event_outbox and its dispatchers).
THEOREM OutboxTypeCorrect == Spec => []OutboxTypeOK
<1>1. OutboxInv => OutboxTypeOK
  BY DEF OutboxInv
<1>2. QED BY <1>1, OutboxInvariant, PTL

\* dispatchRows gives a row up on the attempts of an old snapshot, yet never before
\* the row itself has failed MaxAttempts times, whoever else held or requeued it.
THEOREM NeverGivenUpEarly == Spec => []GivenUpLate
<1>1. OutboxInv => GivenUpLate
  BY DEF OutboxInv
<1>2. QED BY <1>1, OutboxInvariant, PTL

\* The promise chain of a session publishes in the order in which it records, against
\* any number of polls that publish the same rows.
THEOREM ChainKeepsOrder == Spec => []ChainInOrder
<1>1. OutboxInv => ChainInOrder
  <2>1. SUFFICES ASSUME OutboxInv, NEW d \in chained, NEW e \in chained,
                        row[d].seq < row[e].seq, d \notin sent \cup faulty
                 PROVE  FALSE
    BY DEF ChainInOrder
  <2>2. row[e].seq <= row[d].seq
    BY <2>1 DEF OutboxInv, HeldByChain
  <2>3. row[d].seq \in Nat /\ row[e].seq \in Nat
    BY <2>1 DEF OutboxInv, OutboxTypeOK, Row
  <2>4. QED BY <2>1, <2>2, <2>3
<1>2. QED BY <1>1, OutboxInvariant, PTL

-----------------------------------------------------------------------------
(* The refinement.  Every step of the rows is a step of EnvelopeDelivery   *)
(* on the envelope it touches, or leaves that view as it is.               *)

SeqView == [e \in Envelope |-> row[e].seq]
DroppedView == {e \in Envelope : row[e].status = "failed"}
CleanedView == {e \in Envelope : row[e].status = "deleted"}

\* The step changes the status of one row and publishes nothing.
LEMMA ViewOfOneRow ==
  ASSUME OutboxTypeOK, NEW e \in Envelope, NEW new, OneRow(e, new), last' = last, sent' = sent,
         new.seq = row[e].seq, row[e].status \notin {"absent", "deleted"},
         new.status = "deleted" => row[e].status = "delivered" /\ e \in sent
  PROVE  [Delivery!DeliveryNext]_(Delivery!deliveryVars)
<1>1. row'[e] = new /\ \A d \in Envelope \ {e} : row'[d] = row[d]
  BY OthersKept
<1>2. SeqView' = SeqView
  BY <1>1 DEF SeqView
<1>3. row[e].seq # 0
  BY DEF OutboxTypeOK
<1>4. CASE new.status = "deleted"
  <2>1. CleanedView' = CleanedView \cup {e} /\ DroppedView' = DroppedView /\ e \notin DroppedView
    BY <1>1, <1>4 DEF CleanedView, DroppedView
  <2>2. Delivery!Clean(e)
    BY <1>2, <1>4, <2>1 DEF Delivery!Clean, SeqView, CleanedView, DroppedView
  <2>3. QED BY <2>2 DEF Delivery!DeliveryNext
<1>5. CASE new.status = "failed"
  <2>1. DroppedView' = DroppedView \cup {e} /\ CleanedView' = CleanedView
    BY <1>1, <1>5 DEF CleanedView, DroppedView
  <2>2. Delivery!GiveUp(e)
    BY <1>2, <1>3, <2>1 DEF Delivery!GiveUp, Delivery!Recorded, SeqView, CleanedView, DroppedView
  <2>3. QED BY <2>2 DEF Delivery!DeliveryNext
<1>6. CASE new.status \notin {"deleted", "failed"}
  <2>1. DroppedView' = DroppedView \ {e} /\ CleanedView' = CleanedView
    BY <1>1, <1>6 DEF CleanedView, DroppedView
  <2>2. Delivery!Revive(e)
    BY <1>2, <2>1 DEF Delivery!Revive, SeqView, CleanedView, DroppedView
  <2>3. QED BY <2>2 DEF Delivery!DeliveryNext
<1>7. QED BY <1>4, <1>5, <1>6

\* Nothing that the abstract delivery sees has changed.
LEMMA ViewKept ==
  ASSUME SeqView' = SeqView, DroppedView' = DroppedView, CleanedView' = CleanedView,
         last' = last, sent' = sent
  PROVE  [Delivery!DeliveryNext]_(Delivery!deliveryVars)
  BY DEF SeqView, DroppedView, CleanedView, Delivery!deliveryVars

LEMMA SameRowsView ==
  ASSUME row' = row, last' = last, sent' = sent
  PROVE  [Delivery!DeliveryNext]_(Delivery!deliveryVars)
  BY ViewKept DEF SeqView, DroppedView, CleanedView

LEMMA RecordedView ==
  ASSUME OutboxTypeOK, NEW e \in Envelope, RowRecorded(e), sent' = sent
  PROVE  [Delivery!DeliveryNext]_(Delivery!deliveryVars)
<1>1. row'[e] = NewRow /\ \A d \in Envelope \ {e} : row'[d] = row[d]
  BY DEF RowRecorded, OutboxTypeOK
<1>2. row[e].seq = 0 /\ last' = last + 1 /\ row[e].status = "absent"
  BY DEF RowRecorded, OutboxTypeOK
<1>3. SeqView' = [SeqView EXCEPT ![e] = last + 1]
  BY <1>1, NewRowTyped DEF SeqView
<1>4. DroppedView' = DroppedView /\ CleanedView' = CleanedView
  BY <1>1, <1>2, NewRowTyped DEF DroppedView, CleanedView
<1>5. Delivery!Append(e)
  BY <1>2, <1>3, <1>4 DEF Delivery!Append, Delivery!Recorded, SeqView, DroppedView, CleanedView
<1>6. QED BY <1>5 DEF Delivery!DeliveryNext

LEMMA WorkerView ==
  ASSUME OutboxInv, NEW w \in Worker, NEW it \in work[w],
         \/ PublishRow(w, it) \/ PublishThrows(w, it)
         \/ MarkDelivered(w, it) \/ MarkDeliveredThrows(w, it)
         \/ MarkFailure(w, it) \/ MarkFailureThrows(w, it)
  PROVE  [Delivery!DeliveryNext]_(Delivery!deliveryVars)
<1>0. OutboxTypeOK /\ WorkerSound(w) /\ it.env \in Envelope /\ it.attempts \in Nat
  BY ItemTyped DEF OutboxInv
<1>1. row[it.env] \in Row
  BY <1>0 DEF OutboxTypeOK
<1>2. CASE PublishRow(w, it)
  <2>1. row[it.env].seq # 0
    BY <1>0 DEF OutboxTypeOK, WorkerSound
  <2>2. Delivery!Publish(it.env)
    BY <1>0, <1>2, <2>1 DEF PublishRow, Delivery!Publish, Delivery!Recorded
  <2>3. QED BY <1>0, <2>2 DEF Delivery!DeliveryNext
<1>3. CASE MarkDelivered(w, it)
  <2> DEFINE new == [row[it.env] EXCEPT !.status = "delivered", !.lock = "none"]
  <2>1. new.status = "delivered" /\ new.seq = row[it.env].seq
    BY <1>1 DEF Row
  <2>2. (row' = row \/ (OneRow(it.env, new) /\ Stored(it.env))) /\ last' = last /\ sent' = sent
    BY <1>3 DEF MarkDelivered, Mark, OneRow
  <2> HIDE DEF new
  <2>3. QED BY <1>0, <2>1, <2>2, SameRowsView, ViewOfOneRow DEF Stored
<1>4. CASE MarkFailure(w, it)
  <2> DEFINE new == FailedRow(it.env, it.attempts)
  <2>1. new.status \in {"failed", "retrying"} /\ new.seq = row[it.env].seq
    BY <1>0, FailedRowTyped
  <2>2. (row' = row \/ (OneRow(it.env, new) /\ Stored(it.env))) /\ last' = last /\ sent' = sent
    BY <1>4 DEF MarkFailure, Mark, OneRow
  <2> HIDE DEF new
  <2>3. QED BY <1>0, <2>1, <2>2, SameRowsView, ViewOfOneRow DEF Stored
<1>5. CASE PublishThrows(w, it) \/ MarkDeliveredThrows(w, it) \/ MarkFailureThrows(w, it)
  BY <1>5, SameRowsView DEF PublishThrows, MarkDeliveredThrows, MarkFailureThrows
<1>6. QED BY <1>2, <1>3, <1>4, <1>5

LEMMA PollView ==
  ASSUME OutboxTypeOK, NEW p \in Poller, Poll(p)
  PROVE  [Delivery!DeliveryNext]_(Delivery!deliveryVars)
<1>1. last' = last /\ sent' = sent
  BY DEF Poll
<1>2. ASSUME NEW e \in Envelope
      PROVE  row'[e].seq = row[e].seq /\ row'[e].status = row[e].status
  <2>1. row'[e] = IF e \in Batch THEN [row[e] EXCEPT !.lock = "held"] ELSE row[e]
    BY DEF Poll
  <2>2. row[e] \in Row
    BY DEF OutboxTypeOK
  <2>3. QED BY <2>1, <2>2 DEF Row
<1>3. QED BY <1>1, <1>2, ViewKept DEF SeqView, DroppedView, CleanedView

LEMMA RowChangeView ==
  ASSUME OutboxInv, NEW e \in Envelope,
         RetryOutbox(e) \/ DeleteDelivered(e) \/ LockGoesStale(e) \/ DelayElapses(e)
  PROVE  [Delivery!DeliveryNext]_(Delivery!deliveryVars)
<1>0. OutboxTypeOK /\ PublishedRows /\ row[e] \in Row /\ (row[e].lock # "none" => Open(e))
  BY DEF OutboxInv, OutboxTypeOK
<1>1. last' = last /\ sent' = sent
  BY DEF RetryOutbox, DeleteDelivered, LockGoesStale, DelayElapses
<1>2. CASE RetryOutbox(e)
  <2>1. OneRow(e, RequeuedRow(row[e])) /\ Stored(e)
    BY <1>1, <1>2 DEF OneRow, RetryOutbox
  <2>2. QED BY <1>0, <1>1, <2>1, RequeuedRowTyped, ViewOfOneRow DEF Stored
<1>3. CASE DeleteDelivered(e)
  <2> DEFINE new == [row[e] EXCEPT !.status = "deleted"]
  <2>1. OneRow(e, new) /\ row[e].status = "delivered" /\ e \in sent
    BY <1>0, <1>1, <1>3 DEF OneRow, DeleteDelivered, PublishedRows
  <2>2. new.seq = row[e].seq /\ new.status = "deleted"
    BY <1>0 DEF Row
  <2> HIDE DEF new
  <2>3. QED BY <1>0, <1>1, <2>1, <2>2, ViewOfOneRow
<1>4. CASE LockGoesStale(e) \/ DelayElapses(e)
  <2> DEFINE stale == [row[e] EXCEPT !.lock = "stale"]
             due == [row[e] EXCEPT !.ready = TRUE]
  <2>1. (OneRow(e, stale) \/ OneRow(e, due)) /\ Open(e)
    BY <1>0, <1>1, <1>4 DEF OneRow, LockGoesStale, DelayElapses
  <2>2. stale.seq = row[e].seq /\ due.seq = row[e].seq
        /\ stale.status = row[e].status /\ due.status = row[e].status
    BY <1>0 DEF Row
  <2> HIDE DEF stale, due
  <2>3. QED BY <1>0, <1>1, <2>1, <2>2, ViewOfOneRow DEF Open
<1>5. QED BY <1>2, <1>3, <1>4

LEMMA ViewStep ==
  ASSUME OutboxInv, [Next]_vars
  PROVE  [Delivery!DeliveryNext]_(Delivery!deliveryVars)
<1>0. OutboxTypeOK
  BY DEF OutboxInv
<1>1. CASE \E e \in Envelope : PublishCall(e) \/ CommitRow(e) \/ DeliverCall(e)
  BY <1>0, <1>1, RecordedStep, RecordedView, SameRowsView DEF PublishCall, CommitRow, DeliverCall
<1>2. CASE ChainStep
  BY <1>0, <1>2, RecordedStep, RecordedView, SameRowsView
     DEF ChainStep, ChainRecord, ChainRepeat, ChainRefused, ChainDeliver
<1>3. CASE \E p \in Poller : Poll(p)
  BY <1>0, <1>3, PollView
<1>4. CASE \E w \in Worker : DispatchStep(w)
  BY <1>4, WorkerView DEF DispatchStep
<1>5. CASE \E e \in Envelope : RetryOutbox(e) \/ DeleteDelivered(e) \/ LockGoesStale(e) \/ DelayElapses(e)
  BY <1>5, RowChangeView
<1>6. CASE Crash \/ UNCHANGED vars
  BY <1>6, SameRowsView DEF Crash, vars
<1>7. QED BY <1>1, <1>2, <1>3, <1>4, <1>5, <1>6 DEF Next

\* The outbox with its workers implements the safety part of the abstract delivery:
\* consecutive numbers never used twice, no row deleted before it was published.
THEOREM OutboxDelivers == Spec => DeliverySafe
<1>1. Init => Delivery!DeliveryInit
  BY DEF Init, Delivery!DeliveryInit
<1>2. OutboxInv /\ [Next]_vars => [Delivery!DeliveryNext]_(Delivery!deliveryVars)
  BY ViewStep
<1>3. QED BY <1>1, <1>2, OutboxInvariant, PTL DEF Spec, DeliverySafe, Delivery!DeliverySafe
=============================================================================
