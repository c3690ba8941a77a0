----------------------------- MODULE EventOutbox -----------------------------
(***************************************************************************)
(* The durable outbox of one session: the rows of event_outbox, the        *)
(* dispatcher that polls them, and the publisher that chains the events of *)
(* the session and dispatches each row as soon as it has recorded it.      *)
(*                                                                         *)
(* A worker holds a batch of row snapshots and goes through them in the    *)
(* order of their ids: publish, then mark the row.  Nothing but the marks  *)
(* and the lock's age (a time, without an owner) keeps workers apart, and  *)
(* the marks name only the row.  Polls start every 500 ms whether or not   *)
(* the last one has ended, so there are several pollers; they also stand   *)
(* for the polls of several processes.                                     *)
(*                                                                         *)
(* The comparisons with `now' are the booleans ready and stale, which may  *)
(* turn true at any moment.  In one session the order of ids is that of    *)
(* sequence numbers: both are assigned by the inserting transaction.       *)
(***************************************************************************)
EXTENDS Integers, Sequences, FiniteSets

CONSTANTS
  Envelope,     \* event ids
  Poller,       \* polls of the dispatcher that may overlap
  Chain,        \* the worker of the publisher's promise chain (sessionTails)
  ActiveRun,    \* the envelopes of a run tree that stays active: their rows are kept
  MaxAttempts,  \* OutboxDispatcher.maxAttempts (5 in the code)
  Limit,        \* rows per poll (100 in the code)
  MaxQueue,     \* bound: operations waiting on the chain
  MaxFaults,    \* bound: failures of a publication, a mark or a record
  MaxRetries,   \* bound: retries by an administrator
  MaxCrashes    \* bound: crashes

ASSUME OutboxConstants ==
  /\ Chain \notin Poller
  /\ ActiveRun \subseteq Envelope
  /\ IsFiniteSet(Envelope)
  /\ MaxAttempts \in Nat \ {0}
  /\ Limit \in Nat \ {0}
  /\ MaxQueue \in Nat /\ MaxFaults \in Nat
  /\ MaxRetries \in Nat /\ MaxCrashes \in Nat

VARIABLES
  row,        \* [Envelope -> Row]: the table event_outbox
  last,       \* session_event_seq.last_seq
  work,       \* [Worker -> snapshots of the rows it has still to dispatch]
  stage,      \* [Worker -> where it stands with the first of them]
  chain,      \* the operations queued on the chain
  committed,  \* rows committed by transactions that have not called deliver yet
  sent,       \* history: envelopes published at least once
  chained,    \* history: envelopes the chain has recorded since the last crash
  faulty,     \* history: envelopes of which a publication or a mark has failed
  faults, retries, crashes

vars == <<row, last, work, stage, chain, committed, sent, chained, faulty, faults, retries, crashes>>

Worker == Poller \cup {Chain}

\* A deleted row keeps its number here so that its reuse would be seen.
Row == [status   : {"absent", "pending", "retrying", "delivered", "failed", "deleted"},
        seq      : Nat,
        attempts : Nat,
        ready    : BOOLEAN,                  \* available_at <= now
        lock     : {"none", "held", "stale"}] \* locked_at against the lock timeout

Snapshot == [env : Envelope, attempts : Nat]

Operation == [kind : {"publish", "deliver"}, env : Envelope]

Stored(e) == row[e].status \notin {"absent", "deleted"}
Open(e) == row[e].status \in {"pending", "retrying"}

-----------------------------------------------------------------------------
(* appendOutboxInTransaction, idempotent by event id.                      *)

\* Mutants, here and below: the definition that follows, with a plausible bug.
NextSeqOfRows ==
  LET used == {0} \cup {row[e].seq : e \in {d \in Envelope : Stored(d)}}
  IN 1 + CHOOSE n \in used : \A k \in used : k <= n

\* nextSessionSeqInTransaction: the counter survives the deletion of rows.
NextSeq == last + 1

NewRow == [status |-> "pending", seq |-> NextSeq, attempts |-> 0,
           ready |-> TRUE, lock |-> "none"]

Append1(e) ==
  /\ row[e].status = "absent"
  /\ row' = [row EXCEPT ![e] = NewRow]
  /\ last' = NextSeq

SnapshotOf(e) == [env |-> e, attempts |-> row[e].attempts]

-----------------------------------------------------------------------------
(* Producers.                                                              *)

Enqueue(op) ==
  /\ Len(chain) < MaxQueue
  /\ chain' = Append(chain, op)

\* publish: first or again with the same stable event id.
PublishCall(e) ==
  /\ Enqueue([kind |-> "publish", env |-> e])
  /\ UNCHANGED <<row, last, work, stage, committed, sent, chained, faulty, faults, retries, crashes>>

\* A storage transaction that records an envelope beside what it is about.
\* (One with several envelopes is several of these here.)
CommitRow(e) ==
  /\ Append1(e)
  /\ committed' = committed \cup {e}
  /\ UNCHANGED <<work, stage, chain, sent, chained, faulty, faults, retries, crashes>>

\* The caller of the transaction goes on; a caller that only records never does.
DeliverCall(e) ==
  /\ e \in committed
  /\ Enqueue([kind |-> "deliver", env |-> e])
  /\ committed' = committed \ {e}
  /\ UNCHANGED <<row, last, work, stage, sent, chained, faulty, faults, retries, crashes>>

-----------------------------------------------------------------------------
(* The promise chain: one operation at a time.  A publication records its  *)
(* row first; a row it finds again is dispatched if it is still pending.   *)

ChainIdle == work[Chain] = {}

Dispatch(items) ==
  /\ work' = [work EXCEPT ![Chain] = items]
  /\ stage' = [stage EXCEPT ![Chain] = "publish"]

\* Mutant: operations that do not wait for the one before.
NextOperationUnchained(kind, e) ==
  /\ chain # <<>>
  /\ Head(chain) = [kind |-> kind, env |-> e]
  /\ chain' = Tail(chain)

NextOperation(kind, e) ==
  /\ ChainIdle
  /\ chain # <<>>
  /\ Head(chain) = [kind |-> kind, env |-> e]
  /\ chain' = Tail(chain)

ChainRecord(e) ==
  /\ NextOperation("publish", e)
  /\ Append1(e)
  /\ Dispatch({[env |-> e, attempts |-> 0]})
  /\ chained' = chained \cup {e}
  /\ UNCHANGED <<committed, sent, faulty, faults, retries, crashes>>

ChainRepeat(e) ==
  /\ NextOperation("publish", e)
  /\ row[e].status # "absent"
  /\ Dispatch(IF row[e].status = "pending" THEN {SnapshotOf(e)} ELSE {})
  /\ UNCHANGED <<row, last, committed, sent, chained, faulty, faults, retries, crashes>>

\* recordEnvelope throws: the lease of the run is lost, or the store fails.
ChainRefused(e) ==
  /\ NextOperation("publish", e)
  /\ faults < MaxFaults
  /\ faults' = faults + 1
  /\ UNCHANGED <<row, last, work, stage, committed, sent, chained, faulty, retries, crashes>>

\* deliver holds the row as its transaction returned it: pending, never tried.
ChainDeliver(e) ==
  /\ NextOperation("deliver", e)
  /\ Dispatch({[env |-> e, attempts |-> 0]})
  /\ UNCHANGED <<row, last, committed, sent, chained, faulty, faults, retries, crashes>>

-----------------------------------------------------------------------------
(* pollOnce: claim the first rows that are due and not locked.             *)

\* Mutant: a lock that never expires.
ClaimableUnlocked(e) == Open(e) /\ row[e].ready /\ row[e].lock = "none"

Claimable(e) == Open(e) /\ row[e].ready /\ row[e].lock # "held"

Batch ==
  {e \in Envelope : /\ Claimable(e)
                    /\ Cardinality({d \in Envelope : Claimable(d) /\ row[d].seq < row[e].seq}) < Limit}

Poll(p) ==
  /\ work[p] = {}
  /\ Batch # {}
  /\ row' = [e \in Envelope |-> IF e \in Batch THEN [row[e] EXCEPT !.lock = "held"] ELSE row[e]]
  /\ work' = [work EXCEPT ![p] = {SnapshotOf(e) : e \in Batch}]
  /\ UNCHANGED <<last, stage, chain, committed, sent, chained, faulty, faults, retries, crashes>>

-----------------------------------------------------------------------------
(* dispatchRows: one row after the other, in the order of ids.             *)

Current(w, it) ==
  /\ it \in work[w]
  /\ \A other \in work[w] : row[it.env].seq <= row[other.env].seq

At(w, s) == stage' = [stage EXCEPT ![w] = s]

Fault == faults < MaxFaults /\ faults' = faults + 1

Done(w, it) ==
  /\ work' = [work EXCEPT ![w] = @ \ {it}]
  /\ At(w, "publish")

PublishRow(w, it) ==
  /\ Current(w, it) /\ stage[w] = "publish"
  /\ sent' = sent \cup {it.env}
  /\ At(w, "mark")
  /\ UNCHANGED <<row, last, work, chain, committed, chained, faulty, faults, retries, crashes>>

\* The projector meets an invalid payload, or the publication fails.
PublishThrows(w, it) ==
  /\ Current(w, it) /\ stage[w] = "publish"
  /\ Fault
  /\ faulty' = faulty \cup {it.env}
  /\ At(w, "fail")
  /\ UNCHANGED <<row, last, work, chain, committed, sent, chained, retries, crashes>>

\* UPDATE ... WHERE id=?: whatever the row has become, unless it is deleted.
Mark(e, new) == row' = IF Stored(e) THEN [row EXCEPT ![e] = new] ELSE row

\* Mutant: the row is marked before it is published.
MarkDeliveredFirst(w, it) ==
  /\ Current(w, it) /\ stage[w] = "publish"
  /\ Mark(it.env, [row[it.env] EXCEPT !.status = "delivered", !.lock = "none"])
  /\ Done(w, it)
  /\ UNCHANGED <<last, chain, committed, sent, chained, faulty, faults, retries, crashes>>

MarkDelivered(w, it) ==
  /\ Current(w, it) /\ stage[w] = "mark"
  /\ Mark(it.env, [row[it.env] EXCEPT !.status = "delivered", !.lock = "none"])
  /\ Done(w, it)
  /\ UNCHANGED <<last, chain, committed, sent, chained, faulty, faults, retries, crashes>>

MarkDeliveredThrows(w, it) ==
  /\ Current(w, it) /\ stage[w] = "mark"
  /\ Fault
  /\ faulty' = faulty \cup {it.env}
  /\ At(w, "fail")
  /\ UNCHANGED <<row, last, work, chain, committed, sent, chained, retries, crashes>>

\* The decision is made on the attempts of the snapshot, the row counts its own.
FailedRow(e, attempts) ==
  [row[e] EXCEPT !.status = IF attempts + 1 >= MaxAttempts THEN "failed" ELSE "retrying",
                 !.attempts = @ + 1,
                 !.ready = IF attempts + 1 >= MaxAttempts THEN @ ELSE FALSE,
                 !.lock = "none"]

MarkFailure(w, it) ==
  /\ Current(w, it) /\ stage[w] = "fail"
  /\ Mark(it.env, FailedRow(it.env, it.attempts))
  /\ Done(w, it)
  /\ UNCHANGED <<last, chain, committed, sent, chained, faulty, faults, retries, crashes>>

\* The catch block throws: the rest of the batch is left with its locks.
MarkFailureThrows(w, it) ==
  /\ Current(w, it) /\ stage[w] = "fail"
  /\ Fault
  /\ work' = [work EXCEPT ![w] = {}]
  /\ At(w, "publish")
  /\ UNCHANGED <<row, last, chain, committed, sent, chained, faulty, retries, crashes>>

DispatchStep(w) == \E it \in work[w] :
  \/ PublishRow(w, it) \/ PublishThrows(w, it)
  \/ MarkDelivered(w, it) \/ MarkDeliveredThrows(w, it)
  \/ MarkFailure(w, it) \/ MarkFailureThrows(w, it)

-----------------------------------------------------------------------------
(* An administrator (retryOutbox, retryOutboxBatch with any statuses), the *)
(* collection of delivered rows, the clock, and crashes.                   *)

\* Mutant: a retry that starts to count again.
RequeuedRowAfresh(r) ==
  [r EXCEPT !.status = "pending", !.ready = TRUE, !.lock = "none", !.attempts = 0]

RequeuedRow(r) == [r EXCEPT !.status = "pending", !.ready = TRUE, !.lock = "none"]

RetryOutbox(e) ==
  /\ Stored(e)
  /\ retries < MaxRetries
  /\ retries' = retries + 1
  /\ row' = [row EXCEPT ![e] = RequeuedRow(@)]
  /\ UNCHANGED <<last, work, stage, chain, committed, sent, chained, faulty, faults, crashes>>

DeleteDelivered(e) ==
  /\ row[e].status = "delivered"
  /\ e \notin ActiveRun
  /\ row' = [row EXCEPT ![e].status = "deleted"]
  /\ UNCHANGED <<last, work, stage, chain, committed, sent, chained, faulty, faults, retries, crashes>>

LockGoesStale(e) ==
  /\ row[e].lock = "held"
  /\ row' = [row EXCEPT ![e].lock = "stale"]
  /\ UNCHANGED <<last, work, stage, chain, committed, sent, chained, faulty, faults, retries, crashes>>

DelayElapses(e) ==
  /\ Open(e) /\ ~row[e].ready
  /\ row' = [row EXCEPT ![e].ready = TRUE]
  /\ UNCHANGED <<last, work, stage, chain, committed, sent, chained, faulty, faults, retries, crashes>>

Crash ==
  /\ crashes < MaxCrashes
  /\ crashes' = crashes + 1
  /\ work' = [w \in Worker |-> {}]
  /\ stage' = [w \in Worker |-> "publish"]
  /\ chain' = <<>>
  /\ committed' = {}
  /\ chained' = {}
  /\ UNCHANGED <<row, last, sent, faulty, faults, retries>>

-----------------------------------------------------------------------------
Init ==
  /\ row = [e \in Envelope |-> [status |-> "absent", seq |-> 0, attempts |-> 0,
                                ready |-> TRUE, lock |-> "none"]]
  /\ last = 0
  /\ work = [w \in Worker |-> {}]
  /\ stage = [w \in Worker |-> "publish"]
  /\ chain = <<>>
  /\ committed = {}
  /\ sent = {} /\ chained = {} /\ faulty = {}
  /\ faults = 0 /\ retries = 0 /\ crashes = 0

ChainStep == \E e \in Envelope :
  ChainRecord(e) \/ ChainRepeat(e) \/ ChainRefused(e) \/ ChainDeliver(e)

Next ==
  \/ \E e \in Envelope : PublishCall(e) \/ CommitRow(e) \/ DeliverCall(e)
  \/ ChainStep
  \/ \E p \in Poller : Poll(p)
  \/ \E w \in Worker : DispatchStep(w)
  \/ \E e \in Envelope : RetryOutbox(e) \/ DeleteDelivered(e) \/ LockGoesStale(e) \/ DelayElapses(e)
  \/ Crash

\* Promises are settled, the timer goes on firing, and time passes.
Fairness ==
  /\ WF_vars(ChainStep)
  /\ WF_vars(\E p \in Poller : Poll(p))
  /\ \A w \in Worker : WF_vars(DispatchStep(w))
  /\ \A e \in Envelope : WF_vars(LockGoesStale(e)) /\ WF_vars(DelayElapses(e))

Spec == Init /\ [][Next]_vars

FairSpec == Spec /\ Fairness

-----------------------------------------------------------------------------
(* Properties.                                                             *)

\* Types; a row has a number up to the counter from the moment it is recorded; only
\* a row that is still to be published is locked; deliver is called for rows only.
OutboxTypeOK ==
  /\ row \in [Envelope -> Row]
  /\ last \in Nat
  /\ work \in [Worker -> SUBSET Snapshot]
  /\ stage \in [Worker -> {"publish", "mark", "fail"}]
  /\ chain \in Seq(Operation)
  /\ committed \subseteq Envelope
  /\ sent \subseteq Envelope /\ chained \subseteq Envelope /\ faulty \subseteq Envelope
  /\ faults \in Nat /\ retries \in Nat /\ crashes \in Nat
  /\ \A e \in Envelope : row[e].seq <= last /\ (row[e].status = "absent" <=> row[e].seq = 0)
  /\ \A e \in Envelope : row[e].lock # "none" => Open(e)
  /\ \A e \in committed : row[e].status # "absent"

\* A row is given up only after MaxAttempts failures of its own, however many
\* workers with old snapshots and however many retries by hand it has met.
GivenUpLate == \A e \in Envelope :
  row[e].status = "failed" => row[e].attempts >= MaxAttempts

\* What the chain records is published in the order in which it was recorded,
\* also against the pollers: an envelope is overtaken by a later one of the chain
\* only after a failure of its own (or when a crash has cut the chain).
ChainInOrder == \A d, e \in chained :
  row[d].seq < row[e].seq /\ e \in sent => d \in sent \cup faulty

\* Every step of the outbox is a step of the abstract delivery: numbers are
\* consecutive and never reused, a row is deleted only after it was published,
\* and a recorded envelope is published or given up in the end.
Delivery == INSTANCE EnvelopeDelivery WITH
  seq     <- [e \in Envelope |-> row[e].seq],
  dropped <- {e \in Envelope : row[e].status = "failed"},
  cleaned <- {e \in Envelope : row[e].status = "deleted"}

DeliveryRefined == Delivery!DeliverySpec

\* The same without its liveness, for the instances with overlapping polls.
DeliverySafe == Delivery!DeliverySafe
=============================================================================
