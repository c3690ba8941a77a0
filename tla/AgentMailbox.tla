---------------------------- MODULE AgentMailbox ----------------------------
(***************************************************************************)
(* The durable agent mailbox of one session: the rows of the SQLite table  *)
(* agent_mailbox and the operations of AgentMailboxOps, each of which is   *)
(* one transaction.  A row is enqueued, claimed under a lease by a         *)
(* consumer, and then acknowledged by the holder of the claim, settled by  *)
(* a storage transaction that has consumed it, released back to the queue, *)
(* or expired (past its deadline, or dead-lettered).                       *)
(*                                                                         *)
(* Time is abstracted to the comparisons the code makes with `now': the    *)
(* lease of a claim has lapsed or not, available_at is reached or not,     *)
(* expires_at is reached or not.  LeaseLapses, BackoffElapses and          *)
(* DeadlinePasses let each of them happen at any moment, so every relative *)
(* length of the leases, the backoffs and the deadlines is covered.        *)
(***************************************************************************)
EXTENDS Integers, FiniteSets

CONSTANTS
  Msg,          \* message ids (deterministic, unique in the session)
  Thread,       \* target thread keys: the root branch and the child branches
  ClaimId,      \* ids of claims (random UUIDs in the code)
  NoClaim,      \* claim_id IS NULL
  SentTime,     \* the values of sent_at (created_at when that is NULL)
  MaxAttempts,  \* AGENT_MAILBOX_MAX_DELIVERY_ATTEMPTS (20 in the code)
  MaxLimit      \* the largest batch a claim may take (100 in the code)

ASSUME MailboxConstants ==
  /\ NoClaim \notin ClaimId
  /\ MaxAttempts \in Nat \ {0}
  /\ MaxLimit \in Nat \ {0}
  /\ IsFiniteSet(Msg)
  /\ Thread # {}
  /\ SentTime \subseteq Nat

VARIABLES
  mailbox,   \* [Msg -> Row]: the table, "absent" for an id never enqueued
  nextSeq    \* the AUTOINCREMENT counter of agent_mailbox.seq

mailboxVars == <<mailbox, nextSeq>>

Status == {"absent", "queued", "claimed", "acked", "expired"}

Row == [status   : Status,
        thread   : Thread,
        seq      : Nat,
        sent     : Nat,
        claim    : ClaimId \cup {NoClaim},
        lapsed   : BOOLEAN,                 \* claim_expires_at <= now
        attempts : Nat,                     \* attempt_count
        ready    : BOOLEAN,                 \* available_at <= now
        deadline : {"none", "ahead", "past"}]  \* expires_at against now

Pending(m) == mailbox[m].status \in {"queued", "claimed"}
Terminal(m) == mailbox[m].status \in {"acked", "expired"}

-----------------------------------------------------------------------------
(* The UPDATE statements the operations are made of, on one row.           *)

ClearClaim(row) == [row EXCEPT !.claim = NoClaim, !.lapsed = FALSE]

\* Expiry of a row whose deadline has passed; first statement of every claim.
ExpireRow(row) ==
  IF row.status \in {"queued", "claimed"} /\ row.deadline = "past"
  THEN [ClearClaim(row) EXCEPT !.status = "expired"]
  ELSE row

RequeueRowNever(row) == row
\* Mutants, here and below: the definition that follows, with a plausible bug.
RequeueRowAnyLease(row) ==
  IF row.status = "claimed" THEN [ClearClaim(row) EXCEPT !.status = "queued"] ELSE row

\* A claimed row whose lease has lapsed goes back to the queue.
RequeueRow(row) ==
  IF row.status = "claimed" /\ row.lapsed
  THEN [ClearClaim(row) EXCEPT !.status = "queued"]
  ELSE row

DeadLetterRowLate(row) ==
  IF row.status = "queued" /\ row.attempts > MaxAttempts
  THEN [ClearClaim(row) EXCEPT !.status = "expired"]
  ELSE row

\* A queued row that has used up its delivery attempts becomes a dead letter.
DeadLetterRow(row) ==
  IF row.status = "queued" /\ row.attempts >= MaxAttempts
  THEN [ClearClaim(row) EXCEPT !.status = "expired"]
  ELSE row

\* The housekeeping listPending runs before it reads, and claim before it takes.
ListSweep == [m \in Msg |-> RequeueRow(ExpireRow(mailbox[m]))]
ClaimSweep == [m \in Msg |-> DeadLetterRow(RequeueRow(ExpireRow(mailbox[m])))]

ClaimRow(row, c) ==
  [row EXCEPT !.status = "claimed", !.claim = c, !.lapsed = FALSE,
              !.attempts = @ + 1]

\* The rows of table box that a claim for branch t may take ...
Claimable(box, t) ==
  {m \in Msg : /\ box[m].status = "queued"
               /\ box[m].thread = t
               /\ box[m].ready
               /\ box[m].deadline # "past"}

\* Rows are taken by the time they were sent, and among equals by number.
Before(box, k, m) ==
  \/ box[k].sent < box[m].sent
  \/ box[k].sent = box[m].sent /\ box[k].seq < box[m].seq

\* ... and the first `limit' of them.
Batch(box, t, limit) ==
  {m \in Claimable(box, t) :
     Cardinality({k \in Claimable(box, t) : Before(box, k, m)}) < limit}

\* Rows that already carry claim c, which a repeated claim returns unchanged.
Held(box, c) == {m \in Msg : box[m].status = "claimed" /\ box[m].claim = c}

\* The table after claimSync(t, c, limit).
AfterClaim(t, c, limit) ==
  IF Held(ClaimSweep, c) # {}
  THEN ClaimSweep
  ELSE [m \in Msg |-> IF m \in Batch(ClaimSweep, t, limit)
                      THEN ClaimRow(ClaimSweep[m], c)
                      ELSE ClaimSweep[m]]

\* The row after an UPDATE to 'acked'; settle does not ask for the claim.
AckedRow(row) == [ClearClaim(row) EXCEPT !.status = "acked"]
SettledRow(row) == IF row.status \in {"queued", "claimed"} THEN AckedRow(row) ELSE row

\* The row a first enqueue inserts (an id that exists is left as it is).
NewRow(t, ready, deadline, sent) ==
  [status |-> "queued", thread |-> t, seq |-> nextSeq, sent |-> sent, claim |-> NoClaim,
   lapsed |-> FALSE, attempts |-> 0, ready |-> ready, deadline |-> deadline]

ReleasedRow(row, ready) == [ClearClaim(row) EXCEPT !.status = "queued", !.ready = ready]

-----------------------------------------------------------------------------
(* The operations.                                                         *)

\* enqueueSync: idempotent for an id that is already there.
Enqueue(m, t, ready, deadline, sent) ==
  IF mailbox[m].status = "absent"
  THEN /\ mailbox' = [mailbox EXCEPT ![m] = NewRow(t, ready, deadline, sent)]
       /\ nextSeq' = nextSeq + 1
  ELSE UNCHANGED mailboxVars

\* The pair of calls a storage transaction makes when it starts from a message:
\* the row is inserted if it is new, and settled (startOrAppendRoot,
\* appendMailboxMessage).  A row that is new here is never queued, so its
\* sent_at takes part in no order.
EnqueueSettled(m, t) ==
  /\ mailbox' = [mailbox EXCEPT ![m] =
       SettledRow(IF @.status = "absent" THEN NewRow(t, TRUE, "none", 0) ELSE @)]
  /\ nextSeq' = IF mailbox[m].status = "absent" THEN nextSeq + 1 ELSE nextSeq

Claim(t, c, limit) ==
  /\ mailbox' = AfterClaim(t, c, limit)
  /\ UNCHANGED nextSeq

ListPending ==
  /\ mailbox' = ListSweep
  /\ UNCHANGED nextSeq

\* ackSync: only the holder of the claim acknowledges.
Ack(m, c) ==
  /\ mailbox[m].status = "claimed"
  /\ mailbox[m].claim = c
  /\ mailbox' = [mailbox EXCEPT ![m] = AckedRow(@)]
  /\ UNCHANGED nextSeq

Settle(m) ==
  /\ mailbox[m].status # "absent"
  /\ mailbox' = [mailbox EXCEPT ![m] = SettledRow(@)]
  /\ UNCHANGED nextSeq

\* releaseSync: the holder gives the row back, at once or after a backoff.
Release(m, c, ready) ==
  /\ mailbox[m].status = "claimed"
  /\ mailbox[m].claim = c
  /\ mailbox' = [mailbox EXCEPT ![m] = ReleasedRow(@, ready)]
  /\ UNCHANGED nextSeq

Expire ==
  /\ mailbox' = [m \in Msg |-> ExpireRow(mailbox[m])]
  /\ UNCHANGED nextSeq

-----------------------------------------------------------------------------
(* The clock passing one of the instants a row names.                      *)

LeaseLapses(m) ==
  /\ mailbox[m].status = "claimed" /\ ~mailbox[m].lapsed
  /\ mailbox' = [mailbox EXCEPT ![m].lapsed = TRUE]
  /\ UNCHANGED nextSeq

BackoffElapses(m) ==
  /\ Pending(m) /\ ~mailbox[m].ready
  /\ mailbox' = [mailbox EXCEPT ![m].ready = TRUE]
  /\ UNCHANGED nextSeq

DeadlinePasses(m) ==
  /\ Pending(m) /\ mailbox[m].deadline = "ahead"
  /\ mailbox' = [mailbox EXCEPT ![m].deadline = "past"]
  /\ UNCHANGED nextSeq

-----------------------------------------------------------------------------

AbsentRow ==
  [status |-> "absent", thread |-> CHOOSE t \in Thread : TRUE, seq |-> 0, sent |-> 0,
   claim |-> NoClaim, lapsed |-> FALSE, attempts |-> 0, ready |-> TRUE,
   deadline |-> "none"]

MailboxInit ==
  /\ mailbox = [m \in Msg |-> AbsentRow]
  /\ nextSeq = 1

(* Any caller, any argument: what the store promises without relying on    *)
(* the discipline of its consumers.                                        *)
MailboxNext ==
  \/ \E m \in Msg, t \in Thread, ready \in BOOLEAN, d \in {"none", "ahead"}, s \in SentTime :
       Enqueue(m, t, ready, d, s)
  \/ \E m \in Msg, t \in Thread : EnqueueSettled(m, t)
  \/ \E t \in Thread, c \in ClaimId, limit \in 1..MaxLimit : Claim(t, c, limit)
  \/ ListPending
  \/ \E m \in Msg, c \in ClaimId : Ack(m, c)
  \/ \E m \in Msg : Settle(m)
  \/ \E m \in Msg, c \in ClaimId, ready \in BOOLEAN : Release(m, c, ready)
  \/ Expire
  \/ \E m \in Msg : LeaseLapses(m) \/ BackoffElapses(m) \/ DeadlinePasses(m)

MailboxSpec == MailboxInit /\ [][MailboxNext]_mailboxVars

-----------------------------------------------------------------------------
(* Properties.                                                             *)

\* Every column holds a value of its domain.
MailboxTypeOK ==
  /\ mailbox \in [Msg -> Row]
  /\ nextSeq \in Nat \ {0}

\* Redelivery is bounded: no sequence of claims, releases, lapsed leases and
\* sweeps hands a row out more than MaxAttempts times (the dead-letter sweep
\* of claimSync runs before the row can be taken once more).
AttemptsBounded == \A m \in Msg : mailbox[m].attempts <= MaxAttempts

\* A claim is recorded exactly on the claimed rows, so no update leaves the
\* lease of a former holder on a row that is queued again or finished: that
\* holder's ack and release then match nothing.
ClaimIffClaimed ==
  \A m \in Msg : /\ mailbox[m].status = "claimed" <=> mailbox[m].claim # NoClaim
                 /\ mailbox[m].lapsed => mailbox[m].status = "claimed"

\* The rows one claim holds were taken together: they belong to one branch,
\* so a consumer of the root branch never processes a row addressed to a child.
OneBranchPerClaim ==
  \A m, k \in Msg : (mailbox[m].claim = mailbox[k].claim /\ mailbox[m].claim # NoClaim)
                      => mailbox[m].thread = mailbox[k].thread

\* Numbers identify rows and are below the counter: among rows sent at the same
\* time the order of the queue is total only because of that.
SeqUnique ==
  \A m \in Msg : mailbox[m].status # "absent" =>
     /\ mailbox[m].seq < nextSeq
     /\ \A k \in Msg : (mailbox[k].status # "absent" /\ mailbox[k].seq = mailbox[m].seq) => k = m

\* While a lease is running nobody else takes the row: the claim changes only
\* by finishing the row or by giving it back.
LeaseFences ==
  [][\A m \in Msg : (mailbox[m].status = "claimed" /\ ~mailbox[m].lapsed)
        => \/ mailbox'[m].claim = mailbox[m].claim
           \/ mailbox'[m].status # "claimed"]_mailboxVars

\* A row that was acknowledged or expired never comes back to life, whatever
\* late ack, release, settle or repeated enqueue arrives.
TerminalIsFinal ==
  [][\A m \in Msg : Terminal(m) => mailbox'[m].status = mailbox[m].status]_mailboxVars

\* The attempt counter of a row never goes down: neither a release nor a
\* lapsed lease forgets a delivery, or redelivery would not be bounded.
AttemptsNeverReset ==
  [][\A m \in Msg : mailbox[m].status # "absent"
        => mailbox'[m].attempts >= mailbox[m].attempts]_mailboxVars
=============================================================================
