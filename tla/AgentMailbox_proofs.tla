------------------------ MODULE AgentMailbox_proofs ------------------------
(***************************************************************************)
(* Theorems about the mailbox store, for any finite set of messages, any   *)
(* set of branches and claim ids, and any bound on attempts and batches.   *)
(*                                                                         *)
(* MailboxInv is inductive as it stands.  Its conjunct OneBranchPerClaim   *)
(* needs the rule that a repeated claim returns the rows it already holds  *)
(* and takes no new ones; ClaimIffClaimed is what makes that rule cover    *)
(* every row that names the claim.                                         *)
(***************************************************************************)
EXTENDS AgentMailbox, TLAPS

MailboxInv ==
  /\ MailboxTypeOK
  /\ AttemptsBounded
  /\ ClaimIffClaimed
  /\ OneBranchPerClaim
  /\ SeqUnique

USE MailboxConstants

(* What the sweeps do to one row of the table.                             *)

\* The invariant, as it reads on a single row.
GoodRow(row) ==
  /\ row \in Row
  /\ row.attempts <= MaxAttempts
  /\ row.status = "claimed" <=> row.claim # NoClaim
  /\ row.lapsed => row.status = "claimed"

\* A sweep keeps a row's branch, number and attempts, never changes a finished
\* row, never names a new claim, and keeps a claim whose lease is running
\* unless it expires the row.
Swept(row, s) ==
  /\ GoodRow(s)
  /\ s.status = "absent" <=> row.status = "absent"
  /\ s.thread = row.thread
  /\ s.seq = row.seq
  /\ s.attempts = row.attempts
  /\ s.claim # NoClaim => s.claim = row.claim
  /\ row.status \in {"acked", "expired"} => s.status = row.status
  /\ row.status = "claimed" /\ ~row.lapsed =>
       \/ s.status = "expired"
       \/ s.status = "claimed" /\ s.claim = row.claim /\ ~s.lapsed

LEMMA SweptTransitive ==
  ASSUME NEW a, NEW b, NEW c, Swept(a, b), Swept(b, c)
  PROVE  Swept(a, c)
  BY DEF Swept, GoodRow

LEMMA ExpireSweeps ==
  ASSUME NEW row, GoodRow(row)
  PROVE  Swept(row, ExpireRow(row))
<1>1. CASE row.status \in {"queued", "claimed"} /\ row.deadline = "past"
  <2>1. ExpireRow(row) = [row EXCEPT !.claim = NoClaim, !.lapsed = FALSE, !.status = "expired"]
    BY <1>1 DEF ExpireRow, ClearClaim, GoodRow, Row
  <2>2. QED BY <1>1, <2>1 DEF Swept, GoodRow, Row, Status
<1>2. CASE ~(row.status \in {"queued", "claimed"} /\ row.deadline = "past")
  <2>1. ExpireRow(row) = row
    BY <1>2 DEF ExpireRow
  <2>2. QED BY <2>1 DEF Swept, GoodRow
<1>3. QED BY <1>1, <1>2

LEMMA RequeueSweeps ==
  ASSUME NEW row, GoodRow(row)
  PROVE  Swept(row, RequeueRow(row))
<1>1. CASE row.status = "claimed" /\ row.lapsed
  <2>1. RequeueRow(row) = [row EXCEPT !.claim = NoClaim, !.lapsed = FALSE, !.status = "queued"]
    BY <1>1 DEF RequeueRow, ClearClaim, GoodRow, Row
  <2>2. QED BY <1>1, <2>1 DEF Swept, GoodRow, Row, Status
<1>2. CASE ~(row.status = "claimed" /\ row.lapsed)
  <2>1. RequeueRow(row) = row
    BY <1>2 DEF RequeueRow
  <2>2. QED BY <2>1 DEF Swept, GoodRow
<1>3. QED BY <1>1, <1>2

LEMMA DeadLetterSweeps ==
  ASSUME NEW row, GoodRow(row)
  PROVE  /\ Swept(row, DeadLetterRow(row))
         /\ DeadLetterRow(row).status = "queued" => DeadLetterRow(row).attempts < MaxAttempts
<1>1. CASE row.status = "queued" /\ row.attempts >= MaxAttempts
  <2>1. DeadLetterRow(row) = [row EXCEPT !.claim = NoClaim, !.lapsed = FALSE, !.status = "expired"]
    BY <1>1 DEF DeadLetterRow, ClearClaim, GoodRow, Row
  <2>2. QED BY <1>1, <2>1 DEF Swept, GoodRow, Row, Status
<1>2. CASE ~(row.status = "queued" /\ row.attempts >= MaxAttempts)
  <2>1. DeadLetterRow(row) = row
    BY <1>2 DEF DeadLetterRow
  <2>2. QED BY <1>2, <2>1 DEF Swept, GoodRow, Row
<1>3. QED BY <1>1, <1>2

-----------------------------------------------------------------------------
(* The same for the whole table.                                           *)

\* The invariant, row by row and between rows.
LEMMA InvByRows ==
  MailboxInv <=> /\ mailbox = [m \in Msg |-> mailbox[m]]
                 /\ nextSeq \in Nat \ {0}
                 /\ \A m \in Msg : GoodRow(mailbox[m])
                 /\ OneBranchPerClaim
                 /\ SeqUnique
  BY DEF MailboxInv, MailboxTypeOK, AttemptsBounded, ClaimIffClaimed, GoodRow

\* A table whose every row is a sweep of the old row satisfies the invariant.
LEMMA SweptTable ==
  ASSUME MailboxInv, NEW box, box = [m \in Msg |-> box[m]],
         \A m \in Msg : Swept(mailbox[m], box[m]),
         mailbox' = box, nextSeq' = nextSeq
  PROVE  /\ MailboxInv'
         /\ \A m \in Msg : mailbox'[m].attempts = mailbox[m].attempts
<1>1. \A m \in Msg : GoodRow(mailbox'[m])
  BY DEF Swept
<1>2. OneBranchPerClaim'
  <2> SUFFICES ASSUME NEW m \in Msg, NEW k \in Msg,
                      mailbox'[m].claim = mailbox'[k].claim, mailbox'[m].claim # NoClaim
               PROVE  mailbox'[m].thread = mailbox'[k].thread
    BY DEF OneBranchPerClaim
  <2>1. /\ mailbox[m].claim = mailbox'[m].claim /\ mailbox[m].thread = mailbox'[m].thread
        /\ mailbox[k].claim = mailbox'[k].claim /\ mailbox[k].thread = mailbox'[k].thread
    BY DEF Swept
  <2>2. QED BY <2>1 DEF MailboxInv, OneBranchPerClaim
<1>3. SeqUnique'
  <2>1. \A m \in Msg : /\ mailbox'[m].seq = mailbox[m].seq
                       /\ mailbox'[m].status = "absent" <=> mailbox[m].status = "absent"
    BY DEF Swept
  <2>2. QED BY <2>1 DEF MailboxInv, SeqUnique
<1>4. QED
  <2>1. mailbox' = [m \in Msg |-> mailbox'[m]]
    OBVIOUS
  <2>2. (nextSeq \in Nat \ {0})'
    BY DEF MailboxInv, MailboxTypeOK
  <2>3. MailboxTypeOK' /\ AttemptsBounded' /\ ClaimIffClaimed'
    BY <1>1, <2>1, <2>2 DEF MailboxTypeOK, AttemptsBounded, ClaimIffClaimed, GoodRow
  <2>4. \A m \in Msg : mailbox'[m].attempts = mailbox[m].attempts
    BY DEF Swept
  <2>5. QED BY <1>2, <1>3, <2>3, <2>4 DEF MailboxInv

\* Replacing one row by a good row of the same branch and number, whose claim
\* is the old one or none, keeps the invariant.
LEMMA OneRowChanged ==
  ASSUME MailboxInv, NEW m \in Msg, NEW row, GoodRow(row),
         row.thread = mailbox[m].thread, row.seq = mailbox[m].seq,
         row.claim # NoClaim => row.claim = mailbox[m].claim,
         row.status = "absent" <=> mailbox[m].status = "absent",
         mailbox' = [mailbox EXCEPT ![m] = row], nextSeq' = nextSeq
  PROVE  MailboxInv'
<1> USE DEF MailboxInv, MailboxTypeOK
<1>1. MailboxTypeOK' /\ AttemptsBounded' /\ ClaimIffClaimed'
  BY DEF GoodRow, AttemptsBounded, ClaimIffClaimed
<1>2. OneBranchPerClaim'
  BY DEF OneBranchPerClaim
<1>3. SeqUnique'
  BY DEF SeqUnique
<1>4. QED BY <1>1, <1>2, <1>3

\* Inserting a row under the next number keeps the invariant.
LEMMA InsertKeeps ==
  ASSUME MailboxInv, NEW m \in Msg, mailbox[m].status = "absent",
         NEW row \in Row, row.status \in {"queued", "acked"}, row.claim = NoClaim,
         ~row.lapsed, row.attempts = 0, row.seq = nextSeq,
         mailbox' = [mailbox EXCEPT ![m] = row], nextSeq' = nextSeq + 1
  PROVE  MailboxInv'
<1> USE DEF MailboxInv, MailboxTypeOK
<1>1. MailboxTypeOK' /\ AttemptsBounded' /\ ClaimIffClaimed'
  BY DEF AttemptsBounded, ClaimIffClaimed
<1>2. OneBranchPerClaim'
  BY DEF OneBranchPerClaim
<1>3. SeqUnique'
  BY DEF SeqUnique, Row
<1>4. QED BY <1>1, <1>2, <1>3

LEMMA NewRowGood ==
  ASSUME MailboxInv, NEW t \in Thread, NEW ready \in BOOLEAN, NEW d \in {"none", "ahead"},
         NEW s \in Nat
  PROVE  LET row == NewRow(t, ready, d, s)
         IN  /\ row \in Row /\ row.status = "queued" /\ row.claim = NoClaim
             /\ ~row.lapsed /\ row.attempts = 0 /\ row.seq = nextSeq
  BY DEF NewRow, Row, Status, MailboxInv, MailboxTypeOK

LEMMA UnchangedKeeps == MailboxInv /\ UNCHANGED mailboxVars => MailboxInv'
  BY DEF mailboxVars, MailboxInv, MailboxTypeOK, AttemptsBounded, ClaimIffClaimed,
         OneBranchPerClaim, SeqUnique

LEMMA EnqueueKeeps ==
  ASSUME MailboxInv, NEW m \in Msg, NEW t \in Thread, NEW ready \in BOOLEAN,
         NEW d \in {"none", "ahead"}, NEW s \in SentTime, Enqueue(m, t, ready, d, s)
  PROVE  MailboxInv'
<1>1. CASE mailbox[m].status = "absent"
  <2> DEFINE row == NewRow(t, ready, d, s)
  <2>1. /\ mailbox' = [mailbox EXCEPT ![m] = row]
        /\ nextSeq' = nextSeq + 1
    BY <1>1 DEF Enqueue
  <2>2. /\ row \in Row /\ row.status = "queued" /\ row.claim = NoClaim
        /\ ~row.lapsed /\ row.attempts = 0 /\ row.seq = nextSeq
    BY NewRowGood
  <2> HIDE DEF row
  <2>3. QED BY <1>1, <2>1, <2>2, InsertKeeps
<1>2. CASE mailbox[m].status # "absent"
  BY <1>2, UnchangedKeeps DEF Enqueue
<1>3. QED BY <1>1, <1>2

LEMMA ListSweepSwept ==
  ASSUME MailboxInv
  PROVE  \A m \in Msg : Swept(mailbox[m], ListSweep[m])
<1> SUFFICES ASSUME NEW m \in Msg PROVE Swept(mailbox[m], ListSweep[m])
  OBVIOUS
<1> DEFINE e == ExpireRow(mailbox[m])
<1>1. GoodRow(mailbox[m])
  BY InvByRows
<1>2. Swept(mailbox[m], e)
  BY <1>1, ExpireSweeps
<1>3. Swept(e, RequeueRow(e))
  BY <1>2, RequeueSweeps DEF Swept
<1> HIDE DEF e
<1>4. Swept(mailbox[m], RequeueRow(e))
  BY <1>2, <1>3, SweptTransitive
<1>5. QED BY <1>4 DEF ListSweep, e

LEMMA ClaimSweepSwept ==
  ASSUME MailboxInv
  PROVE  \A m \in Msg : /\ Swept(mailbox[m], ClaimSweep[m])
                        /\ ClaimSweep[m].status = "queued" => ClaimSweep[m].attempts < MaxAttempts
<1> SUFFICES ASSUME NEW m \in Msg
             PROVE  /\ Swept(mailbox[m], ClaimSweep[m])
                    /\ ClaimSweep[m].status = "queued" => ClaimSweep[m].attempts < MaxAttempts
  OBVIOUS
<1> DEFINE q == ListSweep[m]
<1>1. Swept(mailbox[m], q)
  BY ListSweepSwept
<1>2. ClaimSweep[m] = DeadLetterRow(q)
  BY DEF ClaimSweep, ListSweep
<1> HIDE DEF q
<1>3. /\ Swept(q, DeadLetterRow(q))
      /\ DeadLetterRow(q).status = "queued" => DeadLetterRow(q).attempts < MaxAttempts
  BY <1>1, DeadLetterSweeps DEF Swept
<1>4. QED BY <1>1, <1>2, <1>3, SweptTransitive

\* A claim counts an attempt and keeps the row's branch and number.
LEMMA ClaimedRow ==
  ASSUME NEW row \in Row, NEW c \in ClaimId
  PROVE  /\ ClaimRow(row, c) \in Row
         /\ ClaimRow(row, c).status = "claimed"
         /\ ClaimRow(row, c).claim = c
         /\ ClaimRow(row, c).lapsed = FALSE
         /\ ClaimRow(row, c).attempts = row.attempts + 1
         /\ ClaimRow(row, c).thread = row.thread
         /\ ClaimRow(row, c).seq = row.seq
<1>1. ClaimRow(row, c) \in Row
  <2> DEFINE n == row.attempts + 1
  <2>1. n \in Nat
    BY DEF Row
  <2>2. ClaimRow(row, c) = [row EXCEPT !.status = "claimed", !.claim = c,
                                       !.lapsed = FALSE, !.attempts = n]
    BY DEF ClaimRow
  <2> HIDE DEF n
  <2>3. QED BY <2>1, <2>2 DEF Row, Status
<1>2. /\ ClaimRow(row, c).status = "claimed"
      /\ ClaimRow(row, c).claim = c
      /\ ClaimRow(row, c).lapsed = FALSE
      /\ ClaimRow(row, c).attempts = row.attempts + 1
      /\ ClaimRow(row, c).thread = row.thread
      /\ ClaimRow(row, c).seq = row.seq
  BY DEF ClaimRow, Row
<1>3. QED BY <1>1, <1>2

\* A claim: the sweeps, then the batch it takes.
LEMMA ClaimKeeps ==
  ASSUME MailboxInv, NEW t \in Thread, NEW c \in ClaimId, NEW limit \in 1..MaxLimit,
         Claim(t, c, limit)
  PROVE  MailboxInv'
<1> DEFINE box == ClaimSweep
<1>1. \A m \in Msg : /\ Swept(mailbox[m], box[m])
                     /\ box[m].status = "queued" => box[m].attempts < MaxAttempts
  BY ClaimSweepSwept
<1>2. box = [m \in Msg |-> box[m]]
  BY DEF ClaimSweep
<1>3. CASE Held(box, c) # {}
  <2>1. mailbox' = box /\ nextSeq' = nextSeq
    BY <1>3 DEF Claim, AfterClaim
  <2>2. QED BY <1>1, <1>2, <2>1, SweptTable
<1>4. CASE Held(box, c) = {}
  <2> DEFINE B == Batch(box, t, limit)
  <2>1. /\ mailbox' = [m \in Msg |-> IF m \in B THEN ClaimRow(box[m], c) ELSE box[m]]
        /\ nextSeq' = nextSeq
    BY <1>4 DEF Claim, AfterClaim
  <2>2. \A m \in B : m \in Msg /\ box[m].status = "queued" /\ box[m].thread = t
    BY DEF Batch, Claimable
  <2> HIDE DEF B, box
  <2>3. \A m \in Msg : GoodRow(box[m])
    BY <1>1 DEF Swept
  <2>4. \A m \in B : /\ ClaimRow(box[m], c) \in Row
                     /\ ClaimRow(box[m], c).status = "claimed"
                     /\ ClaimRow(box[m], c).claim = c
                     /\ ClaimRow(box[m], c).lapsed = FALSE
                     /\ ClaimRow(box[m], c).attempts = box[m].attempts + 1
                     /\ ClaimRow(box[m], c).thread = t
                     /\ ClaimRow(box[m], c).seq = box[m].seq
    <3> SUFFICES ASSUME NEW m \in B
                 PROVE  /\ ClaimRow(box[m], c) \in Row
                        /\ ClaimRow(box[m], c).status = "claimed"
                        /\ ClaimRow(box[m], c).claim = c
                        /\ ClaimRow(box[m], c).lapsed = FALSE
                        /\ ClaimRow(box[m], c).attempts = box[m].attempts + 1
                        /\ ClaimRow(box[m], c).thread = t
                        /\ ClaimRow(box[m], c).seq = box[m].seq
      OBVIOUS
    <3>1. box[m] \in Row /\ box[m].thread = t
      BY <2>2, <2>3 DEF GoodRow
    <3>2. QED BY <3>1, ClaimedRow
  <2>5. \A m \in Msg : mailbox'[m] = IF m \in B THEN ClaimRow(box[m], c) ELSE box[m]
    BY <2>1
  <2>6. \A m \in Msg : GoodRow(mailbox'[m])
    <3> SUFFICES ASSUME NEW m \in Msg PROVE GoodRow(mailbox'[m])
      OBVIOUS
    <3>1. CASE m \in B
      <4>1. box[m].attempts < MaxAttempts /\ box[m].attempts \in Nat
        BY <1>1, <2>2, <2>3, <3>1 DEF GoodRow, Row
      <4>2. QED BY <2>4, <2>5, <3>1, <4>1 DEF GoodRow
    <3>2. CASE m \notin B
      BY <2>3, <2>5, <3>2
    <3>3. QED BY <3>1, <3>2
  <2>7. \A m \in Msg : /\ mailbox'[m].seq = mailbox[m].seq
                       /\ mailbox'[m].thread = mailbox[m].thread
                       /\ mailbox'[m].status = "absent" <=> mailbox[m].status = "absent"
    <3> SUFFICES ASSUME NEW m \in Msg
                 PROVE  /\ mailbox'[m].seq = mailbox[m].seq
                        /\ mailbox'[m].thread = mailbox[m].thread
                        /\ mailbox'[m].status = "absent" <=> mailbox[m].status = "absent"
      OBVIOUS
    <3>1. CASE m \in B
      BY <1>1, <2>2, <2>4, <2>5, <3>1 DEF Swept
    <3>2. CASE m \notin B
      BY <1>1, <2>5, <3>2 DEF Swept
    <3>3. QED BY <3>1, <3>2
  <2>8. \A m \in Msg : mailbox'[m].claim # NoClaim =>
          \/ m \in B /\ mailbox'[m].claim = c
          \/ m \notin B /\ mailbox'[m].claim = mailbox[m].claim /\ mailbox'[m].claim # c
    <3> SUFFICES ASSUME NEW m \in Msg, mailbox'[m].claim # NoClaim
                 PROVE  \/ m \in B /\ mailbox'[m].claim = c
                        \/ m \notin B /\ mailbox'[m].claim = mailbox[m].claim /\ mailbox'[m].claim # c
      OBVIOUS
    <3>1. CASE m \in B
      BY <2>4, <2>5, <3>1
    <3>2. CASE m \notin B
      <4>1. mailbox'[m] = box[m] /\ box[m].claim = mailbox[m].claim
        BY <1>1, <2>5, <3>2 DEF Swept
      <4>2. box[m].status = "claimed"
        BY <2>3, <4>1 DEF GoodRow
      <4>3. QED BY <1>4, <3>2, <4>1, <4>2 DEF Held
    <3>3. QED BY <3>1, <3>2
  <2>9. \A m \in B : mailbox'[m].thread = t
    BY <2>2, <2>4, <2>5
  <2>10. OneBranchPerClaim'
    BY <2>7, <2>8, <2>9 DEF MailboxInv, OneBranchPerClaim
  <2>11. SeqUnique'
    BY <2>1, <2>7 DEF MailboxInv, SeqUnique
  <2>12. mailbox' = [m \in Msg |-> mailbox'[m]]
    BY <2>1
  <2>13. MailboxTypeOK' /\ AttemptsBounded' /\ ClaimIffClaimed'
    BY <2>1, <2>6, <2>12 DEF MailboxInv, MailboxTypeOK, AttemptsBounded, ClaimIffClaimed, GoodRow
  <2>14. QED BY <2>10, <2>11, <2>13 DEF MailboxInv
<1>5. QED BY <1>3, <1>4

-----------------------------------------------------------------------------
(* The theorems.                                                           *)

LEMMA InitInv == MailboxInit => MailboxInv
<1> SUFFICES ASSUME MailboxInit PROVE MailboxInv
  OBVIOUS
<1>1. AbsentRow \in Row /\ AbsentRow.status = "absent" /\ AbsentRow.claim = NoClaim
      /\ AbsentRow.lapsed = FALSE /\ AbsentRow.attempts = 0
  BY DEF AbsentRow, Row, Status
<1>2. \A m \in Msg : mailbox[m] = AbsentRow
  BY DEF MailboxInit
<1> HIDE DEF AbsentRow
<1>3. MailboxTypeOK
  BY <1>1 DEF MailboxInit, MailboxTypeOK
<1>4. AttemptsBounded /\ ClaimIffClaimed /\ OneBranchPerClaim /\ SeqUnique
  BY <1>1, <1>2 DEF AttemptsBounded, ClaimIffClaimed, OneBranchPerClaim, SeqUnique
<1>5. QED BY <1>3, <1>4 DEF MailboxInv

\* Ack, settle, release and the clock each change one row.
LEMMA RowStepKeeps ==
  ASSUME MailboxInv, NEW m \in Msg,
         NEW row \in {AckedRow(mailbox[m]), SettledRow(mailbox[m]),
                      ReleasedRow(mailbox[m], TRUE), ReleasedRow(mailbox[m], FALSE)},
         mailbox[m].status # "absent",
         mailbox' = [mailbox EXCEPT ![m] = row], nextSeq' = nextSeq
  PROVE  MailboxInv'
<1> DEFINE old == mailbox[m]
<1>1. GoodRow(old)
  BY InvByRows
<1>2. \A ready \in BOOLEAN :
         ReleasedRow(old, ready) = [old EXCEPT !.claim = NoClaim, !.lapsed = FALSE,
                                               !.status = "queued", !.ready = ready]
  BY <1>1 DEF ReleasedRow, ClearClaim, GoodRow, Row
<1>3. AckedRow(old) = [old EXCEPT !.claim = NoClaim, !.lapsed = FALSE, !.status = "acked"]
  BY <1>1 DEF AckedRow, ClearClaim, GoodRow, Row
<1>4. SettledRow(old) \in {old, AckedRow(old)}
  BY DEF SettledRow
<1> HIDE DEF old
<1>5. /\ GoodRow(row) /\ row.thread = old.thread /\ row.seq = old.seq
      /\ row.status # "absent"
      /\ row.claim # NoClaim => row.claim = old.claim
  <2>0. old.status # "absent"
    BY DEF old
  <2>1. CASE row = AckedRow(old)
    BY <1>1, <1>3, <2>1 DEF GoodRow, Row, Status
  <2>2. CASE row = old
    BY <1>1, <2>0, <2>2 DEF GoodRow
  <2>3. ASSUME NEW ready \in BOOLEAN, row = ReleasedRow(old, ready)
        PROVE  /\ GoodRow(row) /\ row.thread = old.thread /\ row.seq = old.seq
               /\ row.status # "absent"
               /\ row.claim # NoClaim => row.claim = old.claim
    <3>1. row = [old EXCEPT !.claim = NoClaim, !.lapsed = FALSE, !.status = "queued", !.ready = ready]
      BY <1>2, <2>3
    <3>2. old \in Row
      BY <1>1 DEF GoodRow
    <3>3. row \in Row
      BY <3>1, <3>2 DEF Row, Status
    <3>4. /\ row.status = "queued" /\ row.claim = NoClaim /\ row.lapsed = FALSE
          /\ row.thread = old.thread /\ row.seq = old.seq /\ row.attempts = old.attempts
      BY <3>1, <3>2 DEF Row
    <3>5. QED BY <1>1, <3>3, <3>4 DEF GoodRow
  <2>4. QED BY <1>4, <2>1, <2>2, <2>3 DEF old
<1>6. QED BY <1>5, OneRowChanged DEF old

\* The row a transaction inserts and settles at once.
LEMMA NewSettledRow ==
  ASSUME MailboxInv, NEW t \in Thread
  PROVE  LET row == SettledRow(NewRow(t, TRUE, "none", 0))
         IN  /\ row \in Row /\ row.status = "acked" /\ row.claim = NoClaim
             /\ ~row.lapsed /\ row.attempts = 0 /\ row.seq = nextSeq
<1> DEFINE new == NewRow(t, TRUE, "none", 0)
<1>1. /\ new \in Row /\ new.status = "queued" /\ new.claim = NoClaim
      /\ ~new.lapsed /\ new.attempts = 0 /\ new.seq = nextSeq
  BY NewRowGood
<1> HIDE DEF new
<1>2. SettledRow(new) = [new EXCEPT !.claim = NoClaim, !.lapsed = FALSE, !.status = "acked"]
  BY <1>1 DEF SettledRow, AckedRow, ClearClaim, Row
<1>3. QED BY <1>1, <1>2 DEF new, Row, Status

LEMMA EnqueueSettledKeeps ==
  ASSUME MailboxInv, NEW m \in Msg, NEW t \in Thread, EnqueueSettled(m, t)
  PROVE  MailboxInv'
<1>0. mailbox = [k \in Msg |-> mailbox[k]]
  BY InvByRows
<1>1. CASE mailbox[m].status = "absent"
  <2> DEFINE row == SettledRow(NewRow(t, TRUE, "none", 0))
  <2>1. mailbox' = [mailbox EXCEPT ![m] = row] /\ nextSeq' = nextSeq + 1
    BY <1>0, <1>1 DEF EnqueueSettled
  <2>2. /\ row \in Row /\ row.status = "acked" /\ row.claim = NoClaim
        /\ ~row.lapsed /\ row.attempts = 0 /\ row.seq = nextSeq
    BY NewSettledRow
  <2> HIDE DEF row
  <2>3. QED BY <1>1, <2>1, <2>2, InsertKeeps
<1>2. CASE mailbox[m].status # "absent"
  <2>1. mailbox' = [mailbox EXCEPT ![m] = SettledRow(mailbox[m])] /\ nextSeq' = nextSeq
    BY <1>0, <1>2 DEF EnqueueSettled
  <2>2. QED BY <1>2, <2>1, RowStepKeeps
<1>3. QED BY <1>1, <1>2

LEMMA ClockKeeps ==
  ASSUME MailboxInv, NEW m \in Msg, LeaseLapses(m) \/ BackoffElapses(m) \/ DeadlinePasses(m)
  PROVE  MailboxInv'
<1> DEFINE row == mailbox'[m]
<1>1. GoodRow(mailbox[m]) /\ mailbox[m].status # "absent"
  BY InvByRows DEF LeaseLapses, BackoffElapses, DeadlinePasses, Pending
<1>2. nextSeq' = nextSeq
  BY DEF LeaseLapses, BackoffElapses, DeadlinePasses
<1>3. CASE LeaseLapses(m)
  <2>1. mailbox' = [mailbox EXCEPT ![m] = [mailbox[m] EXCEPT !.lapsed = TRUE]]
    BY <1>3 DEF LeaseLapses
  <2>2. GoodRow([mailbox[m] EXCEPT !.lapsed = TRUE])
    BY <1>1, <1>3 DEF LeaseLapses, GoodRow, Row
  <2>3. QED BY <1>1, <1>2, <2>1, <2>2, OneRowChanged DEF GoodRow, Row
<1>4. CASE BackoffElapses(m)
  <2>1. mailbox' = [mailbox EXCEPT ![m] = [mailbox[m] EXCEPT !.ready = TRUE]]
    BY <1>4 DEF BackoffElapses
  <2>2. GoodRow([mailbox[m] EXCEPT !.ready = TRUE])
    BY <1>1 DEF GoodRow, Row
  <2>3. QED BY <1>1, <1>2, <2>1, <2>2, OneRowChanged DEF GoodRow, Row
<1>5. CASE DeadlinePasses(m)
  <2>1. mailbox' = [mailbox EXCEPT ![m] = [mailbox[m] EXCEPT !.deadline = "past"]]
    BY <1>5 DEF DeadlinePasses
  <2>2. GoodRow([mailbox[m] EXCEPT !.deadline = "past"])
    BY <1>1 DEF GoodRow, Row
  <2>3. QED BY <1>1, <1>2, <2>1, <2>2, OneRowChanged DEF GoodRow, Row
<1>6. QED BY <1>3, <1>4, <1>5

LEMMA NextKeeps == MailboxInv /\ [MailboxNext]_mailboxVars => MailboxInv'
<1> SUFFICES ASSUME MailboxInv, [MailboxNext]_mailboxVars PROVE MailboxInv'
  OBVIOUS
<1>1. ASSUME NEW m \in Msg, NEW t \in Thread, NEW ready \in BOOLEAN,
             NEW d \in {"none", "ahead"}, NEW s \in SentTime, Enqueue(m, t, ready, d, s)
      PROVE  MailboxInv'
  BY <1>1, EnqueueKeeps
<1>2. ASSUME NEW t \in Thread, NEW c \in ClaimId, NEW limit \in 1..MaxLimit, Claim(t, c, limit)
      PROVE  MailboxInv'
  BY <1>2, ClaimKeeps
<1>3. CASE ListPending
  <2>1. \A m \in Msg : Swept(mailbox[m], ListSweep[m])
    BY ListSweepSwept
  <2>2. ListSweep = [m \in Msg |-> ListSweep[m]]
    BY DEF ListSweep
  <2>3. mailbox' = ListSweep /\ nextSeq' = nextSeq
    BY <1>3 DEF ListPending
  <2>4. QED BY <2>1, <2>2, <2>3, SweptTable
<1>4. ASSUME NEW m \in Msg, NEW c \in ClaimId, Ack(m, c)
      PROVE  MailboxInv'
  BY <1>4, RowStepKeeps DEF Ack
<1>5. ASSUME NEW m \in Msg, Settle(m)
      PROVE  MailboxInv'
  BY <1>5, RowStepKeeps DEF Settle
<1>6. ASSUME NEW m \in Msg, NEW c \in ClaimId, NEW ready \in BOOLEAN, Release(m, c, ready)
      PROVE  MailboxInv'
  <2>1. ReleasedRow(mailbox[m], ready) \in {ReleasedRow(mailbox[m], TRUE), ReleasedRow(mailbox[m], FALSE)}
    OBVIOUS
  <2>2. QED BY <1>6, <2>1, RowStepKeeps DEF Release
<1>7. CASE Expire
  <2> DEFINE box == [m \in Msg |-> ExpireRow(mailbox[m])]
  <2>1. \A m \in Msg : Swept(mailbox[m], box[m])
    BY InvByRows, ExpireSweeps
  <2>2. box = [m \in Msg |-> box[m]] /\ mailbox' = box /\ nextSeq' = nextSeq
    BY <1>7 DEF Expire
  <2> HIDE DEF box
  <2>3. QED BY <2>1, <2>2, SweptTable
<1>8. ASSUME NEW m \in Msg, LeaseLapses(m) \/ BackoffElapses(m) \/ DeadlinePasses(m)
      PROVE  MailboxInv'
  BY <1>8, ClockKeeps
<1>9. CASE UNCHANGED mailboxVars
  BY <1>9, UnchangedKeeps
<1>10. ASSUME NEW m \in Msg, NEW t \in Thread, EnqueueSettled(m, t)
       PROVE  MailboxInv'
  BY <1>10, EnqueueSettledKeeps
<1>11. QED
  BY <1>1, <1>2, <1>3, <1>4, <1>5, <1>6, <1>7, <1>8, <1>9, <1>10 DEF MailboxNext

\* The store keeps every row in its domain, whoever calls it in whatever order.
THEOREM MailboxTypeCorrect == MailboxSpec => []MailboxTypeOK
<1>1. MailboxInv => MailboxTypeOK
  BY DEF MailboxInv
<1>2. QED BY InitInv, NextKeeps, <1>1, PTL DEF MailboxSpec

\* Redelivery is bounded for every MaxAttempts: no row is handed out more often.
THEOREM RedeliveryBounded == MailboxSpec => []AttemptsBounded
<1>1. MailboxInv => AttemptsBounded
  BY DEF MailboxInv
<1>2. QED BY InitInv, NextKeeps, <1>1, PTL DEF MailboxSpec

\* One claim never mixes branches, and claims sit exactly on the claimed rows.
THEOREM ClaimsConsistent == MailboxSpec => [](ClaimIffClaimed /\ OneBranchPerClaim)
<1>1. MailboxInv => ClaimIffClaimed /\ OneBranchPerClaim
  BY DEF MailboxInv
<1>2. QED BY InitInv, NextKeeps, <1>1, PTL DEF MailboxSpec

\* Arrival numbers identify rows, so the queue of a branch has one order.
THEOREM ArrivalOrder == MailboxSpec => []SeqUnique
<1>1. MailboxInv => SeqUnique
  BY DEF MailboxInv
<1>2. QED BY InitInv, NextKeeps, <1>1, PTL DEF MailboxSpec

-----------------------------------------------------------------------------
(* What a step may never do to a row.                                      *)

RowStep(row, s) ==
  /\ row.status \in {"acked", "expired"} => s.status = row.status
  /\ row.status = "claimed" /\ ~row.lapsed => s.claim = row.claim \/ s.status # "claimed"
  /\ row.status # "absent" => s.attempts >= row.attempts

LEMMA SweptIsRowStep ==
  ASSUME NEW row, NEW s, GoodRow(row), Swept(row, s)
  PROVE  RowStep(row, s)
  BY DEF RowStep, Swept, GoodRow, Row

LEMMA ClaimRowSteps ==
  ASSUME MailboxInv, NEW t \in Thread, NEW c \in ClaimId, NEW limit \in 1..MaxLimit,
         Claim(t, c, limit), NEW m \in Msg
  PROVE  RowStep(mailbox[m], mailbox'[m])
<1> DEFINE box == ClaimSweep
           B == Batch(box, t, limit)
<1>1. GoodRow(mailbox[m]) /\ Swept(mailbox[m], box[m])
  BY InvByRows, ClaimSweepSwept
<1>2. mailbox'[m] = IF Held(box, c) = {} /\ m \in B THEN ClaimRow(box[m], c) ELSE box[m]
  BY DEF Claim, AfterClaim, ClaimSweep
<1>3. m \in B => box[m].status = "queued"
  BY DEF Batch, Claimable
<1> HIDE DEF box, B
<1>4. CASE Held(box, c) = {} /\ m \in B
  <2>1. box[m] \in Row /\ box[m].attempts = mailbox[m].attempts /\ mailbox[m].attempts \in Nat
    BY <1>1 DEF Swept, GoodRow, Row
  <2>2. mailbox'[m].attempts = mailbox[m].attempts + 1
    <3>1. ClaimRow(box[m], c).attempts = box[m].attempts + 1
      BY <2>1, ClaimedRow
    <3>2. mailbox'[m] = ClaimRow(box[m], c)
      BY <1>2, <1>4
    <3>3. QED BY <2>1, <3>1, <3>2
  <2>3. mailbox[m].status \notin {"acked", "expired"}
    BY <1>1, <1>3, <1>4 DEF Swept
  <2>4. ~(mailbox[m].status = "claimed" /\ ~mailbox[m].lapsed)
    BY <1>1, <1>3, <1>4 DEF Swept
  <2>5. QED BY <2>1, <2>2, <2>3, <2>4 DEF RowStep
<1>5. CASE ~(Held(box, c) = {} /\ m \in B)
  BY <1>1, <1>2, <1>5, SweptIsRowStep
<1>6. QED BY <1>4, <1>5

LEMMA NextRowSteps ==
  ASSUME MailboxInv, [MailboxNext]_mailboxVars, NEW m \in Msg
  PROVE  RowStep(mailbox[m], mailbox'[m])
<1>0. GoodRow(mailbox[m]) /\ mailbox[m] \in Row /\ mailbox[m].attempts \in Nat
  BY InvByRows DEF GoodRow, Row
<1>1. ASSUME NEW k \in Msg, NEW t \in Thread, NEW ready \in BOOLEAN,
             NEW d \in {"none", "ahead"}, NEW s \in SentTime, Enqueue(k, t, ready, d, s)
      PROVE  RowStep(mailbox[m], mailbox'[m])
  BY <1>0, <1>1 DEF Enqueue, RowStep, mailboxVars, MailboxInv, MailboxTypeOK
<1>2. ASSUME NEW t \in Thread, NEW c \in ClaimId, NEW limit \in 1..MaxLimit, Claim(t, c, limit)
      PROVE  RowStep(mailbox[m], mailbox'[m])
  BY <1>2, ClaimRowSteps
<1>3. CASE ListPending
  <2>1. mailbox'[m] = ListSweep[m]
    BY <1>3 DEF ListPending
  <2>2. QED BY <1>0, <2>1, ListSweepSwept, SweptIsRowStep
<1>4. CASE Expire
  <2>1. mailbox'[m] = ExpireRow(mailbox[m])
    BY <1>4 DEF Expire
  <2>2. QED BY <1>0, <2>1, ExpireSweeps, SweptIsRowStep
<1>5. ASSUME NEW k \in Msg, NEW row, mailbox' = [mailbox EXCEPT ![k] = row],
             row \in {AckedRow(mailbox[k]), ReleasedRow(mailbox[k], TRUE),
                      ReleasedRow(mailbox[k], FALSE)},
             mailbox[k].status \in {"queued", "claimed"}
      PROVE  RowStep(mailbox[m], mailbox'[m])
  <2>1. CASE m = k
    <3>1. mailbox'[m] = row
      BY <1>5, <2>1 DEF MailboxInv, MailboxTypeOK
    <3>2. row.status # "claimed" /\ row.attempts = mailbox[m].attempts
      BY <1>0, <1>5, <2>1 DEF AckedRow, ReleasedRow, ClearClaim, Row
    <3>3. QED BY <1>0, <1>5, <2>1, <3>1, <3>2 DEF RowStep
  <2>2. CASE m # k
    BY <1>0, <1>5, <2>2 DEF RowStep, MailboxInv, MailboxTypeOK
  <2>3. QED BY <2>1, <2>2
<1>6. ASSUME NEW k \in Msg, NEW c \in ClaimId, Ack(k, c)
      PROVE  RowStep(mailbox[m], mailbox'[m])
  BY <1>5, <1>6 DEF Ack
<1>7. ASSUME NEW k \in Msg, NEW c \in ClaimId, NEW ready \in BOOLEAN, Release(k, c, ready)
      PROVE  RowStep(mailbox[m], mailbox'[m])
  <2>1. ReleasedRow(mailbox[k], ready) \in {ReleasedRow(mailbox[k], TRUE), ReleasedRow(mailbox[k], FALSE)}
    OBVIOUS
  <2>2. QED BY <1>5, <1>7, <2>1 DEF Release
<1>8. ASSUME mailbox'[m] = mailbox[m]
      PROVE  RowStep(mailbox[m], mailbox'[m])
  BY <1>0, <1>8 DEF RowStep
<1>9. ASSUME NEW k \in Msg, Settle(k)
      PROVE  RowStep(mailbox[m], mailbox'[m])
  <2>1. CASE mailbox[k].status \in {"queued", "claimed"}
    BY <1>5, <1>9, <2>1 DEF Settle, SettledRow
  <2>2. CASE mailbox[k].status \notin {"queued", "claimed"}
    <3>1. mailbox'[m] = mailbox[m]
      BY <1>9, <2>2 DEF Settle, SettledRow, MailboxInv, MailboxTypeOK
    <3>2. QED BY <1>8, <3>1
  <2>3. QED BY <2>1, <2>2
<1>10. ASSUME NEW k \in Msg, LeaseLapses(k) \/ BackoffElapses(k) \/ DeadlinePasses(k)
       PROVE  RowStep(mailbox[m], mailbox'[m])
  <2>1. /\ mailbox'[m].status = mailbox[m].status
        /\ mailbox'[m].claim = mailbox[m].claim
        /\ mailbox'[m].attempts = mailbox[m].attempts
    <3>1. mailbox = [k2 \in Msg |-> mailbox[k2]]
      BY DEF MailboxInv, MailboxTypeOK
    <3>2. CASE LeaseLapses(k)
      BY <1>0, <3>1, <3>2 DEF LeaseLapses, Row
    <3>3. CASE BackoffElapses(k)
      BY <1>0, <3>1, <3>3 DEF BackoffElapses, Row
    <3>4. CASE DeadlinePasses(k)
      BY <1>0, <3>1, <3>4 DEF DeadlinePasses, Row
    <3>5. QED BY <1>10, <3>2, <3>3, <3>4
  <2>2. QED BY <1>0, <2>1 DEF RowStep
<1>11. CASE UNCHANGED mailboxVars
  BY <1>8, <1>11 DEF mailboxVars
<1>12. ASSUME NEW k \in Msg, NEW t \in Thread, EnqueueSettled(k, t)
       PROVE  RowStep(mailbox[m], mailbox'[m])
  <2>1. mailbox = [j \in Msg |-> mailbox[j]]
    BY InvByRows
  <2>2. CASE mailbox[k].status = "absent" /\ m = k
    <3>1. mailbox'[m] = SettledRow(NewRow(t, TRUE, "none", 0))
      BY <1>12, <2>1, <2>2 DEF EnqueueSettled
    <3>2. QED BY <2>2 DEF RowStep
  <2>3. CASE mailbox[k].status \in {"queued", "claimed"}
    <3>1. mailbox' = [mailbox EXCEPT ![k] = AckedRow(mailbox[k])]
      BY <1>12, <2>1, <2>3 DEF EnqueueSettled, SettledRow
    <3>2. QED BY <1>5, <2>3, <3>1
  <2>4. CASE m # k \/ mailbox[k].status \notin {"absent", "queued", "claimed"}
    <3>1. mailbox'[m] = mailbox[m]
      BY <1>12, <2>1, <2>4 DEF EnqueueSettled, SettledRow
    <3>2. QED BY <1>8, <3>1
  <2>5. QED BY <2>2, <2>3, <2>4
<1>13. QED
  BY <1>1, <1>2, <1>3, <1>4, <1>6, <1>7, <1>9, <1>10, <1>11, <1>12 DEF MailboxNext

\* A running lease fences the row off: only its holder's release, an ack, a
\* settle or an expiry takes the row away from the holder.
THEOREM LeaseFencing == MailboxSpec => LeaseFences
<1>1. MailboxInv /\ [MailboxNext]_mailboxVars
        => [\A m \in Msg : (mailbox[m].status = "claimed" /\ ~mailbox[m].lapsed)
               => \/ mailbox'[m].claim = mailbox[m].claim
                  \/ mailbox'[m].status # "claimed"]_mailboxVars
  BY NextRowSteps DEF RowStep
<1>2. QED BY InitInv, NextKeeps, <1>1, PTL DEF MailboxSpec, LeaseFences

\* Acknowledged and expired rows are finished for good.
THEOREM Finality == MailboxSpec => TerminalIsFinal
<1>1. MailboxInv /\ [MailboxNext]_mailboxVars
        => [\A m \in Msg : Terminal(m) => mailbox'[m].status = mailbox[m].status]_mailboxVars
  BY NextRowSteps DEF RowStep, Terminal
<1>2. QED BY InitInv, NextKeeps, <1>1, PTL DEF MailboxSpec, TerminalIsFinal

\* No step forgets a delivery attempt.
THEOREM AttemptsKept == MailboxSpec => AttemptsNeverReset
<1>1. MailboxInv /\ [MailboxNext]_mailboxVars
        => [\A m \in Msg : mailbox[m].status # "absent"
               => mailbox'[m].attempts >= mailbox[m].attempts]_mailboxVars
  BY NextRowSteps DEF RowStep
<1>2. QED BY InitInv, NextKeeps, <1>1, PTL DEF MailboxSpec, AttemptsNeverReset
=============================================================================
