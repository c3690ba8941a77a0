------------------------ MODULE SessionInput_proofs ------------------------
(***************************************************************************)
(* Theorems about the input path of a session: it uses the mailbox only    *)
(* through its operations, so what is proved of the mailbox holds of it;   *)
(* and no message is lost, refused for ever, or consumed twice, for any    *)
(* number of messages, runs, idle consumers and crashes.                   *)
(*                                                                         *)
(* SessionInv relates the two tables.  A message with a conversation row   *)
(* has a finished mailbox row: that is kept by every operation of the      *)
(* mailbox because finished rows stay finished (RowStep), and by every     *)
(* transaction that writes a conversation row because it settles the       *)
(* mailbox row as well.                                                    *)
(***************************************************************************)
EXTENDS SessionInput, AgentMailbox_proofs

\* A row whose message is in the conversation is finished.
DeliveredFinished == \A m \in Msg : message[m] # None => Terminal(m)

\* Acknowledged input is in the conversation.
AckedWritten == \A m \in Msg \ GoalMsg : mailbox[m].status = "acked" => message[m] # None

\* The run that took a message has had it in its model input.
OwnersTold == \A m \in Msg : message[m] \in Run => message[m] \in told[m]

SessionInv ==
  /\ MailboxInv
  /\ SessionTypeOK
  /\ OneActiveRoot
  /\ DeliveredFinished
  /\ AckedWritten
  /\ OwnersTold

\* What every step does to the two tables: it uses the mailbox, acknowledges a
\* row only with its message (or a goal row), and writes a conversation row
\* only where there is none, finishing the mailbox row.
AcksExplained ==
  \A m \in Msg : mailbox'[m].status = "acked" =>
    mailbox[m].status = "acked" \/ m \in GoalMsg \/ message'[m] # None
RowsExplained ==
  \A m \in Msg : message'[m] = message[m] \/ (message[m] = None /\ Terminal(m)')
Effect == [MailboxNext]_mailboxVars /\ AcksExplained /\ RowsExplained

USE SessionConstants

-----------------------------------------------------------------------------
(* The mailbox operations that acknowledge nothing.                        *)

LEMMA SweepsNeverAck ==
  ASSUME NEW row \in Row
  PROVE  /\ ExpireRow(row) \in Row /\ RequeueRow(row) \in Row /\ DeadLetterRow(row) \in Row
         /\ ExpireRow(row).status = "acked" => row.status = "acked"
         /\ RequeueRow(row).status = "acked" => row.status = "acked"
         /\ DeadLetterRow(row).status = "acked" => row.status = "acked"
<1>1. ExpireRow(row) \in Row /\ (ExpireRow(row).status = "acked" => row.status = "acked")
  BY DEF ExpireRow, ClearClaim, Row, Status
<1>2. RequeueRow(row) \in Row /\ (RequeueRow(row).status = "acked" => row.status = "acked")
  BY DEF RequeueRow, ClearClaim, Row, Status
<1>3. DeadLetterRow(row) \in Row /\ (DeadLetterRow(row).status = "acked" => row.status = "acked")
  BY DEF DeadLetterRow, ClearClaim, Row, Status
<1>4. QED BY <1>1, <1>2, <1>3

LEMMA ListSweepNeverAcks ==
  ASSUME MailboxInv, NEW m \in Msg
  PROVE  /\ ListSweep[m] \in Row
         /\ ListSweep[m].status = "acked" => mailbox[m].status = "acked"
<1> DEFINE e == ExpireRow(mailbox[m])
<1>1. mailbox[m] \in Row
  BY InvByRows DEF GoodRow
<1>2. e \in Row /\ (e.status = "acked" => mailbox[m].status = "acked")
  BY <1>1, SweepsNeverAck
<1>3. ListSweep[m] = RequeueRow(e)
  BY DEF ListSweep
<1> HIDE DEF e
<1>4. QED BY <1>2, <1>3, SweepsNeverAck

LEMMA ClaimNeverAcks ==
  ASSUME MailboxInv, NEW c \in ClaimId, Claim(Root, c, MaxLimit), NEW m \in Msg
  PROVE  mailbox'[m].status = "acked" => mailbox[m].status = "acked"
<1> DEFINE q == ListSweep[m]
           s == ClaimSweep[m]
<1>1. q \in Row /\ (q.status = "acked" => mailbox[m].status = "acked")
  BY ListSweepNeverAcks
<1>2. s = DeadLetterRow(q)
  BY DEF ClaimSweep, ListSweep
<1>3. mailbox'[m] = s \/ mailbox'[m] = ClaimRow(s, c)
  BY DEF Claim, AfterClaim
<1> HIDE DEF q, s
<1>4. s \in Row /\ (s.status = "acked" => mailbox[m].status = "acked")
  BY <1>1, <1>2, SweepsNeverAck
<1>5. ClaimRow(s, c).status = "claimed"
  BY <1>4, ClaimedRow
<1>6. QED BY <1>3, <1>4, <1>5

\* Steps that leave the conversation alone and acknowledge nothing.
LEMMA UnchangedEffect ==
  ASSUME SessionInv, UNCHANGED <<mailbox, nextSeq, message>>
  PROVE  Effect
  BY DEF Effect, mailboxVars, AcksExplained, RowsExplained

LEMMA EnqueueEffect ==
  ASSUME SessionInv, NEW m \in Msg, NEW s \in SentTime, Enqueue(m, Root, TRUE, "none", s),
         message' = message
  PROVE  Effect
<1>1. [MailboxNext]_mailboxVars
  BY DEF MailboxNext
<1>2. AcksExplained
  <2>1. mailbox = [k \in Msg |-> mailbox[k]]
    BY InvByRows DEF SessionInv
  <2>2. NewRow(Root, TRUE, "none", s).status = "queued"
    BY DEF NewRow
  <2>3. \A k \in Msg : mailbox'[k] = mailbox[k] \/ mailbox'[k].status = "queued"
    BY <2>1, <2>2 DEF Enqueue, mailboxVars
  <2>4. QED BY <2>3 DEF AcksExplained
<1>3. QED BY <1>1, <1>2 DEF Effect, RowsExplained

LEMMA ClaimEffect ==
  ASSUME SessionInv, NEW c \in ClaimId, Claim(Root, c, MaxLimit), message' = message
  PROVE  Effect
<1>1. MaxLimit \in 1..MaxLimit
  BY MailboxConstants
<1>2. [MailboxNext]_mailboxVars
  BY <1>1 DEF MailboxNext
<1>3. AcksExplained
  BY ClaimNeverAcks DEF AcksExplained, SessionInv
<1>4. QED BY <1>2, <1>3 DEF Effect, RowsExplained

LEMMA ListEffect ==
  ASSUME SessionInv, ListPending, message' = message
  PROVE  Effect
<1>1. [MailboxNext]_mailboxVars
  BY DEF MailboxNext
<1>2. \A m \in Msg : mailbox'[m] = ListSweep[m]
  BY DEF ListPending
<1>3. AcksExplained
  BY <1>2, ListSweepNeverAcks DEF AcksExplained, SessionInv
<1>4. QED BY <1>1, <1>3 DEF Effect, RowsExplained

\* A row that is claimed names a claim, so the release names one as well.
LEMMA GiveUpEffect ==
  ASSUME SessionInv, NEW m \in Msg, NEW c, NEW ready \in BOOLEAN, GiveUp(m, c, ready),
         message' = message
  PROVE  Effect
<1>1. GoodRow(mailbox[m]) /\ mailbox = [k \in Msg |-> mailbox[k]]
  BY InvByRows DEF SessionInv
<1>2. CASE mailbox[m].status = "claimed" /\ mailbox[m].claim = c
  <2>1. c \in ClaimId
    BY <1>1, <1>2 DEF GoodRow, Row
  <2>2. Release(m, c, ready)
    BY <1>2 DEF GiveUp
  <2>3. [MailboxNext]_mailboxVars
    BY <2>1, <2>2 DEF MailboxNext
  <2>4. ReleasedRow(mailbox[m], ready).status = "queued"
    BY <1>1 DEF ReleasedRow, ClearClaim, GoodRow, Row
  <2>5. \A k \in Msg : mailbox'[k] = mailbox[k] \/ mailbox'[k].status = "queued"
    BY <1>1, <2>2, <2>4 DEF Release
  <2>6. QED BY <2>3, <2>5 DEF Effect, AcksExplained, RowsExplained
<1>3. CASE ~(mailbox[m].status = "claimed" /\ mailbox[m].claim = c)
  BY <1>3, UnchangedEffect DEF GiveUp, mailboxVars
<1>4. QED BY <1>2, <1>3

LEMMA ClockEffect ==
  ASSUME SessionInv, NEW m \in Msg, LeaseLapses(m) \/ BackoffElapses(m), message' = message
  PROVE  Effect
<1>1. [MailboxNext]_mailboxVars
  BY DEF MailboxNext
<1>2. GoodRow(mailbox[m]) /\ mailbox = [k \in Msg |-> mailbox[k]]
  BY InvByRows DEF SessionInv
<1>3. \A k \in Msg : mailbox'[k].status = mailbox[k].status
  <2>1. CASE LeaseLapses(m)
    BY <1>2, <2>1 DEF LeaseLapses, GoodRow, Row
  <2>2. CASE BackoffElapses(m)
    BY <1>2, <2>2 DEF BackoffElapses, GoodRow, Row
  <2>3. QED BY <2>1, <2>2
<1>4. QED BY <1>1, <1>3 DEF Effect, AcksExplained, RowsExplained

-----------------------------------------------------------------------------
(* The operations that finish a row.                                       *)

\* A stale goal row is finished without a message.
LEMMA SettleEffect ==
  ASSUME SessionInv, NEW m \in Msg, m \in GoalMsg, Settle(m), message' = message
  PROVE  Effect
<1>1. [MailboxNext]_mailboxVars
  BY DEF MailboxNext
<1>2. mailbox = [k \in Msg |-> mailbox[k]]
  BY InvByRows DEF SessionInv
<1>3. \A k \in Msg : k # m => mailbox'[k] = mailbox[k]
  BY <1>2 DEF Settle
<1>4. QED BY <1>1, <1>3 DEF Effect, AcksExplained, RowsExplained

\* A transaction that inserts or settles the row and writes its conversation row.
LEMMA EnqueueSettledEffect ==
  ASSUME SessionInv, NEW m \in Msg, EnqueueSettled(m, Root), NEW owner, owner # None,
         message[m] = None \/ owner = message[m],
         message' = [message EXCEPT ![m] = owner]
  PROVE  Effect
<1>1. [MailboxNext]_mailboxVars
  BY DEF MailboxNext
<1>2. GoodRow(mailbox[m]) /\ mailbox = [k \in Msg |-> mailbox[k]]
  BY InvByRows DEF SessionInv
<1>3. message = [k \in Msg |-> message[k]]
  BY DEF SessionInv, SessionTypeOK
<1>4. /\ \A k \in Msg : k # m => mailbox'[k] = mailbox[k] /\ message'[k] = message[k]
      /\ message'[m] = owner
  BY <1>2, <1>3 DEF EnqueueSettled
<1>5. Terminal(m)'
  <2> DEFINE row == IF mailbox[m].status = "absent" THEN NewRow(Root, TRUE, "none", 0) ELSE mailbox[m]
  <2>1. mailbox'[m] = SettledRow(row)
    BY <1>2 DEF EnqueueSettled
  <2>2. row \in Row /\ row.status \in {"queued", "claimed", "acked", "expired"}
    <3>1. CASE mailbox[m].status = "absent"
      <4>1. 0 \in Nat /\ row = NewRow(Root, TRUE, "none", 0)
        BY <3>1
      <4>2. QED BY <4>1, NewRowGood DEF SessionInv
    <3>2. CASE mailbox[m].status # "absent"
      BY <1>2, <3>2 DEF GoodRow, Row, Status
    <3>3. QED BY <3>1, <3>2
  <2> HIDE DEF row
  <2>3. SettledRow(row).status \in {"acked", "expired"}
    BY <2>2 DEF SettledRow, AckedRow, ClearClaim, Row
  <2>4. QED BY <2>1, <2>3 DEF Terminal
<1>6. AcksExplained
  BY <1>4 DEF AcksExplained
<1>7. RowsExplained
  BY <1>4, <1>5 DEF RowsExplained
<1>8. QED BY <1>1, <1>6, <1>7 DEF Effect

LEMMA StartEffect ==
  ASSUME SessionInv, NEW m \in Msg, StartRoot(m)
  PROVE  Effect
<1>1. PICK r \in FreshRun : message' = [message EXCEPT ![m] = r]
  BY DEF StartRoot
<1>2. r # None
  BY <1>1 DEF FreshRun
<1>3. EnqueueSettled(m, Root) /\ message[m] = None
  BY DEF StartRoot, NoRow
<1>4. QED BY <1>1, <1>2, <1>3, EnqueueSettledEffect

\* The commit of a refresh.
LEMMA CommitEffect ==
  ASSUME SessionInv, NEW r \in Run, NEW m \in Msg, CommitInput(r, m),
         message' = [message EXCEPT ![m] = r]
  PROVE  Effect
<1>1. GoodRow(mailbox[m]) /\ mailbox = [k \in Msg |-> mailbox[k]]
  BY InvByRows DEF SessionInv
<1>2. message = [k \in Msg |-> message[k]] /\ message[m] = None
  BY DEF SessionInv, SessionTypeOK, CommitInput, NoRow
<1>3. CASE Ack(m, refresh[r].claim)
  <2>1. refresh[r].claim \in ClaimId
    BY <1>1, <1>3 DEF Ack, GoodRow, Row
  <2>2. [MailboxNext]_mailboxVars
    BY <1>3, <2>1 DEF MailboxNext
  <2>3. AckedRow(mailbox[m]).status = "acked"
    BY <1>1 DEF AckedRow, ClearClaim, GoodRow, Row
  <2>4. Terminal(m)' /\ \A k \in Msg : k # m => mailbox'[k] = mailbox[k]
    BY <1>1, <1>3, <2>3 DEF Ack, Terminal
  <2>5. QED BY <1>2, <2>2, <2>4 DEF Effect, AcksExplained, RowsExplained
<1>4. CASE mailbox[m].status = "acked" /\ UNCHANGED mailboxVars
  <2>1. Terminal(m)'
    BY <1>4 DEF Terminal, mailboxVars
  <2>2. QED BY <1>2, <1>4, <2>1 DEF Effect, AcksExplained, RowsExplained, mailboxVars
<1>5. QED BY <1>3, <1>4 DEF CommitInput, AckOrAcked

-----------------------------------------------------------------------------
(* Every step has an effect the two tables allow.                          *)

\* What memory names are rows.
LEMMA MemoryRows ==
  ASSUME SessionTypeOK
  PROVE  /\ \A r \in Run : refresh[r].batch \subseteq Msg
         /\ \A i \in Consumer : /\ idle[i].batch \subseteq Msg /\ idle[i].stale \subseteq GoalMsg
                               /\ idle[i].ready \in BOOLEAN
  BY DEF SessionTypeOK, IdleState

LEMMA RunStepEffect ==
  ASSUME SessionInv, NEW r \in Run, RunStep(r)
  PROVE  Effect
<1>0. refresh[r].batch \subseteq Msg
  BY MemoryRows DEF SessionInv
<1>1. CASE RefreshClaim(r)
  BY <1>1, ClaimEffect DEF RefreshClaim, FreshClaim
<1>2. CASE RefreshDropGoal(r)
  BY <1>0, <1>2, SettleEffect DEF RefreshDropGoal, FirstOf
<1>3. CASE RefreshCommit(r)
  BY <1>0, <1>3, CommitEffect DEF RefreshCommit, FirstOf
<1>4. CASE RefreshFails(r)
  BY <1>0, <1>4, GiveUpEffect DEF RefreshFails, FirstOf
<1>5. CASE EndRun(r)
  BY <1>5, UnchangedEffect DEF EndRun
<1>6. QED BY <1>1, <1>2, <1>3, <1>4, <1>5 DEF RunStep

LEMMA CompanionEffect ==
  ASSUME SessionInv, NEW i \in Consumer, IdleCompanion(i)
  PROVE  Effect
<1>1. PICK m \in FirstOf(idle[i].batch) :
        EnqueueSettled(m, Root) /\ message' = [message EXCEPT ![m] = CompanionRow(m)]
  BY DEF IdleCompanion
<1>2. m \in Msg
  BY MemoryRows DEF FirstOf, SessionInv
<1>3. CompanionRow(m) # None /\ (message[m] = None \/ CompanionRow(m) = message[m])
  BY DEF CompanionRow
<1>4. QED BY <1>1, <1>2, <1>3, EnqueueSettledEffect

LEMMA IdleStepEffect ==
  ASSUME SessionInv, NEW i \in Consumer, IdleStep(i)
  PROVE  Effect
<1>0. /\ idle[i].batch \subseteq Msg /\ idle[i].stale \subseteq GoalMsg
      /\ idle[i].ready \in BOOLEAN
  BY MemoryRows DEF SessionInv
<1>1. CASE IdleCheck(i)
  BY <1>1, ListEffect DEF IdleCheck
<1>2. CASE IdleProduce(i)
  BY <1>0, <1>2, EnqueueEffect DEF IdleProduce
<1>3. CASE IdleClaim(i)
  BY <1>3, ClaimEffect DEF IdleClaim, FreshClaim
<1>4. CASE IdleDropGoal(i)
  <2>1. PICK m \in FirstOf(idle[i].stale) : Settle(m) /\ message' = message
    BY <1>4 DEF IdleDropGoal
  <2>2. m \in Msg /\ m \in GoalMsg
    BY <1>0, <2>1 DEF FirstOf
  <2>3. QED BY <2>1, <2>2, SettleEffect
<1>5. CASE IdleLaunch(i)
  BY <1>0, <1>5, StartEffect DEF IdleLaunch, FirstOf
<1>6. CASE IdleCompanion(i)
  BY <1>6, CompanionEffect
<1>7. CASE IdleRelease(i)
  BY <1>0, <1>7, GiveUpEffect DEF IdleRelease, FirstOf
<1>8. CASE \/ \E g \in GoalMsg : IdleClaimGoal(i, g)
           \/ IdleRecheck(i) \/ IdleReadGoal(i) \/ IdleNothing(i) \/ IdleOvertaken(i)
           \/ IdleLaunchFails(i) \/ IdleCompanionFails(i)
  BY <1>8, UnchangedEffect
     DEF IdleClaimGoal, IdleRecheck, IdleReadGoal, IdleNothing, IdleOvertaken,
         IdleLaunchFails, IdleCompanionFails
<1>9. QED
  BY <1>1, <1>2, <1>3, <1>4, <1>5, <1>6, <1>7, <1>8 DEF IdleStep

LEMMA StepEffect ==
  ASSUME SessionInv, [Next]_vars
  PROVE  Effect
<1>1. ASSUME NEW m \in UserMsg, UserSend(m)
      PROVE  Effect
  BY <1>1, StartEffect, EnqueueEffect DEF UserSend
<1>2. ASSUME NEW m \in UserMsg, WaiterReturns(m)
      PROVE  Effect
  BY <1>2, UnchangedEffect DEF WaiterReturns
<1>3. ASSUME NEW m \in NoticeMsg, Notify(m)
      PROVE  Effect
  BY <1>3, EnqueueEffect DEF Notify, NoticeMsg, sessionVars
<1>4. CASE GoalChanges \/ Crash \/ UNCHANGED vars
  BY <1>4, UnchangedEffect DEF GoalChanges, Crash, vars
<1>5. ASSUME NEW r \in Run, RunStep(r)
      PROVE  Effect
  BY <1>5, RunStepEffect
<1>6. ASSUME NEW i \in Consumer, IdleStep(i)
      PROVE  Effect
  BY <1>6, IdleStepEffect
<1>7. ASSUME NEW m \in Msg, Clock(m)
      PROVE  Effect
  BY <1>7, ClockEffect DEF Clock, sessionVars
<1>8. QED BY <1>1, <1>2, <1>3, <1>4, <1>5, <1>6, <1>7 DEF Next

\* The effect keeps what relates the two tables.
LEMMA EffectKeeps ==
  ASSUME SessionInv, Effect
  PROVE  MailboxInv' /\ DeliveredFinished' /\ AckedWritten'
<1>1. MailboxInv'
  BY NextKeeps DEF Effect, SessionInv
<1>2. \A m \in Msg : Terminal(m) => Terminal(m)'
  BY NextRowSteps DEF Effect, SessionInv, RowStep, Terminal
<1>3. DeliveredFinished'
  BY <1>2 DEF Effect, RowsExplained, SessionInv, DeliveredFinished
<1>4. AckedWritten'
  BY DEF Effect, AcksExplained, RowsExplained, SessionInv, AckedWritten
<1>5. QED BY <1>1, <1>3, <1>4

-----------------------------------------------------------------------------
(* One active root run.                                                    *)

LEMMA StartRootRuns ==
  ASSUME SessionTypeOK, NEW m, StartRoot(m)
  PROVE  run' \in [Run -> {"absent", "running", "failing", "ended"}] /\ OneActiveRoot'
  BY DEF StartRoot, RootFree, FreshRun, OneActiveRoot, ActiveRoot, SessionTypeOK

LEMMA RunsKept ==
  ASSUME SessionInv, [Next]_vars
  PROVE  run' \in [Run -> {"absent", "running", "failing", "ended"}] /\ OneActiveRoot'
<1> USE DEF SessionInv
<1>1. ASSUME run' = run
      PROVE  run' \in [Run -> {"absent", "running", "failing", "ended"}] /\ OneActiveRoot'
  BY <1>1 DEF SessionTypeOK, OneActiveRoot, ActiveRoot
<1>2. ASSUME NEW m \in UserMsg, UserSend(m) \/ WaiterReturns(m)
      PROVE  run' \in [Run -> {"absent", "running", "failing", "ended"}] /\ OneActiveRoot'
  BY <1>1, <1>2, StartRootRuns DEF UserSend, WaiterReturns
<1>3. ASSUME NEW r \in Run, RunStep(r)
      PROVE  run' \in [Run -> {"absent", "running", "failing", "ended"}] /\ OneActiveRoot'
  <2>1. CASE RefreshFails(r)
    BY <2>1 DEF RefreshFails, SessionTypeOK, OneActiveRoot, ActiveRoot
  <2>2. CASE EndRun(r)
    BY <2>2 DEF EndRun, SessionTypeOK, OneActiveRoot, ActiveRoot
  <2>3. CASE RefreshClaim(r) \/ RefreshDropGoal(r) \/ RefreshCommit(r)
    BY <1>1, <2>3 DEF RefreshClaim, RefreshDropGoal, RefreshCommit
  <2>4. QED BY <1>3, <2>1, <2>2, <2>3 DEF RunStep
<1>4. ASSUME NEW i \in Consumer, IdleStep(i)
      PROVE  run' \in [Run -> {"absent", "running", "failing", "ended"}] /\ OneActiveRoot'
  <2>1. CASE IdleLaunch(i)
    BY <2>1, StartRootRuns DEF IdleLaunch
  <2>2. CASE ~IdleLaunch(i)
    BY <1>1, <1>4, <2>2
       DEF IdleStep, IdleCheck, IdleClaimGoal, IdleProduce, IdleRecheck, IdleClaim, IdleReadGoal,
           IdleDropGoal, IdleNothing, IdleOvertaken, IdleLaunchFails, IdleCompanion,
           IdleCompanionFails, IdleRelease
  <2>3. QED BY <2>1, <2>2
<1>5. CASE Crash
  <2>1. run' \in [Run -> {"absent", "running", "failing", "ended"}]
    BY <1>5 DEF Crash, RecoveredRun, SessionTypeOK
  <2>2. ActiveRoot' = {}
    BY <1>5 DEF Crash, RecoveredRun, ActiveRoot
  <2>3. QED BY <2>1, <2>2 DEF OneActiveRoot
<1>6. CASE \/ \E m \in NoticeMsg : Notify(m)
           \/ \E m \in Msg : Clock(m)
           \/ GoalChanges \/ UNCHANGED vars
  BY <1>1, <1>6 DEF Notify, Clock, GoalChanges, sessionVars, vars
<1>7. QED BY <1>2, <1>3, <1>4, <1>5, <1>6 DEF Next

-----------------------------------------------------------------------------
(* Type correctness of what the processes hold in memory.                  *)

IdlePc == {"off", "checked", "produce", "recheck", "claim", "filter", "drop",
           "companions", "release"}

LEMMA OffState == Off \in IdleState /\ NoRefresh \in [claim : ClaimId \cup {NoClaim}, batch : SUBSET Msg]
  BY DEF Off, IdleState, NoRefresh

\* The state of a consumer stays in its domain, field by field.
LEMMA IdleUpdates ==
  ASSUME NEW s \in IdleState
  PROVE  /\ \A p \in IdlePc : [s EXCEPT !.pc = p] \in IdleState
         /\ \A c \in ClaimId : [s EXCEPT !.claim = c] \in IdleState
         /\ \A b \in SUBSET Msg : [s EXCEPT !.batch = b] \in IdleState
         /\ \A b \in SUBSET GoalMsg : [s EXCEPT !.stale = b] \in IdleState
         /\ \A q \in BOOLEAN : [s EXCEPT !.goalQueued = q] \in IdleState
         /\ \A q \in BOOLEAN : [s EXCEPT !.ready = q] \in IdleState
<1>1. \A p \in IdlePc : [s EXCEPT !.pc = p] \in IdleState
  BY DEF IdleState, IdlePc
<1>2. \A c \in ClaimId : [s EXCEPT !.claim = c] \in IdleState
  BY DEF IdleState
<1>3. \A b \in SUBSET Msg : [s EXCEPT !.batch = b] \in IdleState
  BY DEF IdleState
<1>4. \A b \in SUBSET GoalMsg : [s EXCEPT !.stale = b] \in IdleState
  BY DEF IdleState
<1>5. \A q \in BOOLEAN : [s EXCEPT !.goalQueued = q] \in IdleState
  BY DEF IdleState
<1>6. \A q \in BOOLEAN : [s EXCEPT !.ready = q] \in IdleState
  BY DEF IdleState
<1>7. QED BY <1>1, <1>2, <1>3, <1>4, <1>5, <1>6

\* The steps of a consumer lead to a state of its domain.
LEMMA IdleKept ==
  ASSUME SessionTypeOK, NEW i \in Consumer, NEW s \in IdleState, GoIdle(i, s)
  PROVE  idle' \in [Consumer -> IdleState]
  BY DEF GoIdle, SessionTypeOK

LEMMA RestState ==
  ASSUME SessionTypeOK, NEW i \in Consumer, NEW m, NEW p \in IdlePc
  PROVE  Rest(i, m, p) \in IdleState
<1> DEFINE b == idle[i].batch \ {m}
<1>1. idle[i] \in IdleState /\ b \in SUBSET Msg
  BY MemoryRows DEF SessionTypeOK
<1>2. [idle[i] EXCEPT !.pc = p] \in IdleState
  BY <1>1, IdleUpdates
<1>3. [idle[i] EXCEPT !.pc = p, !.batch = @ \ {m}] = [[idle[i] EXCEPT !.pc = p] EXCEPT !.batch = b]
  BY <1>1 DEF IdleState
<1> HIDE DEF b
<1>4. [[idle[i] EXCEPT !.pc = p] EXCEPT !.batch = b] \in IdleState
  BY <1>1, <1>2, IdleUpdates
<1>5. QED BY <1>3, <1>4, OffState DEF Rest

LEMMA BatchRows ==
  ASSUME NEW box, NEW t, NEW limit
  PROVE  Batch(box, t, limit) \subseteq Msg
  BY DEF Batch, Claimable

LEMMA IdleStepKeeps ==
  ASSUME SessionTypeOK, NEW i \in Consumer, IdleStep(i)
  PROVE  idle' \in [Consumer -> IdleState]
<1>0. idle[i] \in IdleState /\ Off \in IdleState
  BY OffState DEF SessionTypeOK
<1>1. CASE IdleCheck(i)
  <2> DEFINE q == \E g \in GoalMsg : ListSweep[g].status \in {"queued", "claimed"}
             s == [[Off EXCEPT !.pc = "checked"] EXCEPT !.goalQueued = q]
  <2>1. GoIdle(i, s) \/ GoIdle(i, Off)
    <3>1. GoIdle(i, IF ActiveRoot = {} /\ IdleWork THEN s ELSE Off)
      BY <1>1, Zenon DEF IdleCheck
    <3>2. QED BY <3>1, Zenon
  <2>2. q \in BOOLEAN
    BY Zenon
  <2>3. [Off EXCEPT !.pc = "checked"] \in IdleState
    BY <1>0, IdleUpdates DEF IdlePc
  <2> HIDE DEF q
  <2>4. s \in IdleState
    BY <2>2, <2>3, IdleUpdates
  <2> HIDE DEF s
  <2>5. QED BY <1>0, <2>1, <2>4, IdleKept
<1>2. ASSUME NEW g \in GoalMsg, IdleClaimGoal(i, g)
      PROVE  idle' \in [Consumer -> IdleState]
  <2> DEFINE s == [[idle[i] EXCEPT !.pc = "produce"] EXCEPT !.batch = {g}]
  <2>1. [idle[i] EXCEPT !.pc = "produce"] \in IdleState
    BY <1>0, IdleUpdates DEF IdlePc
  <2>2. {g} \in SUBSET Msg
    OBVIOUS
  <2>3. s \in IdleState
    BY <2>1, <2>2, IdleUpdates
  <2>4. GoIdle(i, s)
    BY <1>2 DEF IdleClaimGoal
  <2>5. QED BY <2>3, <2>4, IdleKept
<1>3. CASE IdleProduce(i)
  <2>1. [Off EXCEPT !.pc = "recheck"] \in IdleState
    BY <1>0, IdleUpdates DEF IdlePc
  <2>2. QED BY <1>3, <2>1, IdleKept DEF IdleProduce
<1>4. CASE IdleRecheck(i)
  <2>1. [Off EXCEPT !.pc = "claim"] \in IdleState
    BY <1>0, IdleUpdates DEF IdlePc
  <2>2. QED BY <1>0, <1>4, <2>1, IdleKept DEF IdleRecheck
<1>5. CASE IdleClaim(i)
  <2> DEFINE batch == Batch(ClaimSweep, Root, MaxLimit)
  <2>1. PICK c \in FreshClaim :
          GoIdle(i, IF batch = {} THEN Off
                    ELSE [Off EXCEPT !.pc = "filter", !.claim = c, !.batch = batch])
    BY <1>5 DEF IdleClaim
  <2>2. c \in ClaimId /\ batch \in SUBSET Msg
    BY BatchRows DEF FreshClaim
  <2> HIDE DEF batch
  <2>3. [Off EXCEPT !.pc = "filter", !.claim = c] \in IdleState
    <3>1. [Off EXCEPT !.pc = "filter"] \in IdleState
      BY <1>0, IdleUpdates DEF IdlePc
    <3>2. QED BY <2>2, <3>1, IdleUpdates
  <2>4. [Off EXCEPT !.pc = "filter", !.claim = c, !.batch = batch] \in IdleState
    BY <2>2, <2>3, IdleUpdates
  <2>5. QED BY <1>0, <2>1, <2>4, IdleKept
<1>6. CASE IdleReadGoal(i)
  <2> DEFINE stale == (idle[i].batch \cap GoalMsg) \ {goalLive}
  <2>1. [idle[i] EXCEPT !.pc = "drop"] \in IdleState
    BY <1>0, IdleUpdates DEF IdlePc
  <2>2. stale \in SUBSET GoalMsg
    OBVIOUS
  <2>3. GoIdle(i, [[idle[i] EXCEPT !.pc = "drop"] EXCEPT !.stale = stale])
    BY <1>6 DEF IdleReadGoal
  <2> HIDE DEF stale
  <2>4. QED BY <2>1, <2>2, <2>3, IdleUpdates, IdleKept
<1>7. CASE IdleDropGoal(i)
  <2>1. PICK m : GoIdle(i, [idle[i] EXCEPT !.stale = @ \ {m}, !.batch = @ \ {m}])
    BY <1>7 DEF IdleDropGoal
  <2> DEFINE stale == idle[i].stale \ {m}
             batch == idle[i].batch \ {m}
  <2>2. stale \in SUBSET GoalMsg /\ batch \in SUBSET Msg
    BY MemoryRows
  <2>3. [idle[i] EXCEPT !.stale = @ \ {m}, !.batch = @ \ {m}]
          = [[idle[i] EXCEPT !.stale = stale] EXCEPT !.batch = batch]
    BY <1>0 DEF IdleState
  <2> HIDE DEF stale, batch
  <2>4. [[idle[i] EXCEPT !.stale = stale] EXCEPT !.batch = batch] \in IdleState
    BY <1>0, <2>2, IdleUpdates
  <2>5. QED BY <2>1, <2>3, <2>4, IdleKept
<1>8. ASSUME NEW ready \in BOOLEAN
      PROVE  GiveBack(i, ready) \in IdleState
  <2>1. [idle[i] EXCEPT !.pc = "release"] \in IdleState
    BY <1>0, IdleUpdates DEF IdlePc
  <2>2. QED BY <2>1, IdleUpdates DEF GiveBack
<1>9. CASE IdleNothing(i) \/ IdleOvertaken(i) \/ IdleLaunchFails(i) \/ IdleCompanionFails(i)
  BY <1>0, <1>8, <1>9, IdleKept
     DEF IdleNothing, IdleOvertaken, IdleLaunchFails, IdleCompanionFails
<1>10. CASE IdleLaunch(i) \/ IdleCompanion(i) \/ IdleRelease(i)
  <2>1. PICK m : GoIdle(i, Rest(i, m, "companions")) \/ GoIdle(i, Rest(i, m, "release"))
    BY <1>10 DEF IdleLaunch, IdleCompanion, IdleRelease
  <2>2. Rest(i, m, "companions") \in IdleState /\ Rest(i, m, "release") \in IdleState
    BY RestState DEF IdlePc
  <2>3. QED BY <2>1, <2>2, IdleKept
<1>11. QED
  BY <1>1, <1>2, <1>3, <1>4, <1>5, <1>6, <1>7, <1>9, <1>10 DEF IdleStep

\* The domains of the other variables, named for the steps below.
Messages == [Msg -> Run \cup {None, Unowned}]
Told == [Msg -> SUBSET Run]
Refreshes == [Run -> [claim : ClaimId \cup {NoClaim}, batch : SUBSET Msg]]
Waiters == [UserMsg -> {"none", "waiting", "returned", "gone"}]

Memory ==
  /\ message \in Messages
  /\ told \in Told
  /\ goalLive \in GoalMsg \cup {None}
  /\ refresh \in Refreshes
  /\ idle \in [Consumer -> IdleState]
  /\ waiter \in Waiters
  /\ crashes \in 0..MaxCrashes

LEMMA TypeByParts ==
  SessionTypeOK <=> /\ MailboxTypeOK
                    /\ run \in [Run -> {"absent", "running", "failing", "ended"}]
                    /\ Memory
  BY DEF SessionTypeOK, Memory, Messages, Told, Refreshes, Waiters

LEMMA StartRootMemory ==
  ASSUME Memory, NEW m \in Msg, StartRoot(m)
  PROVE  message' \in Messages /\ told' \in Told
<1>1. PICK r \in FreshRun :
        /\ message' = [message EXCEPT ![m] = r]
        /\ told' = [k \in Msg |-> IF k \in InContext(m) THEN told[k] \cup {r} ELSE told[k]]
  BY DEF StartRoot
<1>2. r \in Run
  BY <1>1 DEF FreshRun
<1>3. QED BY <1>1, <1>2 DEF Memory, Messages, Told

LEMMA HandledMemory ==
  ASSUME Memory, NEW r \in Run, NEW m, Handled(r, m)
  PROVE  refresh' \in Refreshes
  BY OffState DEF Memory, Refreshes, Handled

LEMMA RunStepMemory ==
  ASSUME SessionTypeOK, NEW r \in Run, RunStep(r)
  PROVE  Memory'
<1>0. Memory /\ refresh[r].batch \subseteq Msg
  BY TypeByParts, MemoryRows
<1>1. CASE RefreshClaim(r)
  <2>1. PICK c \in FreshClaim :
          refresh' = [refresh EXCEPT ![r] = [claim |-> c, batch |-> Batch(ClaimSweep, Root, MaxLimit)]]
    BY <1>1 DEF RefreshClaim
  <2>2. refresh' \in Refreshes
    BY <1>0, <2>1, BatchRows DEF Memory, Refreshes, FreshClaim
  <2>3. QED BY <1>0, <1>1, <2>2 DEF RefreshClaim, Memory
<1>2. CASE RefreshDropGoal(r)
  BY <1>0, <1>2, HandledMemory DEF RefreshDropGoal, Memory
<1>3. CASE RefreshCommit(r)
  <2>1. PICK m \in FirstOf(refresh[r].batch) :
          /\ message' = [message EXCEPT ![m] = r]
          /\ told' = [told EXCEPT ![m] = @ \cup {r}]
          /\ Handled(r, m)
    BY <1>3 DEF RefreshCommit
  <2>2. message' \in Messages
    BY <1>0, <2>1 DEF Memory, Messages
  <2>3. told' \in Told
    BY <1>0, <2>1 DEF Memory, Told, FirstOf
  <2>4. refresh' \in Refreshes
    BY <1>0, <2>1, HandledMemory
  <2>5. QED BY <1>0, <1>3, <2>2, <2>3, <2>4 DEF RefreshCommit, Memory
<1>4. CASE RefreshFails(r)
  <2>1. refresh' \in Refreshes
    BY <1>0, <1>4, OffState DEF RefreshFails, Memory, Refreshes
  <2>2. QED BY <1>0, <1>4, <2>1 DEF RefreshFails, Memory
<1>5. CASE EndRun(r)
  BY <1>0, <1>5 DEF EndRun, Memory
<1>6. QED BY <1>1, <1>2, <1>3, <1>4, <1>5 DEF RunStep

LEMMA IdleStepMemory ==
  ASSUME SessionTypeOK, NEW i \in Consumer, IdleStep(i)
  PROVE  Memory'
<1>0. Memory /\ idle[i].batch \subseteq Msg
  BY TypeByParts, MemoryRows
<1>1. idle' \in [Consumer -> IdleState]
  BY IdleStepKeeps
<1>2. CASE IdleLaunch(i)
  <2>1. message' \in Messages /\ told' \in Told
    BY <1>0, <1>2, StartRootMemory DEF IdleLaunch, FirstOf
  <2>2. QED BY <1>0, <1>1, <1>2, <2>1 DEF IdleLaunch, Memory
<1>3. CASE IdleCompanion(i)
  <2>1. message' \in Messages
    BY <1>0, <1>3 DEF IdleCompanion, CompanionRow, Memory, Messages
  <2>2. QED BY <1>0, <1>1, <1>3, <2>1 DEF IdleCompanion, Memory
<1>4. CASE \E g \in GoalMsg : IdleClaimGoal(i, g)
  BY <1>0, <1>1, <1>4 DEF IdleClaimGoal, Memory
<1>5. CASE \/ IdleCheck(i) \/ IdleProduce(i) \/ IdleRecheck(i) \/ IdleClaim(i)
           \/ IdleReadGoal(i) \/ IdleDropGoal(i) \/ IdleNothing(i) \/ IdleOvertaken(i)
           \/ IdleLaunchFails(i) \/ IdleCompanionFails(i) \/ IdleRelease(i)
  BY <1>0, <1>1, <1>5
     DEF Memory, IdleCheck, IdleProduce, IdleRecheck, IdleClaim, IdleReadGoal, IdleDropGoal,
         IdleNothing, IdleOvertaken, IdleLaunchFails, IdleCompanionFails, IdleRelease
<1>6. QED BY <1>2, <1>3, <1>4, <1>5 DEF IdleStep

LEMMA StepMemory ==
  ASSUME SessionTypeOK, [Next]_vars
  PROVE  Memory'
<1>0. Memory
  BY TypeByParts
<1>1. ASSUME NEW m \in UserMsg, UserSend(m)
      PROVE  Memory'
  <2>1. CASE StartRoot(m) /\ UNCHANGED waiter
    BY <1>0, <1>1, <2>1, StartRootMemory DEF UserSend, Memory
  <2>2. CASE ~(StartRoot(m) /\ UNCHANGED waiter)
    <3>1. waiter' \in Waiters
      BY <1>0, <1>1, <2>2 DEF UserSend, Memory, Waiters
    <3>2. QED BY <1>0, <1>1, <2>2, <3>1 DEF UserSend, Memory
  <2>3. QED BY <2>1, <2>2
<1>2. ASSUME NEW m \in UserMsg, WaiterReturns(m)
      PROVE  Memory'
  <2>1. waiter' \in Waiters
    BY <1>0, <1>2 DEF WaiterReturns, Memory, Waiters
  <2>2. QED BY <1>0, <1>2, <2>1 DEF WaiterReturns, Memory
<1>3. ASSUME NEW r \in Run, RunStep(r)
      PROVE  Memory'
  BY <1>3, RunStepMemory
<1>4. ASSUME NEW i \in Consumer, IdleStep(i)
      PROVE  Memory'
  BY <1>4, IdleStepMemory
<1>5. CASE Crash
  <2>1. refresh' \in Refreshes /\ idle' \in [Consumer -> IdleState]
    BY <1>5, OffState DEF Crash, Refreshes
  <2>2. waiter' \in Waiters
    BY <1>0, <1>5 DEF Crash, Memory, Waiters
  <2>3. crashes' \in 0..MaxCrashes
    BY <1>0, <1>5 DEF Crash, Memory
  <2>4. QED BY <1>0, <1>5, <2>1, <2>2, <2>3 DEF Crash, Memory
<1>6. CASE \/ \E m \in NoticeMsg : Notify(m)
           \/ \E m \in Msg : Clock(m)
           \/ GoalChanges \/ UNCHANGED vars
  BY <1>0, <1>6 DEF Memory, Notify, Clock, GoalChanges, sessionVars, vars
<1>7. QED BY <1>1, <1>2, <1>3, <1>4, <1>5, <1>6 DEF Next

-----------------------------------------------------------------------------
(* What the model input of a run has held.                                 *)

LEMMA ToldKept ==
  ASSUME Memory, OwnersTold, UNCHANGED <<message, told>>
  PROVE  OwnersTold'
  BY DEF OwnersTold

LEMMA StartRootTold ==
  ASSUME Memory, OwnersTold, NEW m \in Msg, StartRoot(m)
  PROVE  OwnersTold'
<1>1. PICK r \in FreshRun :
        /\ message' = [message EXCEPT ![m] = r]
        /\ told' = [k \in Msg |-> IF k \in InContext(m) THEN told[k] \cup {r} ELSE told[k]]
  BY DEF StartRoot
<1>2. m \in InContext(m) /\ r \in told'[m] /\ \A k \in Msg : told[k] \subseteq told'[k]
  BY <1>1 DEF InContext
<1>3. message'[m] = r /\ \A k \in Msg \ {m} : message'[k] = message[k]
  BY <1>1 DEF Memory, Messages
<1>4. QED BY <1>2, <1>3 DEF OwnersTold

LEMMA ToldStep ==
  ASSUME SessionTypeOK, OwnersTold, [Next]_vars
  PROVE  OwnersTold'
<1>0. Memory
  BY TypeByParts
<1>1. ASSUME NEW m \in UserMsg, UserSend(m)
      PROVE  OwnersTold'
  BY <1>0, <1>1, StartRootTold, ToldKept DEF UserSend
<1>2. ASSUME NEW r \in Run, RefreshCommit(r)
      PROVE  OwnersTold'
  <2>1. PICK m \in FirstOf(refresh[r].batch) :
          message' = [message EXCEPT ![m] = r] /\ told' = [told EXCEPT ![m] = @ \cup {r}]
    BY <1>2 DEF RefreshCommit
  <2>2. m \in Msg
    BY MemoryRows, <2>1 DEF FirstOf
  <2>3. message'[m] = r /\ \A k \in Msg \ {m} : message'[k] = message[k]
    BY <1>0, <2>1, <2>2 DEF Memory, Messages
  <2>4. told'[m] = told[m] \cup {r} /\ \A k \in Msg \ {m} : told'[k] = told[k]
    BY <1>0, <2>1, <2>2 DEF Memory, Told
  <2>5. QED BY <2>3, <2>4 DEF OwnersTold
<1>3. ASSUME NEW i \in Consumer, IdleLaunch(i)
      PROVE  OwnersTold'
  <2>1. idle[i].batch \subseteq Msg
    BY MemoryRows
  <2>2. QED BY <1>0, <1>3, <2>1, StartRootTold DEF IdleLaunch, FirstOf
<1>4. ASSUME NEW i \in Consumer, IdleCompanion(i)
      PROVE  OwnersTold'
  <2>1. told' = told /\ \A k \in Msg : message'[k] \in {message[k], Unowned}
    BY <1>0, <1>4 DEF IdleCompanion, CompanionRow, Memory, Messages
  <2>2. QED BY <2>1 DEF OwnersTold
<1>5. ASSUME NEW i \in Consumer, IdleStep(i), ~IdleLaunch(i), ~IdleCompanion(i)
      PROVE  OwnersTold'
  <2>1. UNCHANGED <<message, told>>
    BY <1>5
       DEF IdleStep, IdleClaimGoal, IdleCheck, IdleProduce, IdleRecheck, IdleClaim, IdleReadGoal, IdleDropGoal,
           IdleNothing, IdleOvertaken, IdleLaunchFails, IdleCompanionFails, IdleRelease
  <2>2. QED BY <1>0, <2>1, ToldKept
<1>6. ASSUME NEW r \in Run, RunStep(r), ~RefreshCommit(r)
      PROVE  OwnersTold'
  <2>1. UNCHANGED <<message, told>>
    BY <1>6 DEF RunStep, RefreshClaim, RefreshDropGoal, RefreshFails, EndRun
  <2>2. QED BY <1>0, <2>1, ToldKept
<1>7. CASE \/ \E m \in NoticeMsg : Notify(m)
           \/ \E m \in Msg : Clock(m)
           \/ \E m \in UserMsg : WaiterReturns(m)
           \/ GoalChanges \/ Crash \/ UNCHANGED vars
  <2>1. UNCHANGED <<message, told>>
    BY <1>7 DEF Notify, Clock, WaiterReturns, GoalChanges, Crash, sessionVars, vars
  <2>2. QED BY <1>0, <2>1, ToldKept
<1>8. QED BY <1>1, <1>2, <1>3, <1>4, <1>5, <1>6, <1>7 DEF Next

-----------------------------------------------------------------------------
(* The invariant, and the theorems.                                        *)

LEMMA SessionInit == Init => SessionInv
<1> SUFFICES ASSUME Init PROVE SessionInv
  OBVIOUS
<1>1. MailboxInv
  BY InitInv DEF Init
<1>2. run \in [Run -> {"absent", "running", "failing", "ended"}] /\ OneActiveRoot
  BY DEF Init, OneActiveRoot, ActiveRoot
<1>3. Memory
  BY OffState DEF Init, Memory, Messages, Told, Refreshes, Waiters
<1>4. \A m \in Msg : message[m] = None /\ mailbox[m].status = "absent"
  BY DEF Init, MailboxInit, AbsentRow
<1>5. QED BY <1>1, <1>2, <1>3, <1>4, TypeByParts
       DEF SessionInv, MailboxInv, DeliveredFinished, AckedWritten, OwnersTold

LEMMA SessionStep == SessionInv /\ [Next]_vars => SessionInv'
<1> SUFFICES ASSUME SessionInv, [Next]_vars PROVE SessionInv'
  OBVIOUS
<1>1. MailboxInv' /\ DeliveredFinished' /\ AckedWritten'
  BY StepEffect, EffectKeeps
<1>2. run' \in [Run -> {"absent", "running", "failing", "ended"}] /\ OneActiveRoot'
  BY RunsKept
<1>3. Memory'
  BY StepMemory DEF SessionInv
<1>4. SessionTypeOK'
  BY <1>1, <1>2, <1>3 DEF MailboxInv, SessionTypeOK, Memory, Messages, Told, Refreshes, Waiters
<1>5. OwnersTold'
  BY ToldStep DEF SessionInv
<1>6. QED BY <1>1, <1>2, <1>4, <1>5 DEF SessionInv

\* What the database and the processes hold stays in its domain.
THEOREM SessionTypeCorrect == Spec => []SessionTypeOK
<1>1. SessionInv => SessionTypeOK
  BY DEF SessionInv
<1>2. QED BY SessionInit, SessionStep, <1>1, PTL DEF Spec

\* Every step of the input path is a step of the mailbox store, or none: what
\* is proved of the store for any callers holds for these.
THEOREM ImplementsMailbox == Spec => MailboxRefined
<1>1. Init => MailboxInit
  BY DEF Init
<1>2. SessionInv /\ [Next]_vars => [MailboxNext]_mailboxVars
  BY StepEffect DEF Effect
<1>3. QED BY SessionInit, SessionStep, <1>1, <1>2, PTL DEF Spec, MailboxRefined, MailboxSpec

\* A session never has two active root runs.
THEOREM SingleRoot == Spec => []OneActiveRoot
<1>1. SessionInv => OneActiveRoot
  BY DEF SessionInv
<1>2. QED BY SessionInit, SessionStep, <1>1, PTL DEF Spec

\* A message that may still be delivered is not yet in the conversation.
THEOREM NoStrandedMessage == Spec => []PendingUndelivered
<1>1. SessionInv => PendingUndelivered
  BY DEF SessionInv, DeliveredFinished, PendingUndelivered, Pending, Terminal
<1>2. QED BY SessionInit, SessionStep, <1>1, PTL DEF Spec

\* Acknowledged input is in the conversation, and the run that took it has had it
\* in its model input (commitRunInput, startOrAppendRoot, settleRows).
THEOREM NothingLost == Spec => []AckedInHistory
<1>1. SessionInv => AckedInHistory
  <2>1. SUFFICES ASSUME SessionInv, NEW m \in Msg \ GoalMsg, mailbox[m].status = "acked"
                 PROVE  message[m] = Unowned \/ message[m] \in told[m]
    BY DEF AckedInHistory
  <2>2. message[m] # None
    BY <2>1 DEF SessionInv, AckedWritten
  <2>3. message[m] \in Run \cup {None, Unowned}
    BY <2>1 DEF SessionInv, SessionTypeOK
  <2>4. QED BY <2>1, <2>2, <2>3 DEF SessionInv, OwnersTold
<1>2. QED BY SessionInit, SessionStep, <1>1, PTL DEF Spec

\* No run takes over a message another one has consumed.
THEOREM SingleConsumption == Spec => ConsumedOnce
<1>1. SessionInv /\ [Next]_vars
        => [\A m \in Msg : message[m] # None => message'[m] = message[m]]_vars
  BY StepEffect DEF Effect, RowsExplained
<1>2. QED BY SessionInit, SessionStep, <1>1, PTL DEF Spec, ConsumedOnce

=============================================================================
