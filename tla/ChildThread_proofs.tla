-------------------------- MODULE ChildThread_proofs --------------------------
(***************************************************************************)
(* Theorems about the thread of a child: types, what the parent is told of *)
(* a run, and one run at work, for any number of messages, attempts and    *)
(* mishaps.                                                                *)
(*                                                                         *)
(* A run is named after the message or call that it is started from, and   *)
(* each starts one run at most: a call that has queued its message is over,*)
(* a queued message has no run yet, and the transaction that starts a run  *)
(* settles the row.  So a run that has ended stays as it is, and what was  *)
(* noted of its outcome (ResultsOK, ResumesOK) stays true.                 *)
(***************************************************************************)
EXTENDS ChildThread, AgentMailbox_proofs

\* What an executor, a resume or a call hands on agrees with the row of the run.
Agrees(r, out) == /\ out = "ok" => run[r] = "completed"
                  /\ out = "failed" => run[r] \in {"failed", "absent"}

\* A call that has not begun a run has none, and one whose message was queued is over.
CallOK(c) ==
  /\ call[c].pc \in {"new", "looked", "enqueue"} =>
       /\ c \in Send /\ mailbox[c].status = "absent"
       /\ run[c] = "absent" /\ exec[c] = Idle
  /\ call[c].pc = "report" => Agrees(c, call[c].out) /\ call[c].out # "none"
  /\ c \in Send /\ mailbox[c].status # "absent" => call[c].pc = "done"
CallsOK == \A c \in Call : CallOK(c)

\* An executor belongs to the call or to the gate that began it, or to a resume.
ExecOK(r) ==
  /\ exec[r].at = "none" <=> exec[r].by = "none"
  /\ exec[r].at = "begun" => run[r] = "absent" /\ exec[r].by # "resume"
  /\ exec[r].at \in {"started", "live"} => run[r] \in {"running", "failed"}
  /\ exec[r].by = "call" => r \in Call /\ call[r].pc = "active"
  /\ exec[r].by = "gate" => r = gate.msg /\ gate.pc = IF exec[r].at = "live" THEN "run" ELSE "start"
ExecsOK == \A r \in Run : ExecOK(r)

\* The message in the hands of the gate is in the table, and has no run before the
\* gate begins it.
GateOK ==
  /\ gate.pc \in {"register", "giveback", "start", "run", "finish", "stuck"} =>
       gate.msg \in Msg /\ mailbox[gate.msg].status # "absent"
  /\ gate.pc \in {"register", "giveback"} =>
       run[gate.msg] = "absent" /\ exec[gate.msg] = Idle
  /\ gate.pc = "finish" => /\ gate.out # "none" /\ Agrees(gate.msg, gate.out)
                           /\ run[gate.msg] # "absent"
  /\ gate.pc \in {"claim", "register"} => latest \in Run

\* A message that waits has no run, and one from below has none before it is queued.
MessageOK(m) ==
  /\ Pending(m) => run[m] = "absent"
  /\ m \notin Send /\ mailbox[m].status = "absent" => run[m] = "absent"
MessagesOK == \A m \in Msg : MessageOK(m)

\* What a resume or a pass has still to handle is of a run that is there.
ResumesOK == \A r \in Run : Agrees(r, resumed[r]) /\ (resumed[r] # "none" => run[r] # "absent")
PassOK == \A r \in pass.todo : Continuation(r) /\ Ended(r)

\* A run with a result has ended, or is the run of a call that will never start.
NeverStarts(r) ==
  /\ run[r] = "absent" /\ exec[r] = Idle
  /\ r \in Call /\ call[r].pc \in {"end", "done"}
  /\ r \in Msg => mailbox[r].status = "absent"
ResultOK(r) ==
  /\ result[r] = "completed" => run[r] = "completed"
  /\ result[r] # "none" => Ended(r) \/ NeverStarts(r)
ResultsOK == \A r \in Run : ResultOK(r)

\* A route stands for a run that is there, for the one the gate is starting, or for a
\* call.
RouteOK ==
  /\ latest # None => run[latest] # "absent"
  /\ \A m \in Msg : route.run = m =>
       \/ run[m] # "absent"
       \/ gate.msg = m /\ gate.pc \in {"start", "stuck"}
       \/ /\ m \in Send /\ mailbox[m].status = "absent"
          /\ call[m].pc \notin {"new", "looked", "enqueue"}
\* Only the newest run is not over; a run that is about to start has the route, and
\* the newest run is over.  A run that was begun blindly may break this.
Open(r) == run[r] \in {"running", "suspended"}
NewestOnly ==
  /\ \A r \in Run : Open(r) => r = latest
  /\ \A r \in Run : exec[r].at = "begun" =>
       route.run = r /\ (latest # None => Ended(latest))
AloneOK == RouteOK /\ (blind = {} => NewestOnly)

ChildInv ==
  /\ ChildTypeOK /\ MailboxInv
  /\ CallsOK /\ ExecsOK /\ GateOK /\ MessagesOK
  /\ ResumesOK /\ PassOK /\ ResultsOK /\ AloneOK

USE ChildConstants

-----------------------------------------------------------------------------
(* The table.                                                              *)

\* No step removes a row or brings a finished one back.
Kept == \A m \in Msg : /\ mailbox'[m].status = "absent" <=> mailbox[m].status = "absent"
                       /\ mailbox'[m].status \in {"queued", "claimed"} => Pending(m)
Queued(m) == /\ mailbox[m].status = "absent" /\ mailbox'[m].status # "absent"
             /\ \A k \in Msg \ {m} : mailbox'[k] = mailbox[k]

LEMMA StatusOf ==
  ASSUME MailboxInv, NEW m \in Msg
  PROVE  mailbox[m].status \in Status
  BY InvByRows DEF GoodRow, Row

LEMMA QueuedStep ==
  ASSUME MailboxInv, NEW m \in Msg, NEW s \in SentTime, mailbox[m].status = "absent",
         Enqueue(m, Branch, TRUE, "none", s)
  PROVE  MailboxInv' /\ Queued(m)
<1>1. MailboxInv'
  BY EnqueueKeeps
<1>2. mailbox = [k \in Msg |-> mailbox[k]]
  BY InvByRows
<1>3. NewRow(Branch, TRUE, "none", s).status = "queued"
  BY DEF NewRow
<1>4. Queued(m)
  BY <1>2, <1>3 DEF Enqueue, Queued
<1>5. QED BY <1>1, <1>4

LEMMA SweptKept ==
  ASSUME MailboxInv, NEW m \in Msg, NEW row, Swept(mailbox[m], row)
  PROVE  /\ row.status = "absent" <=> mailbox[m].status = "absent"
         /\ row.status \in {"queued", "claimed"} => Pending(m)
  BY StatusOf DEF Swept, Status, Pending

LEMMA SameStep ==
  ASSUME MailboxInv, UNCHANGED <<mailbox, nextSeq>>
  PROVE  MailboxInv' /\ Kept
  BY UnchangedKeeps DEF mailboxVars, Kept, Pending

LEMMA ListStep ==
  ASSUME MailboxInv, ListPending
  PROVE  MailboxInv' /\ Kept
<1>1. \A m \in Msg : Swept(mailbox[m], ListSweep[m])
  BY ListSweepSwept
<1>2. ListSweep = [m \in Msg |-> ListSweep[m]] /\ mailbox' = ListSweep /\ nextSeq' = nextSeq
  BY DEF ListSweep, ListPending
<1>3. MailboxInv'
  <2> HIDE DEF ListSweep
  <2>1. QED BY <1>1, <1>2, SweptTable
<1>4. QED BY <1>1, <1>2, <1>3, SweptKept DEF Kept

\* What a claim or a refresh takes was queued or its lease had lapsed.
LEMMA TakenPending ==
  ASSUME MailboxInv, NEW limit, NEW m \in Batch(ClaimSweep, Branch, limit)
  PROVE  m \in Msg /\ Pending(m) /\ ClaimSweep[m].status = "queued"
<1>1. m \in Msg /\ ClaimSweep[m].status = "queued"
  BY DEF Batch, Claimable
<1>2. Swept(mailbox[m], ClaimSweep[m])
  BY <1>1, ClaimSweepSwept
<1> HIDE DEF ClaimSweep
<1>3. QED BY <1>1, <1>2, SweptKept

LEMMA ClaimStep ==
  ASSUME MailboxInv, NEW c \in ClaimId, Claim(Branch, c, 1)
  PROVE  MailboxInv' /\ Kept
<1>1. 1 \in 1..MaxLimit
  BY MailboxConstants
<1>2. MailboxInv'
  BY <1>1, ClaimKeeps
<1>3. ASSUME NEW m \in Msg
      PROVE  /\ mailbox'[m].status = "absent" <=> mailbox[m].status = "absent"
             /\ mailbox'[m].status \in {"queued", "claimed"} => Pending(m)
  <2> DEFINE s == ClaimSweep[m]
  <2>1. Swept(mailbox[m], s)
    BY ClaimSweepSwept
  <2>2. mailbox'[m] = s \/ (mailbox'[m] = ClaimRow(s, c) /\ m \in Batch(ClaimSweep, Branch, 1))
    BY DEF Claim, AfterClaim, ClaimSweep
  <2>3. CASE mailbox'[m] = s
    <3> HIDE DEF s
    <3>1. QED BY <2>1, <2>3, SweptKept
  <2>4. CASE mailbox'[m] = ClaimRow(s, c) /\ m \in Batch(ClaimSweep, Branch, 1)
    <3>1. Pending(m)
      BY <2>4, TakenPending
    <3> HIDE DEF s
    <3>2. ClaimRow(s, c).status = "claimed"
      BY <2>1, ClaimedRow DEF Swept, GoodRow
    <3>3. QED BY <2>4, <3>1, <3>2 DEF Pending
  <2>5. QED BY <2>2, <2>3, <2>4
<1>4. QED BY <1>2, <1>3 DEF Kept

LEMMA SettleStep ==
  ASSUME MailboxInv, NEW m \in Msg, Settle(m)
  PROVE  MailboxInv' /\ Kept /\ mailbox'[m].status \notin {"queued", "claimed"}
<1>1. MailboxInv'
  BY RowStepKeeps DEF Settle
<1>2. mailbox = [k \in Msg |-> mailbox[k]] /\ mailbox[m] \in Row
  BY InvByRows DEF GoodRow
<1>3. /\ SettledRow(mailbox[m]).status \in {"acked", "expired", "absent"}
      /\ SettledRow(mailbox[m]).status = "absent" <=> mailbox[m].status = "absent"
  BY <1>2 DEF SettledRow, AckedRow, ClearClaim, Row, Status
<1> DEFINE row == SettledRow(mailbox[m])
<1>4. mailbox' = [mailbox EXCEPT ![m] = row]
  BY DEF Settle
<1> HIDE DEF row
<1>5. mailbox'[m] = row /\ \A k \in Msg \ {m} : mailbox'[k] = mailbox[k]
  BY <1>2, <1>4
<1>6. row.status \in {"acked", "expired", "absent"} /\ (row.status = "absent" <=> mailbox[m].status = "absent")
  BY <1>3 DEF row
<1>7. QED BY <1>1, <1>5, <1>6 DEF Kept, Pending

LEMMA GiveUpStep ==
  ASSUME MailboxInv, NEW m \in Msg, NEW c, GiveUp(m, c)
  PROVE  MailboxInv' /\ Kept
<1>1. CASE mailbox[m].status = "claimed" /\ mailbox[m].claim = c
  <2> DEFINE row == ReleasedRow(mailbox[m], FALSE)
  <2>1. mailbox' = [mailbox EXCEPT ![m] = row] /\ nextSeq' = nextSeq
    BY <1>1 DEF GiveUp, Release
  <2>2. MailboxInv'
    BY <1>1, <2>1, RowStepKeeps
  <2>3. mailbox = [k \in Msg |-> mailbox[k]] /\ mailbox[m] \in Row
    BY InvByRows DEF GoodRow
  <2>4. row.status = "queued"
    BY <2>3 DEF ReleasedRow, ClearClaim, Row
  <2> HIDE DEF row
  <2>5. QED BY <1>1, <2>1, <2>2, <2>3, <2>4 DEF Kept, Pending
<1>2. CASE ~(mailbox[m].status = "claimed" /\ mailbox[m].claim = c)
  BY <1>2, SameStep DEF GiveUp, mailboxVars
<1>3. QED BY <1>1, <1>2

LEMMA ClockStep ==
  ASSUME MailboxInv, NEW m \in Msg, LeaseLapses(m) \/ BackoffElapses(m)
  PROVE  MailboxInv' /\ Kept
<1>1. MailboxInv'
  BY ClockKeeps
<1>2. mailbox = [k \in Msg |-> mailbox[k]] /\ mailbox[m] \in Row
  BY InvByRows DEF GoodRow
<1>3. mailbox'[m].status = mailbox[m].status /\ \A k \in Msg \ {m} : mailbox'[k] = mailbox[k]
  BY <1>2 DEF LeaseLapses, BackoffElapses, Row
<1>4. QED BY <1>1, <1>3 DEF Kept, Pending

\* The refresh of a run claims and acknowledges in one transaction.
LEMMA TakesStep ==
  ASSUME MailboxInv, NEW r \in Run, Takes(r)
  PROVE  MailboxInv' /\ Kept
<1> DEFINE B == Batch(ClaimSweep, Branch, MaxLimit)
           taken(m) == AckedRow(ClaimRow(ClaimSweep[m], NoClaim))
<1>1. /\ mailbox' = [m \in Msg |-> IF m \in B THEN taken(m) ELSE ClaimSweep[m]]
      /\ nextSeq' = nextSeq
  BY DEF Takes
<1>2. ASSUME NEW m \in Msg
      PROVE  /\ GoodRow(mailbox'[m])
             /\ mailbox'[m].thread = mailbox[m].thread /\ mailbox'[m].seq = mailbox[m].seq
             /\ mailbox'[m].claim # NoClaim => mailbox'[m].claim = mailbox[m].claim
             /\ mailbox'[m].status = "absent" <=> mailbox[m].status = "absent"
             /\ mailbox'[m].status \in {"queued", "claimed"} => Pending(m)
  <2> DEFINE s == ClaimSweep[m]
  <2>1. Swept(mailbox[m], s) /\ (s.status = "queued" => s.attempts < MaxAttempts)
    BY ClaimSweepSwept
  <2>2. CASE m \in B
    <3>1. Pending(m) /\ s.status = "queued"
      BY <2>2, TakenPending
    <3>2. mailbox'[m] = AckedRow(ClaimRow(s, NoClaim))
      BY <1>1, <2>2
    <3> HIDE DEF s, B
    <3>3. GoodRow(s)
      BY <2>1 DEF Swept
    <3>4. AckedRow(ClaimRow(s, NoClaim)) =
            [s EXCEPT !.status = "acked", !.claim = NoClaim, !.lapsed = FALSE, !.attempts = @ + 1]
      BY <3>3 DEF AckedRow, ClearClaim, ClaimRow, GoodRow, Row
    <3>5. s.attempts + 1 \in Nat /\ s.attempts + 1 <= MaxAttempts
      BY <2>1, <3>1, <3>3, MailboxConstants DEF GoodRow, Row
    <3>6. [s EXCEPT !.status = "acked", !.claim = NoClaim, !.lapsed = FALSE, !.attempts = @ + 1] \in Row
      BY <3>3, <3>5 DEF GoodRow, Row, Status
    <3>7. /\ mailbox'[m].thread = s.thread /\ mailbox'[m].seq = s.seq
          /\ mailbox'[m].claim = NoClaim /\ mailbox'[m].status = "acked"
          /\ mailbox'[m].lapsed = FALSE /\ mailbox'[m].attempts = s.attempts + 1
      BY <3>2, <3>3, <3>4 DEF GoodRow, Row
    <3>8. GoodRow(mailbox'[m])
      BY <3>2, <3>4, <3>5, <3>6, <3>7 DEF GoodRow
    <3>9. QED BY <2>1, <3>1, <3>7, <3>8 DEF Swept, Pending
  <2>3. CASE m \notin B
    <3>1. mailbox'[m] = s
      BY <1>1, <2>3
    <3> HIDE DEF s, B
    <3>2. QED BY <2>1, <3>1, SweptKept DEF Swept
  <2>4. QED BY <2>2, <2>3
<1> HIDE DEF B, taken
<1>3. OneBranchPerClaim'
  BY <1>2 DEF OneBranchPerClaim, MailboxInv
<1>4. SeqUnique'
  BY <1>1, <1>2 DEF SeqUnique, MailboxInv
<1>5. mailbox' = [m \in Msg |-> mailbox'[m]]
  BY <1>1
<1>6. MailboxTypeOK' /\ AttemptsBounded' /\ ClaimIffClaimed'
  BY <1>1, <1>2, <1>5 DEF MailboxInv, MailboxTypeOK, AttemptsBounded, ClaimIffClaimed, GoodRow
<1>7. MailboxInv'
  BY <1>3, <1>4, <1>6 DEF MailboxInv
<1>8. QED BY <1>2, <1>7 DEF Kept

-----------------------------------------------------------------------------
(* The variables, with names for their domains.                            *)

RunStatus == {"absent", "running", "suspended", "completed", "failed"}
Told == {"none", "completed", "failed"}
Routes == [run : Run, by : {"call", "gate", "resume"}] \cup {NoRoute}
Execs == [at : {"none", "begun", "started", "live"}, by : {"none", "call", "gate", "resume"}]
Calls == [pc : {"new", "looked", "enqueue", "active", "report", "end", "done"},
          last : Run \cup {None}, busy : BOOLEAN, back : BOOLEAN, out : Outcome]
Gates == [pc : {"rest", "look", "claim", "orphan", "register", "giveback", "start", "run",
                "finish", "next", "stuck"},
          msg : Msg \cup {None}, claim : ClaimId \cup {NoClaim}, out : Outcome, dirty : BOOLEAN]
Passes == [pc : {"rest", "begin", "recover"}, todo : SUBSET Run, dirty : BOOLEAN]
Spent == [mishaps : Nat, crashed : BOOLEAN]

ThreadTypes ==
  /\ run \in [Run -> RunStatus] /\ message \in [Msg -> Run \cup {None}]
  /\ latest \in Run \cup {None} /\ result \in [Run -> Told]
  /\ route \in Routes /\ exec \in [Run -> Execs] /\ call \in [Call -> Calls]
  /\ gate \in Gates /\ resumed \in [Run -> Outcome] /\ pass \in Passes
  /\ blind \subseteq Run /\ spent \in Spent

LEMMA TypesNamed == ChildTypeOK <=> MailboxTypeOK /\ ThreadTypes
  BY DEF ChildTypeOK, ThreadTypes, RunStatus, Told, Routes, Execs, Calls, Gates, Passes, Spent

LEMMA Types ==
  ASSUME ChildInv
  PROVE  ThreadTypes
  BY TypesNamed DEF ChildInv

LEMMA Names ==
  /\ Call \subseteq Run /\ Msg \subseteq Run /\ Send \subseteq Call
  /\ None \notin Run /\ \A m \in Msg \ Send : m \notin Call
  BY DEF Run, Call

\* The values at rest, and what a trigger and the end of a round make of them.
LEMMA Blanks ==
  /\ Idle \in Execs /\ NoRoute \in Routes /\ NewCall \in Calls /\ Done \in Calls
  /\ Resting \in Gates /\ NoPass \in Passes
<1>1. Idle \in Execs /\ NoRoute \in Routes
  BY DEF Idle, Execs, Routes
<1>2. NewCall \in Calls
  BY DEF NewCall, Calls, Outcome
<1>3. Done \in Calls
  BY DEF Done, NewCall, Calls, Outcome
<1>4. Resting \in Gates /\ NoPass \in Passes
  BY DEF Resting, Gates, NoPass, Passes, Outcome
<1>5. QED BY <1>1, <1>2, <1>3, <1>4

\* A gate that is woken, or has gone round, holds no message, unless it was under
\* way and only leaves a mark.
LEMMA GateMoves ==
  ASSUME NEW g \in Gates
  PROVE  /\ Woken(g) \in Gates /\ Rested(g) \in Gates
         /\ Rested(g).pc \in {"rest", "look"}
         /\ \/ Woken(g).pc = "look" /\ g.pc = "rest"
            \/ Woken(g).pc = g.pc /\ Woken(g).msg = g.msg /\ Woken(g).out = g.out
<1>1. /\ [Resting EXCEPT !.pc = "look"] \in Gates
      /\ [Resting EXCEPT !.pc = "look"].pc = "look" /\ Resting.pc = "rest"
  BY DEF Resting, Gates, Outcome
<1>2. /\ [g EXCEPT !.dirty = TRUE] \in Gates
      /\ [g EXCEPT !.dirty = TRUE].pc = g.pc /\ [g EXCEPT !.dirty = TRUE].msg = g.msg
      /\ [g EXCEPT !.dirty = TRUE].out = g.out
  BY DEF Gates
<1>3. QED BY <1>1, <1>2, Blanks DEF Woken, Rested

LEMMA NextGate ==
  ASSUME gate \in Gates
  PROVE  /\ [Resting EXCEPT !.pc = "next", !.dirty = gate.dirty] \in Gates
         /\ [Resting EXCEPT !.pc = "next", !.dirty = gate.dirty].pc = "next"
<1>1. PICK d \in BOOLEAN : d = gate.dirty
  BY DEF Gates
<1>2. [Resting EXCEPT !.pc = "next", !.dirty = d] \in Gates
  BY DEF Resting, Gates, Outcome
<1>3. [Resting EXCEPT !.pc = "next", !.dirty = d].pc = "next"
  BY DEF Resting
<1>4. QED BY <1>1, <1>2, <1>3

LEMMA PassMoves ==
  ASSUME NEW p \in Passes
  PROVE  /\ Triggered(p) \in Passes /\ PassOver(p) \in Passes
         /\ Triggered(p).todo \in {{}, p.todo} /\ PassOver(p).todo = {}
<1>1. /\ [NoPass EXCEPT !.pc = "begin"] \in Passes /\ [NoPass EXCEPT !.pc = "begin"].todo = {}
      /\ NoPass.todo = {}
  BY DEF NoPass, Passes
<1>2. [p EXCEPT !.dirty = TRUE] \in Passes /\ [p EXCEPT !.dirty = TRUE].todo = p.todo
  BY DEF Passes
<1>3. QED BY <1>1, <1>2, Blanks DEF Triggered, PassOver

LEMMA TypesNext ==
  ASSUME MailboxInv', ThreadTypes'
  PROVE  ChildTypeOK'
  BY DEF MailboxInv, ChildTypeOK, ThreadTypes, RunStatus, Told, Routes, Execs, Calls, Gates,
         Passes, Spent

\* An executor of a call that is neither at work nor over is that of a resume.
LEMMA ExecOfCall ==
  ASSUME ChildInv, NEW c \in Call, call[c].pc \notin {"active", "done"}
  PROVE  exec[c].at # "begun" /\ exec[c].by \notin {"call", "gate"}
<1>1. exec[c].by # "call"
  BY Names DEF ChildInv, ExecsOK, ExecOK
<1>2. exec[c].by # "gate"
  <2> SUFFICES ASSUME exec[c].by = "gate" PROVE FALSE
    OBVIOUS
  <2>1. c = gate.msg /\ gate.pc \in {"run", "start"}
    BY Names DEF ChildInv, ExecsOK, ExecOK
  <2>2. c \in Msg /\ mailbox[c].status # "absent"
    BY <2>1 DEF ChildInv, GateOK
  <2>3. c \in Send
    BY <2>2, Names
  <2>4. QED BY <2>2, <2>3 DEF ChildInv, CallsOK, CallOK
<1>3. exec[c] \in Execs
  BY Types, Names DEF ThreadTypes
<1>4. exec[c].at = "none" <=> exec[c].by = "none"
  BY Names DEF ChildInv, ExecsOK, ExecOK
<1>5. exec[c].at = "begun" => exec[c].by # "resume"
  BY Names DEF ChildInv, ExecsOK, ExecOK
<1>6. QED BY <1>1, <1>2, <1>3, <1>4, <1>5 DEF Execs

LEMMA IdleExec ==
  ASSUME ChildInv, NEW r \in Run, exec[r].by = "none" \/ exec[r].at = "none"
  PROVE  exec[r] = Idle
<1>1. exec[r] \in Execs
  BY Types DEF ThreadTypes
<1>2. exec[r].at = "none" /\ exec[r].by = "none"
  BY DEF ChildInv, ExecsOK, ExecOK
<1>3. QED BY <1>1, <1>2 DEF Execs, Idle

\* A call whose run has failed before it was there will never start it.
LEMMA FailedCall ==
  ASSUME ChildInv, NEW c \in Call, call[c].pc = "report", run[c] = "absent"
  PROVE  exec[c] = Idle /\ (c \in Msg => mailbox[c].status = "absent")
<1>1. exec[c].at # "begun" /\ exec[c] \in Execs
  BY ExecOfCall, Types, Names DEF ThreadTypes
<1>2. exec[c].at \notin {"started", "live"}
  BY Names DEF ChildInv, ExecsOK, ExecOK
<1>3. exec[c] = Idle
  <2>1. exec[c].at = "none"
    BY <1>1, <1>2 DEF Execs
  <2>2. QED BY <2>1, IdleExec, Names
<1>4. QED BY <1>3, Names DEF ChildInv, CallsOK, CallOK

LEMMA GateHolds ==
  ASSUME ChildInv, gate.pc \in {"register", "giveback", "start", "run", "finish", "stuck"}
  PROVE  gate.msg \in Msg /\ gate.msg \in Run
  BY Names DEF ChildInv, GateOK

LEMMA ReportedOnce ==
  ASSUME result \in [Run -> Told], NEW r \in Run, NEW out
  PROVE  /\ Reported(r, out) \in [Run -> Told]
         /\ \A x \in Run \ {r} : Reported(r, out)[x] = result[x]
         /\ \/ Reported(r, out)[r] = result[r]
            \/ Reported(r, out)[r] = "completed" /\ out = "ok"
            \/ Reported(r, out)[r] = "failed" /\ out # "ok"
<1> DEFINE v == IF result[r] # "none" THEN result[r] ELSE IF out = "ok" THEN "completed" ELSE "failed"
<1>1. v \in Told
  BY DEF Told
<1>2. Reported(r, out) = [result EXCEPT ![r] = v]
  BY DEF Reported
<1>3. v = result[r] \/ (v = "completed" /\ out = "ok") \/ (v = "failed" /\ out # "ok")
  OBVIOUS
<1> HIDE DEF v
<1>4. QED BY <1>1, <1>2, <1>3

\* Who has begun a run, and where its message is.
LEMMA BeginsOf ==
  ASSUME ChildInv, NEW r \in Run
  PROVE  /\ exec[r].at = "begun" => run[r] = "absent" /\ exec[r] # Idle
         /\ exec[r].by = "gate" => /\ r = gate.msg /\ r \in Msg /\ mailbox[r].status # "absent"
                                   /\ gate.pc = IF exec[r].at = "live" THEN "run" ELSE "start"
         /\ exec[r].by = "call" => r \in Call /\ call[r].pc = "active"
<1>1. ExecOK(r)
  BY DEF ChildInv, ExecsOK
<1>2. exec[r].by = "gate" => gate.msg \in Msg /\ mailbox[gate.msg].status # "absent"
  BY <1>1 DEF ExecOK, ChildInv, GateOK
<1>3. QED BY <1>1, <1>2 DEF ExecOK, Idle

\* Nobody works on a message that waits, unless the gate has begun its run.
LEMMA PendingIdle ==
  ASSUME ChildInv, NEW m \in Msg, Pending(m), gate.pc \notin {"start", "run"}
  PROVE  run[m] = "absent" /\ exec[m] = Idle
<1>1. run[m] = "absent" /\ m \in Run /\ mailbox[m].status # "absent"
  BY Names DEF ChildInv, MessagesOK, MessageOK, Pending
<1>2. exec[m] \in Execs
  BY <1>1, Types DEF ThreadTypes
<1>3. exec[m].by # "call"
  BY <1>1, BeginsOf, Names DEF ChildInv, CallsOK, CallOK
<1>4. exec[m].by # "gate"
  BY <1>1, BeginsOf
<1>5. exec[m].by # "resume"
  BY <1>1, <1>2 DEF ChildInv, ExecsOK, ExecOK, Execs
<1>6. exec[m].by = "none"
  BY <1>2, <1>3, <1>4, <1>5 DEF Execs
<1>7. QED BY <1>1, <1>6, IdleExec

-----------------------------------------------------------------------------
(* Messages and calls.                                                     *)

LEMMA NoticeKeeps ==
  ASSUME ChildInv, NEW m \in Msg \ Send, Notice(m)
  PROVE  ChildInv'
<1>1. ThreadTypes
  BY Types
<1>2. MailboxInv' /\ Queued(m)
  BY QueuedStep DEF ChildInv, Notice
<1>3. /\ UNCHANGED <<run, message, latest, result, route, exec, call, gate, resumed, blind, spent>>
      /\ pass'.todo \subseteq pass.todo
  BY <1>1, Names, Blanks, PassMoves DEF ThreadTypes, Notice, Passes
<1>4. ChildTypeOK'
  <2>1. pass' \in Passes
    BY <1>1, Names, Blanks, PassMoves DEF ThreadTypes, Notice, Passes
  <2>2. ThreadTypes'
    BY <1>1, <1>3, <2>1 DEF ThreadTypes
  <2>3. QED BY <1>2, <2>2, TypesNext
<1>5. CallsOK'
  BY <1>1, <1>2, <1>3, Names DEF ChildInv, CallsOK, CallOK, Agrees, Queued
<1>6. ExecsOK'
  BY <1>1, <1>2, <1>3, Names DEF ChildInv, ExecsOK, ExecOK, Queued
<1>7. GateOK'
  BY <1>1, <1>2, <1>3, Names DEF ChildInv, GateOK, Agrees, Queued
<1>8. MessagesOK'
  BY <1>1, <1>2, <1>3, Names DEF ChildInv, MessagesOK, MessageOK, Pending, Queued
<1>9. ResumesOK'
  BY <1>1, <1>2, <1>3, Names DEF ChildInv, ResumesOK, Agrees, Queued
<1>10. PassOK'
  BY <1>1, <1>2, <1>3, Names DEF ChildInv, ThreadTypes, PassOK, Continuation, Ended, Queued
<1>11. ResultsOK'
  BY <1>1, <1>2, <1>3, Names DEF ChildInv, ResultsOK, ResultOK, NeverStarts, Ended, Queued
<1>12. AloneOK'
  BY <1>1, <1>2, <1>3, Names DEF ChildInv, AloneOK, RouteOK, NewestOnly, Open, Ended, Queued
<1>13. QED BY <1>2, <1>4, <1>5, <1>6, <1>7, <1>8, <1>9, <1>10, <1>11, <1>12 DEF ChildInv

LEMMA ReportKeeps ==
  ASSUME ChildInv, NEW m \in Msg \ Send, Report(m)
  PROVE  ChildInv'
<1>1. ThreadTypes
  BY Types
<1>2. MailboxInv' /\ Queued(m)
  BY QueuedStep DEF ChildInv, Report
<1>3. /\ UNCHANGED <<run, message, latest, result, route, exec, call, resumed, pass, blind, spent>>
      /\ \/ gate'.pc = gate.pc /\ gate'.msg = gate.msg /\ gate'.out = gate.out
         \/ gate'.pc = "look" /\ gate.pc = "rest"
  BY <1>1, Names, Blanks, GateMoves DEF ThreadTypes, Report, Gates
<1>4. ChildTypeOK'
  <2>1. gate' \in Gates
    BY <1>1, Names, Blanks, GateMoves DEF ThreadTypes, Report, Gates
  <2>2. ThreadTypes'
    BY <1>1, <1>3, <2>1 DEF ThreadTypes
  <2>3. QED BY <1>2, <2>2, TypesNext
<1>5. CallsOK'
  BY <1>1, <1>2, <1>3, Names DEF ChildInv, CallsOK, CallOK, Agrees, Queued
<1>6. ExecsOK'
  <2> SUFFICES ASSUME NEW x \in Run PROVE ExecOK(x)'
    BY DEF ExecsOK
  <2>1. QED BY <1>1, <1>2, <1>3, Names DEF ChildInv, ThreadTypes, ExecsOK, ExecOK, Queued
<1>7. GateOK'
  BY <1>1, <1>2, <1>3, Names DEF ChildInv, ThreadTypes, GateOK, Agrees, Queued
<1>8. MessagesOK'
  BY <1>1, <1>2, <1>3, Names DEF ChildInv, MessagesOK, MessageOK, Pending, Queued
<1>9. ResumesOK'
  BY <1>1, <1>2, <1>3, Names DEF ChildInv, ResumesOK, Agrees, Queued
<1>10. PassOK'
  BY <1>1, <1>2, <1>3, Names DEF ChildInv, PassOK, Continuation, Ended, Queued
<1>11. ResultsOK'
  BY <1>1, <1>2, <1>3, Names DEF ChildInv, ResultsOK, ResultOK, NeverStarts, Ended, Queued
<1>12. AloneOK'
  <2>1. RouteOK'
    BY <1>1, <1>2, <1>3, Names DEF ChildInv, ThreadTypes, AloneOK, RouteOK, Ended, Queued
  <2>2. ASSUME blind' = {} PROVE NewestOnly'
    BY <1>1, <1>2, <1>3, Names, <2>2 DEF ChildInv, ThreadTypes, AloneOK, NewestOnly, Open, Ended
  <2>3. QED BY <2>1, <2>2 DEF AloneOK
<1>13. QED BY <1>2, <1>4, <1>5, <1>6, <1>7, <1>8, <1>9, <1>10, <1>11, <1>12 DEF ChildInv

LEMMA CallAsksKeeps ==
  ASSUME ChildInv, NEW c \in Call, CallAsks(c)
  PROVE  ChildInv'
<1>1. ThreadTypes
  BY Types
<1>2. MailboxInv' /\ Kept
  BY SameStep DEF ChildInv, CallAsks
<1>3. /\ UNCHANGED <<run, message, latest, result, route, exec, gate, resumed, pass, blind, spent>>
      /\ \A x \in Call \ {c} : call'[x] = call[x]
      /\ call[c].pc = "new" /\ call'[c].pc = "looked"
  BY <1>1, Names, Blanks DEF ThreadTypes, CallAsks, Calls
<1>4. ChildTypeOK'
  <2>1. call' \in [Call -> Calls]
    <3> DEFINE row == [call[c] EXCEPT !.pc = "looked", !.last = latest, !.busy = route # NoRoute]
    <3>1. (route # NoRoute) \in BOOLEAN
      OBVIOUS
    <3>2. row \in Calls
      BY <1>1, <3>1 DEF ThreadTypes, Calls
    <3>3. call' = [call EXCEPT ![c] = row]
      BY <1>1 DEF ThreadTypes, CallAsks, Calls
    <3> HIDE DEF row
    <3>4. QED BY <1>1, <3>2, <3>3 DEF ThreadTypes
  <2>2. ThreadTypes'
    BY <1>1, <1>3, <2>1 DEF ThreadTypes
  <2>3. QED BY <1>2, <2>2, TypesNext
<1>5. CallsOK'
  <2> SUFFICES ASSUME NEW x \in Call PROVE CallOK(x)'
    BY DEF CallsOK
  <2>1. QED BY <1>1, <1>2, <1>3, Names DEF ChildInv, ThreadTypes, CallsOK, CallOK, Agrees, Kept
<1>6. ExecsOK'
  <2> SUFFICES ASSUME NEW x \in Run PROVE ExecOK(x)'
    BY DEF ExecsOK
  <2>1. QED BY <1>1, <1>2, <1>3, Names DEF ChildInv, ThreadTypes, ExecsOK, ExecOK, Kept
<1>7. GateOK'
  BY <1>1, <1>2, <1>3, Names DEF ChildInv, GateOK, Agrees, Kept
<1>8. MessagesOK'
  BY <1>1, <1>2, <1>3, Names DEF ChildInv, MessagesOK, MessageOK, Pending, Kept
<1>9. ResumesOK'
  BY <1>1, <1>2, <1>3, Names DEF ChildInv, ResumesOK, Agrees, Kept
<1>10. PassOK'
  BY <1>1, <1>2, <1>3, Names DEF ChildInv, PassOK, Continuation, Ended, Kept
<1>11. ResultsOK'
  <2> SUFFICES ASSUME NEW x \in Run PROVE ResultOK(x)'
    BY DEF ResultsOK
  <2>1. QED BY <1>1, <1>2, <1>3, Names DEF ChildInv, ThreadTypes, ResultsOK, ResultOK,
     NeverStarts, Ended, Kept
<1>12. AloneOK'
  <2>1. RouteOK'
    BY <1>1, <1>2, <1>3, Names DEF ChildInv, ThreadTypes, AloneOK, RouteOK, Ended, Kept
  <2>2. ASSUME blind' = {} PROVE NewestOnly'
    BY <1>1, <1>2, <1>3, Names, <2>2 DEF ChildInv, ThreadTypes, AloneOK, NewestOnly, Open, Ended
  <2>3. QED BY <2>1, <2>2 DEF AloneOK
<1>13. QED BY <1>2, <1>4, <1>5, <1>6, <1>7, <1>8, <1>9, <1>10, <1>11, <1>12 DEF ChildInv

LEMMA CallJudgesBusyKeeps ==
  ASSUME ChildInv, NEW c \in Call, CallJudgesBusy(c)
  PROVE  ChildInv'
<1>1. ThreadTypes
  BY Types
<1>2. MailboxInv' /\ Kept
  BY SameStep DEF ChildInv, CallJudgesBusy
<1>3. /\ UNCHANGED <<run, message, latest, result, route, exec, gate, resumed, pass, blind, spent>>
      /\ \A x \in Call \ {c} : call'[x] = call[x]
      /\ call[c].pc = "looked" /\ call'[c].pc = "enqueue"
  BY <1>1, Names, Blanks DEF ThreadTypes, CallJudgesBusy, Calls, NewCall
<1>4. ChildTypeOK'
  <2>1. call' \in [Call -> Calls]
    BY <1>1, Names, Blanks DEF ThreadTypes, CallJudgesBusy, Calls, NewCall, Outcome
  <2>2. ThreadTypes'
    BY <1>1, <1>3, <2>1 DEF ThreadTypes
  <2>3. QED BY <1>2, <2>2, TypesNext
<1>5. CallsOK'
  <2> SUFFICES ASSUME NEW x \in Call PROVE CallOK(x)'
    BY DEF CallsOK
  <2>1. QED BY <1>1, <1>2, <1>3, Names DEF ChildInv, ThreadTypes, CallsOK, CallOK, Agrees, Kept
<1>6. ExecsOK'
  <2> SUFFICES ASSUME NEW x \in Run PROVE ExecOK(x)'
    BY DEF ExecsOK
  <2>1. QED BY <1>1, <1>2, <1>3, Names DEF ChildInv, ThreadTypes, ExecsOK, ExecOK, Kept
<1>7. GateOK'
  BY <1>1, <1>2, <1>3, Names DEF ChildInv, GateOK, Agrees, Kept
<1>8. MessagesOK'
  BY <1>1, <1>2, <1>3, Names DEF ChildInv, MessagesOK, MessageOK, Pending, Kept
<1>9. ResumesOK'
  BY <1>1, <1>2, <1>3, Names DEF ChildInv, ResumesOK, Agrees, Kept
<1>10. PassOK'
  BY <1>1, <1>2, <1>3, Names DEF ChildInv, PassOK, Continuation, Ended, Kept
<1>11. ResultsOK'
  <2> SUFFICES ASSUME NEW x \in Run PROVE ResultOK(x)'
    BY DEF ResultsOK
  <2>1. QED BY <1>1, <1>2, <1>3, Names DEF ChildInv, ThreadTypes, ResultsOK, ResultOK,
     NeverStarts, Ended, Kept
<1>12. AloneOK'
  <2>1. RouteOK'
    BY <1>1, <1>2, <1>3, Names DEF ChildInv, ThreadTypes, AloneOK, RouteOK, Ended, Kept
  <2>2. ASSUME blind' = {} PROVE NewestOnly'
    BY <1>1, <1>2, <1>3, Names, <2>2 DEF ChildInv, ThreadTypes, AloneOK, NewestOnly, Open, Ended
  <2>3. QED BY <2>1, <2>2 DEF AloneOK
<1>13. QED BY <1>2, <1>4, <1>5, <1>6, <1>7, <1>8, <1>9, <1>10, <1>11, <1>12 DEF ChildInv

LEMMA CallRefusedKeeps ==
  ASSUME ChildInv, NEW c \in Call, CallRefused(c)
  PROVE  ChildInv'
<1>1. ThreadTypes
  BY Types
<1>2. MailboxInv' /\ Kept
  BY SameStep DEF ChildInv, CallRefused
<1>3. /\ UNCHANGED <<run, message, latest, result, route, exec, gate, resumed, pass, blind, spent>>
      /\ \A x \in Call \ {c} : call'[x] = call[x]
      /\ call[c].pc = "looked" /\ call'[c].pc = "done"
  BY <1>1, Names, Blanks DEF ThreadTypes, CallRefused, Calls, NewCall, Done
<1>4. ChildTypeOK'
  <2>1. call' \in [Call -> Calls]
    BY <1>1, Names, Blanks DEF ThreadTypes, CallRefused, Calls, NewCall, Outcome
  <2>2. ThreadTypes'
    BY <1>1, <1>3, <2>1 DEF ThreadTypes
  <2>3. QED BY <1>2, <2>2, TypesNext
<1>5. CallsOK'
  <2> SUFFICES ASSUME NEW x \in Call PROVE CallOK(x)'
    BY DEF CallsOK
  <2>1. QED BY <1>1, <1>2, <1>3, Names DEF ChildInv, ThreadTypes, CallsOK, CallOK, Agrees, Kept
<1>6. ExecsOK'
  <2> SUFFICES ASSUME NEW x \in Run PROVE ExecOK(x)'
    BY DEF ExecsOK
  <2>1. QED BY <1>1, <1>2, <1>3, Names DEF ChildInv, ThreadTypes, ExecsOK, ExecOK, Kept
<1>7. GateOK'
  BY <1>1, <1>2, <1>3, Names DEF ChildInv, GateOK, Agrees, Kept
<1>8. MessagesOK'
  BY <1>1, <1>2, <1>3, Names DEF ChildInv, MessagesOK, MessageOK, Pending, Kept
<1>9. ResumesOK'
  BY <1>1, <1>2, <1>3, Names DEF ChildInv, ResumesOK, Agrees, Kept
<1>10. PassOK'
  BY <1>1, <1>2, <1>3, Names DEF ChildInv, PassOK, Continuation, Ended, Kept
<1>11. ResultsOK'
  <2> SUFFICES ASSUME NEW x \in Run PROVE ResultOK(x)'
    BY DEF ResultsOK
  <2>1. QED BY <1>1, <1>2, <1>3, Names DEF ChildInv, ThreadTypes, ResultsOK, ResultOK,
     NeverStarts, Ended, Kept
<1>12. AloneOK'
  <2>1. RouteOK'
    BY <1>1, <1>2, <1>3, Names DEF ChildInv, ThreadTypes, AloneOK, RouteOK, Ended, Kept
  <2>2. ASSUME blind' = {} PROVE NewestOnly'
    BY <1>1, <1>2, <1>3, Names, <2>2 DEF ChildInv, ThreadTypes, AloneOK, NewestOnly, Open, Ended
  <2>3. QED BY <2>1, <2>2 DEF AloneOK
<1>13. QED BY <1>2, <1>4, <1>5, <1>6, <1>7, <1>8, <1>9, <1>10, <1>11, <1>12 DEF ChildInv

LEMMA CallEnqueuesKeeps ==
  ASSUME ChildInv, NEW c \in Call, CallEnqueues(c)
  PROVE  ChildInv'
<1>1. ThreadTypes
  BY Types
<1>2. MailboxInv' /\ Queued(c)
  BY QueuedStep DEF ChildInv, CallEnqueues, CallsOK, CallOK
<1>3. /\ UNCHANGED <<run, message, latest, result, route, exec, resumed, pass, blind, spent>>
      /\ \A x \in Call \ {c} : call'[x] = call[x]
      /\ call[c].pc = "enqueue" /\ call'[c].pc = "done"
      /\ \/ gate'.pc = gate.pc /\ gate'.msg = gate.msg /\ gate'.out = gate.out
         \/ gate'.pc = "look" /\ gate.pc = "rest"
  BY <1>1, Names, Blanks, GateMoves DEF ThreadTypes, CallEnqueues, Calls, Gates, Done, NewCall
<1>4. ChildTypeOK'
  <2>1. call' \in [Call -> Calls]
    BY <1>1, Names, Blanks DEF ThreadTypes, CallEnqueues, Calls
  <2>2. gate' \in Gates
    BY <1>1, Names, Blanks, GateMoves DEF ThreadTypes, CallEnqueues, Gates
  <2>3. ThreadTypes'
    BY <1>1, <1>3, <2>1, <2>2 DEF ThreadTypes
  <2>4. QED BY <1>2, <2>3, TypesNext
<1>5. CallsOK'
  <2> SUFFICES ASSUME NEW x \in Call PROVE CallOK(x)'
    BY DEF CallsOK
  <2>1. QED BY <1>1, <1>2, <1>3, Names DEF ChildInv, ThreadTypes, CallsOK, CallOK, Agrees,
     Queued
<1>6. ExecsOK'
  <2> SUFFICES ASSUME NEW x \in Run PROVE ExecOK(x)'
    BY DEF ExecsOK
  <2>1. QED BY <1>1, <1>2, <1>3, Names DEF ChildInv, ThreadTypes, ExecsOK, ExecOK, Queued
<1>7. GateOK'
  BY <1>1, <1>2, <1>3, Names DEF ChildInv, ThreadTypes, GateOK, Agrees, Queued
<1>8. MessagesOK'
  BY <1>1, <1>2, <1>3, Names DEF ChildInv, MessagesOK, MessageOK, Pending, Queued, CallsOK,
     CallOK
<1>9. ResumesOK'
  BY <1>1, <1>2, <1>3, Names DEF ChildInv, ResumesOK, Agrees, Queued
<1>10. PassOK'
  BY <1>1, <1>2, <1>3, Names DEF ChildInv, PassOK, Continuation, Ended, Queued
<1>11. ResultsOK'
  <2> SUFFICES ASSUME NEW x \in Run PROVE ResultOK(x)'
    BY DEF ResultsOK
  <2>1. QED BY <1>1, <1>2, <1>3, Names DEF ChildInv, ThreadTypes, ResultsOK, ResultOK,
     NeverStarts, Ended, Queued
<1>12. AloneOK'
  <2>1. RouteOK'
    BY <1>1, <1>2, <1>3, Names DEF ChildInv, ThreadTypes, AloneOK, RouteOK, Ended, Queued
  <2>2. ASSUME blind' = {} PROVE NewestOnly'
    BY <1>1, <1>2, <1>3, Names, <2>2 DEF ChildInv, ThreadTypes, AloneOK, NewestOnly, Open, Ended
  <2>3. QED BY <2>1, <2>2 DEF AloneOK
<1>13. QED BY <1>2, <1>4, <1>5, <1>6, <1>7, <1>8, <1>9, <1>10, <1>11, <1>12 DEF ChildInv

LEMMA CallBeginsKeeps ==
  ASSUME ChildInv, NEW c \in Call, CallBegins(c)
  PROVE  ChildInv'
<1>1. ThreadTypes
  BY Types
<1>2. MailboxInv' /\ Kept
  BY SameStep DEF ChildInv, CallBegins
<1>3. /\ UNCHANGED <<run, message, latest, result, gate, resumed, pass, spent>>
      /\ \A x \in Run \ {c} : exec'[x] = exec[x]
      /\ \A x \in Call \ {c} : call'[x] = call[x]
      /\ call[c].pc = "looked" /\ call'[c].pc = "active"
      /\ exec'[c].at = "begun" /\ exec'[c].by = "call" /\ route'.run = c
      /\ blind \subseteq blind' /\ (c \in blind' \/ ~Stale(c)) /\ ~LastIs(c, "running") /\ ~LastIs(c, "suspended")
  BY <1>1, Names, Blanks DEF ThreadTypes, CallBegins, Routes, Execs, Calls, NewCall
<1>4. ChildTypeOK'
  <2>1. route' \in Routes
    BY <1>1, Names, Blanks DEF ThreadTypes, CallBegins, Routes
  <2>2. exec' \in [Run -> Execs]
    BY <1>1, Names, Blanks DEF ThreadTypes, CallBegins, Execs
  <2>3. call' \in [Call -> Calls]
    <3>1. PICK back \in BOOLEAN :
            call' = [call EXCEPT ![c] = [NewCall EXCEPT !.pc = "active", !.back = back]]
      BY DEF CallBegins
    <3>2. [NewCall EXCEPT !.pc = "active", !.back = back] \in Calls
      BY Blanks DEF Calls
    <3>3. QED BY <1>1, <3>1, <3>2 DEF ThreadTypes
  <2>4. blind' \in SUBSET Run
    <3>1. blind' = blind \/ blind' = blind \cup {c}
      BY DEF CallBegins
    <3>2. QED BY <1>1, <3>1, Names DEF ThreadTypes
  <2>5. ThreadTypes'
    BY <1>1, <1>3, <2>1, <2>2, <2>3, <2>4 DEF ThreadTypes
  <2>6. QED BY <1>2, <2>5, TypesNext
<1>5. CallsOK'
  <2> SUFFICES ASSUME NEW x \in Call PROVE CallOK(x)'
    BY DEF CallsOK
  <2>1. QED BY <1>1, <1>2, <1>3, Names DEF ChildInv, ThreadTypes, CallsOK, CallOK, Agrees, Kept,
     Idle
<1>6. ExecsOK'
  <2> SUFFICES ASSUME NEW x \in Run PROVE ExecOK(x)'
    BY DEF ExecsOK
  <2>1. QED BY <1>1, <1>2, <1>3, Names DEF ChildInv, ThreadTypes, ExecsOK, ExecOK, Kept,
     CallsOK, CallOK, Idle
<1>7. GateOK'
  BY <1>1, <1>2, <1>3, Names DEF ChildInv, ThreadTypes, GateOK, Agrees, Kept, Idle, CallsOK,
     CallOK
<1>8. MessagesOK'
  BY <1>1, <1>2, <1>3, Names DEF ChildInv, MessagesOK, MessageOK, Pending, Kept
<1>9. ResumesOK'
  BY <1>1, <1>2, <1>3, Names DEF ChildInv, ResumesOK, Agrees, Kept
<1>10. PassOK'
  BY <1>1, <1>2, <1>3, Names DEF ChildInv, PassOK, Continuation, Ended, Kept
<1>11. ResultsOK'
  <2> SUFFICES ASSUME NEW x \in Run PROVE ResultOK(x)'
    BY DEF ResultsOK
  <2>1. QED BY <1>1, <1>2, <1>3, Names DEF ChildInv, ThreadTypes, ResultsOK, ResultOK,
     NeverStarts, Ended, Kept, Idle
<1>12. AloneOK'
  <2>1. RouteOK'
    BY <1>1, <1>2, <1>3, Names DEF ChildInv, ThreadTypes, AloneOK, RouteOK, Ended, Kept, Stale,
       LastIs, NoRoute, RunStatus, CallsOK, CallOK, RouteOK
  <2>2. ASSUME blind' = {} PROVE NewestOnly'
    BY <1>1, <1>2, <1>3, Names, <2>2 DEF ChildInv, ThreadTypes, AloneOK, NewestOnly, Open,
       Ended, Stale, LastIs, NoRoute, RunStatus, CallsOK, CallOK, RouteOK
  <2>3. QED BY <2>1, <2>2 DEF AloneOK
<1>13. QED BY <1>2, <1>4, <1>5, <1>6, <1>7, <1>8, <1>9, <1>10, <1>11, <1>12 DEF ChildInv

LEMMA CallEndsKeeps ==
  ASSUME ChildInv, NEW c \in Call, CallEnds(c)
  PROVE  ChildInv'
<1>1. ThreadTypes
  BY Types
<1>2. MailboxInv' /\ Kept
  BY SameStep DEF ChildInv, CallEnds
<1>3. /\ UNCHANGED <<run, message, latest, result, exec, gate, resumed, blind, spent>>
      /\ \A x \in Call \ {c} : call'[x] = call[x]
      /\ call[c].pc = "end" /\ call'[c].pc = "done"
      /\ route' = route \/ (route.run = c /\ route'.run = None)
      /\ pass'.todo \subseteq pass.todo
  <2>1. UNCHANGED <<run, message, latest, result, exec, gate, resumed, blind, spent>>
    BY <1>1, Names, Blanks DEF ThreadTypes, CallEnds, Routes, Calls, Passes, Done, NewCall,
       Unrouted, NoRoute
  <2>2. \A x \in Call \ {c} : call'[x] = call[x]
    BY <1>1, Names, Blanks DEF ThreadTypes, CallEnds, Routes, Calls, Passes, Done, NewCall,
       Unrouted, NoRoute
  <2>3. call[c].pc = "end" /\ call'[c].pc = "done"
    BY <1>1, Names, Blanks DEF ThreadTypes, CallEnds, Routes, Calls, Passes, Done, NewCall,
       Unrouted, NoRoute
  <2>4. route' = route \/ (route.run = c /\ route'.run = None)
    BY <1>1, Names, Blanks DEF ThreadTypes, CallEnds, Routes, Calls, Passes, Done, NewCall,
       Unrouted, NoRoute
  <2>5. pass'.todo \subseteq pass.todo
    BY <1>1, Names, Blanks, PassMoves DEF ThreadTypes, CallEnds, Routes, Calls, Passes, Done,
       NewCall, Unrouted, NoRoute
  <2>6. QED BY <2>1, <2>2, <2>3, <2>4, <2>5
<1>4. ChildTypeOK'
  <2>1. route' \in Routes
    BY <1>1, Names, Blanks DEF ThreadTypes, CallEnds, Routes, Unrouted
  <2>2. call' \in [Call -> Calls]
    BY <1>1, Names, Blanks DEF ThreadTypes, CallEnds, Calls
  <2>3. pass' \in Passes
    BY <1>1, Names, Blanks, PassMoves DEF ThreadTypes, CallEnds, Passes
  <2>4. ThreadTypes'
    BY <1>1, <1>3, <2>1, <2>2, <2>3 DEF ThreadTypes
  <2>5. QED BY <1>2, <2>4, TypesNext
<1>5. CallsOK'
  <2> SUFFICES ASSUME NEW x \in Call PROVE CallOK(x)'
    BY DEF CallsOK
  <2>1. QED BY <1>1, <1>2, <1>3, Names DEF ChildInv, ThreadTypes, CallsOK, CallOK, Agrees, Kept
<1>6. ExecsOK'
  <2> SUFFICES ASSUME NEW x \in Run PROVE ExecOK(x)'
    BY DEF ExecsOK
  <2>1. QED BY <1>1, <1>2, <1>3, Names DEF ChildInv, ThreadTypes, ExecsOK, ExecOK, Kept
<1>7. GateOK'
  BY <1>1, <1>2, <1>3, Names DEF ChildInv, GateOK, Agrees, Kept
<1>8. MessagesOK'
  BY <1>1, <1>2, <1>3, Names DEF ChildInv, MessagesOK, MessageOK, Pending, Kept
<1>9. ResumesOK'
  BY <1>1, <1>2, <1>3, Names DEF ChildInv, ResumesOK, Agrees, Kept
<1>10. PassOK'
  BY <1>1, <1>2, <1>3, Names DEF ChildInv, ThreadTypes, PassOK, Continuation, Ended, Kept
<1>11. ResultsOK'
  <2> SUFFICES ASSUME NEW x \in Run PROVE ResultOK(x)'
    BY DEF ResultsOK
  <2>1. QED BY <1>1, <1>2, <1>3, Names DEF ChildInv, ThreadTypes, ResultsOK, ResultOK,
     NeverStarts, Ended, Kept
<1>12. AloneOK'
  <2>1. RouteOK'
    BY <1>1, <1>2, <1>3, Names, ExecOfCall DEF ChildInv, ThreadTypes, AloneOK, RouteOK, Ended,
       Kept
  <2>2. ASSUME blind' = {} PROVE NewestOnly'
    BY <1>1, <1>2, <1>3, Names, ExecOfCall, <2>2 DEF ChildInv, ThreadTypes, AloneOK, NewestOnly,
       Open, Ended
  <2>3. QED BY <2>1, <2>2 DEF AloneOK
<1>13. QED BY <1>2, <1>4, <1>5, <1>6, <1>7, <1>8, <1>9, <1>10, <1>11, <1>12 DEF ChildInv

LEMMA TaskReportsKeeps ==
  ASSUME ChildInv, NEW c \in Call, TaskReports(c)
  PROVE  ChildInv'
<1>1. ThreadTypes
  BY Types
<1>2. MailboxInv' /\ Kept
  BY SameStep, ListStep DEF ChildInv, TaskReports
<1>3. /\ UNCHANGED <<run, message, latest, route, exec, resumed, pass, blind>>
      /\ \A x \in Call \ {c} : call'[x] = call[x]
      /\ call[c].pc = "report" /\ call'[c].pc = "end"
      /\ \/ gate'.pc = gate.pc /\ gate'.msg = gate.msg /\ gate'.out = gate.out
         \/ gate'.pc = "look" /\ gate.pc = "rest"
      /\ \A x \in Run \ {c} : result'[x] = result[x]
      /\ \/ result'[c] = result[c]
         \/ result'[c] = "completed" /\ call[c].out = "ok"
         \/ result'[c] = "failed" /\ call[c].out # "suspended"
  <2>1. UNCHANGED <<run, message, latest, route, exec, resumed, pass, blind>>
    BY <1>1, Names, Blanks DEF ThreadTypes, TaskReports, Told, Calls, Gates, Spent
  <2>2. \A x \in Call \ {c} : call'[x] = call[x]
    BY <1>1, Names, Blanks DEF ThreadTypes, TaskReports, Told, Calls, Gates, Spent
  <2>3. call[c].pc = "report" /\ call'[c].pc = "end"
    BY <1>1, Names, Blanks DEF ThreadTypes, TaskReports, Told, Calls, Gates, Spent
  <2>4. \/ gate'.pc = gate.pc /\ gate'.msg = gate.msg /\ gate'.out = gate.out
        \/ gate'.pc = "look" /\ gate.pc = "rest"
    BY <1>1, Names, Blanks, GateMoves DEF ThreadTypes, TaskReports, Told, Calls, Gates, Spent
  <2>5. \A x \in Run \ {c} : result'[x] = result[x]
    BY <1>1, Names, Blanks, ReportedOnce DEF ThreadTypes, TaskReports, Told, Calls, Gates, Spent
  <2>6. \/ result'[c] = result[c]
        \/ result'[c] = "completed" /\ call[c].out = "ok"
        \/ result'[c] = "failed" /\ call[c].out # "suspended"
    BY <1>1, Names, Blanks, ReportedOnce DEF ThreadTypes, TaskReports, Told, Calls, Gates, Spent
  <2>7. QED BY <2>1, <2>2, <2>3, <2>4, <2>5, <2>6
<1>4. ChildTypeOK'
  <2>1. result' \in [Run -> Told]
    BY <1>1, Names, Blanks, ReportedOnce DEF ThreadTypes, TaskReports, Told
  <2>2. call' \in [Call -> Calls]
    <3> DEFINE row == [call[c] EXCEPT !.pc = "end", !.out = "none"]
    <3>1. row \in Calls
      BY <1>1, Blanks DEF ThreadTypes, Calls, Outcome
    <3>2. call' = [call EXCEPT ![c] = row]
      BY <1>1 DEF ThreadTypes, TaskReports, Calls
    <3> HIDE DEF row
    <3>3. QED BY <1>1, <3>1, <3>2 DEF ThreadTypes
  <2>3. gate' \in Gates
    BY <1>1, Names, Blanks, GateMoves DEF ThreadTypes, TaskReports, Gates
  <2>4. spent' \in Spent
    BY <1>1, Names, Blanks DEF ThreadTypes, TaskReports, Spent, Mishap
  <2>5. ThreadTypes'
    BY <1>1, <1>3, <2>1, <2>2, <2>3, <2>4 DEF ThreadTypes
  <2>6. QED BY <1>2, <2>5, TypesNext
<1>5. CallsOK'
  <2> SUFFICES ASSUME NEW x \in Call PROVE CallOK(x)'
    BY DEF CallsOK
  <2>1. QED BY <1>1, <1>2, <1>3, Names DEF ChildInv, ThreadTypes, CallsOK, CallOK, Agrees, Kept
<1>6. ExecsOK'
  <2> SUFFICES ASSUME NEW x \in Run PROVE ExecOK(x)'
    BY DEF ExecsOK
  <2>1. QED BY <1>1, <1>2, <1>3, Names DEF ChildInv, ThreadTypes, ExecsOK, ExecOK, Kept
<1>7. GateOK'
  BY <1>1, <1>2, <1>3, Names DEF ChildInv, ThreadTypes, GateOK, Agrees, Kept
<1>8. MessagesOK'
  BY <1>1, <1>2, <1>3, Names DEF ChildInv, MessagesOK, MessageOK, Pending, Kept
<1>9. ResumesOK'
  BY <1>1, <1>2, <1>3, Names DEF ChildInv, ResumesOK, Agrees, Kept
<1>10. PassOK'
  BY <1>1, <1>2, <1>3, Names DEF ChildInv, PassOK, Continuation, Ended, Kept
<1>11. ResultsOK'
  <2>1. /\ call[c].out \in {"ok", "failed"} => Ended(c) \/ NeverStarts(c)'
        /\ call[c].out = "ok" => run[c] = "completed"
    BY <1>1, <1>2, <1>3, Names, FailedCall
       DEF ChildInv, ThreadTypes, CallsOK, CallOK, Agrees, NeverStarts, Ended, Kept, RunStatus
  <2>2. call[c].out \in Outcome \ {"none"}
    BY <1>1, <1>3 DEF ChildInv, ThreadTypes, CallsOK, CallOK, Calls
  <2>3. result'[c] # "none" => Ended(c) \/ NeverStarts(c)'
    <3>1. ResultOK(c) /\ ~NeverStarts(c)
      BY <1>3, Names DEF ChildInv, ResultsOK, NeverStarts
    <3>2. QED BY <1>3, <2>1, <2>2, <3>1 DEF Outcome, ResultOK
  <2>4. result'[c] = "completed" => run[c] = "completed"
    BY <1>3, <2>1, Names DEF ChildInv, ResultsOK, ResultOK
  <2>5. ResultOK(c)'
    BY <1>3, <2>3, <2>4 DEF ResultOK, Ended
  <2>6. ASSUME NEW x \in Run \ {c} PROVE ResultOK(x)'
    BY <1>1, <1>2, <1>3, Names
       DEF ChildInv, ThreadTypes, ResultsOK, ResultOK, NeverStarts, Ended, Kept
  <2>7. QED BY <2>5, <2>6, Names DEF ResultsOK
<1>12. AloneOK'
  <2>1. RouteOK'
    BY <1>1, <1>2, <1>3, Names DEF ChildInv, ThreadTypes, AloneOK, RouteOK, Ended, Kept
  <2>2. ASSUME blind' = {} PROVE NewestOnly'
    BY <1>1, <1>2, <1>3, Names, <2>2 DEF ChildInv, ThreadTypes, AloneOK, NewestOnly, Open, Ended
  <2>3. QED BY <2>1, <2>2 DEF AloneOK
<1>13. QED BY <1>2, <1>4, <1>5, <1>6, <1>7, <1>8, <1>9, <1>10, <1>11, <1>12 DEF ChildInv

-----------------------------------------------------------------------------
(* The gate.                                                               *)

LEMMA GateLooksKeeps ==
  ASSUME ChildInv, GateLooks
  PROVE  ChildInv'
<1>1. ThreadTypes
  BY Types
<1>2. MailboxInv' /\ Kept
  BY SameStep DEF ChildInv, GateLooks
<1>3. /\ UNCHANGED <<run, message, latest, result, route, exec, call, resumed, pass, blind, spent>>
      /\ gate'.pc \in {"rest", "look", "orphan"} \/ (gate'.pc = "claim" /\ latest \in Run)
      /\ gate.pc = "look"
  BY <1>1, Names, Blanks, GateMoves DEF ThreadTypes, GateLooks, Gates, Ended
<1>4. ChildTypeOK'
  <2>1. gate' \in Gates
    BY <1>1, Names, Blanks, GateMoves DEF ThreadTypes, GateLooks, Gates
  <2>2. ThreadTypes'
    BY <1>1, <1>3, <2>1 DEF ThreadTypes
  <2>3. QED BY <1>2, <2>2, TypesNext
<1>5. CallsOK'
  BY <1>1, <1>2, <1>3, Names DEF ChildInv, CallsOK, CallOK, Agrees, Kept
<1>6. ExecsOK'
  <2> SUFFICES ASSUME NEW x \in Run PROVE ExecOK(x)'
    BY DEF ExecsOK
  <2>1. QED BY <1>1, <1>2, <1>3, Names DEF ChildInv, ThreadTypes, ExecsOK, ExecOK, Kept
<1>7. GateOK'
  BY <1>1, <1>2, <1>3, Names DEF ChildInv, ThreadTypes, GateOK, Agrees, Kept
<1>8. MessagesOK'
  BY <1>1, <1>2, <1>3, Names DEF ChildInv, MessagesOK, MessageOK, Pending, Kept
<1>9. ResumesOK'
  BY <1>1, <1>2, <1>3, Names DEF ChildInv, ResumesOK, Agrees, Kept
<1>10. PassOK'
  BY <1>1, <1>2, <1>3, Names DEF ChildInv, PassOK, Continuation, Ended, Kept
<1>11. ResultsOK'
  BY <1>1, <1>2, <1>3, Names DEF ChildInv, ResultsOK, ResultOK, NeverStarts, Ended, Kept
<1>12. AloneOK'
  <2>1. RouteOK'
    BY <1>1, <1>2, <1>3, Names DEF ChildInv, ThreadTypes, AloneOK, RouteOK, Ended, Kept
  <2>2. ASSUME blind' = {} PROVE NewestOnly'
    BY <1>1, <1>2, <1>3, Names, <2>2 DEF ChildInv, ThreadTypes, AloneOK, NewestOnly, Open, Ended
  <2>3. QED BY <2>1, <2>2 DEF AloneOK
<1>13. QED BY <1>2, <1>4, <1>5, <1>6, <1>7, <1>8, <1>9, <1>10, <1>11, <1>12 DEF ChildInv

LEMMA GateGivesBackKeeps ==
  ASSUME ChildInv, GateGivesBack
  PROVE  ChildInv'
<1>1. ThreadTypes
  BY Types
<1>2. MailboxInv' /\ Kept
  BY GiveUpStep DEF ChildInv, GateGivesBack, GateOK
<1>3. /\ UNCHANGED <<run, message, latest, result, route, exec, call, resumed, pass, blind, spent>>
      /\ gate'.pc \in {"rest", "look"}
      /\ gate.pc = "giveback"
  BY <1>1, Names, Blanks, GateMoves DEF ThreadTypes, GateGivesBack, Gates
<1>4. ChildTypeOK'
  <2>1. gate' \in Gates
    BY <1>1, Names, Blanks, GateMoves DEF ThreadTypes, GateGivesBack, Gates
  <2>2. ThreadTypes'
    BY <1>1, <1>3, <2>1 DEF ThreadTypes
  <2>3. QED BY <1>2, <2>2, TypesNext
<1>5. CallsOK'
  BY <1>1, <1>2, <1>3, Names DEF ChildInv, CallsOK, CallOK, Agrees, Kept
<1>6. ExecsOK'
  <2> SUFFICES ASSUME NEW x \in Run PROVE ExecOK(x)'
    BY DEF ExecsOK
  <2>1. QED BY <1>1, <1>2, <1>3, Names DEF ChildInv, ThreadTypes, ExecsOK, ExecOK, Kept
<1>7. GateOK'
  BY <1>1, <1>2, <1>3, Names DEF ChildInv, ThreadTypes, GateOK, Agrees, Kept
<1>8. MessagesOK'
  BY <1>1, <1>2, <1>3, Names DEF ChildInv, MessagesOK, MessageOK, Pending, Kept
<1>9. ResumesOK'
  BY <1>1, <1>2, <1>3, Names DEF ChildInv, ResumesOK, Agrees, Kept
<1>10. PassOK'
  BY <1>1, <1>2, <1>3, Names DEF ChildInv, PassOK, Continuation, Ended, Kept
<1>11. ResultsOK'
  BY <1>1, <1>2, <1>3, Names DEF ChildInv, ResultsOK, ResultOK, NeverStarts, Ended, Kept
<1>12. AloneOK'
  <2>1. RouteOK'
    BY <1>1, <1>2, <1>3, Names DEF ChildInv, ThreadTypes, AloneOK, RouteOK, Ended, Kept
  <2>2. ASSUME blind' = {} PROVE NewestOnly'
    BY <1>1, <1>2, <1>3, Names, <2>2 DEF ChildInv, ThreadTypes, AloneOK, NewestOnly, Open, Ended
  <2>3. QED BY <2>1, <2>2 DEF AloneOK
<1>13. QED BY <1>2, <1>4, <1>5, <1>6, <1>7, <1>8, <1>9, <1>10, <1>11, <1>12 DEF ChildInv

LEMMA GateFinishesKeeps ==
  ASSUME ChildInv, GateFinishes
  PROVE  ChildInv'
<1>1. ThreadTypes
  BY Types
<1>2. MailboxInv' /\ Kept
  BY SameStep DEF ChildInv, GateFinishes
<1>3. /\ UNCHANGED <<run, message, latest, exec, call, resumed, blind>>
      /\ gate.pc = "finish" /\ gate'.pc \in {"rest", "look", "next"}
      /\ route' = route \/ (route.run = gate.msg /\ route'.run = None)
      /\ pass'.todo \subseteq pass.todo
      /\ \A x \in Run \ {gate.msg} : result'[x] = result[x]
      /\ \/ result'[gate.msg] = result[gate.msg]
         \/ result'[gate.msg] = "completed" /\ gate.out = "ok"
         \/ result'[gate.msg] = "failed" /\ gate.out \notin {"ok", "suspended"}
  <2>1. UNCHANGED <<run, message, latest, exec, call, resumed, blind>>
    BY <1>1, Names, Blanks, GateHolds DEF ThreadTypes, GateFinishes, Told, Routes, Gates,
       Passes, Spent, Released, NoRoute
  <2>2. gate.pc = "finish" /\ gate'.pc \in {"rest", "look", "next"}
    BY <1>1, Names, Blanks, GateMoves, GateHolds, NextGate DEF ThreadTypes, GateFinishes, Told,
       Routes, Gates, Passes, Spent, Released, NoRoute
  <2>3. route' = route \/ (route.run = gate.msg /\ route'.run = None)
    BY <1>1, Names, Blanks, GateHolds DEF ThreadTypes, GateFinishes, Told, Routes, Gates,
       Passes, Spent, Released, NoRoute
  <2>4. pass'.todo \subseteq pass.todo
    BY <1>1, Names, Blanks, PassMoves, GateHolds DEF ThreadTypes, GateFinishes, Told, Routes,
       Gates, Passes, Spent, Released, NoRoute
  <2>5. \A x \in Run \ {gate.msg} : result'[x] = result[x]
    BY <1>1, Names, Blanks, ReportedOnce, GateHolds DEF ThreadTypes, GateFinishes, Told, Routes,
       Gates, Passes, Spent, Released, NoRoute
  <2>6. \/ result'[gate.msg] = result[gate.msg]
        \/ result'[gate.msg] = "completed" /\ gate.out = "ok"
        \/ result'[gate.msg] = "failed" /\ gate.out \notin {"ok", "suspended"}
    BY <1>1, Names, Blanks, ReportedOnce, GateHolds DEF ThreadTypes, GateFinishes, Told, Routes,
       Gates, Passes, Spent, Released, NoRoute
  <2>7. QED BY <2>1, <2>2, <2>3, <2>4, <2>5, <2>6
<1>4. ChildTypeOK'
  <2>1. result' \in [Run -> Told]
    BY <1>1, Names, Blanks, ReportedOnce, GateHolds DEF ThreadTypes, GateFinishes, Told
  <2>2. route' \in Routes
    BY <1>1, Names, Blanks, GateHolds DEF ThreadTypes, GateFinishes, Routes, Released
  <2>3. gate' \in Gates
    <3>1. gate' \in {Rested(gate), [Resting EXCEPT !.pc = "next", !.dirty = gate.dirty]}
      BY DEF GateFinishes
    <3>2. QED BY <1>1, <3>1, GateMoves, NextGate DEF ThreadTypes
  <2>4. pass' \in Passes
    BY <1>1, Names, Blanks, PassMoves, GateHolds DEF ThreadTypes, GateFinishes, Passes
  <2>5. spent' \in Spent
    BY <1>1, Names, Blanks, GateHolds DEF ThreadTypes, GateFinishes, Spent, Mishap
  <2>6. ThreadTypes'
    BY <1>1, <1>3, <2>1, <2>2, <2>3, <2>4, <2>5 DEF ThreadTypes
  <2>7. QED BY <1>2, <2>6, TypesNext
<1>5. CallsOK'
  BY <1>1, <1>2, <1>3, Names DEF ChildInv, CallsOK, CallOK, Agrees, Kept
<1>6. ExecsOK'
  <2> SUFFICES ASSUME NEW x \in Run PROVE ExecOK(x)'
    BY DEF ExecsOK
  <2>1. QED BY <1>1, <1>2, <1>3, Names DEF ChildInv, ThreadTypes, ExecsOK, ExecOK, Kept
<1>7. GateOK'
  BY <1>1, <1>2, <1>3, Names DEF ChildInv, ThreadTypes, GateOK, Agrees, Kept
<1>8. MessagesOK'
  BY <1>1, <1>2, <1>3, Names DEF ChildInv, MessagesOK, MessageOK, Pending, Kept
<1>9. ResumesOK'
  BY <1>1, <1>2, <1>3, Names DEF ChildInv, ResumesOK, Agrees, Kept
<1>10. PassOK'
  BY <1>1, <1>2, <1>3, Names DEF ChildInv, ThreadTypes, PassOK, Continuation, Ended, Kept
<1>11. ResultsOK'
  <2>0. PICK m \in Msg : m = gate.msg
    BY <1>3, GateHolds
  <2>1. m \in Run /\ run[m] # "absent" /\ Agrees(m, gate.out) /\ gate.out \in Outcome \ {"none"}
    BY <1>1, <1>3, <2>0, Names DEF ChildInv, GateOK, ThreadTypes, Gates
  <2>2. /\ gate.out = "ok" => run[m] = "completed"
        /\ gate.out \notin {"ok", "suspended"} => run[m] = "failed"
    BY <2>1 DEF Agrees, Outcome
  <2>3. ResultOK(m)'
    <3>1. ResultOK(m) /\ ~NeverStarts(m)
      BY <2>1 DEF ChildInv, ResultsOK, NeverStarts
    <3>2. QED BY <1>3, <2>0, <2>1, <2>2, <3>1 DEF ResultOK, Ended
  <2>4. ASSUME NEW x \in Run \ {m} PROVE ResultOK(x)'
    BY <2>0, <1>1, <1>2, <1>3, Names
       DEF ChildInv, ThreadTypes, ResultsOK, ResultOK, NeverStarts, Ended, Kept
  <2>5. QED BY <2>3, <2>4 DEF ResultsOK
<1>12. AloneOK'
  <2>1. RouteOK'
    BY <1>1, <1>2, <1>3, Names DEF ChildInv, ThreadTypes, AloneOK, RouteOK, Ended, Kept, GateOK
  <2>2. ASSUME blind' = {} PROVE NewestOnly'
    BY <1>1, <1>2, <1>3, Names, <2>2 DEF ChildInv, ThreadTypes, AloneOK, NewestOnly, Open,
       Ended, GateOK, ExecsOK, ExecOK
  <2>3. QED BY <2>1, <2>2 DEF AloneOK
<1>13. QED BY <1>2, <1>4, <1>5, <1>6, <1>7, <1>8, <1>9, <1>10, <1>11, <1>12 DEF ChildInv

LEMMA GateNextKeeps ==
  ASSUME ChildInv, GateNext
  PROVE  ChildInv'
<1>1. ThreadTypes
  BY Types
<1>2. MailboxInv' /\ Kept
  BY ListStep DEF ChildInv, GateNext
<1>3. /\ UNCHANGED <<run, message, latest, result, route, exec, call, resumed, pass, blind, spent>>
      /\ gate.pc = "next" /\ gate'.pc \in {"rest", "look"}
  BY <1>1, Names, Blanks, GateMoves DEF ThreadTypes, GateNext, Gates, Resting
<1>4. ChildTypeOK'
  <2>1. gate' \in Gates
    BY <1>1, Names, Blanks, GateMoves DEF ThreadTypes, GateNext, Gates, Resting, Outcome
  <2>2. ThreadTypes'
    BY <1>1, <1>3, <2>1 DEF ThreadTypes
  <2>3. QED BY <1>2, <2>2, TypesNext
<1>5. CallsOK'
  BY <1>1, <1>2, <1>3, Names DEF ChildInv, CallsOK, CallOK, Agrees, Kept
<1>6. ExecsOK'
  <2> SUFFICES ASSUME NEW x \in Run PROVE ExecOK(x)'
    BY DEF ExecsOK
  <2>1. QED BY <1>1, <1>2, <1>3, Names DEF ChildInv, ThreadTypes, ExecsOK, ExecOK, Kept
<1>7. GateOK'
  BY <1>1, <1>2, <1>3, Names DEF ChildInv, ThreadTypes, GateOK, Agrees, Kept
<1>8. MessagesOK'
  BY <1>1, <1>2, <1>3, Names DEF ChildInv, MessagesOK, MessageOK, Pending, Kept
<1>9. ResumesOK'
  BY <1>1, <1>2, <1>3, Names DEF ChildInv, ResumesOK, Agrees, Kept
<1>10. PassOK'
  BY <1>1, <1>2, <1>3, Names DEF ChildInv, PassOK, Continuation, Ended, Kept
<1>11. ResultsOK'
  BY <1>1, <1>2, <1>3, Names DEF ChildInv, ResultsOK, ResultOK, NeverStarts, Ended, Kept
<1>12. AloneOK'
  <2>1. RouteOK'
    BY <1>1, <1>2, <1>3, Names DEF ChildInv, ThreadTypes, AloneOK, RouteOK, Ended, Kept
  <2>2. ASSUME blind' = {} PROVE NewestOnly'
    BY <1>1, <1>2, <1>3, Names, <2>2 DEF ChildInv, ThreadTypes, AloneOK, NewestOnly, Open, Ended
  <2>3. QED BY <2>1, <2>2 DEF AloneOK
<1>13. QED BY <1>2, <1>4, <1>5, <1>6, <1>7, <1>8, <1>9, <1>10, <1>11, <1>12 DEF ChildInv

LEMMA GateRegistersKeeps ==
  ASSUME ChildInv, GateRegisters
  PROVE  ChildInv'
<1>1. ThreadTypes
  BY Types
<1>2. MailboxInv' /\ Kept
  BY SameStep, GiveUpStep DEF ChildInv, GateRegisters, GateOK
<1>3. /\ UNCHANGED <<run, message, latest, result, call, resumed, spent>>
      /\ gate.pc = "register"
      /\ pass'.todo \subseteq pass.todo
      /\ \/ /\ exec' = exec /\ route' = route /\ blind' = blind /\ gate'.pc \in {"rest", "look"}
         \/ /\ route.run \in {None, gate.msg} /\ route'.run = gate.msg
            /\ exec' = [exec EXCEPT ![gate.msg] = [at |-> "begun", by |-> "gate"]]
            /\ gate'.pc = "start" /\ gate'.msg = gate.msg /\ blind \subseteq blind'
            /\ (route = NoRoute /\ ~Ended(latest) => gate.msg \in blind')
  <2>1. UNCHANGED <<run, message, latest, result, call, resumed, spent>>
    BY <1>1, Names, Blanks, GateHolds DEF ThreadTypes, GateRegisters, Routes, Execs, Gates,
       Passes, RouteFree, NoRoute
  <2>2. gate.pc = "register"
    BY <1>1, Names, Blanks, GateHolds DEF ThreadTypes, GateRegisters, Routes, Execs, Gates,
       Passes, RouteFree, NoRoute
  <2>3. pass'.todo \subseteq pass.todo
    BY <1>1, Names, Blanks, PassMoves, GateHolds DEF ThreadTypes, GateRegisters, Routes, Execs,
       Gates, Passes, RouteFree, NoRoute
  <2>4. \/ /\ exec' = exec /\ route' = route /\ blind' = blind /\ gate'.pc \in {"rest", "look"}
        \/ /\ route.run \in {None, gate.msg} /\ route'.run = gate.msg
           /\ exec' = [exec EXCEPT ![gate.msg] = [at |-> "begun", by |-> "gate"]]
           /\ gate'.pc = "start" /\ gate'.msg = gate.msg /\ blind \subseteq blind'
           /\ (route = NoRoute /\ ~Ended(latest) => gate.msg \in blind')
    BY <1>1, Names, Blanks, GateMoves, GateHolds DEF ThreadTypes, GateRegisters, Routes, Execs,
       Gates, Passes, RouteFree, NoRoute
  <2>5. QED BY <2>1, <2>2, <2>3, <2>4
<1>4. ChildTypeOK'
  <2>1. route' \in Routes
    BY <1>1, Names, Blanks, GateHolds DEF ThreadTypes, GateRegisters, Routes
  <2>2. exec' \in [Run -> Execs]
    BY <1>1, Names, Blanks, GateHolds DEF ThreadTypes, GateRegisters, Execs
  <2>3. gate' \in Gates
    BY <1>1, Names, Blanks, GateMoves, GateHolds DEF ThreadTypes, GateRegisters, Gates
  <2>4. pass' \in Passes
    BY <1>1, Names, Blanks, PassMoves, GateHolds DEF ThreadTypes, GateRegisters, Passes
  <2>5. blind' \in SUBSET Run
    <3>1. blind' = blind \/ blind' = blind \cup {gate.msg}
      BY DEF GateRegisters
    <3>2. QED BY <1>1, <3>1, Names, GateHolds, <1>3 DEF ThreadTypes
  <2>6. ThreadTypes'
    BY <1>1, <1>3, <2>1, <2>2, <2>3, <2>4, <2>5 DEF ThreadTypes
  <2>7. QED BY <1>2, <2>6, TypesNext
<1>5. CallsOK'
  <2> SUFFICES ASSUME NEW x \in Call PROVE CallOK(x)'
    BY DEF CallsOK
  <2>1. QED BY <1>1, <1>2, <1>3, Names DEF ChildInv, ThreadTypes, CallsOK, CallOK, Agrees, Kept,
     Idle, GateOK
<1>6. ExecsOK'
  <2> SUFFICES ASSUME NEW x \in Run PROVE ExecOK(x)'
    BY DEF ExecsOK
  <2>1. QED BY <1>1, <1>2, <1>3, Names DEF ChildInv, ThreadTypes, ExecsOK, ExecOK, Kept, GateOK,
     Execs
<1>7. GateOK'
  BY <1>1, <1>2, <1>3, Names DEF ChildInv, ThreadTypes, GateOK, Agrees, Kept, Idle
<1>8. MessagesOK'
  BY <1>1, <1>2, <1>3, Names DEF ChildInv, MessagesOK, MessageOK, Pending, Kept
<1>9. ResumesOK'
  BY <1>1, <1>2, <1>3, Names DEF ChildInv, ResumesOK, Agrees, Kept
<1>10. PassOK'
  BY <1>1, <1>2, <1>3, Names DEF ChildInv, ThreadTypes, PassOK, Continuation, Ended, Kept
<1>11. ResultsOK'
  <2> SUFFICES ASSUME NEW x \in Run PROVE ResultOK(x)'
    BY DEF ResultsOK
  <2>1. QED BY <1>1, <1>2, <1>3, Names DEF ChildInv, ThreadTypes, ResultsOK, ResultOK,
     NeverStarts, Ended, Kept, Idle, GateOK
<1>12. AloneOK'
  <2>1. RouteOK'
    BY <1>1, <1>2, <1>3, Names DEF ChildInv, ThreadTypes, AloneOK, RouteOK, Ended, Kept
  <2>2. ASSUME blind' = {} PROVE NewestOnly'
    BY <1>1, <1>2, <1>3, Names, <2>2 DEF ChildInv, ThreadTypes, AloneOK, NewestOnly, Open,
       Ended, GateOK, RouteOK, NoRoute, Routes, Execs
  <2>3. QED BY <2>1, <2>2 DEF AloneOK
<1>13. QED BY <1>2, <1>4, <1>5, <1>6, <1>7, <1>8, <1>9, <1>10, <1>11, <1>12 DEF ChildInv

LEMMA GateClaimsKeeps ==
  ASSUME ChildInv, GateClaims
  PROVE  ChildInv'
<1>1. ThreadTypes
  BY Types
<1>2. MailboxInv' /\ Kept
  <2>1. FreshClaim \subseteq ClaimId
    BY DEF FreshClaim
  <2>2. QED BY <2>1, ClaimStep DEF ChildInv, GateClaims
<1>a. /\ gate.pc \in {"claim", "orphan"}
      /\ UNCHANGED <<run, message, latest, result, route, exec, call, resumed, pass, blind>>
      /\ \/ gate' = Rested(gate)
         \/ \E m \in Batch(ClaimSweep, Branch, 1), c \in ClaimId, p \in {"register", "giveback"} :
              /\ gate' = [gate EXCEPT !.pc = p, !.msg = m, !.claim = c]
              /\ p = "register" => gate.pc = "claim"
      /\ spent' = spent \/ Mishap
  BY DEF GateClaims, FreshClaim
<1>b. ASSUME NEW m \in Batch(ClaimSweep, Branch, 1), NEW c \in ClaimId, NEW p \in {"register", "giveback"},
             gate' = [gate EXCEPT !.pc = p, !.msg = m, !.claim = c]
      PROVE  gate' \in Gates /\ gate'.pc = p /\ gate'.msg = m /\ m \in Msg /\ Pending(m)
  <2>1. m \in Msg /\ Pending(m)
    BY TakenPending DEF ChildInv
  <2>2. QED BY <1>1, <1>b, <2>1 DEF ThreadTypes, Gates
<1>3. /\ UNCHANGED <<run, message, latest, result, route, exec, call, resumed, pass, blind>>
      /\ gate.pc \in {"claim", "orphan"}
      /\ \/ gate'.pc \in {"rest", "look"}
         \/ /\ gate'.pc \in {"register", "giveback"} /\ gate'.msg \in Msg /\ Pending(gate'.msg)
            /\ gate'.pc = "register" => gate.pc = "claim"
  <2>1. Rested(gate).pc \in {"rest", "look"}
    BY <1>1, GateMoves DEF ThreadTypes
  <2>2. CASE gate' = Rested(gate)
    BY <1>a, <2>1, <2>2
  <2>3. CASE gate' # Rested(gate)
    <3>1. PICK m \in Batch(ClaimSweep, Branch, 1), c \in ClaimId, p \in {"register", "giveback"} :
            /\ gate' = [gate EXCEPT !.pc = p, !.msg = m, !.claim = c]
            /\ p = "register" => gate.pc = "claim"
      BY <1>a, <2>3
    <3>2. gate'.pc = p /\ gate'.msg = m /\ m \in Msg /\ Pending(m)
      BY <1>b, <3>1
    <3>3. QED BY <1>a, <3>1, <3>2
  <2>4. QED BY <2>2, <2>3
<1>4. ChildTypeOK'
  <2>1. gate' \in Gates
    <3>1. CASE gate' = Rested(gate)
      BY <1>1, <3>1, GateMoves DEF ThreadTypes
    <3>2. CASE gate' # Rested(gate)
      <4>1. PICK m \in Batch(ClaimSweep, Branch, 1), c \in ClaimId, p \in {"register", "giveback"} :
              gate' = [gate EXCEPT !.pc = p, !.msg = m, !.claim = c]
        BY <1>a, <3>2
      <4>2. QED BY <1>b, <4>1
    <3>3. QED BY <3>1, <3>2
  <2>2. spent' \in Spent
    <3>1. Mishap => spent' \in Spent
      BY <1>1 DEF ThreadTypes, Spent, Mishap
    <3>2. spent \in Spent
      BY <1>1 DEF ThreadTypes
    <3>3. QED BY <1>a, <3>1, <3>2
  <2>3. ThreadTypes'
    BY <1>1, <1>3, <2>1, <2>2 DEF ThreadTypes
  <2>4. QED BY <1>2, <2>3, TypesNext
<1>5. CallsOK'
  BY <1>1, <1>2, <1>3, Names DEF ChildInv, CallsOK, CallOK, Agrees, Kept
<1>6. ExecsOK'
  <2> SUFFICES ASSUME NEW x \in Run PROVE ExecOK(x)'
    BY DEF ExecsOK
  <2>1. QED BY <1>1, <1>2, <1>3, Names DEF ChildInv, ThreadTypes, ExecsOK, ExecOK, Kept
<1>7. GateOK'
  <2>1. gate' \in Gates
    BY <1>4 DEF ChildTypeOK, Gates
  <2>2. CASE gate'.pc \in {"rest", "look"}
    BY <2>2 DEF GateOK
  <2>3. CASE gate'.pc \in {"register", "giveback"}
    <3>1. PICK m \in Msg : m = gate'.msg /\ Pending(m)
      BY <1>3, <2>3
    <3>2. run[m] = "absent" /\ exec[m] = Idle
      BY <1>3, <3>1, PendingIdle
    <3>3. mailbox[m].status # "absent"
      BY <3>1 DEF Pending
    <3>4. gate'.pc = "register" => latest \in Run
      BY <1>3, <2>3 DEF ChildInv, GateOK
    <3>5. QED BY <1>2, <1>3, <2>3, <3>1, <3>2, <3>3, <3>4 DEF GateOK, Kept
  <2>4. QED BY <1>3, <2>2, <2>3
<1>8. MessagesOK'
  BY <1>1, <1>2, <1>3, Names DEF ChildInv, MessagesOK, MessageOK, Pending, Kept
<1>9. ResumesOK'
  BY <1>1, <1>2, <1>3, Names DEF ChildInv, ResumesOK, Agrees, Kept
<1>10. PassOK'
  BY <1>1, <1>2, <1>3, Names DEF ChildInv, PassOK, Continuation, Ended, Kept
<1>11. ResultsOK'
  BY <1>1, <1>2, <1>3, Names DEF ChildInv, ResultsOK, ResultOK, NeverStarts, Ended, Kept
<1>12. AloneOK'
  <2>1. RouteOK'
    BY <1>1, <1>2, <1>3, Names DEF ChildInv, ThreadTypes, AloneOK, RouteOK, Ended, Kept
  <2>2. ASSUME blind' = {} PROVE NewestOnly'
    BY <1>1, <1>2, <1>3, Names, <2>2 DEF ChildInv, ThreadTypes, AloneOK, NewestOnly, Open, Ended
  <2>3. QED BY <2>1, <2>2 DEF AloneOK
<1>13. QED BY <1>2, <1>4, <1>5, <1>6, <1>7, <1>8, <1>9, <1>10, <1>11, <1>12 DEF ChildInv

-----------------------------------------------------------------------------
(* Executors.                                                              *)

LEMMA OverEffect ==
  ASSUME ThreadTypes, NEW r \in Run, NEW out \in Outcome, Over(r, out),
         exec[r].by = "call" => r \in Call,
         exec[r].by = "gate" => r = gate.msg /\ gate.pc \in {"start", "run"}
  PROVE  /\ exec' \in [Run -> Execs] /\ call' \in [Call -> Calls] /\ gate' \in Gates
         /\ resumed' \in [Run -> Outcome]
         /\ exec'[r] = Idle /\ \A x \in Run \ {r} : exec'[x] = exec[x]
         /\ \A x \in Call \ {r} : call'[x] = call[x]
         /\ r \in Call => \/ call'[r] = call[r]
                          \/ exec[r].by = "call" /\ call'[r].pc = "end"
                          \/ /\ exec[r].by = "call" /\ ~Foreground(r)
                             /\ call'[r].pc = "report" /\ call'[r].out = out
         /\ gate'.msg = gate.msg
         /\ \/ gate' = gate /\ exec[r].by # "gate"
            \/ exec[r].by = "gate" /\ gate.pc = "start" /\ gate'.pc = "stuck"
            \/ exec[r].by = "gate" /\ gate.pc = "run" /\ gate'.pc = "finish" /\ gate'.out = out
         /\ \A x \in Run \ {r} : resumed'[x] = resumed[x]
         /\ \/ resumed'[r] = resumed[r]
            \/ exec[r].by = "resume" /\ resumed'[r] = out
<1>1. /\ exec' \in [Run -> Execs] /\ exec'[r] = Idle
      /\ \A x \in Run \ {r} : exec'[x] = exec[x]
  BY Blanks DEF ThreadTypes, Over
<1>2. /\ resumed' \in [Run -> Outcome] /\ \A x \in Run \ {r} : resumed'[x] = resumed[x]
      /\ \/ resumed'[r] = resumed[r]
         \/ exec[r].by = "resume" /\ resumed'[r] = out
  BY DEF ThreadTypes, Over
<1>3. /\ gate' \in Gates /\ gate'.msg = gate.msg
      /\ \/ gate' = gate /\ exec[r].by # "gate"
         \/ exec[r].by = "gate" /\ gate.pc = "start" /\ gate'.pc = "stuck"
         \/ exec[r].by = "gate" /\ gate.pc = "run" /\ gate'.pc = "finish" /\ gate'.out = out
  <2>1. CASE exec[r].by # "gate"
    BY <2>1 DEF ThreadTypes, Over
  <2>2. CASE exec[r].by = "gate"
    <3> DEFINE pc == IF gate.pc = "start" THEN "stuck" ELSE "finish"
               g == [gate EXCEPT !.pc = pc, !.out = out]
    <3>1. gate' = g
      BY <2>2 DEF ThreadTypes, Over, Gates
    <3>2. g \in Gates /\ g.msg = gate.msg /\ g.pc = pc /\ g.out = out
      BY DEF ThreadTypes, Gates
    <3>3. gate.pc \in {"start", "run"}
      BY <2>2
    <3> HIDE DEF g
    <3>4. QED BY <2>2, <3>1, <3>2, <3>3
  <2>3. QED BY <2>1, <2>2
<1>4. /\ call' \in [Call -> Calls] /\ \A x \in Call \ {r} : call'[x] = call[x]
      /\ r \in Call => \/ call'[r] = call[r]
                       \/ exec[r].by = "call" /\ call'[r].pc = "end"
                       \/ /\ exec[r].by = "call" /\ ~Foreground(r)
                          /\ call'[r].pc = "report" /\ call'[r].out = out
  <2>1. CASE exec[r].by # "call"
    BY <2>1 DEF ThreadTypes, Over
  <2>2. CASE Foreground(r)
    <3> DEFINE c == [call[r] EXCEPT !.pc = "end"]
    <3>1. r \in Call /\ call' = [call EXCEPT ![r] = c]
      BY <2>2 DEF ThreadTypes, Over, Foreground
    <3>2. c \in Calls /\ c.pc = "end"
      BY <3>1 DEF ThreadTypes, Calls
    <3> HIDE DEF c
    <3>3. QED BY <2>2, <3>1, <3>2 DEF ThreadTypes, Foreground
  <2>3. CASE exec[r].by = "call" /\ ~Foreground(r)
    <3> DEFINE c == [call[r] EXCEPT !.pc = "report", !.out = out]
    <3>1. r \in Call /\ call' = [call EXCEPT ![r] = c]
      BY <2>3 DEF ThreadTypes, Over, Calls
    <3>2. call[r] \in Calls
      BY <3>1 DEF ThreadTypes
    <3>3. c \in Calls
      BY <3>2 DEF Calls
    <3>4. c.pc = "report" /\ c.out = out
      BY <3>2 DEF Calls
    <3> HIDE DEF c
    <3>5. QED BY <2>3, <3>1, <3>3, <3>4 DEF ThreadTypes
  <2>4. QED BY <2>1, <2>2, <2>3
<1>5. QED BY <1>1, <1>2, <1>3, <1>4

\* A step that ends an executor.  The outcome handed on agrees with the row of the
\* run, but for a call in the foreground, which hands none on.
LEMMA OverKeeps ==
  ASSUME ChildInv, NEW r \in Run, NEW out \in {"ok", "failed", "suspended"},
         exec[r].at # "none", Over(r, out),
         NEW s \in RunStatus, run' = [run EXCEPT ![r] = s],
         out = "ok" => s = "completed" \/ Foreground(r),
         out = "failed" => s \in {"failed", "absent"},
         s = "absent" <=> run[r] = "absent", Ended(r) => s = run[r],
         s = "running" \/ s = "suspended" => run[r] = "running",
         spent' \in Spent, MailboxInv', Kept,
         UNCHANGED <<message, latest, result, route, pass, blind>>
  PROVE  ChildInv'
<1>1. ThreadTypes /\ out \in Outcome
  BY Types DEF Outcome
<1>2. ExecOK(r) /\ exec[r] # Idle
  BY DEF ChildInv, ExecsOK, Idle
<1>3. exec[r].by = "gate" => /\ r = gate.msg /\ r \in Msg
                             /\ gate.pc = IF exec[r].at = "live" THEN "run" ELSE "start"
  BY <1>2, GateHolds DEF ExecOK
<1>4. exec[r].by = "call" => r \in Call /\ call[r].pc = "active"
  BY <1>2 DEF ExecOK
<1>5. /\ run' \in [Run -> RunStatus] /\ run'[r] = s
      /\ \A x \in Run \ {r} : run'[x] = run[x]
  BY <1>1 DEF ThreadTypes
<1>6. /\ exec' \in [Run -> Execs] /\ call' \in [Call -> Calls] /\ gate' \in Gates
      /\ resumed' \in [Run -> Outcome]
      /\ exec'[r] = Idle /\ \A x \in Run \ {r} : exec'[x] = exec[x]
      /\ \A x \in Call \ {r} : call'[x] = call[x]
      /\ r \in Call => \/ call'[r] = call[r]
                       \/ exec[r].by = "call" /\ call'[r].pc = "end"
                       \/ /\ exec[r].by = "call" /\ ~Foreground(r)
                          /\ call'[r].pc = "report" /\ call'[r].out = out
      /\ gate'.msg = gate.msg
      /\ \/ gate' = gate /\ exec[r].by # "gate"
         \/ exec[r].by = "gate" /\ gate.pc = "start" /\ gate'.pc = "stuck"
         \/ exec[r].by = "gate" /\ gate.pc = "run" /\ gate'.pc = "finish" /\ gate'.out = out
      /\ \A x \in Run \ {r} : resumed'[x] = resumed[x]
      /\ \/ resumed'[r] = resumed[r]
         \/ exec[r].by = "resume" /\ resumed'[r] = out
  BY <1>1, <1>3, <1>4, OverEffect
<1>7. exec[r].by # "call" => ~Foreground(r)
  BY DEF Foreground
<1>8. exec[r].at # "begun" => run[r] \in {"running", "failed"}
  BY <1>1, <1>2 DEF ExecOK, ThreadTypes, Execs
<1>9. ChildTypeOK'
  <2>1. ThreadTypes'
    BY <1>1, <1>5, <1>6 DEF ThreadTypes
  <2>2. QED BY <2>1, TypesNext
<1>10. CallsOK'
  <2> SUFFICES ASSUME NEW x \in Call PROVE CallOK(x)'
    BY DEF CallsOK
  <2>1. CallOK(x)
    BY DEF ChildInv, CallsOK
  <2>2. CASE x = r
    BY <1>2, <1>4, <1>5, <1>6, <2>1, <2>2, Names DEF CallOK, Agrees, Kept, Ended
  <2>3. CASE x # r
    BY <1>5, <1>6, <2>1, <2>3, Names DEF CallOK, Agrees, Kept
  <2>4. QED BY <2>2, <2>3
<1>11. ExecsOK'
  <2> SUFFICES ASSUME NEW x \in Run PROVE ExecOK(x)'
    BY DEF ExecsOK
  <2>1. ExecOK(x)
    BY DEF ChildInv, ExecsOK
  <2>2. CASE x = r
    BY <1>6, <2>2 DEF ExecOK, Idle
  <2>3. CASE x # r
    BY <1>3, <1>4, <1>5, <1>6, <2>1, <2>3, Names DEF ExecOK
  <2>4. QED BY <2>2, <2>3
<1>12. GateOK'
  <2>1. GateOK
    BY DEF ChildInv
  <2>2. CASE exec[r].by = "gate"
    BY <1>2, <1>3, <1>5, <1>6, <1>7, <1>8, <2>1, <2>2, Names DEF GateOK, Agrees, Kept
  <2>3. CASE exec[r].by # "gate"
    <3>1. gate' = gate
      BY <1>6, <2>3
    <3>2. gate.pc \in {"register", "giveback", "finish"} => gate.msg \in Run
      BY GateHolds
    <3>3. QED BY <1>2, <1>5, <1>6, <2>1, <3>1, <3>2 DEF GateOK, Agrees, Kept, Ended
  <2>4. QED BY <2>2, <2>3
<1>13. MessagesOK'
  BY <1>5, Names DEF ChildInv, MessagesOK, MessageOK, Pending, Kept
<1>14. ResumesOK'
  <2>1. exec[r].by = "resume" => exec[r].at # "begun"
    BY <1>2 DEF ExecOK
  <2>2. Agrees(r, resumed[r]) /\ (resumed[r] # "none" => run[r] # "absent")
    BY DEF ChildInv, ResumesOK
  <2>3. Agrees(r, resumed[r])' /\ (resumed'[r] # "none" => run'[r] # "absent")
    BY <1>5, <1>6, <1>7, <1>8, <2>1, <2>2 DEF Agrees, Ended
  <2>4. QED BY <1>5, <1>6, <2>3 DEF ChildInv, ResumesOK, Agrees
<1>15. PassOK'
  BY <1>1, <1>5 DEF ChildInv, ThreadTypes, PassOK, Continuation, Ended, Kept, Passes
<1>16. ResultsOK'
  <2> SUFFICES ASSUME NEW x \in Run PROVE ResultOK(x)'
    BY DEF ResultsOK
  <2>1. ResultOK(x)
    BY DEF ChildInv, ResultsOK
  <2>2. CASE x = r
    BY <1>2, <1>5, <2>1, <2>2 DEF ResultOK, NeverStarts, Ended
  <2>3. CASE x # r
    BY <1>5, <1>6, <2>1, <2>3 DEF ResultOK, NeverStarts, Ended, Kept
  <2>4. QED BY <2>2, <2>3
<1>17. AloneOK'
  <2>1. RouteOK'
    BY <1>1, <1>3, <1>4, <1>5, <1>6, Names DEF ChildInv, ThreadTypes, AloneOK, RouteOK, Kept
  <2>2. ASSUME blind' = {} PROVE NewestOnly'
    BY <1>1, <1>5, <1>6, <2>2 DEF ChildInv, ThreadTypes, AloneOK, NewestOnly, Open, Ended, Idle
  <2>3. QED BY <2>1, <2>2 DEF AloneOK
<1>18. QED BY <1>9, <1>10, <1>11, <1>12, <1>13, <1>14, <1>15, <1>16, <1>17 DEF ChildInv

LEMMA StartFailsKeeps ==
  ASSUME ChildInv, NEW r \in Run, StartFails(r)
  PROVE  ChildInv'
<1>1. ThreadTypes /\ exec[r].at = "begun" /\ run[r] = "absent"
  BY Types DEF ChildInv, ExecsOK, ExecOK, StartFails
<1>2. MailboxInv' /\ Kept
  BY SameStep DEF ChildInv, StartFails
<1>3. run' = [run EXCEPT ![r] = run[r]] /\ run[r] \in RunStatus
  BY <1>1 DEF ThreadTypes, StartFails
<1>4. spent' \in Spent
  BY <1>1 DEF ThreadTypes, StartFails, Mishap, Spent
<1>5. QED BY <1>1, <1>2, <1>3, <1>4, OverKeeps DEF StartFails, Ended

LEMMA BuildFailsKeeps ==
  ASSUME ChildInv, NEW r \in Run, BuildFails(r)
  PROVE  ChildInv'
<1>1. ThreadTypes /\ exec[r].at = "started" /\ run[r] \in {"running", "failed"}
  BY Types DEF ChildInv, ExecsOK, ExecOK, BuildFails
<1>2. MailboxInv' /\ Kept
  BY SameStep DEF ChildInv, BuildFails
<1>3. spent' \in Spent
  BY <1>1 DEF ThreadTypes, BuildFails, Mishap, Spent
<1>4. QED BY <1>1, <1>2, <1>3, OverKeeps DEF BuildFails, Ended, RunStatus

LEMMA EndsKeeps ==
  ASSUME ChildInv, NEW r \in Run, Ends(r)
  PROVE  ChildInv'
<1>1. ThreadTypes /\ exec[r].at = "live" /\ run[r] \in {"running", "failed"}
  BY Types DEF ChildInv, ExecsOK, ExecOK, Ends
<1>2. MailboxInv' /\ Kept
  BY SameStep DEF ChildInv, Ends
<1>3. spent' \in Spent /\ UNCHANGED <<message, latest, result, route, pass, blind>>
  BY <1>1 DEF ThreadTypes, Ends
<1>4. CASE run' = [run EXCEPT ![r] = "completed"] /\ Over(r, "ok") /\ run[r] = "running"
  BY <1>1, <1>2, <1>3, <1>4, OverKeeps DEF Ended, RunStatus
<1>5. CASE run' = [run EXCEPT ![r] = "failed"] /\ Over(r, "failed") /\ run[r] = "running"
  BY <1>1, <1>2, <1>3, <1>5, OverKeeps DEF Ended, RunStatus
<1>6. CASE Over(r, StoppedOut(r)) /\ UNCHANGED run /\ run[r] # "running"
  <2>1. run' = [run EXCEPT ![r] = "failed"] /\ run[r] = "failed"
    BY <1>1, <1>6 DEF ThreadTypes
  <2>2. \/ StoppedOut(r) = "ok" /\ Foreground(r)
        \/ StoppedOut(r) = "failed"
    BY DEF StoppedOut
  <2>3. QED BY <1>1, <1>2, <1>3, <1>6, <2>1, <2>2, OverKeeps DEF Ended, RunStatus
<1>7. QED BY <1>4, <1>5, <1>6 DEF Ends

LEMMA SuspendsKeeps ==
  ASSUME ChildInv, NEW r \in Run, Suspends(r)
  PROVE  ChildInv'
<1>1. ThreadTypes /\ exec[r].at = "live" /\ run[r] = "running"
  BY Types DEF Suspends
<1>2. MailboxInv' /\ Kept
  BY SameStep DEF ChildInv, Suspends
<1>3. spent' \in Spent
  BY <1>1 DEF ThreadTypes, Suspends, Mishap, Spent
<1>4. QED BY <1>1, <1>2, <1>3, OverKeeps DEF Suspends, Ended, RunStatus

LEMMA BuildsKeeps ==
  ASSUME ChildInv, NEW r \in Run, Builds(r)
  PROVE  ChildInv'
<1>1. ThreadTypes
  BY Types
<1>2. MailboxInv' /\ Kept
  BY SameStep DEF ChildInv, Builds
<1>3. /\ UNCHANGED <<run, message, latest, result, route, call, resumed, pass, blind, spent>>
      /\ \A x \in Run \ {r} : exec'[x] = exec[x]
      /\ exec[r].at = "started" /\ exec'[r].at = "live" /\ exec'[r].by = exec[r].by
      /\ gate'.msg = gate.msg /\ gate'.out = gate.out
      /\ \/ exec[r].by = "gate" /\ gate'.pc = "run" /\ gate.pc = "start" /\ gate.msg = r
         \/ exec[r].by # "gate" /\ gate' = gate
  <2>1. UNCHANGED <<run, message, latest, result, route, call, resumed, pass, blind, spent>>
    BY <1>1, Names, Blanks, BeginsOf DEF ThreadTypes, Builds, Execs, Gates
  <2>2. \A x \in Run \ {r} : exec'[x] = exec[x]
    BY <1>1, Names, Blanks, BeginsOf DEF ThreadTypes, Builds, Execs, Gates
  <2>3. exec[r].at = "started" /\ exec'[r].at = "live" /\ exec'[r].by = exec[r].by
    BY <1>1, Names, Blanks, BeginsOf DEF ThreadTypes, Builds, Execs, Gates
  <2>4. gate'.msg = gate.msg /\ gate'.out = gate.out
    BY <1>1, Names, Blanks, BeginsOf DEF ThreadTypes, Builds, Execs, Gates
  <2>5. \/ exec[r].by = "gate" /\ gate'.pc = "run" /\ gate.pc = "start" /\ gate.msg = r
        \/ exec[r].by # "gate" /\ gate' = gate
    BY <1>1, Names, Blanks, BeginsOf DEF ThreadTypes, Builds, Execs, Gates
  <2>6. QED BY <2>1, <2>2, <2>3, <2>4, <2>5
<1>4. ChildTypeOK'
  <2>1. exec' \in [Run -> Execs]
    BY <1>1, Names, Blanks, BeginsOf DEF ThreadTypes, Builds, Execs
  <2>2. gate' \in Gates
    BY <1>1, Names, Blanks, BeginsOf DEF ThreadTypes, Builds, Gates
  <2>3. ThreadTypes'
    BY <1>1, <1>3, <2>1, <2>2 DEF ThreadTypes
  <2>4. QED BY <1>2, <2>3, TypesNext
<1>5. CallsOK'
  <2> SUFFICES ASSUME NEW x \in Call PROVE CallOK(x)'
    BY DEF CallsOK
  <2>1. QED BY <1>1, <1>2, <1>3, Names DEF ChildInv, ThreadTypes, CallsOK, CallOK, Agrees, Kept,
     Idle
<1>6. ExecsOK'
  <2> SUFFICES ASSUME NEW x \in Run PROVE ExecOK(x)'
    BY DEF ExecsOK
  <2>1. QED BY <1>1, <1>2, <1>3, Names DEF ChildInv, ThreadTypes, ExecsOK, ExecOK, Kept
<1>7. GateOK'
  BY <1>1, <1>2, <1>3, Names DEF ChildInv, ThreadTypes, GateOK, Agrees, Kept, Idle, ExecsOK,
     ExecOK
<1>8. MessagesOK'
  BY <1>1, <1>2, <1>3, Names DEF ChildInv, MessagesOK, MessageOK, Pending, Kept
<1>9. ResumesOK'
  BY <1>1, <1>2, <1>3, Names DEF ChildInv, ResumesOK, Agrees, Kept
<1>10. PassOK'
  BY <1>1, <1>2, <1>3, Names DEF ChildInv, PassOK, Continuation, Ended, Kept
<1>11. ResultsOK'
  <2> SUFFICES ASSUME NEW x \in Run PROVE ResultOK(x)'
    BY DEF ResultsOK
  <2>1. QED BY <1>1, <1>2, <1>3, Names DEF ChildInv, ThreadTypes, ResultsOK, ResultOK,
     NeverStarts, Ended, Kept, Idle
<1>12. AloneOK'
  <2>1. RouteOK'
    <3>1. run[r] # "absent"
      BY <1>3 DEF ChildInv, ExecsOK, ExecOK
    <3>2. QED BY <1>2, <1>3, <3>1, Names DEF ChildInv, AloneOK, RouteOK, Kept
  <2>2. ASSUME blind' = {} PROVE NewestOnly'
    BY <1>1, <1>2, <1>3, Names, <2>2 DEF ChildInv, ThreadTypes, AloneOK, NewestOnly, Open, Ended
  <2>3. QED BY <2>1, <2>2 DEF AloneOK
<1>13. QED BY <1>2, <1>4, <1>5, <1>6, <1>7, <1>8, <1>9, <1>10, <1>11, <1>12 DEF ChildInv

LEMMA TakesKeeps ==
  ASSUME ChildInv, NEW r \in Run, Takes(r)
  PROVE  ChildInv'
<1>1. ThreadTypes
  BY Types
<1>2. MailboxInv' /\ Kept
  BY TakesStep DEF ChildInv, Takes
<1>3. /\ UNCHANGED <<run, latest, result, route, exec, call, gate, resumed, pass, blind, spent>>
  BY <1>1, Names, Blanks DEF ThreadTypes, Takes
<1>4. ChildTypeOK'
  <2>1. message' \in [Msg -> Run \cup {None}]
    <3> DEFINE B == Batch(ClaimSweep, Branch, MaxLimit)
    <3>1. message' = [m \in Msg |-> IF m \in B THEN r ELSE message[m]]
      BY DEF Takes
    <3> HIDE DEF B
    <3>2. QED BY <1>1, <3>1 DEF ThreadTypes
  <2>2. ThreadTypes'
    BY <1>1, <1>3, <2>1 DEF ThreadTypes
  <2>3. QED BY <1>2, <2>2, TypesNext
<1>5. CallsOK'
  BY <1>1, <1>2, <1>3, Names DEF ChildInv, CallsOK, CallOK, Agrees, Kept
<1>6. ExecsOK'
  BY <1>1, <1>2, <1>3, Names DEF ChildInv, ExecsOK, ExecOK, Kept
<1>7. GateOK'
  BY <1>1, <1>2, <1>3, Names DEF ChildInv, GateOK, Agrees, Kept
<1>8. MessagesOK'
  BY <1>1, <1>2, <1>3, Names DEF ChildInv, MessagesOK, MessageOK, Pending, Kept
<1>9. ResumesOK'
  BY <1>1, <1>2, <1>3, Names DEF ChildInv, ResumesOK, Agrees, Kept
<1>10. PassOK'
  BY <1>1, <1>2, <1>3, Names DEF ChildInv, PassOK, Continuation, Ended, Kept
<1>11. ResultsOK'
  BY <1>1, <1>2, <1>3, Names DEF ChildInv, ResultsOK, ResultOK, NeverStarts, Ended, Kept
<1>12. AloneOK'
  BY <1>1, <1>2, <1>3, Names DEF ChildInv, AloneOK, RouteOK, NewestOnly, Open, Ended, Kept
<1>13. QED BY <1>2, <1>4, <1>5, <1>6, <1>7, <1>8, <1>9, <1>10, <1>11, <1>12 DEF ChildInv

LEMMA StartsKeeps ==
  ASSUME ChildInv, NEW r \in Run, Starts(r)
  PROVE  ChildInv'
<1>1. ThreadTypes
  BY Types
<1>2. MailboxInv' /\ Kept
  <2>1. exec[r].by = "gate" => r \in Msg
    BY BeginsOf DEF Starts
  <2>2. QED BY <2>1, SameStep, SettleStep DEF ChildInv, Starts
<1>3. /\ UNCHANGED <<result, route, call, gate, resumed, pass, blind, spent>>
      /\ \A x \in Run \ {r} : run'[x] = run[x]
      /\ \A x \in Run \ {r} : exec'[x] = exec[x]
      /\ exec[r].at = "begun" /\ exec'[r].at = "started" /\ exec'[r].by = exec[r].by
      /\ run[r] = "absent" /\ run'[r] = "running" /\ latest' = r
  <2>1. UNCHANGED <<result, route, call, gate, resumed, pass, blind, spent>>
    BY <1>1, Names, Blanks, BeginsOf DEF ThreadTypes, Starts, RunStatus, Execs
  <2>2. \A x \in Run \ {r} : run'[x] = run[x]
    BY <1>1, Names, Blanks, BeginsOf DEF ThreadTypes, Starts, RunStatus, Execs
  <2>3. \A x \in Run \ {r} : exec'[x] = exec[x]
    BY <1>1, Names, Blanks, BeginsOf DEF ThreadTypes, Starts, RunStatus, Execs
  <2>4. exec[r].at = "begun" /\ exec'[r].at = "started" /\ exec'[r].by = exec[r].by
    BY <1>1, Names, Blanks, BeginsOf DEF ThreadTypes, Starts, RunStatus, Execs
  <2>5. run[r] = "absent" /\ run'[r] = "running" /\ latest' = r
    BY <1>1, Names, Blanks, BeginsOf DEF ThreadTypes, Starts, RunStatus, Execs
  <2>6. QED BY <2>1, <2>2, <2>3, <2>4, <2>5
<1>4. ChildTypeOK'
  <2>1. run' \in [Run -> RunStatus]
    BY <1>1, Names, Blanks, BeginsOf DEF ThreadTypes, Starts, RunStatus
  <2>2. message' \in [Msg -> Run \cup {None}]
    BY <1>1, Names, Blanks, BeginsOf DEF ThreadTypes, Starts
  <2>3. latest' \in Run \cup {None}
    BY <1>1, Names, Blanks, BeginsOf DEF ThreadTypes, Starts
  <2>4. exec' \in [Run -> Execs]
    BY <1>1, Names, Blanks, BeginsOf DEF ThreadTypes, Starts, Execs
  <2>5. ThreadTypes'
    BY <1>1, <1>3, <2>1, <2>2, <2>3, <2>4 DEF ThreadTypes
  <2>6. QED BY <1>2, <2>5, TypesNext
<1>5. CallsOK'
  <2> SUFFICES ASSUME NEW x \in Call PROVE CallOK(x)'
    BY DEF CallsOK
  <2>1. QED BY <1>1, <1>2, <1>3, Names, ExecOfCall DEF ChildInv, ThreadTypes, CallsOK, CallOK,
     Agrees, Kept, Idle
<1>6. ExecsOK'
  <2> SUFFICES ASSUME NEW x \in Run PROVE ExecOK(x)'
    BY DEF ExecsOK
  <2>1. QED BY <1>1, <1>2, <1>3, Names DEF ChildInv, ThreadTypes, ExecsOK, ExecOK, Kept
<1>7. GateOK'
  BY <1>1, <1>2, <1>3, Names DEF ChildInv, ThreadTypes, GateOK, Agrees, Kept, Idle
<1>8. MessagesOK'
  <2> SUFFICES ASSUME NEW x \in Msg PROVE MessageOK(x)'
    BY DEF MessagesOK
  <2>1. MessageOK(x)
    BY DEF ChildInv, MessagesOK
  <2>2. CASE x # r
    BY <1>2, <1>3, <2>1, <2>2, Names DEF MessageOK, Pending, Kept
  <2>3. CASE x = r
    <3>1. exec[r].by = "call" \/ exec[r].by = "gate"
      BY <1>1, <1>3 DEF ThreadTypes, Execs, ChildInv, ExecsOK, ExecOK
    <3>2. CASE exec[r].by = "call"
      BY <1>2, <1>3, <2>3, <3>2, BeginsOf, Names
         DEF MessageOK, Pending, Kept, ChildInv, CallsOK, CallOK
    <3>3. CASE exec[r].by = "gate"
      <4>1. mailbox[r].status # "absent" /\ Settle(r)
        BY <1>3, <3>3, BeginsOf DEF Starts
      <4>2. QED BY <1>2, <1>3, <2>3, <4>1, SettleStep DEF MessageOK, Pending, Kept, ChildInv
    <3>4. QED BY <3>1, <3>2, <3>3
  <2>4. QED BY <2>2, <2>3
<1>9. ResumesOK'
  BY <1>1, <1>2, <1>3, Names DEF ChildInv, ThreadTypes, ResumesOK, Agrees, Kept
<1>10. PassOK'
  BY <1>1, <1>2, <1>3, Names DEF ChildInv, ThreadTypes, PassOK, Continuation, Ended, Kept
<1>11. ResultsOK'
  <2> SUFFICES ASSUME NEW x \in Run PROVE ResultOK(x)'
    BY DEF ResultsOK
  <2>1. QED BY <1>1, <1>2, <1>3, Names DEF ChildInv, ThreadTypes, ResultsOK, ResultOK,
     NeverStarts, Ended, Kept, Idle
<1>12. AloneOK'
  <2>1. RouteOK'
    BY <1>1, <1>2, <1>3, Names DEF ChildInv, ThreadTypes, AloneOK, RouteOK, Ended, Kept
  <2>2. ASSUME blind' = {} PROVE NewestOnly'
    BY <1>1, <1>2, <1>3, Names, <2>2 DEF ChildInv, ThreadTypes, AloneOK, NewestOnly, Open,
       Ended, RouteOK
  <2>3. QED BY <2>1, <2>2 DEF AloneOK
<1>13. QED BY <1>2, <1>4, <1>5, <1>6, <1>7, <1>8, <1>9, <1>10, <1>11, <1>12 DEF ChildInv

LEMMA ResumesKeeps ==
  ASSUME ChildInv, NEW r \in Run, Resumes(r)
  PROVE  ChildInv'
<1>1. ThreadTypes
  BY Types
<1>2. MailboxInv' /\ Kept
  BY SameStep DEF ChildInv, Resumes
<1>3. /\ UNCHANGED <<message, latest, result, call, gate, resumed, pass, blind, spent>>
      /\ \A x \in Run \ {r} : run'[x] = run[x]
      /\ \A x \in Run \ {r} : exec'[x] = exec[x]
      /\ run[r] = "suspended" /\ run'[r] = "running" /\ resumed[r] = "none"
      /\ exec'[r].at = "started" /\ exec'[r].by = "resume"
      /\ route'.run = r /\ route.run \in {None, r}
  <2>1. UNCHANGED <<message, latest, result, call, gate, resumed, pass, blind, spent>>
    BY <1>1, Names, Blanks DEF ThreadTypes, Resumes, Routes, RunStatus, Execs, RouteFree
  <2>2. \A x \in Run \ {r} : run'[x] = run[x]
    BY <1>1, Names, Blanks DEF ThreadTypes, Resumes, Routes, RunStatus, Execs, RouteFree
  <2>3. \A x \in Run \ {r} : exec'[x] = exec[x]
    BY <1>1, Names, Blanks DEF ThreadTypes, Resumes, Routes, RunStatus, Execs, RouteFree
  <2>4. run[r] = "suspended" /\ run'[r] = "running" /\ resumed[r] = "none"
    BY <1>1, Names, Blanks DEF ThreadTypes, Resumes, Routes, RunStatus, Execs, RouteFree
  <2>5. exec'[r].at = "started" /\ exec'[r].by = "resume"
    BY <1>1, Names, Blanks DEF ThreadTypes, Resumes, Routes, RunStatus, Execs, RouteFree
  <2>6. route'.run = r /\ route.run \in {None, r}
    BY <1>1, Names, Blanks DEF ThreadTypes, Resumes, Routes, RunStatus, Execs, RouteFree
  <2>7. QED BY <2>1, <2>2, <2>3, <2>4, <2>5, <2>6
<1>4. ChildTypeOK'
  <2>1. route' \in Routes
    BY <1>1, Names, Blanks DEF ThreadTypes, Resumes, Routes
  <2>2. run' \in [Run -> RunStatus]
    BY <1>1, Names, Blanks DEF ThreadTypes, Resumes, RunStatus
  <2>3. exec' \in [Run -> Execs]
    BY <1>1, Names, Blanks DEF ThreadTypes, Resumes, Execs
  <2>4. ThreadTypes'
    BY <1>1, <1>3, <2>1, <2>2, <2>3 DEF ThreadTypes
  <2>5. QED BY <1>2, <2>4, TypesNext
<1>5. CallsOK'
  <2> SUFFICES ASSUME NEW x \in Call PROVE CallOK(x)'
    BY DEF CallsOK
  <2>1. QED BY <1>1, <1>2, <1>3, Names DEF ChildInv, ThreadTypes, CallsOK, CallOK, Agrees, Kept,
     Idle, ExecsOK, ExecOK
<1>6. ExecsOK'
  <2> SUFFICES ASSUME NEW x \in Run PROVE ExecOK(x)'
    BY DEF ExecsOK
  <2>1. QED BY <1>1, <1>2, <1>3, Names DEF ChildInv, ThreadTypes, ExecsOK, ExecOK, Kept
<1>7. GateOK'
  BY <1>1, <1>2, <1>3, Names DEF ChildInv, ThreadTypes, GateOK, Agrees, Kept, Idle, ExecsOK,
     ExecOK
<1>8. MessagesOK'
  <2> SUFFICES ASSUME NEW x \in Msg PROVE MessageOK(x)'
    BY DEF MessagesOK
  <2>1. QED BY <1>1, <1>2, <1>3, Names DEF ChildInv, ThreadTypes, MessagesOK, MessageOK,
     Pending, Kept
<1>9. ResumesOK'
  BY <1>1, <1>2, <1>3, Names DEF ChildInv, ThreadTypes, ResumesOK, Agrees, Kept
<1>10. PassOK'
  BY <1>1, <1>2, <1>3, Names DEF ChildInv, ThreadTypes, PassOK, Continuation, Ended, Kept
<1>11. ResultsOK'
  <2> SUFFICES ASSUME NEW x \in Run PROVE ResultOK(x)'
    BY DEF ResultsOK
  <2>1. QED BY <1>1, <1>2, <1>3, Names DEF ChildInv, ThreadTypes, ResultsOK, ResultOK,
     NeverStarts, Ended, Kept, Idle
<1>12. AloneOK'
  <2>1. RouteOK'
    BY <1>1, <1>2, <1>3, Names DEF ChildInv, ThreadTypes, AloneOK, RouteOK, Ended, Kept
  <2>2. ASSUME blind' = {} PROVE NewestOnly'
    BY <1>1, <1>2, <1>3, Names, <2>2 DEF ChildInv, ThreadTypes, AloneOK, NewestOnly, Open,
       Ended, RouteOK, ExecsOK, ExecOK
  <2>3. QED BY <2>1, <2>2 DEF AloneOK
<1>13. QED BY <1>2, <1>4, <1>5, <1>6, <1>7, <1>8, <1>9, <1>10, <1>11, <1>12 DEF ChildInv

LEMMA ResumeFinishesKeeps ==
  ASSUME ChildInv, NEW r \in Run, ResumeFinishes(r)
  PROVE  ChildInv'
<1>1. ThreadTypes
  BY Types
<1>2. MailboxInv' /\ Kept
  BY SameStep DEF ChildInv, ResumeFinishes
<1>3. /\ UNCHANGED <<run, message, latest, exec, call, gate, pass, blind, spent>>
      /\ \A x \in Run \ {r} : resumed'[x] = resumed[x]
      /\ \A x \in Run \ {r} : result'[x] = result[x]
      /\ resumed[r] # "none" /\ resumed'[r] = "none"
      /\ route' = route \/ (route.run = r /\ route'.run = None)
      /\ \/ result'[r] = result[r]
         \/ result'[r] = "completed" /\ resumed[r] = "ok"
         \/ result'[r] = "failed" /\ resumed[r] \notin {"ok", "suspended"}
  <2>1. UNCHANGED <<run, message, latest, exec, call, gate, pass, blind, spent>>
    BY <1>1, Names, Blanks DEF ThreadTypes, ResumeFinishes, Outcome, Told, Routes, Released,
       NoRoute
  <2>2. \A x \in Run \ {r} : resumed'[x] = resumed[x]
    BY <1>1, Names, Blanks DEF ThreadTypes, ResumeFinishes, Outcome, Told, Routes, Released,
       NoRoute
  <2>3. \A x \in Run \ {r} : result'[x] = result[x]
    BY <1>1, Names, Blanks, ReportedOnce DEF ThreadTypes, ResumeFinishes, Outcome, Told, Routes,
       Released, NoRoute
  <2>4. resumed[r] # "none" /\ resumed'[r] = "none"
    BY <1>1, Names, Blanks DEF ThreadTypes, ResumeFinishes, Outcome, Told, Routes, Released,
       NoRoute
  <2>5. route' = route \/ (route.run = r /\ route'.run = None)
    BY <1>1, Names, Blanks DEF ThreadTypes, ResumeFinishes, Outcome, Told, Routes, Released,
       NoRoute
  <2>6. \/ result'[r] = result[r]
        \/ result'[r] = "completed" /\ resumed[r] = "ok"
        \/ result'[r] = "failed" /\ resumed[r] \notin {"ok", "suspended"}
    BY <1>1, Names, Blanks, ReportedOnce DEF ThreadTypes, ResumeFinishes, Outcome, Told, Routes,
       Released, NoRoute
  <2>7. QED BY <2>1, <2>2, <2>3, <2>4, <2>5, <2>6
<1>4. ChildTypeOK'
  <2>1. resumed' \in [Run -> Outcome]
    BY <1>1, Names, Blanks DEF ThreadTypes, ResumeFinishes, Outcome
  <2>2. result' \in [Run -> Told]
    BY <1>1, Names, Blanks, ReportedOnce DEF ThreadTypes, ResumeFinishes, Told
  <2>3. route' \in Routes
    BY <1>1, Names, Blanks DEF ThreadTypes, ResumeFinishes, Routes, Released
  <2>4. ThreadTypes'
    BY <1>1, <1>3, <2>1, <2>2, <2>3 DEF ThreadTypes
  <2>5. QED BY <1>2, <2>4, TypesNext
<1>5. CallsOK'
  BY <1>1, <1>2, <1>3, Names DEF ChildInv, CallsOK, CallOK, Agrees, Kept
<1>6. ExecsOK'
  BY <1>1, <1>2, <1>3, Names DEF ChildInv, ExecsOK, ExecOK, Kept
<1>7. GateOK'
  BY <1>1, <1>2, <1>3, Names DEF ChildInv, GateOK, Agrees, Kept
<1>8. MessagesOK'
  BY <1>1, <1>2, <1>3, Names DEF ChildInv, MessagesOK, MessageOK, Pending, Kept
<1>9. ResumesOK'
  BY <1>1, <1>2, <1>3, Names DEF ChildInv, ThreadTypes, ResumesOK, Agrees, Kept
<1>10. PassOK'
  BY <1>1, <1>2, <1>3, Names DEF ChildInv, PassOK, Continuation, Ended, Kept
<1>11. ResultsOK'
  <2>1. /\ run[r] # "absent" /\ resumed[r] \in Outcome \ {"none"}
        /\ resumed[r] = "ok" => run[r] = "completed"
        /\ resumed[r] = "failed" => run[r] = "failed"
    BY <1>1, <1>3 DEF ChildInv, ResumesOK, Agrees, ThreadTypes
  <2>2. ResultOK(r)'
    <3>1. ResultOK(r) /\ ~NeverStarts(r)
      BY <2>1 DEF ChildInv, ResultsOK, NeverStarts
    <3>2. QED BY <1>3, <2>1, <3>1 DEF ResultOK, Ended, Outcome
  <2>3. ASSUME NEW x \in Run \ {r} PROVE ResultOK(x)'
    BY <1>2, <1>3, Names DEF ChildInv, ResultsOK, ResultOK, NeverStarts, Ended, Kept
  <2>4. QED BY <2>2, <2>3 DEF ResultsOK
<1>12. AloneOK'
  <2>1. RouteOK'
    BY <1>1, <1>2, <1>3, Names DEF ChildInv, ThreadTypes, AloneOK, RouteOK, Ended, Kept
  <2>2. ASSUME blind' = {} PROVE NewestOnly'
    BY <1>1, <1>2, <1>3, Names, <2>2 DEF ChildInv, ThreadTypes, AloneOK, NewestOnly, Open,
       Ended, ResumesOK, ExecsOK, ExecOK
  <2>3. QED BY <2>1, <2>2 DEF AloneOK
<1>13. QED BY <1>2, <1>4, <1>5, <1>6, <1>7, <1>8, <1>9, <1>10, <1>11, <1>12 DEF ChildInv

-----------------------------------------------------------------------------
(* The session around the thread.                                          *)

LEMMA StopKeeps ==
  ASSUME ChildInv, Stop
  PROVE  ChildInv'
<1>1. ThreadTypes
  BY Types
<1>2. MailboxInv' /\ Kept
  BY SameStep DEF ChildInv, Stop
<1>3. /\ UNCHANGED <<message, latest, result, route, exec, call, gate, resumed, pass, blind>>
      /\ \A x \in Run : run'[x] = IF run[x] \in {"running", "suspended"} THEN "failed" ELSE run[x]
  BY <1>1, Names, Blanks DEF ThreadTypes, Stop, RunStatus, Spent
<1>4. ChildTypeOK'
  <2>1. run' \in [Run -> RunStatus]
    BY <1>1, Names, Blanks DEF ThreadTypes, Stop, RunStatus
  <2>2. spent' \in Spent
    BY <1>1, Names, Blanks DEF ThreadTypes, Stop, Spent, Mishap
  <2>3. ThreadTypes'
    BY <1>1, <1>3, <2>1, <2>2 DEF ThreadTypes
  <2>4. QED BY <1>2, <2>3, TypesNext
<1>5. CallsOK'
  <2> SUFFICES ASSUME NEW x \in Call PROVE CallOK(x)'
    BY DEF CallsOK
  <2>1. QED BY <1>1, <1>2, <1>3, Names DEF ChildInv, ThreadTypes, CallsOK, CallOK, Agrees, Kept
<1>6. ExecsOK'
  <2> SUFFICES ASSUME NEW x \in Run PROVE ExecOK(x)'
    BY DEF ExecsOK
  <2>1. QED BY <1>1, <1>2, <1>3, Names DEF ChildInv, ThreadTypes, ExecsOK, ExecOK, Kept
<1>7. GateOK'
  BY <1>1, <1>2, <1>3, Names, GateHolds DEF ChildInv, ThreadTypes, GateOK, Agrees, Kept
<1>8. MessagesOK'
  <2> SUFFICES ASSUME NEW x \in Msg PROVE MessageOK(x)'
    BY DEF MessagesOK
  <2>1. QED BY <1>1, <1>2, <1>3, Names, Names DEF ChildInv, ThreadTypes, MessagesOK, MessageOK,
     Pending, Kept
<1>9. ResumesOK'
  BY <1>1, <1>2, <1>3, Names DEF ChildInv, ThreadTypes, ResumesOK, Agrees, Kept
<1>10. PassOK'
  BY <1>1, <1>2, <1>3, Names DEF ChildInv, ThreadTypes, PassOK, Continuation, Ended, Kept
<1>11. ResultsOK'
  <2> SUFFICES ASSUME NEW x \in Run PROVE ResultOK(x)'
    BY DEF ResultsOK
  <2>1. QED BY <1>1, <1>2, <1>3, Names DEF ChildInv, ThreadTypes, ResultsOK, ResultOK,
     NeverStarts, Ended, Kept
<1>12. AloneOK'
  <2>1. RouteOK'
    BY <1>1, <1>2, <1>3, Names DEF ChildInv, ThreadTypes, AloneOK, RouteOK, Ended, Kept
  <2>2. ASSUME blind' = {} PROVE NewestOnly'
    BY <1>1, <1>2, <1>3, Names, <2>2 DEF ChildInv, ThreadTypes, AloneOK, NewestOnly, Open,
       Ended, RouteOK
  <2>3. QED BY <2>1, <2>2 DEF AloneOK
<1>13. QED BY <1>2, <1>4, <1>5, <1>6, <1>7, <1>8, <1>9, <1>10, <1>11, <1>12 DEF ChildInv

LEMMA SweepKeeps ==
  ASSUME ChildInv, Sweep
  PROVE  ChildInv'
<1>1. ThreadTypes
  BY Types
<1>2. MailboxInv' /\ Kept
  BY SameStep DEF ChildInv, Sweep
<1>3. /\ UNCHANGED <<run, message, latest, result, route, exec, call, gate, resumed, blind, spent>>
      /\ pass'.todo \subseteq pass.todo
  BY <1>1, Names, Blanks, PassMoves DEF ThreadTypes, Sweep, Passes
<1>4. ChildTypeOK'
  <2>1. pass' \in Passes
    BY <1>1, Names, Blanks, PassMoves DEF ThreadTypes, Sweep, Passes
  <2>2. ThreadTypes'
    BY <1>1, <1>3, <2>1 DEF ThreadTypes
  <2>3. QED BY <1>2, <2>2, TypesNext
<1>5. CallsOK'
  BY <1>1, <1>2, <1>3, Names DEF ChildInv, CallsOK, CallOK, Agrees, Kept
<1>6. ExecsOK'
  BY <1>1, <1>2, <1>3, Names DEF ChildInv, ExecsOK, ExecOK, Kept
<1>7. GateOK'
  BY <1>1, <1>2, <1>3, Names DEF ChildInv, GateOK, Agrees, Kept
<1>8. MessagesOK'
  BY <1>1, <1>2, <1>3, Names DEF ChildInv, MessagesOK, MessageOK, Pending, Kept
<1>9. ResumesOK'
  BY <1>1, <1>2, <1>3, Names DEF ChildInv, ResumesOK, Agrees, Kept
<1>10. PassOK'
  BY <1>1, <1>2, <1>3, Names DEF ChildInv, ThreadTypes, PassOK, Continuation, Ended, Kept
<1>11. ResultsOK'
  BY <1>1, <1>2, <1>3, Names DEF ChildInv, ResultsOK, ResultOK, NeverStarts, Ended, Kept
<1>12. AloneOK'
  BY <1>1, <1>2, <1>3, Names DEF ChildInv, AloneOK, RouteOK, NewestOnly, Open, Ended, Kept
<1>13. QED BY <1>2, <1>4, <1>5, <1>6, <1>7, <1>8, <1>9, <1>10, <1>11, <1>12 DEF ChildInv

LEMMA PassBeginsKeeps ==
  ASSUME ChildInv, PassBegins
  PROVE  ChildInv'
<1>1. ThreadTypes
  BY Types
<1>2. MailboxInv' /\ Kept
  BY SameStep DEF ChildInv, PassBegins
<1>3. /\ UNCHANGED <<run, message, latest, result, route, exec, call, gate, resumed, blind, spent>>
      /\ pass'.todo = Recoverable
  BY <1>1, Names, Blanks DEF ThreadTypes, PassBegins, Passes, Recoverable
<1>4. ChildTypeOK'
  <2>1. pass' \in Passes
    BY <1>1, Names, Blanks DEF ThreadTypes, PassBegins, Passes, Recoverable
  <2>2. ThreadTypes'
    BY <1>1, <1>3, <2>1 DEF ThreadTypes
  <2>3. QED BY <1>2, <2>2, TypesNext
<1>5. CallsOK'
  BY <1>1, <1>2, <1>3, Names DEF ChildInv, CallsOK, CallOK, Agrees, Kept
<1>6. ExecsOK'
  BY <1>1, <1>2, <1>3, Names DEF ChildInv, ExecsOK, ExecOK, Kept
<1>7. GateOK'
  BY <1>1, <1>2, <1>3, Names DEF ChildInv, GateOK, Agrees, Kept
<1>8. MessagesOK'
  BY <1>1, <1>2, <1>3, Names DEF ChildInv, MessagesOK, MessageOK, Pending, Kept
<1>9. ResumesOK'
  BY <1>1, <1>2, <1>3, Names DEF ChildInv, ResumesOK, Agrees, Kept
<1>10. PassOK'
  BY <1>1, <1>2, <1>3, Names DEF ChildInv, ThreadTypes, PassOK, Continuation, Ended, Kept,
     Recoverable
<1>11. ResultsOK'
  BY <1>1, <1>2, <1>3, Names DEF ChildInv, ResultsOK, ResultOK, NeverStarts, Ended, Kept
<1>12. AloneOK'
  BY <1>1, <1>2, <1>3, Names DEF ChildInv, AloneOK, RouteOK, NewestOnly, Open, Ended, Kept
<1>13. QED BY <1>2, <1>4, <1>5, <1>6, <1>7, <1>8, <1>9, <1>10, <1>11, <1>12 DEF ChildInv

LEMMA PassRecoversKeeps ==
  ASSUME ChildInv, NEW r \in Run, PassRecovers(r)
  PROVE  ChildInv'
<1>1. ThreadTypes
  BY Types
<1>2. MailboxInv' /\ Kept
  <2>1. r \in Msg
    BY DEF ChildInv, PassOK, Continuation, PassRecovers
  <2>2. QED BY <2>1, SettleStep DEF ChildInv, PassRecovers
<1>3. /\ UNCHANGED <<run, message, latest, route, exec, call, gate, resumed, blind>>
      /\ \A x \in Run \ {r} : result'[x] = result[x]
      /\ r \in pass.todo
      /\ pass'.todo \subseteq pass.todo
      /\ \/ result'[r] = result[r]
         \/ result'[r] = "completed" /\ run[r] = "completed"
         \/ result'[r] = "failed"
  <2>1. UNCHANGED <<run, message, latest, route, exec, call, gate, resumed, blind>>
    BY <1>1, Names, Blanks DEF ThreadTypes, PassRecovers, Told, Passes, Spent
  <2>2. \A x \in Run \ {r} : result'[x] = result[x]
    BY <1>1, Names, Blanks, ReportedOnce DEF ThreadTypes, PassRecovers, Told, Passes, Spent
  <2>3. r \in pass.todo
    BY <1>1, Names, Blanks DEF ThreadTypes, PassRecovers, Told, Passes, Spent
  <2>4. pass'.todo \subseteq pass.todo
    BY <1>1, Names, Blanks, PassMoves DEF ThreadTypes, PassRecovers, Told, Passes, Spent
  <2>5. \/ result'[r] = result[r]
        \/ result'[r] = "completed" /\ run[r] = "completed"
        \/ result'[r] = "failed"
    BY <1>1, Names, Blanks, ReportedOnce DEF ThreadTypes, PassRecovers, Told, Passes, Spent
  <2>6. QED BY <2>1, <2>2, <2>3, <2>4, <2>5
<1>4. ChildTypeOK'
  <2>1. result' \in [Run -> Told]
    BY <1>1, Names, Blanks, ReportedOnce DEF ThreadTypes, PassRecovers, Told
  <2>2. pass' \in Passes
    BY <1>1, Names, Blanks, PassMoves DEF ThreadTypes, PassRecovers, Passes
  <2>3. spent' \in Spent
    BY <1>1, Names, Blanks DEF ThreadTypes, PassRecovers, Spent, Mishap
  <2>4. ThreadTypes'
    BY <1>1, <1>3, <2>1, <2>2, <2>3 DEF ThreadTypes
  <2>5. QED BY <1>2, <2>4, TypesNext
<1>5. CallsOK'
  BY <1>1, <1>2, <1>3, Names DEF ChildInv, CallsOK, CallOK, Agrees, Kept
<1>6. ExecsOK'
  BY <1>1, <1>2, <1>3, Names DEF ChildInv, ExecsOK, ExecOK, Kept
<1>7. GateOK'
  BY <1>1, <1>2, <1>3, Names DEF ChildInv, GateOK, Agrees, Kept
<1>8. MessagesOK'
  BY <1>1, <1>2, <1>3, Names DEF ChildInv, MessagesOK, MessageOK, Pending, Kept
<1>9. ResumesOK'
  BY <1>1, <1>2, <1>3, Names DEF ChildInv, ResumesOK, Agrees, Kept
<1>10. PassOK'
  BY <1>1, <1>2, <1>3, Names DEF ChildInv, ThreadTypes, PassOK, Continuation, Ended, Kept
<1>11. ResultsOK'
  <2> SUFFICES ASSUME NEW x \in Run PROVE ResultOK(x)'
    BY DEF ResultsOK
  <2>1. QED BY <1>1, <1>2, <1>3, Names DEF ChildInv, ThreadTypes, ResultsOK, ResultOK,
     NeverStarts, Ended, Kept, PassOK
<1>12. AloneOK'
  BY <1>1, <1>2, <1>3, Names DEF ChildInv, AloneOK, RouteOK, NewestOnly, Open, Ended, Kept
<1>13. QED BY <1>2, <1>4, <1>5, <1>6, <1>7, <1>8, <1>9, <1>10, <1>11, <1>12 DEF ChildInv

LEMMA PassForwardsKeeps ==
  ASSUME ChildInv, PassForwards
  PROVE  ChildInv'
<1>1. ThreadTypes
  BY Types
<1>2. MailboxInv' /\ Kept
  BY ListStep DEF ChildInv, PassForwards
<1>3. /\ UNCHANGED <<run, message, latest, result, route, exec, call, resumed, blind, spent>>
      /\ \/ gate'.pc = gate.pc /\ gate'.msg = gate.msg /\ gate'.out = gate.out
         \/ gate'.pc = "look" /\ gate.pc = "rest"
      /\ pass'.todo \subseteq pass.todo
  <2>1. UNCHANGED <<run, message, latest, result, route, exec, call, resumed, blind, spent>>
    BY <1>1, Names, Blanks DEF ThreadTypes, PassForwards, Gates, Passes
  <2>2. \/ gate'.pc = gate.pc /\ gate'.msg = gate.msg /\ gate'.out = gate.out
        \/ gate'.pc = "look" /\ gate.pc = "rest"
    BY <1>1, Names, Blanks, GateMoves DEF ThreadTypes, PassForwards, Gates, Passes
  <2>3. pass'.todo \subseteq pass.todo
    BY <1>1, Names, Blanks, PassMoves DEF ThreadTypes, PassForwards, Gates, Passes
  <2>4. QED BY <2>1, <2>2, <2>3
<1>4. ChildTypeOK'
  <2>1. gate' \in Gates
    BY <1>1, Names, Blanks, GateMoves DEF ThreadTypes, PassForwards, Gates
  <2>2. pass' \in Passes
    BY <1>1, Names, Blanks, PassMoves DEF ThreadTypes, PassForwards, Passes
  <2>3. ThreadTypes'
    BY <1>1, <1>3, <2>1, <2>2 DEF ThreadTypes
  <2>4. QED BY <1>2, <2>3, TypesNext
<1>5. CallsOK'
  BY <1>1, <1>2, <1>3, Names DEF ChildInv, CallsOK, CallOK, Agrees, Kept
<1>6. ExecsOK'
  <2> SUFFICES ASSUME NEW x \in Run PROVE ExecOK(x)'
    BY DEF ExecsOK
  <2>1. QED BY <1>1, <1>2, <1>3, Names DEF ChildInv, ThreadTypes, ExecsOK, ExecOK, Kept
<1>7. GateOK'
  BY <1>1, <1>2, <1>3, Names DEF ChildInv, ThreadTypes, GateOK, Agrees, Kept
<1>8. MessagesOK'
  BY <1>1, <1>2, <1>3, Names DEF ChildInv, MessagesOK, MessageOK, Pending, Kept
<1>9. ResumesOK'
  BY <1>1, <1>2, <1>3, Names DEF ChildInv, ResumesOK, Agrees, Kept
<1>10. PassOK'
  BY <1>1, <1>2, <1>3, Names DEF ChildInv, ThreadTypes, PassOK, Continuation, Ended, Kept
<1>11. ResultsOK'
  BY <1>1, <1>2, <1>3, Names DEF ChildInv, ResultsOK, ResultOK, NeverStarts, Ended, Kept
<1>12. AloneOK'
  <2>1. RouteOK'
    BY <1>1, <1>2, <1>3, Names DEF ChildInv, ThreadTypes, AloneOK, RouteOK, Ended, Kept
  <2>2. ASSUME blind' = {} PROVE NewestOnly'
    BY <1>1, <1>2, <1>3, Names, <2>2 DEF ChildInv, ThreadTypes, AloneOK, NewestOnly, Open, Ended
  <2>3. QED BY <2>1, <2>2 DEF AloneOK
<1>13. QED BY <1>2, <1>4, <1>5, <1>6, <1>7, <1>8, <1>9, <1>10, <1>11, <1>12 DEF ChildInv

\* A step of the table alone.
LEMMA TableOnly ==
  ASSUME ChildInv, MailboxInv', Kept, UNCHANGED threadVars
  PROVE  ChildInv'
<1>1. ThreadTypes
  BY Types
<1>2. UNCHANGED <<run, message, latest, result, route, exec, call, gate, resumed, pass, blind, spent>>
  BY DEF threadVars
<1>3. ThreadTypes'
  BY <1>1, <1>2 DEF ThreadTypes
<1>4. ChildTypeOK'
  BY <1>3, TypesNext
<1>5. CallsOK'
  BY <1>2, Names DEF ChildInv, CallsOK, CallOK, Agrees, Kept
<1>6. ExecsOK'
  BY <1>2 DEF ChildInv, ExecsOK, ExecOK
<1>7. GateOK'
  BY <1>2 DEF ChildInv, GateOK, Agrees, Kept
<1>8. MessagesOK'
  BY <1>2 DEF ChildInv, MessagesOK, MessageOK, Pending, Kept
<1>9. ResumesOK'
  BY <1>2 DEF ChildInv, ResumesOK, Agrees
<1>10. PassOK'
  BY <1>2 DEF ChildInv, PassOK, Continuation, Ended, Kept
<1>11. ResultsOK'
  BY <1>2 DEF ChildInv, ResultsOK, ResultOK, NeverStarts, Ended, Kept
<1>12. AloneOK'
  BY <1>2, Names DEF ChildInv, AloneOK, RouteOK, NewestOnly, Open, Ended, Kept
<1>13. QED BY <1>4, <1>5, <1>6, <1>7, <1>8, <1>9, <1>10, <1>11, <1>12 DEF ChildInv

LEMMA TimePasses ==
  ASSUME ChildInv, NEW m \in Msg, Clock(m)
  PROVE  ChildInv'
<1>1. MailboxInv' /\ Kept
  BY ClockStep DEF ChildInv, Clock
<1>2. QED BY <1>1, TableOnly DEF Clock

LEMMA StutterKeeps ==
  ASSUME ChildInv, UNCHANGED vars
  PROVE  ChildInv'
<1>1. MailboxInv' /\ Kept
  BY SameStep DEF ChildInv, vars
<1>2. QED BY <1>1, TableOnly DEF vars

\* After a crash nothing is in memory, and the runs that were at work are suspended
\* or have failed.
LEMMA CrashKeeps ==
  ASSUME ChildInv, Crash
  PROVE  ChildInv'
<1>1. ThreadTypes
  BY Types
<1>2. MailboxInv' /\ Kept
  BY SameStep DEF ChildInv, Crash
<1>3. /\ run' \in [Run -> RunStatus]
      /\ \A r \in Run : \/ run'[r] = run[r] /\ run[r] # "running"
                        \/ run[r] = "running" /\ run'[r] \in {"suspended", "failed"}
  <2>1. PICK waiting \in SUBSET {r \in Run : run[r] = "running" /\ exec[r].at = "live" /\ ~Foreground(r)} :
          run' = [r \in Run |-> IF r \in waiting THEN "suspended"
                                ELSE IF run[r] = "running" THEN "failed" ELSE run[r]]
    BY DEF Crash
  <2>2. QED BY <1>1, <2>1 DEF ThreadTypes, RunStatus
<1>4. /\ route' = NoRoute /\ gate' = Resting /\ pass' = NoPass
      /\ \A r \in Run : exec'[r] = Idle /\ resumed'[r] = "none"
      /\ \A c \in Call : call'[c] = IF call[c].pc = "new" THEN NewCall ELSE Done
      /\ UNCHANGED <<mailbox, message, latest, result, blind>>
  BY DEF Crash
<1>5. NewCall.pc = "new" /\ Done.pc = "done" /\ Resting.pc = "rest" /\ NoPass.todo = {}
      /\ NoRoute.run = None /\ Idle.at = "none" /\ Idle.by = "none"
  BY DEF NewCall, Done, Resting, NoPass, NoRoute, Idle
<1>6. ChildTypeOK'
  <2>1. exec' \in [Run -> Execs] /\ call' \in [Call -> Calls] /\ resumed' \in [Run -> Outcome]
    BY Blanks DEF Crash, Outcome
  <2>2. spent' \in Spent
    BY <1>1 DEF Crash, ThreadTypes, Spent
  <2>3. ThreadTypes'
    BY <1>1, <1>3, <1>4, <2>1, <2>2, Blanks DEF ThreadTypes
  <2>4. QED BY <1>2, <2>3, TypesNext
<1>7. CallsOK'
  <2> SUFFICES ASSUME NEW c \in Call PROVE CallOK(c)'
    BY DEF CallsOK
  <2>1. CallOK(c)
    BY DEF ChildInv, CallsOK
  <2>2. QED BY <1>3, <1>4, <1>5, <2>1, Names DEF CallOK
<1>8. ExecsOK' /\ GateOK' /\ ResumesOK' /\ PassOK'
  BY <1>4, <1>5 DEF ExecsOK, ExecOK, GateOK, ResumesOK, Agrees, PassOK
<1>9. MessagesOK'
  BY <1>2, <1>3, Names DEF ChildInv, MessagesOK, MessageOK, Pending, Kept
<1>10. ResultsOK'
  BY <1>3, <1>4, <1>5 DEF ChildInv, ResultsOK, ResultOK, NeverStarts, Ended
<1>11. AloneOK'
  <2>1. RouteOK'
    BY <1>1, <1>3, <1>4, <1>5, Names DEF ChildInv, ThreadTypes, AloneOK, RouteOK
  <2>2. ASSUME blind' = {} PROVE NewestOnly'
    BY <1>3, <1>4, <1>5, <2>2 DEF ChildInv, AloneOK, NewestOnly, Open
  <2>3. QED BY <2>1, <2>2 DEF AloneOK
<1>12. QED BY <1>2, <1>6, <1>7, <1>8, <1>9, <1>10, <1>11 DEF ChildInv

-----------------------------------------------------------------------------
(* The invariant, and what follows from it.                                *)

LEMMA InitKeeps ==
  ASSUME Init
  PROVE  ChildInv
<1>1. MailboxInv
  BY InitInv DEF Init
<1>2. /\ \A r \in Run : run[r] = "absent" /\ result[r] = "none" /\ resumed[r] = "none"
      /\ \A m \in Msg : message[m] = None /\ mailbox[m].status = "absent"
      /\ latest = None /\ gate = Resting /\ pass = NoPass /\ blind = {}
      /\ route = [run |-> Born, by |-> "call"]
  BY DEF Init, MailboxInit, AbsentRow
<1>3. /\ \A r \in Run \ {Born} : exec[r] = Idle
      /\ exec[Born] = [at |-> "begun", by |-> "call"]
  BY DEF Init, Run
<1>4. /\ \A c \in Call \ {Born} : call[c] = NewCall
      /\ call[Born] = [NewCall EXCEPT !.pc = "active", !.back = TRUE]
  BY DEF Init, Call
<1>5. /\ Born \in Run /\ Born \in Call /\ Born \notin Msg /\ call[Born].pc = "active"
      /\ NewCall.pc = "new" /\ Resting.pc = "rest" /\ NoPass.todo = {}
      /\ Idle.at = "none" /\ Idle.by = "none"
  BY <1>4 DEF Run, Call, NewCall, Resting, NoPass, Idle
<1>6. ChildTypeOK
  <2>1. run \in [Run -> RunStatus] /\ message \in [Msg -> Run \cup {None}] /\ result \in [Run -> Told]
    BY DEF Init, RunStatus, Told
  <2>2. exec \in [Run -> Execs]
    BY Blanks DEF Init, Execs
  <2>3. call \in [Call -> Calls]
    BY Blanks DEF Init, Calls
  <2>4. resumed \in [Run -> Outcome] /\ spent \in Spent /\ route \in Routes
    BY <1>5 DEF Init, Outcome, Spent, Routes
  <2>5. ThreadTypes
    BY <1>2, <2>1, <2>2, <2>3, <2>4, Blanks DEF ThreadTypes
  <2>6. QED BY <1>1, <2>5, TypesNamed DEF MailboxInv
<1>7. CallsOK
  BY <1>2, <1>3, <1>4, <1>5, Names DEF CallsOK, CallOK, Call
<1>8. ExecsOK
  BY <1>2, <1>3, <1>5 DEF ExecsOK, ExecOK
<1>9. GateOK /\ MessagesOK /\ ResumesOK /\ PassOK /\ ResultsOK
  BY <1>2, <1>5, Names
     DEF GateOK, MessagesOK, MessageOK, ResumesOK, Agrees, PassOK, ResultsOK, ResultOK
<1>10. AloneOK
  BY <1>2, <1>3, <1>5 DEF AloneOK, RouteOK, NewestOnly, Open
<1>11. QED BY <1>1, <1>6, <1>7, <1>8, <1>9, <1>10 DEF ChildInv

LEMMA ThreadNextKeeps ==
  ASSUME ChildInv, [Next]_vars
  PROVE  ChildInv'
<1>1. CASE UNCHANGED vars
  BY <1>1, StutterKeeps
<1>2. ASSUME NEW m \in Msg \ Send, Notice(m) \/ Report(m) PROVE ChildInv'
  BY <1>2, NoticeKeeps, ReportKeeps
<1>3. ASSUME NEW c \in Call, CallStep(c) PROVE ChildInv'
  BY <1>3, CallAsksKeeps, CallJudgesBusyKeeps, CallRefusedKeeps, CallEnqueuesKeeps,
     CallBeginsKeeps, TaskReportsKeeps, CallEndsKeeps DEF CallStep
<1>4. CASE GateStep
  BY <1>4, GateLooksKeeps, GateClaimsKeeps, GateGivesBackKeeps, GateRegistersKeeps,
     GateFinishesKeeps, GateNextKeeps DEF GateStep
<1>5. ASSUME NEW r \in Run, RunStep(r) PROVE ChildInv'
  BY <1>5, StartsKeeps, StartFailsKeeps, BuildsKeeps, BuildFailsKeeps, TakesKeeps,
     EndsKeeps, SuspendsKeeps, ResumeFinishesKeeps DEF RunStep
<1>6. ASSUME NEW r \in Run, Resumes(r) PROVE ChildInv'
  BY <1>6, ResumesKeeps
<1>7. CASE PassStep
  BY <1>7, PassBeginsKeeps, PassRecoversKeeps, PassForwardsKeeps DEF PassStep
<1>8. CASE Sweep \/ Stop \/ Crash
  BY <1>8, SweepKeeps, StopKeeps, CrashKeeps
<1>9. ASSUME NEW m \in Msg, Clock(m) PROVE ChildInv'
  BY <1>9, TimePasses
<1>10. QED BY <1>1, <1>2, <1>3, <1>4, <1>5, <1>6, <1>7, <1>8, <1>9 DEF Next

\* Through any calls, messages, failures, stops and crashes, each message and call
\* starts one run at most, what is noted of a run agrees with its row, and only the
\* newest run is not over, unless one was begun on stale reads.
THEOREM ChildInvariant == Spec => []ChildInv
<1>1. Init => ChildInv
  BY InitKeeps
<1>2. ChildInv /\ [Next]_vars => ChildInv'
  BY ThreadNextKeeps
<1>3. QED BY <1>1, <1>2, PTL DEF Spec

\* Every variable of the thread stays in its domain.
THEOREM ChildTypeCorrect == Spec => []ChildTypeOK
<1>1. ChildInv => ChildTypeOK
  BY DEF ChildInv
<1>2. QED BY <1>1, ChildInvariant, PTL

\* What the parent is told of a run is what became of it (reportChildResult,
\* recoverMailboxContinuationResults): "completed" only of a completed run, and nothing
\* of a run that may go on.
THEOREM ToldTheTruth == Spec => []ResultTruthful
<1>1. ChildInv => ResultTruthful
  BY DEF ChildInv, ResultsOK, ResultOK, NeverStarts, Ended, ResultTruthful
<1>2. QED BY <1>1, ChildInvariant, PTL

\* The gate, the answers and the calls put one run at a time to work on the history of
\* the thread, as long as no run was begun on reads that were no longer true.
THEOREM OneRunAtWork == Spec => []OneAtWork
<1>1. ChildInv => OneAtWork
  BY DEF ChildInv, AloneOK, NewestOnly, Open, OneAtWork, AtWork
<1>2. QED BY <1>1, ChildInvariant, PTL
=============================================================================
