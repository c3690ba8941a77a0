---------------------------- MODULE ChildThread ----------------------------
(***************************************************************************)
(* The thread of one child agent.  Three parties start and drive its runs: *)
(*   - the parent, whose tool `agent' either runs the child itself (a      *)
(*     call, in the foreground or as a background task) or, when the child *)
(*     is at work, queues a message for it (AgentDelegation),              *)
(*   - the gate of the thread, a single flight that takes the next queued  *)
(*     message and starts a continuation with it (startThreadRun),         *)
(*   - the answer to an interaction, which resumes a suspended run.        *)
(* What keeps them apart is the status of the thread's latest run, in the  *)
(* database, and the route in activeChildRuns, in memory.  An idle pass of *)
(* the session writes missing results and wakes the gate.                  *)
(*                                                                         *)
(* One action is a transaction with the code up to the next await.  A run  *)
(* that is started from message m, by the gate or by a call, is named m.   *)
(* "failed" stands for failed and interrupted.  The steps of a refresh are *)
(* those of SessionInput, here one; those of a resume are in RunLifecycle. *)
(* The child is born as a background task; in the foreground its parent    *)
(* would wait and not call.  Left out: cancelled tasks, deadlines of       *)
(* messages, foreground calls that suspend with their parent, tasks        *)
(* recovered after a crash, a second write of a task's result that fails   *)
(* like the first, and a failing write of a resumed run's result.          *)
(***************************************************************************)
EXTENDS AgentMailbox

CONSTANTS
  Send,        \* messages of the parent; the others are notices or come from below
  Born,        \* the run that created the child
  Branch,      \* the key of the child's thread
  None,        \* no run, no message, no route
  MaxMishaps   \* bound on failing writes and launches, suspensions, stops and crashes

ASSUME ChildConstants ==
  /\ Send \subseteq Msg
  /\ Born \notin Msg
  /\ None \notin Msg \cup {Born}
  /\ Branch \in Thread
  /\ MaxMishaps \in Nat

Run == Msg \cup {Born}
Call == Send \cup {Born}

VARIABLES
  run,      \* [Run -> status]: the durable row
  message,  \* [Msg -> the run whose thread history holds it, or None]
  latest,   \* the newest run of the thread, child_agents.last_run_id
  result,   \* [Run -> the result row in the parent's mailbox]
  route,    \* activeChildRuns: the run, and who registered it
  exec,     \* [Run -> how far its executor is, and who awaits it]
  call,     \* [Call -> the state of the parent's tool call]
  gate,     \* the single flight of the thread
  resumed,  \* [Run -> the outcome a resume has still to handle]
  pass,     \* the single flight of the session's idle pass
  blind,    \* history: runs that were begun on what was no longer true
  spent     \* the mishaps so far, and whether the process has died

threadVars == <<run, message, latest, result, route, exec, call, gate, resumed,
                pass, blind, spent>>
vars == <<mailbox, nextSeq, threadVars>>

Ended(r) == run[r] \in {"completed", "failed"}
Continuation(r) == r \in Msg /\ mailbox[r].status # "absent"

Idle == [at |-> "none", by |-> "none"]
NoRoute == [run |-> None, by |-> "none"]
NewCall == [pc |-> "new", last |-> None, busy |-> FALSE, back |-> FALSE, out |-> "none"]
Done == [NewCall EXCEPT !.pc = "done"]
Resting == [pc |-> "rest", msg |-> None, claim |-> NoClaim, out |-> "none", dirty |-> FALSE]
NoPass == [pc |-> "rest", todo |-> {}, dirty |-> FALSE]

\* One more mishap: a write or a launch that fails, a suspension, a stop.
Mishap == /\ spent.mishaps < MaxMishaps
          /\ spent' = [spent EXCEPT !.mishaps = @ + 1]

-----------------------------------------------------------------------------
(* The gate and the pass as single flights: a trigger that finds one under *)
(* way leaves a mark, and it goes round once more.                         *)

Woken(g) == IF g.pc = "rest" THEN [Resting EXCEPT !.pc = "look"] ELSE [g EXCEPT !.dirty = TRUE]
Rested(g) == IF g.dirty THEN [Resting EXCEPT !.pc = "look"] ELSE Resting

Triggered(p) == IF p.pc = "recover" THEN [p EXCEPT !.dirty = TRUE] ELSE [NoPass EXCEPT !.pc = "begin"]
PassOver(p) == IF p.dirty THEN [NoPass EXCEPT !.pc = "begin"] ELSE NoPass

\* What a listing finds, after its housekeeping.
Listed == Claimable(ListSweep, Branch)

\* The route as the end of a call leaves it (only its own object goes) and as a
\* release by run id does, whoever registered that run last.
Unrouted(r, by) == IF route = [run |-> r, by |-> by] THEN NoRoute ELSE route
Released(r) == IF route.run = r THEN NoRoute ELSE route

\* The first result written for a run stays (one message id per run).
Reported(r, out) ==
  [result EXCEPT ![r] = IF @ # "none" THEN @ ELSE IF out = "ok" THEN "completed" ELSE "failed"]

GiveUp(m, c) ==
  IF mailbox[m].status = "claimed" /\ mailbox[m].claim = c
  THEN Release(m, c, FALSE)
  ELSE UNCHANGED mailboxVars

-----------------------------------------------------------------------------
(* The parent's tool call (deliverMessage, runChildInvocation).            *)

\* What others queue for the child: the notice of a task of its own triggers the
\* session, a message of its own child wakes the gate.
Notice(m) ==
  /\ mailbox[m].status = "absent"
  /\ \E s \in SentTime : Enqueue(m, Branch, TRUE, "none", s)
  /\ pass' = Triggered(pass)
  /\ UNCHANGED <<run, message, latest, result, route, exec, call, gate, resumed, blind, spent>>

Report(m) ==
  /\ mailbox[m].status = "absent"
  /\ \E s \in SentTime : Enqueue(m, Branch, TRUE, "none", s)
  /\ gate' = Woken(gate)
  /\ UNCHANGED <<run, message, latest, result, route, exec, call, resumed, pass, blind, spent>>

\* It reads the child's row and the route, ...
CallAsks(c) ==
  /\ call[c].pc = "new"
  /\ call' = [call EXCEPT ![c].pc = "looked", ![c].last = latest, ![c].busy = route # NoRoute]
  /\ UNCHANGED <<mailbox, nextSeq, run, message, latest, result, route, exec, gate, resumed,
                 pass, blind, spent>>

\* ... then the run that row named, and decides.
LastIs(c, status) == call[c].last # None /\ run[call[c].last] = status

CallJudgesBusy(c) ==
  /\ call[c].pc = "looked"
  /\ call[c].busy \/ LastIs(c, "running")
  /\ call' = [call EXCEPT ![c] = [NewCall EXCEPT !.pc = "enqueue"]]
  /\ UNCHANGED <<mailbox, nextSeq, run, message, latest, result, route, exec, gate, resumed,
                 pass, blind, spent>>

CallRefused(c) ==
  /\ call[c].pc = "looked"
  /\ ~call[c].busy /\ LastIs(c, "suspended")
  /\ call' = [call EXCEPT ![c] = Done]
  /\ UNCHANGED <<mailbox, nextSeq, run, message, latest, result, route, exec, gate, resumed,
                 pass, blind, spent>>

CallEnqueues(c) ==
  /\ call[c].pc = "enqueue"
  /\ \E s \in SentTime : Enqueue(c, Branch, TRUE, "none", s)
  /\ call' = [call EXCEPT ![c] = Done]
  /\ gate' = Woken(gate)
  /\ UNCHANGED <<run, message, latest, result, route, exec, resumed, pass, blind, spent>>

\* What it read may have changed meanwhile: the route is set all the same.
Stale(c) == route # NoRoute \/ latest # call[c].last

CallBegins(c) ==
  /\ call[c].pc = "looked"
  /\ ~call[c].busy /\ ~LastIs(c, "running") /\ ~LastIs(c, "suspended")
  /\ route' = [run |-> c, by |-> "call"]
  /\ exec' = [exec EXCEPT ![c] = [at |-> "begun", by |-> "call"]]
  /\ \E back \in BOOLEAN : call' = [call EXCEPT ![c] = [NewCall EXCEPT !.pc = "active", !.back = back]]
  /\ blind' = IF Stale(c) THEN blind \cup {c} ELSE blind
  /\ UNCHANGED <<mailbox, nextSeq, run, message, latest, result, gate, resumed, pass, spent>>

\* A background task writes its result for the parent and wakes the gate if the
\* listing finds messages (a suspended run has no result and wakes nobody).
TaskReports(c) ==
  /\ call[c].pc = "report"
  /\ call' = [call EXCEPT ![c].pc = "end", ![c].out = "none"]
  /\ IF call[c].out = "suspended"
     THEN UNCHANGED <<mailbox, nextSeq, result, gate, spent>>
     ELSE /\ \/ result' = Reported(c, call[c].out) /\ UNCHANGED spent
             \/ result' = Reported(c, "failed") /\ Mishap
          /\ ListPending
          /\ gate' = IF Listed # {} THEN Woken(gate) ELSE gate
  /\ UNCHANGED <<run, message, latest, route, exec, resumed, pass, blind>>

\* The finally of the call; the end of a task triggers the session.
CallEnds(c) ==
  /\ call[c].pc = "end"
  /\ call' = [call EXCEPT ![c] = Done]
  /\ route' = Unrouted(c, "call")
  /\ pass' = IF call[c].back THEN Triggered(pass) ELSE pass
  /\ UNCHANGED <<mailbox, nextSeq, run, message, latest, result, exec, gate, resumed,
                 blind, spent>>

-----------------------------------------------------------------------------
(* The gate (drainThreadMailbox, startThreadRun).                          *)

\* getLatestThreadRun: a run that is at work or suspended puts the gate off.
GateLooks ==
  /\ gate.pc = "look"
  /\ gate' = IF latest = None THEN [gate EXCEPT !.pc = "orphan"]
             ELSE IF Ended(latest) THEN [gate EXCEPT !.pc = "claim"]
             ELSE Rested(gate)
  /\ UNCHANGED <<mailbox, nextSeq, run, message, latest, result, route, exec, call, resumed,
                 pass, blind, spent>>

FreshClaim == {c \in ClaimId : c = CHOOSE d \in ClaimId : \A m \in Msg : mailbox[m].claim # d}

\* Without a history, or when the child's agent is not ready, the row goes back.
GateClaims ==
  /\ gate.pc \in {"claim", "orphan"}
  /\ \E c \in FreshClaim :
       /\ Claim(Branch, c, 1)
       /\ IF Batch(ClaimSweep, Branch, 1) = {}
          THEN gate' = Rested(gate) /\ UNCHANGED spent
          ELSE \E m \in Batch(ClaimSweep, Branch, 1) :
                 \/ /\ gate.pc = "claim"
                    /\ gate' = [gate EXCEPT !.pc = "register", !.msg = m, !.claim = c]
                    /\ UNCHANGED spent
                 \/ /\ gate' = [gate EXCEPT !.pc = "giveback", !.msg = m, !.claim = c]
                    /\ IF gate.pc = "orphan" THEN UNCHANGED spent ELSE Mishap
  /\ UNCHANGED <<run, message, latest, result, route, exec, call, resumed, pass, blind>>

GateGivesBack ==
  /\ gate.pc = "giveback"
  /\ GiveUp(gate.msg, gate.claim)
  /\ gate' = Rested(gate)
  /\ UNCHANGED <<run, message, latest, result, route, exec, call, resumed, pass, blind, spent>>

\* registerParticipantRun: refused while another run has the route.  What the gate
\* has seen of the latest run may be old.
RouteFreeUnchecked(m) == TRUE
RouteFree(m) == route.run \in {None, m}

GateRegisters ==
  /\ gate.pc = "register"
  /\ IF RouteFree(gate.msg)
     THEN /\ route' = [run |-> gate.msg, by |-> "gate"]
          /\ exec' = [exec EXCEPT ![gate.msg] = [at |-> "begun", by |-> "gate"]]
          /\ gate' = [gate EXCEPT !.pc = "start"]
          /\ blind' = IF route = NoRoute /\ ~Ended(latest) THEN blind \cup {gate.msg} ELSE blind
          /\ UNCHANGED <<mailbox, nextSeq, pass>>
     ELSE /\ GiveUp(gate.msg, gate.claim)
          /\ gate' = Rested(gate)
          /\ pass' = Triggered(pass)
          /\ UNCHANGED <<route, exec, blind>>
  /\ UNCHANGED <<run, message, latest, result, call, resumed, spent>>

\* The run has ended or suspended: its result is written (or the write fails),
\* the route released by run id, the session triggered.
GateFinishes ==
  /\ gate.pc = "finish"
  /\ IF gate.out = "suspended"
     THEN gate' = Rested(gate) /\ UNCHANGED <<result, spent>>
     ELSE \/ /\ result' = Reported(gate.msg, gate.out)
             /\ gate' = [Resting EXCEPT !.pc = "next", !.dirty = gate.dirty]
             /\ UNCHANGED spent
          \/ /\ Mishap
             /\ gate' = Rested(gate)
             /\ UNCHANGED result
  /\ route' = Released(gate.msg)
  /\ pass' = Triggered(pass)
  /\ UNCHANGED <<mailbox, nextSeq, run, message, latest, exec, call, resumed, blind>>

GateNext ==
  /\ gate.pc = "next"
  /\ ListPending
  /\ gate' = IF Listed # {} THEN [Resting EXCEPT !.pc = "look"] ELSE Rested(gate)
  /\ UNCHANGED <<run, message, latest, result, route, exec, call, resumed, pass, blind, spent>>

-----------------------------------------------------------------------------
(* The executors (executeRun, executeAgent, startRun, finalizeRun).        *)

\* A background task, a continuation and a resumed run own their lease.
Foreground(r) == exec[r].by = "call" /\ ~call[r].back

\* Executor r is over: whoever awaits it goes on.  The gate waits for the run
\* to be durable first, and of a run that ends before that it never hears.
Over(r, out) ==
  /\ exec' = [exec EXCEPT ![r] = Idle]
  /\ call' = IF exec[r].by # "call" THEN call
             ELSE IF Foreground(r) THEN [call EXCEPT ![r].pc = "end"]
             ELSE [call EXCEPT ![r].pc = "report", ![r].out = out]
  /\ gate' = IF exec[r].by # "gate" THEN gate
             ELSE [gate EXCEPT !.pc = IF @ = "start" THEN "stuck" ELSE "finish", !.out = out]
  /\ resumed' = IF exec[r].by # "resume" THEN resumed ELSE [resumed EXCEPT ![r] = out]

\* The transaction startRun: the row becomes the run's first message.  It is
\* refused if the history holds that message already, as another run's.
Refused(r) == exec[r].by = "gate" /\ message[r] # None

Starts(r) ==
  /\ exec[r].at = "begun" /\ ~Refused(r)
  /\ run' = [run EXCEPT ![r] = "running"]
  /\ latest' = r
  /\ exec' = [exec EXCEPT ![r].at = "started"]
  /\ IF exec[r].by = "gate"
     THEN Settle(r) /\ message' = [message EXCEPT ![r] = r]
     ELSE UNCHANGED <<mailbox, nextSeq, message>>
  /\ UNCHANGED <<result, route, call, gate, resumed, pass, blind, spent>>

StartFails(r) ==
  /\ exec[r].at = "begun"
  /\ IF Refused(r) THEN UNCHANGED spent ELSE Mishap
  /\ Over(r, "failed")
  /\ UNCHANGED <<mailbox, nextSeq, run, message, latest, result, route, pass, blind>>

\* The context is built, and the start reported to whoever waits for it.
Builds(r) ==
  /\ exec[r].at = "started"
  /\ exec' = [exec EXCEPT ![r].at = "live"]
  /\ gate' = IF exec[r].by = "gate" THEN [gate EXCEPT !.pc = "run"] ELSE gate
  /\ UNCHANGED <<mailbox, nextSeq, run, message, latest, result, route, call, resumed,
                 pass, blind, spent>>

BuildFails(r) ==
  /\ exec[r].at = "started"
  /\ Mishap
  /\ run' = [run EXCEPT ![r] = "failed"]
  /\ Over(r, "failed")
  /\ UNCHANGED <<mailbox, nextSeq, message, latest, result, route, pass, blind>>

\* The refresh of a run takes the queued messages of its branch.
Takes(r) ==
  /\ exec[r].at = "live"
  /\ LET batch == Batch(ClaimSweep, Branch, MaxLimit) IN
     /\ batch # {}
     /\ \A m \in batch : message[m] = None
     /\ mailbox' = [m \in Msg |-> IF m \in batch THEN AckedRow(ClaimRow(ClaimSweep[m], NoClaim))
                                  ELSE ClaimSweep[m]]
     /\ message' = [m \in Msg |-> IF m \in batch THEN r ELSE message[m]]
  /\ UNCHANGED <<nextSeq, run, latest, result, route, exec, call, gate, resumed,
                 pass, blind, spent>>

\* finalizeRun.  A run that was stopped meanwhile refuses another status: with a
\* lease of its own this is an error, otherwise it is passed over in silence.
StoppedOutQuiet(r) == "ok"
StoppedOut(r) == IF Foreground(r) THEN "ok" ELSE "failed"

Ends(r) ==
  /\ exec[r].at = "live"
  /\ IF run[r] = "running"
     THEN \/ run' = [run EXCEPT ![r] = "completed"] /\ Over(r, "ok")
          \/ run' = [run EXCEPT ![r] = "failed"] /\ Over(r, "failed")
     ELSE Over(r, StoppedOut(r)) /\ UNCHANGED run
  /\ UNCHANGED <<mailbox, nextSeq, message, latest, result, route, pass, blind, spent>>

Suspends(r) ==
  /\ exec[r].at = "live" /\ run[r] = "running" /\ ~Foreground(r)
  /\ Mishap
  /\ run' = [run EXCEPT ![r] = "suspended"]
  /\ Over(r, "suspended")
  /\ UNCHANGED <<mailbox, nextSeq, message, latest, result, route, pass, blind>>

\* The answer resumes the run, unless another one has the route.
Resumes(r) ==
  /\ run[r] = "suspended" /\ resumed[r] = "none"
  /\ RouteFree(r)
  /\ route' = [run |-> r, by |-> "resume"]
  /\ run' = [run EXCEPT ![r] = "running"]
  /\ exec' = [exec EXCEPT ![r] = [at |-> "started", by |-> "resume"]]
  /\ UNCHANGED <<mailbox, nextSeq, message, latest, result, call, gate, resumed,
                 pass, blind, spent>>

\* Of the resumed runs only a continuation reports to the parent, and nobody
\* triggers the session.
ResumeFinishes(r) ==
  /\ resumed[r] # "none"
  /\ resumed' = [resumed EXCEPT ![r] = "none"]
  /\ result' = IF Continuation(r) /\ resumed[r] # "suspended" THEN Reported(r, resumed[r]) ELSE result
  /\ route' = Released(r)
  /\ UNCHANGED <<mailbox, nextSeq, run, message, latest, exec, call, gate, pass, blind, spent>>

-----------------------------------------------------------------------------
(* The session around the thread.                                          *)

\* stopSession without a handle of a root: the runs are ended in the table, the
\* executors of detached ones go on.
Stop ==
  /\ \E r \in Run : run[r] \in {"running", "suspended"}
  /\ Mishap
  /\ run' = [r \in Run |-> IF run[r] \in {"running", "suspended"} THEN "failed" ELSE run[r]]
  /\ UNCHANGED <<mailbox, nextSeq, message, latest, result, route, exec, call, gate, resumed,
                 pass, blind>>

\* The container's sweep, at startup and every minute.
StrandedQueued == \E m \in Msg : mailbox[m].ready /\ mailbox[m].status = "queued"
Stranded ==
  \E m \in Msg : /\ mailbox[m].ready
                 /\ \/ mailbox[m].status = "queued"
                    \/ mailbox[m].status = "claimed" /\ mailbox[m].lapsed

Sweep ==
  /\ pass.pc = "rest"
  /\ Stranded
  /\ pass' = Triggered(pass)
  /\ UNCHANGED <<mailbox, nextSeq, run, message, latest, result, route, exec, call, gate, resumed,
                 blind, spent>>

RecoverableCompleted == {r \in Run : Continuation(r) /\ run[r] = "completed"}
\* recoverMailboxContinuationResults: the continuations that have ended, ...
Recoverable == {r \in Run : Continuation(r) /\ Ended(r)}

PassBegins ==
  /\ pass.pc = "begin"
  /\ pass' = [pass EXCEPT !.pc = "recover", !.todo = Recoverable]
  /\ UNCHANGED <<mailbox, nextSeq, run, message, latest, result, route, exec, call, gate, resumed,
                 blind, spent>>

\* ... one by one; a write that fails ends the pass.
PassRecovers(r) ==
  /\ pass.pc = "recover" /\ r \in pass.todo
  /\ Settle(r)
  /\ \/ /\ result' = Reported(r, IF run[r] = "completed" THEN "ok" ELSE "failed")
        /\ pass' = [pass EXCEPT !.todo = @ \ {r}]
        /\ UNCHANGED spent
     \/ /\ Mishap
        /\ pass' = PassOver(pass)
        /\ UNCHANGED result
  /\ UNCHANGED <<run, message, latest, route, exec, call, gate, resumed, blind>>

\* startSessionIdleRun forwards the child rows of its listing to their gates.
PassForwards ==
  /\ pass.pc = "recover" /\ pass.todo = {}
  /\ ListPending
  /\ gate' = IF Listed # {} THEN Woken(gate) ELSE gate
  /\ pass' = PassOver(pass)
  /\ UNCHANGED <<run, message, latest, result, route, exec, call, resumed, blind, spent>>

Clock(m) ==
  /\ LeaseLapses(m) \/ BackoffElapses(m)
  /\ UNCHANGED threadVars

\* The process stops and starts again; the recovery at startup suspends the runs
\* that wait for an answer and ends the others that were at work.
Crash ==
  /\ spent.mishaps < MaxMishaps
  /\ spent' = [mishaps |-> spent.mishaps + 1, crashed |-> TRUE]
  /\ \E waiting \in SUBSET {r \in Run : run[r] = "running" /\ exec[r].at = "live" /\ ~Foreground(r)} :
       run' = [r \in Run |-> IF r \in waiting THEN "suspended"
                             ELSE IF run[r] = "running" THEN "failed" ELSE run[r]]
  /\ route' = NoRoute
  /\ exec' = [r \in Run |-> Idle]
  /\ call' = [c \in Call |-> IF call[c].pc = "new" THEN NewCall ELSE Done]
  /\ gate' = Resting
  /\ resumed' = [r \in Run |-> "none"]
  /\ pass' = NoPass
  /\ UNCHANGED <<mailbox, nextSeq, message, latest, result, blind>>

-----------------------------------------------------------------------------

\* The parent has just created the child: the background task that runs it has
\* begun.
Init ==
  /\ MailboxInit
  /\ run = [r \in Run |-> "absent"]
  /\ message = [m \in Msg |-> None]
  /\ latest = None
  /\ result = [r \in Run |-> "none"]
  /\ route = [run |-> Born, by |-> "call"]
  /\ exec = [[r \in Run |-> Idle] EXCEPT ![Born] = [at |-> "begun", by |-> "call"]]
  /\ call = [[c \in Call |-> NewCall] EXCEPT ![Born].pc = "active", ![Born].back = TRUE]
  /\ gate = Resting
  /\ resumed = [r \in Run |-> "none"]
  /\ pass = NoPass
  /\ blind = {}
  /\ spent = [mishaps |-> 0, crashed |-> FALSE]

CallStep(c) ==
  \/ CallAsks(c) \/ CallJudgesBusy(c) \/ CallRefused(c) \/ CallEnqueues(c)
  \/ CallBegins(c) \/ TaskReports(c) \/ CallEnds(c)
GateStep ==
  GateLooks \/ GateClaims \/ GateGivesBack \/ GateRegisters \/ GateFinishes \/ GateNext
RunStep(r) ==
  \/ Starts(r) \/ StartFails(r) \/ Builds(r) \/ BuildFails(r)
  \/ Takes(r) \/ Ends(r) \/ Suspends(r) \/ ResumeFinishes(r)
PassStep == PassBegins \/ (\E r \in Run : PassRecovers(r)) \/ PassForwards

Next ==
  \/ \E m \in Msg \ Send : Notice(m) \/ Report(m)
  \/ \E c \in Call : CallStep(c)
  \/ GateStep
  \/ \E r \in Run : RunStep(r) \/ Resumes(r)
  \/ PassStep
  \/ Sweep
  \/ \E m \in Msg : Clock(m)
  \/ Stop
  \/ Crash

Spec == Init /\ [][Next]_vars

\* Coroutines go on, timers fire, leases and backoffs elapse, runs end.  Nobody
\* has to send, to answer or to stop.
Fairness ==
  /\ WF_vars(\E c \in Call : CallStep(c) /\ call[c].pc # "new")
  /\ WF_vars(\E r \in Run : RunStep(r))
  /\ WF_vars(GateStep)
  /\ WF_vars(PassStep \/ Sweep)
  /\ WF_vars(\E m \in Msg : Clock(m))

FairSpec == Spec /\ Fairness

-----------------------------------------------------------------------------
(* Properties.                                                             *)

Outcome == {"none", "ok", "failed", "suspended"}

\* Every variable is in its domain.
ChildTypeOK ==
  /\ MailboxTypeOK
  /\ run \in [Run -> {"absent", "running", "suspended", "completed", "failed"}]
  /\ message \in [Msg -> Run \cup {None}]
  /\ latest \in Run \cup {None}
  /\ result \in [Run -> {"none", "completed", "failed"}]
  /\ route \in [run : Run, by : {"call", "gate", "resume"}] \cup {NoRoute}
  /\ exec \in [Run -> [at : {"none", "begun", "started", "live"},
                       by : {"none", "call", "gate", "resume"}]]
  /\ call \in [Call -> [pc : {"new", "looked", "enqueue", "active", "report", "end", "done"},
                        last : Run \cup {None}, busy : BOOLEAN, back : BOOLEAN, out : Outcome]]
  /\ gate \in [pc : {"rest", "look", "claim", "orphan", "register", "giveback", "start", "run",
                     "finish", "next", "stuck"},
               msg : Msg \cup {None}, claim : ClaimId \cup {NoClaim}, out : Outcome, dirty : BOOLEAN]
  /\ resumed \in [Run -> Outcome]
  /\ pass \in [pc : {"rest", "begin", "recover"}, todo : SUBSET Run, dirty : BOOLEAN]
  /\ blind \subseteq Run
  /\ spent \in [mishaps : Nat, crashed : BOOLEAN]

AtWork == {r \in Run : run[r] = "running" /\ exec[r].at \in {"started", "live"}}

\* The gate, the answers and the parent's calls never put two runs to work on one
\* history: though the route is dropped by run id and set without looking, two
\* windows are left, between the reads of a call or of the gate and the run that it
\* begins on them.
OneAtWork == blind = {} => \A r, s \in AtWork : r = s

\* What the parent is told of a run is what became of it: "completed" only of a
\* run that completed, also if it was stopped under its executor or its result
\* is written by the idle pass; and nothing of one that may still go on.
ResultTruthful ==
  \A r \in Run : /\ result[r] = "completed" => run[r] = "completed"
                 /\ result[r] # "none" => run[r] \notin {"running", "suspended"}

\* A message to the child is taken by a run or becomes a dead letter, through
\* refusals, failures, lapsed leases and crashes, unless the thread waits for an
\* interaction or its gate hangs.
Waiting == {m \in Msg : mailbox[m].status \in {"queued", "claimed"}}

EveryMessageTaken ==
  []<>(Waiting = {} \/ gate.pc = "stuck" \/ \E r \in Run : r = latest /\ run[r] = "suspended")

\* The parent gets the result of a continuation that has ended even if the gate
\* fails to write it: the idle pass does, unless the process has died or the gate
\* hangs.
Unreported == {m \in Msg : Continuation(m) /\ Ended(m) /\ result[m] = "none"}

ResultFollows == []<>(Unreported = {} \/ gate.pc = "stuck" \/ spent.crashed)
=============================================================================
