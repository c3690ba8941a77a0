---------------------------- MODULE RunLifecycle ----------------------------
(***************************************************************************)
(* The runs of one session and the interactions (approvals, user inputs)   *)
(* they wait for.  Durable: the runs table and the pending_interactions    *)
(* table, changed only by the transactions of SqliteRuntimeStorage.  In    *)
(* memory: the executors of runs with their live waiters, and the          *)
(* coroutines of RuntimeInteractionCoordinator.tryResume, which turn an    *)
(* answered batch of a suspended run into a new executor:                  *)
(*   recoverExpiredResumeClaims, claimResume, attachResume, startClaim     *)
(* with awaits in between, where everything else may happen.               *)
(*                                                                         *)
(* An interaction belongs to a batch, the asks of one group of tool calls  *)
(* of one run, and to the recovery root of that run: a root run, or a      *)
(* background child, which owns its lease.  A foreground child shares its  *)
(* parent's lease; children start no children here.  The gates of a group  *)
(* ask before any of its tools runs, so an executor does not ask while a   *)
(* child of its is at work; several children may work at once, and the     *)
(* first interrupt among them ends the round of the parent.                *)
(*                                                                         *)
(* Left out: messages, terminal records and usage written by the same      *)
(* transactions, session maintenance (it is only ever granted when no run  *)
(* is active), and the deferredResume map (its batches are always among    *)
(* those finalizeRun reports as ready).                                    *)
(***************************************************************************)
EXTENDS Naturals

CONSTANTS
  RootRun,      \* ids of root runs
  DetachedRun,  \* ids of background children: their own lease
  ChildRun,     \* ids of foreground children
  Inter,        \* ids of interactions
  Batch,        \* ids of batches of interactions
  Exec,         \* executors, at most so many at a time
  Proc,         \* coroutines of tryResume; a process is also its claim id
  None,
  StartFails,   \* may the resume starter fail?
  Lapses,       \* may a claim outlive its lease before it is attached?
  MaxCrashes    \* bound on the crashes of a behaviour

ASSUME LifecycleConstants ==
  /\ RootRun \cap DetachedRun = {}
  /\ ChildRun \cap (RootRun \cup DetachedRun) = {}
  /\ None \notin RootRun \cup DetachedRun \cup ChildRun \cup Inter \cup Batch
                   \cup Exec \cup Proc
  /\ StartFails \in BOOLEAN /\ Lapses \in BOOLEAN
  /\ MaxCrashes \in Nat

LeaseOwner == RootRun \cup DetachedRun
Run == LeaseOwner \cup ChildRun

VARIABLES
  run,     \* [Run -> [status, lease]]: the runs table
  inter,   \* [Inter -> [status, run, root, batch, claim, lapsed]]: the table
  exec,    \* [Exec -> [run, pc, waits, parent]]: executors and live waiters
  resume,  \* [Proc -> [pc, batch, answered]]: the state of tryResume
  retry,   \* batches that onRootFinalized is about to try
  crashes

durableVars == <<run, inter>>
memoryVars == <<exec, resume, retry>>
vars == <<run, inter, exec, resume, retry, crashes>>

Active == {"running", "suspended"}
Terminal == {"completed", "failed", "interrupted"}
Unanswered == {"waiting", "suspended"}
Open == {"waiting", "suspended", "resolved", "resuming"}

NoRun == [status |-> "absent", lease |-> None]
NoInter == [status |-> "absent", run |-> None, root |-> None, batch |-> None, claim |-> None,
            lapsed |-> FALSE]
NoExec == [run |-> None, pc |-> "off", waits |-> {}, parent |-> None]
Resting == [pc |-> "off", batch |-> None, answered |-> None]

Rows(b) == {i \in Inter : inter[i].batch = b}
RootOf(b) == {inter[i].root : i \in Rows(b)}
AskerOf(b) == {inter[i].run : i \in Rows(b)}
Ready(b) == Rows(b) # {} /\ \A i \in Rows(b) : inter[i].status = "resolved"
ActiveRoots == {r \in RootRun : run[r].status \in Active}
LiveExec(e) == exec[e].pc # "off"
Children(e) == {f \in Exec : LiveExec(f) /\ exec[f].parent = e}
Foreground(e) == LiveExec(e) /\ exec[e].run \in RootRun
Held(p) == {i \in Inter : inter[i].status = "resuming" /\ inter[i].claim = p}
\* A new tryResume has a new claim id: no row bears it yet.
Idle(p) == resume[p] = Resting /\ \A i \in Inter : inter[i].claim # p

-----------------------------------------------------------------------------
(* What the transactions write.                                            *)

\* finalizedInteractionStatus
Finalized(target, status) ==
  CASE target = "suspended" /\ status = "waiting" -> "suspended"
    [] target = "suspended" /\ status = "resuming" -> "consumed"
    [] target = "completed" /\ status \in {"resolved", "resuming"} -> "consumed"
    [] target = "completed" /\ status \in Unanswered -> "cancelled"
    [] target \in {"failed", "interrupted"} /\ status \in Open -> "cancelled"
    [] OTHER -> status

Unclaimed(row, status) == [row EXCEPT !.status = status, !.claim = None, !.lapsed = FALSE]

\* finalizePendingInteractions: no claim is left on a row it rewrites.
FinalizeRow(row, target) == Unclaimed(row, Finalized(target, row.status))
FinalizeRows(roots, target) ==
  [i \in Inter |-> IF inter[i].root \in roots THEN FinalizeRow(inter[i], target) ELSE inter[i]]

\* releasePendingClaim, releasePendingBatch: back to resolved, no claim.
ReleaseRows(rows) ==
  [i \in Inter |-> IF i \in rows THEN Unclaimed(inter[i], "resolved") ELSE inter[i]]

SetStatus(runs, status) ==
  [r \in Run |-> IF r \in runs THEN [run[r] EXCEPT !.status = status] ELSE run[r]]

\* Mutant: only the run itself is finished.
CascadeSelf(r) == {}
\* The runs that end with a run that owns its lease.
Cascade(r) == {q \in Run \ {r} : run[q].lease = r /\ run[q].status \in Active}

TerminalRuns(r, status) ==
  [q \in Run |->
     IF q = r /\ run[q].status \in Active THEN [run[q] EXCEPT !.status = status]
     ELSE IF r \in LeaseOwner /\ q \in Cascade(r)
          THEN [run[q] EXCEPT !.status = IF status = "completed" THEN "failed" ELSE status]
          ELSE run[q]]

-----------------------------------------------------------------------------
(* Runs start.                                                             *)

Begin(e, r, parent) ==
  exec' = [exec EXCEPT ![e] = [run |-> r, pc |-> "live", waits |-> {}, parent |-> parent]]

\* Mutant: a suspended root does not keep the session's root slot.
RootSlotRunningOnly == \A q \in RootRun : run[q].status # "running"
\* listActiveRootRuns is empty.
RootSlotFree == ActiveRoots = {}

\* startOrAppendRoot, when it starts a run.
StartRoot(r, e) ==
  /\ run[r] = NoRun /\ exec[e] = NoExec
  /\ RootSlotFree
  /\ run' = [run EXCEPT ![r] = [status |-> "running", lease |-> r]]
  /\ Begin(e, r, None)
  /\ UNCHANGED <<inter, resume, retry, crashes>>

\* startRun of a child, by an executor whose gates have passed.
Delegates(f) == exec[f].pc = "live" /\ exec[f].waits = {}

StartDetached(d, e, f) ==
  /\ run[d] = NoRun /\ exec[e] = NoExec
  /\ Delegates(f) /\ exec[f].run \in RootRun
  /\ run' = [run EXCEPT ![d] = [status |-> "running", lease |-> d]]
  /\ Begin(e, d, None)
  /\ UNCHANGED <<inter, resume, retry, crashes>>

StartChild(k, e, f) ==
  /\ run[k] = NoRun /\ exec[e] = NoExec
  /\ Delegates(f) /\ exec[f].run \in LeaseOwner
  /\ run' = [run EXCEPT ![k] = [status |-> "running", lease |-> run[exec[f].run].lease]]
  /\ Begin(e, k, f)
  /\ UNCHANGED <<inter, resume, retry, crashes>>

\* The resumed parent replays the call that created the child: a suspended
\* child is set running again and gets a new executor.
ResumeChild(k, e, f) ==
  /\ run[k].status = "suspended" /\ exec[e] = NoExec
  /\ Delegates(f) /\ exec[f].run = run[k].lease
  /\ run' = [run EXCEPT ![k].status = "running"]
  /\ Begin(e, k, f)
  /\ UNCHANGED <<inter, resume, retry, crashes>>

-----------------------------------------------------------------------------
(* Interactions.                                                           *)

\* recordInteraction: a gate or an input tool of the run asks, and waits.
Ask(e, i, b) ==
  /\ exec[e].pc = "live" /\ Children(e) = {}
  /\ inter[i] = NoInter
  /\ \A k \in exec[e].waits : inter[k].batch = b
  /\ LET r == exec[e].run IN
       /\ AskerOf(b) \subseteq {r}
       /\ inter' = [inter EXCEPT ![i] = [NoInter EXCEPT
            !.status = "waiting", !.run = r, !.root = run[r].lease, !.batch = b]]
  /\ exec' = [exec EXCEPT ![e].waits = @ \cup {i}]
  /\ UNCHANGED <<run, resume, retry, crashes>>

\* The waiter of an answered interaction, if it is still there, goes on.
Wake(i) == [e \in Exec |-> [exec[e] EXCEPT !.waits = @ \ {i}]]

\* resolveInteraction, and what respondAsync does next: resume the batch when
\* it is ready, else wake the waiter.
Answer(p, i) ==
  /\ Idle(p)
  /\ inter[i].status \in Unanswered
  /\ inter' = [inter EXCEPT ![i].status = "resolved"]
  /\ LET b == inter[i].batch IN
       IF \A k \in Rows(b) \ {i} : inter[k].status \notin Unanswered
       THEN /\ resume' = [resume EXCEPT ![p] = [pc |-> "recover", batch |-> b, answered |-> i]]
            /\ UNCHANGED exec
       ELSE /\ exec' = Wake(i)
            /\ UNCHANGED resume
  /\ UNCHANGED <<run, retry, crashes>>

\* The client answers again or asks for a resume (resumeAsync).
AskResume(p, b) ==
  /\ Idle(p)
  /\ Rows(b) # {}
  /\ resume' = [resume EXCEPT ![p] = [Resting EXCEPT !.pc = "recover", !.batch = b]]
  /\ UNCHANGED <<run, inter, exec, retry, crashes>>

\* onRootFinalized takes the next batch that is ready.
TakeRetry(p, b) ==
  /\ Idle(p)
  /\ b \in retry
  /\ retry' = retry \ {b}
  /\ resume' = [resume EXCEPT ![p] = [Resting EXCEPT !.pc = "recover", !.batch = b]]
  /\ UNCHANGED <<run, inter, exec, crashes>>

\* The deadline of a live waiter: a RecoverableInterrupt ends the tool round.
TimesOut(e) ==
  /\ exec[e].pc = "live" /\ exec[e].waits # {}
  /\ exec' = [exec EXCEPT ![e].pc = "raised"]
  /\ UNCHANGED <<run, inter, resume, retry, crashes>>

-----------------------------------------------------------------------------
(* Runs end.                                                               *)

\* The executor is gone.  A child raises its interrupt in its parent, which has
\* left it if the round ended before; the waiters in the tree of a finished
\* interaction root are rejected.
ExecutorGone(e, roots, raise) ==
  exec' = [f \in Exec |->
    IF f = e THEN NoExec
    ELSE [exec[f] EXCEPT
           !.pc = IF raise /\ f = exec[e].parent THEN "raised" ELSE @,
           !.parent = IF @ = e THEN None ELSE @,
           !.waits = IF LiveExec(f) /\ run[exec[f].run].lease \in roots THEN {} ELSE @]]

\* Mutant: a run is finalized whatever its status.
FinalizableAlways(r, target) == TRUE
\* Only a running run, or a replay of the same status.
Finalizable(r, target) == run[r].status \in {"running", target}

Conflict(e) ==
  /\ ExecutorGone(e, {}, FALSE)
  /\ UNCHANGED <<run, inter, retry>>

\* Mutant: the batches answered in the meantime are forgotten.
ReadyForgotten(r) == {}
\* readyResumeInteractionIds
ReadyBatches(r) == {b \in Batch : Ready(b) /\ RootOf(b) = {r}}

\* finalizeRun("suspended"), and onRootFinalized for an interaction root.
Suspend(e) ==
  /\ exec[e].pc = "raised"
  /\ LET r == exec[e].run IN
       \/ /\ ~Finalizable(r, "suspended") /\ Conflict(e)
       \/ /\ Finalizable(r, "suspended")
          /\ run' = SetStatus({r}, "suspended")
          /\ inter' = IF r \in LeaseOwner THEN FinalizeRows({r}, "suspended") ELSE inter
          /\ retry' = IF r \in LeaseOwner
                      THEN retry \cup ReadyBatches(r) ELSE retry
          /\ ExecutorGone(e, {r} \cap LeaseOwner, r \in ChildRun)
  /\ UNCHANGED <<resume, crashes>>

\* finalizeRun with a terminal status.
End(e, status) ==
  /\ IF exec[e].pc = "aborted"
     THEN status = "interrupted"
     ELSE /\ exec[e].pc = "live" /\ exec[e].waits = {}
          /\ Children(e) = {}
          /\ status \in {"completed", "failed"}
  /\ LET r == exec[e].run IN
       \/ /\ ~Finalizable(r, status) /\ Conflict(e)
       \/ /\ Finalizable(r, status)
          /\ run' = TerminalRuns(r, status)
          /\ inter' = IF r \in LeaseOwner THEN FinalizeRows({r}, status) ELSE inter
          /\ ExecutorGone(e, {r} \cap LeaseOwner, FALSE)
          /\ UNCHANGED retry
  /\ UNCHANGED <<resume, crashes>>

\* stopSession with a foreground executor: it is aborted, and its children;
\* an interrupt that is already raised goes its way.
Stop(e) ==
  /\ Foreground(e) /\ exec[e].pc = "live"
  /\ exec' = [f \in Exec |->
       IF f = e \/ (f \in Children(e) /\ exec[f].pc = "live")
       THEN [exec[f] EXCEPT !.pc = "aborted", !.waits = {}] ELSE exec[f]]
  /\ UNCHANGED <<run, inter, resume, retry, crashes>>

\* stopSession without one: interruptSession, then cancelSession.
InterruptSession ==
  /\ ~ \E e \in Exec : Foreground(e)
  /\ LET open == {r \in Run : run[r].status \in Active} IN
       /\ open # {}
       /\ run' = SetStatus(open, "interrupted")
       /\ inter' = FinalizeRows(open, "interrupted")
  /\ exec' = [e \in Exec |-> [exec[e] EXCEPT !.waits = {}]]
  /\ UNCHANGED <<resume, retry, crashes>>

-----------------------------------------------------------------------------
(* tryResume.                                                              *)

Step(p, pc) == resume' = [resume EXCEPT ![p].pc = pc]
Rest(p) == resume' = [resume EXCEPT ![p] = Resting]

\* recoverExpiredResumeClaims: a lapsed claim is released and its root suspended
\* again; when the root is not running, its rows get the status it implies.
Recover(p) ==
  /\ resume[p].pc = "recover"
  /\ LET lapsed == {i \in Inter : inter[i].status = "resuming" /\ inter[i].lapsed}
         roots == {r \in LeaseOwner : r \in {inter[i].root : i \in lapsed}}
         back == {r \in roots : run[r].status = "running"}
     IN  /\ inter' = [i \in Inter |->
              IF inter[i].root \in back
              THEN IF i \in lapsed THEN Unclaimed(inter[i], "resolved") ELSE inter[i]
              ELSE IF inter[i].root \in roots
                   THEN FinalizeRow(inter[i], run[inter[i].root].status)
                   ELSE inter[i]]
         /\ run' = SetStatus(back, "suspended")
  /\ Step(p, "claim")
  /\ UNCHANGED <<exec, retry, crashes>>

\* claimResume: the whole batch and the root together.
ClaimBatch(p, b, r) ==
  /\ inter' = [i \in Inter |->
       IF i \in Rows(b) THEN [inter[i] EXCEPT !.status = "resuming", !.claim = p] ELSE inter[i]]
  /\ run' = [run EXCEPT ![r].status = "running"]

\* Mutant: a run that is already running may be claimed.
ClaimableRunning(b, r) == Ready(b) /\ run[r].status \in Active
Claimable(b, r) ==
  /\ Ready(b)
  /\ run[r].status = "suspended"
  /\ r \in RootRun => \A q \in RootRun : run[q].status # "running"

Claim(p) ==
  /\ resume[p].pc = "claim"
  /\ \E r \in RootOf(resume[p].batch) :
       /\ Claimable(resume[p].batch, r)
       /\ ClaimBatch(p, resume[p].batch, r)
  /\ Step(p, "attach")
  /\ UNCHANGED <<exec, retry, crashes>>

\* Refused.  When the root is still running, the answer wakes its waiter.
ClaimRefused(p) ==
  /\ resume[p].pc = "claim"
  /\ \A r \in RootOf(resume[p].batch) : ~Claimable(resume[p].batch, r)
  /\ exec' = IF /\ Ready(resume[p].batch)
                /\ \A r \in RootOf(resume[p].batch) : run[r].status = "running"
             THEN Wake(resume[p].answered) ELSE exec
  /\ Rest(p)
  /\ UNCHANGED <<run, inter, retry, crashes>>

\* attachResume: the claim is released, the rows stay resolved.
Attach(p) ==
  /\ resume[p].pc = "attach"
  /\ IF /\ Held(p) # {}
        /\ \A r \in RootOf(resume[p].batch) : run[r].status = "running"
     THEN /\ inter' = ReleaseRows(Held(p))
          /\ Step(p, "start")
     ELSE /\ Step(p, "rollback")
          /\ UNCHANGED inter
  /\ UNCHANGED <<run, exec, retry, crashes>>

\* startClaim: a new executor.  Nothing reads the status of the run again.
Start(p, e) ==
  /\ resume[p].pc = "start"
  /\ exec[e] = NoExec
  /\ \E r \in RootOf(resume[p].batch) : Begin(e, r, None)
  /\ Rest(p)
  /\ UNCHANGED <<run, inter, retry, crashes>>

StartFailed(p) ==
  /\ StartFails
  /\ resume[p].pc = "start"
  /\ Step(p, "rollback")
  /\ UNCHANGED <<run, inter, exec, retry, crashes>>

\* rollbackResume: by the claim, or by the batch when the claim is attached.
Rollback(p) ==
  /\ resume[p].pc = "rollback"
  /\ LET b == resume[p].batch
         undo == {r \in RootOf(b) : run[r].status = "running" /\ (Held(p) # {} \/ Ready(b))}
     IN  /\ inter' = IF undo = {} THEN inter ELSE ReleaseRows(Held(p))
         /\ run' = SetStatus(undo, "suspended")
  /\ Rest(p)
  /\ UNCHANGED <<exec, retry, crashes>>

\* The lease of a claim runs out.
LeaseLapses(p) ==
  /\ Lapses
  /\ \E i \in Held(p) : ~inter[i].lapsed
  /\ inter' = [i \in Inter |-> IF i \in Held(p) THEN [inter[i] EXCEPT !.lapsed = TRUE] ELSE inter[i]]
  /\ UNCHANGED <<run, exec, resume, retry, crashes>>

-----------------------------------------------------------------------------

\* The process stops and starts again: recoverOrphanedRuns, per lease owner
\* with running runs, suspends what waits for an answer or a resume and
\* interrupts the rest.
Orphaned(r) == \E q \in Run : run[q].lease = r /\ run[q].status = "running"
\* Mutant: what runs is taken to wait for an answer.
PendingAssumed(r) == TRUE
Pending(r) == \E i \in Inter : inter[i].root = r /\ inter[i].status \in Open

Crash ==
  /\ crashes < MaxCrashes
  /\ crashes' = crashes + 1
  /\ run' = [q \in Run |->
       IF run[q].status = "running"
       THEN [run[q] EXCEPT !.status = IF Pending(run[q].lease) THEN "suspended" ELSE "interrupted"]
       ELSE run[q]]
  /\ inter' = [i \in Inter |->
       IF ~ \E r \in LeaseOwner : inter[i].root = r /\ Orphaned(r) THEN inter[i]
       ELSE [inter[i] EXCEPT !.claim = None, !.lapsed = FALSE,
               !.status = CASE @ = "resuming" -> "resolved" [] @ = "waiting" -> "suspended"
                            [] OTHER -> @]]
  /\ exec' = [e \in Exec |-> NoExec]
  /\ resume' = [p \in Proc |-> Resting]
  /\ retry' = {}

-----------------------------------------------------------------------------

Init ==
  /\ run = [r \in Run |-> NoRun]
  /\ inter = [i \in Inter |-> NoInter]
  /\ exec = [e \in Exec |-> NoExec]
  /\ resume = [p \in Proc |-> Resting]
  /\ retry = {}
  /\ crashes = 0

TryResume(p) ==
  \/ Recover(p) \/ Claim(p) \/ ClaimRefused(p) \/ Attach(p)
  \/ (\E e \in Exec : Start(p, e)) \/ StartFailed(p) \/ Rollback(p)

Starts(e) ==
  \/ \E r \in RootRun : StartRoot(r, e)
  \/ \E f \in Exec : \/ \E d \in DetachedRun : StartDetached(d, e, f)
                     \/ \E k \in ChildRun : StartChild(k, e, f) \/ ResumeChild(k, e, f)

Next ==
  \/ \E e \in Exec : \/ Starts(e) \/ TimesOut(e) \/ Suspend(e) \/ Stop(e)
                     \/ \E i \in Inter, b \in Batch : Ask(e, i, b)
                     \/ \E s \in Terminal : End(e, s)
  \/ InterruptSession
  \/ \E p \in Proc : \/ \E i \in Inter : Answer(p, i)
                     \/ \E b \in Batch : AskResume(p, b) \/ TakeRetry(p, b)
                     \/ TryResume(p) \/ LeaseLapses(p)
  \/ Crash

Spec == Init /\ [][Next]_vars

\* Coroutines go on, timers fire, and a round that has ended is finalized; nobody
\* has to answer, and a model or a tool may take for ever.  TakeRetry is strongly
\* fair because it waits for a free process of Proc only here.
FairSpec ==
  /\ Spec
  /\ \A p \in Proc : WF_vars(TryResume(p))
  /\ SF_vars(\E p \in Proc, b \in Batch : TakeRetry(p, b))
  /\ \A e \in Exec : WF_vars(TimesOut(e)) /\ WF_vars(Suspend(e))

-----------------------------------------------------------------------------
(* Correctness.                                                            *)

Answered == {"resolved", "resuming", "consumed"}
InterStatus == Open \cup {"absent", "consumed", "cancelled"}
RunStatus == Active \cup Terminal \cup {"absent"}

RunRow == [status : RunStatus, lease : LeaseOwner \cup {None}]
InterRow == [status : InterStatus, run : Run \cup {None}, root : LeaseOwner \cup {None},
             batch : Batch \cup {None}, claim : Proc \cup {None}, lapsed : BOOLEAN]
ExecRow == [run : Run \cup {None}, pc : {"off", "live", "raised", "aborted"},
            waits : SUBSET Inter, parent : Exec \cup {None}]
ResumeRow == [pc : {"off", "recover", "claim", "attach", "start", "rollback"},
              batch : Batch \cup {None}, answered : Inter \cup {None}]

\* Every variable is of its type, and whatever is under way has its run: a live
\* executor and a recorded interaction always belong to a run that was started.
LifecycleTypeOK ==
  /\ run \in [Run -> RunRow]
  /\ inter \in [Inter -> InterRow]
  /\ exec \in [Exec -> ExecRow]
  /\ resume \in [Proc -> ResumeRow]
  /\ retry \in SUBSET Batch
  /\ crashes \in 0..MaxCrashes
  /\ \A r \in Run : run[r].status # "absent" =>
       run[r].lease # None /\ run[run[r].lease].status # "absent"
  /\ \A i \in Inter : inter[i] # NoInter =>
       /\ inter[i].status # "absent" /\ inter[i].batch # None /\ inter[i].root # None
       /\ run[inter[i].root].status # "absent"
  /\ \A e \in Exec :
       /\ LiveExec(e) => exec[e].run # None /\ run[exec[e].run].status # "absent"
       /\ exec[e].parent # None => LiveExec(exec[e].parent)
  /\ \A p \in Proc : resume[p].pc # "off" => resume[p].batch # None

\* A session has at most one root run that is running or suspended, whatever
\* starts, resumes, rollbacks, stops and crashes do to it.
OneRootRun == \A q, r \in ActiveRoots : q = r

\* A run has at most one executor.
OneExecutor ==
  \A e, f \in Exec : (LiveExec(e) /\ LiveExec(f) /\ exec[e].run = exec[f].run) => e = f

\* A suspended run always has an interaction that can bring it back.
SuspendedRecoverable ==
  \A r \in LeaseOwner : run[r].status = "suspended" =>
    \E i \in Inter : inter[i].root = r /\ inter[i].status \in {"suspended", "resolved"}

\* A finished run stays as it is: neither a late answer nor a late executor
\* revives it or rewrites its outcome.
FinishedFinal == [][\A r \in Run : run[r].status \in Terminal => run'[r] = run[r]]_vars

\* An answer is never taken back, and no claimed answer is written off.
AnswerKept ==
  [][\A i \in Inter :
       /\ inter[i].status \in Answered => inter'[i].status \in Answered \cup {"cancelled"}
       /\ inter[i].status \in {"consumed", "cancelled"} => inter'[i].status = inter[i].status]_vars

\* A rollback suspends a run only when no other process has attached to it and
\* nothing executes it.
RollbackSparesOthers ==
  [][\A p \in Proc : 
       (resume[p].pc = "rollback" /\ resume'[p] = Resting /\ crashes' = crashes) =>
       \A r \in LeaseOwner : (run[r].status = "running" /\ run'[r].status = "suspended") =>
         /\ \A e \in Exec : exec[e].run # r
         /\ \A q \in Proc \ {p} : resume[q].pc = "start" => r \notin RootOf(resume[q].batch)]_vars

\* A suspended run with an answered batch gets an executor again, or is ended.
AnsweredGoesOn ==
  \A r \in LeaseOwner, b \in Batch :
    (run[r].status = "suspended" /\ Ready(b) /\ RootOf(b) = {r}) ~>
      (run[r].status \in Terminal \/ \E e \in Exec : exec[e].run = r)

\* When a run that owns its lease finishes, no run of its lease goes on and no
\* interaction of it stays open.
TreeEnds ==
  [][\A r \in LeaseOwner :
       (run[r].status \in Active /\ run'[r].status \in Terminal) =>
         /\ \A q \in Run : run'[q].lease = r => run'[q].status \notin Active
         /\ \A i \in Inter : inter'[i].root = r => inter'[i].status \notin Open]_vars
=============================================================================
