------------------------ MODULE RunLifecycle_proofs ------------------------
(***************************************************************************)
(* Theorems about the runs and interactions of a session, for any number   *)
(* of runs, interactions, executors, concurrent resumes and crashes, with  *)
(* failing starters or without.                                            *)
(*                                                                         *)
(* Every step is described by what it does to the two tables (RunStep,     *)
(* InterStep): a run moves only out of an active status and keeps its      *)
(* lease, or it is new; a root is new only when the slot of the session is *)
(* free; an interaction moves only along its statuses, or it is new.  The  *)
(* first theorems follow from these two descriptions, whether claims may   *)
(* outlive their lease or not.                                             *)
(*                                                                         *)
(* Who may act for a run is the subject of the second part (OwnershipInv). *)
(* Its theorems hold when no claim outlives its lease: each step has a     *)
(* course, what it does to the executors, the resumes and the claims, and  *)
(* one lemma shows that a step with a course keeps the invariant.          *)
(***************************************************************************)
EXTENDS RunLifecycle, TLAPS

LifecycleInv == LifecycleTypeOK /\ OneRootRun

Moved(r) ==
  /\ run[r].status \in Active
  /\ run'[r].status # "absent"
  /\ run'[r].lease = run[r].lease

\* A run that is started: its lease owner is itself or a started run.
Begun(r) ==
  /\ run[r] = NoRun
  /\ run'[r].status = "running"
  /\ run'[r].lease = r \/ (run'[r].lease # None /\ run[run'[r].lease].status # "absent")
  /\ r \in RootRun => RootSlotFree
  /\ \A q \in Run \ {r} : run'[q] = run[q]

RunStep ==
  /\ run' \in [Run -> RunRow]
  /\ \/ \A r \in Run : run'[r] = run[r] \/ Moved(r)
     \/ \E r \in Run : Begun(r)

\* What may happen to the row of an interaction.
Advanced(old, new) ==
  /\ old # NoInter /\ new \in InterRow
  /\ new.run = old.run /\ new.root = old.root /\ new.batch = old.batch
  /\ new.status # "absent"
  /\ old.status \in Answered => new.status \in Answered \cup {"cancelled"}
  /\ old.status \in {"consumed", "cancelled"} => new.status = old.status

Recorded(i) ==
  /\ inter[i] = NoInter
  /\ inter'[i].status = "waiting"
  /\ inter'[i].batch # None /\ inter'[i].root # None
  /\ run[inter'[i].root].status # "absent"

InterStep ==
  /\ inter' \in [Inter -> InterRow]
  /\ \A i \in Inter : inter'[i] = inter[i] \/ Advanced(inter[i], inter'[i]) \/ Recorded(i)

\* What a step does in memory: an executor is of a started run, a resume has a batch.
ExecStep ==
  /\ exec' \in [Exec -> ExecRow]
  /\ \A e \in Exec :
       /\ exec'[e].pc # "off" => exec'[e].run # None /\ run'[exec'[e].run].status # "absent"
       /\ exec'[e].parent # None => exec'[exec'[e].parent].pc # "off"
ResumeStep ==
  /\ resume' \in [Proc -> ResumeRow]
  /\ \A p \in Proc : resume'[p].pc # "off" => resume'[p].batch # None
Effect ==
  /\ RunStep /\ InterStep /\ ExecStep /\ ResumeStep
  /\ retry' \in SUBSET Batch /\ crashes' \in 0..MaxCrashes

USE LifecycleConstants

-----------------------------------------------------------------------------
(* What the transactions write.                                            *)

LEMMA StatusesApart ==
  /\ Active \cap Terminal = {} /\ "absent" \notin Active \cup Terminal
  /\ Active \subseteq RunStatus /\ Terminal \subseteq RunStatus
  /\ None \notin Run /\ None \notin LeaseOwner /\ LeaseOwner \subseteq Run /\ RootRun \subseteq LeaseOwner
  BY DEF Active, Terminal, RunStatus, Run, LeaseOwner

LEMMA FinalizedStatus ==
  ASSUME NEW target, NEW s \in InterStatus, s # "absent"
  PROVE  /\ Finalized(target, s) \in InterStatus \ {"absent"}
         /\ s \in Answered => Finalized(target, s) \in Answered \cup {"cancelled"}
         /\ s \in {"consumed", "cancelled"} => Finalized(target, s) = s
  BY DEF Finalized, InterStatus, Open, Unanswered, Answered

LEMMA UnclaimedAdvances ==
  ASSUME NEW row \in InterRow, row # NoInter, NEW s \in InterStatus, s # "absent",
         row.status \in Answered => s \in Answered \cup {"cancelled"},
         row.status \in {"consumed", "cancelled"} => s = row.status
  PROVE  Advanced(row, Unclaimed(row, s))
  BY DEF Unclaimed, Advanced, InterRow

LEMMA FinalizeRowAdvances ==
  ASSUME NEW row \in InterRow, row # NoInter, row.status # "absent", NEW target
  PROVE  Advanced(row, FinalizeRow(row, target))
<1>1. row.status \in InterStatus
  BY DEF InterRow
<1>2. QED BY <1>1, FinalizedStatus, UnclaimedAdvances DEF FinalizeRow

\* Every row that is recorded has a row type, a status and a root.
LEMMA RowFacts ==
  ASSUME LifecycleTypeOK, NEW i \in Inter
  PROVE  /\ inter[i] \in InterRow
         /\ inter[i] # NoInter => /\ inter[i].status # "absent" /\ inter[i].batch # None
                                  /\ inter[i].root # None
                                  /\ run[inter[i].root].status # "absent"
         /\ inter[i].status # "absent" => inter[i] # NoInter
         /\ inter[i].root # None => inter[i] # NoInter
         /\ inter[i].batch # None => inter[i] # NoInter
  BY DEF LifecycleTypeOK, NoInter

LEMMA KeepInter ==
  ASSUME LifecycleTypeOK, inter' = inter
  PROVE  InterStep
  BY DEF InterStep, LifecycleTypeOK

LEMMA FinalizeStep ==
  ASSUME LifecycleTypeOK, NEW roots \in SUBSET Run, NEW target,
         inter' = FinalizeRows(roots, target)
  PROVE  InterStep
<1>1. \A i \in Inter : inter[i].root \in roots =>
        Advanced(inter[i], FinalizeRow(inter[i], target))
  BY RowFacts, FinalizeRowAdvances, StatusesApart
<1>2. inter' \in [Inter -> InterRow]
  BY <1>1, RowFacts DEF FinalizeRows, Advanced
<1>3. QED BY <1>1, <1>2 DEF FinalizeRows, InterStep

LEMMA ReleaseStep ==
  ASSUME LifecycleTypeOK, NEW rows, \A i \in rows \cap Inter : inter[i].status = "resuming",
         inter' = ReleaseRows(rows)
  PROVE  InterStep
<1>1. \A i \in Inter : i \in rows => Advanced(inter[i], Unclaimed(inter[i], "resolved"))
  <2> TAKE i \in Inter
  <2> HAVE i \in rows
  <2>1. inter[i] \in InterRow /\ inter[i] # NoInter /\ inter[i].status = "resuming"
    BY RowFacts
  <2>2. "resolved" \in InterStatus \cap Answered
    BY DEF InterStatus, Open, Answered
  <2>3. QED BY <2>1, <2>2, UnclaimedAdvances
<1>2. inter' \in [Inter -> InterRow]
  BY <1>1, RowFacts DEF ReleaseRows, Advanced
<1>3. QED BY <1>1, <1>2 DEF ReleaseRows, InterStep

LEMMA SetStatusStep ==
  ASSUME LifecycleTypeOK, NEW runs, NEW s \in RunStatus, s # "absent",
         \A r \in runs \cap Run : run[r].status \in Active,
         run' = SetStatus(runs, s)
  PROVE  RunStep
<1>1. \A r \in Run : run[r] \in RunRow
  BY DEF LifecycleTypeOK
<1>2. \A r \in Run : run'[r] = IF r \in runs THEN [run[r] EXCEPT !.status = s] ELSE run[r]
  BY DEF SetStatus
<1>3. run' \in [Run -> RunRow]
  BY <1>1 DEF SetStatus, RunRow
<1>4. \A r \in Run : run'[r] = run[r] \/ Moved(r)
  BY <1>1, <1>2 DEF RunRow, Moved
<1>5. QED BY <1>3, <1>4 DEF RunStep

LEMMA KeepRuns ==
  ASSUME LifecycleTypeOK, run' = run
  PROVE  RunStep
  BY DEF RunStep, LifecycleTypeOK

LEMMA BegunStep ==
  ASSUME LifecycleTypeOK, NEW r \in Run, NEW l \in LeaseOwner, run[r] = NoRun,
         l = r \/ run[l].status # "absent",
         r \in RootRun => RootSlotFree,
         run' = [run EXCEPT ![r] = [status |-> "running", lease |-> l]]
  PROVE  RunStep
<1>1. [status |-> "running", lease |-> l] \in RunRow
  BY DEF RunRow, RunStatus, Active
<1>2. run \in [Run -> RunRow]
  BY DEF LifecycleTypeOK
<1>3. run' \in [Run -> RunRow]
  BY <1>1, <1>2
<1>4. Begun(r)
  BY <1>2, StatusesApart DEF Begun
<1>5. QED BY <1>3, <1>4 DEF RunStep

LEMMA StartedKept ==
  ASSUME LifecycleTypeOK, RunStep, NEW r \in Run, run[r].status # "absent"
  PROVE  run'[r].status # "absent" /\ run'[r].lease = run[r].lease
<1>1. CASE \A q \in Run : run'[q] = run[q] \/ Moved(q)
  BY <1>1 DEF Moved
<1>2. CASE \E q \in Run : Begun(q)
  BY <1>2 DEF Begun, NoRun
<1>3. QED BY <1>1, <1>2 DEF RunStep

\* An executor that is live is of a run that was started.
LEMMA LiveRun ==
  ASSUME LifecycleTypeOK, NEW e \in Exec, exec[e].pc # "off"
  PROVE  /\ exec[e].run \in Run /\ run[exec[e].run].status # "absent"
         /\ run[exec[e].run].lease \in LeaseOwner
         /\ run[run[exec[e].run].lease].status # "absent"
<1>1. exec[e].run \in Run /\ run[exec[e].run].status # "absent"
  BY DEF LifecycleTypeOK, LiveExec, ExecRow
<1>2. run[exec[e].run] \in RunRow
  BY <1>1 DEF LifecycleTypeOK
<1>3. QED BY <1>1, <1>2 DEF LifecycleTypeOK, RunRow

LEMMA ExecsKept ==
  ASSUME LifecycleTypeOK, RunStep, exec' \in [Exec -> ExecRow],
         \A e \in Exec : /\ exec'[e].run = exec[e].run /\ exec'[e].parent = exec[e].parent
                         /\ exec'[e].pc = "off" <=> exec[e].pc = "off"
  PROVE  ExecStep
<1>1. \A e \in Exec : exec'[e].pc # "off" => exec'[e].run # None /\ run'[exec'[e].run].status # "absent"
  <2> TAKE e \in Exec
  <2> HAVE exec'[e].pc # "off"
  <2>1. exec[e].pc # "off" /\ exec'[e].run = exec[e].run
    OBVIOUS
  <2>2. QED BY <2>1, LiveRun, StartedKept, StatusesApart
<1>2. \A e \in Exec : exec'[e].parent # None => exec'[exec'[e].parent].pc # "off"
  BY DEF LifecycleTypeOK, ExecRow, LiveExec
<1>3. QED BY <1>1, <1>2 DEF ExecStep

LEMMA KeepExec ==
  ASSUME LifecycleTypeOK, RunStep, exec' = exec
  PROVE  ExecStep
  BY ExecsKept DEF LifecycleTypeOK

LEMMA BeginStep ==
  ASSUME LifecycleTypeOK, RunStep, NEW e \in Exec, NEW r \in Run, NEW f \in Exec \cup {None},
         run'[r].status # "absent", f # None => exec[f].pc # "off", Begin(e, r, f)
  PROVE  ExecStep
<1> DEFINE row == [run |-> r, pc |-> "live", waits |-> {}, parent |-> f]
<1>1. row \in ExecRow /\ row.run = r /\ row.parent = f /\ row.pc = "live"
  BY DEF ExecRow
<1>2. exec \in [Exec -> ExecRow] /\ exec' = [exec EXCEPT ![e] = row]
  BY DEF LifecycleTypeOK, Begin
<1> HIDE DEF row
<1>3. exec' \in [Exec -> ExecRow]
  BY <1>1, <1>2
<1>4. \A x \in Exec : exec'[x].pc # "off" => exec'[x].run # None /\ run'[exec'[x].run].status # "absent"
  <2> TAKE x \in Exec
  <2>1. CASE x = e
    BY <1>1, <1>2, <2>1, StatusesApart
  <2>2. CASE x # e
    BY <1>2, <2>2, LiveRun, StartedKept, StatusesApart
  <2>3. QED BY <2>1, <2>2
<1>5. \A x \in Exec : exec'[x].parent # None => exec'[exec'[x].parent].pc # "off"
  <2>1. \A x \in Exec : exec[x].pc # "off" => exec'[x].pc # "off"
    BY <1>1, <1>2
  <2>2. \A x \in Exec : /\ exec[x].parent \in Exec \cup {None}
                        /\ exec[x].parent # None => exec[exec[x].parent].pc # "off"
    BY DEF LifecycleTypeOK, LiveExec, ExecRow
  <2>3. \A x \in Exec : exec'[x].parent = IF x = e THEN f ELSE exec[x].parent
    BY <1>1, <1>2
  <2>4. QED BY <2>1, <2>2, <2>3
<1>6. QED BY <1>3, <1>4, <1>5 DEF ExecStep

LEMMA KeepResume ==
  ASSUME LifecycleTypeOK, resume' = resume
  PROVE  ResumeStep
  BY DEF LifecycleTypeOK, ResumeStep

LEMMA KeepCounters ==
  ASSUME LifecycleTypeOK
  PROVE  retry \in SUBSET Batch /\ crashes \in 0..MaxCrashes
  BY DEF LifecycleTypeOK

LEMMA ResumeSet ==
  ASSUME LifecycleTypeOK, NEW p \in Proc, NEW row \in ResumeRow,
         row.pc # "off" => row.batch # None, resume' = [resume EXCEPT ![p] = row]
  PROVE  ResumeStep
<1>1. resume \in [Proc -> ResumeRow]
  BY DEF LifecycleTypeOK
<1>2. \A q \in Proc : resume'[q] = IF q = p THEN row ELSE resume[q]
  BY <1>1
<1>3. QED BY <1>1, <1>2 DEF LifecycleTypeOK, ResumeStep

LEMMA ResumeMoves ==
  ASSUME LifecycleTypeOK, NEW p \in Proc, resume[p].pc # "off",
         NEW pc \in {"claim", "attach", "start", "rollback"}, Step(p, pc)
  PROVE  ResumeStep
<1> DEFINE row == [resume[p] EXCEPT !.pc = pc]
<1>1. resume[p] \in ResumeRow /\ resume[p].batch # None
  BY DEF LifecycleTypeOK
<1>2. row \in ResumeRow /\ row.batch # None
  BY <1>1 DEF ResumeRow
<1>3. resume' = [resume EXCEPT ![p] = row]
  BY DEF Step
<1> HIDE DEF row
<1>4. QED BY <1>2, <1>3, ResumeSet

LEMMA ResumeRests ==
  ASSUME LifecycleTypeOK, NEW p \in Proc, Rest(p)
  PROVE  ResumeStep
<1>1. Resting \in ResumeRow /\ Resting.pc = "off"
  BY DEF Resting, ResumeRow
<1>2. QED BY <1>1, ResumeSet DEF Rest

-----------------------------------------------------------------------------
(* The actions that start runs and executors.                              *)

LEMMA StartRootEffect ==
  ASSUME LifecycleTypeOK, NEW r \in RootRun, NEW e \in Exec, StartRoot(r, e)
  PROVE  Effect
<1>1. r \in Run /\ r \in LeaseOwner
  BY DEF Run, LeaseOwner
<1>2. RunStep
  BY <1>1, BegunStep DEF StartRoot
<1>3. run'[r].status # "absent"
  BY <1>1 DEF StartRoot, LifecycleTypeOK
<1>4. ExecStep
  BY <1>1, <1>2, <1>3, BeginStep DEF StartRoot
<1>5. QED BY <1>2, <1>4, KeepInter, KeepResume, KeepCounters DEF StartRoot, Effect

LEMMA StartDetachedEffect ==
  ASSUME LifecycleTypeOK, NEW d \in DetachedRun, NEW e \in Exec, NEW f \in Exec, StartDetached(d, e, f)
  PROVE  Effect
<1>1. d \in Run /\ d \in LeaseOwner /\ d \notin RootRun
  BY DEF Run, LeaseOwner
<1>2. RunStep
  BY <1>1, BegunStep DEF StartDetached
<1>3. run'[d].status # "absent"
  BY <1>1 DEF StartDetached, LifecycleTypeOK
<1>4. ExecStep
  BY <1>1, <1>2, <1>3, BeginStep DEF StartDetached, Delegates
<1>5. QED BY <1>2, <1>4, KeepInter, KeepResume, KeepCounters DEF StartDetached, Effect

LEMMA StartChildEffect ==
  ASSUME LifecycleTypeOK, NEW k \in ChildRun, NEW e \in Exec, NEW f \in Exec, StartChild(k, e, f)
  PROVE  Effect
<1>1. k \in Run /\ k \notin RootRun
  BY DEF Run, LeaseOwner
<1> DEFINE l == run[exec[f].run].lease
<1>2. exec[f].pc # "off"
  BY DEF StartChild, Delegates
<1>3. l \in LeaseOwner /\ run[l].status # "absent"
  BY <1>2, LiveRun
<1>4. run[k] = NoRun /\ run' = [run EXCEPT ![k] = [status |-> "running", lease |-> l]]
  BY DEF StartChild
<1> HIDE DEF l
<1>5. RunStep
  BY <1>1, <1>3, <1>4, BegunStep
<1>6. run'[k].status # "absent"
  BY <1>1, <1>4 DEF LifecycleTypeOK
<1>7. ExecStep
  BY <1>1, <1>5, <1>6, BeginStep DEF StartChild, Delegates
<1>8. QED BY <1>5, <1>7, KeepInter, KeepResume, KeepCounters DEF StartChild, Effect

LEMMA ResumeChildEffect ==
  ASSUME LifecycleTypeOK, NEW k \in ChildRun, NEW e \in Exec, NEW f \in Exec, ResumeChild(k, e, f)
  PROVE  Effect
<1>1. k \in Run /\ run[k].status = "suspended"
  BY DEF Run, ResumeChild
<1>2. run' = SetStatus({k}, "running")
  BY DEF ResumeChild, SetStatus, LifecycleTypeOK
<1>3. RunStep
  BY <1>1, <1>2, SetStatusStep DEF Active, RunStatus
<1>4. run'[k].status # "absent"
  BY <1>1, <1>3, StartedKept
<1>5. ExecStep
  BY <1>1, <1>3, <1>4, BeginStep DEF ResumeChild, Delegates
<1>6. QED BY <1>3, <1>5, KeepInter, KeepResume, KeepCounters DEF ResumeChild, Effect

LEMMA StartsEffect ==
  ASSUME LifecycleTypeOK, NEW e \in Exec, Starts(e)
  PROVE  Effect
  BY StartRootEffect, StartDetachedEffect, StartChildEffect, ResumeChildEffect DEF Starts

-----------------------------------------------------------------------------
(* The actions on interactions.                                            *)

LEMMA AskEffect ==
  ASSUME LifecycleTypeOK, NEW e \in Exec, NEW i \in Inter, NEW b \in Batch, Ask(e, i, b)
  PROVE  Effect
<1> DEFINE r == exec[e].run
           l == run[r].lease
           row == [NoInter EXCEPT !.status = "waiting", !.run = r, !.root = l, !.batch = b]
<1>1. r \in Run /\ l \in LeaseOwner /\ run[l].status # "absent"
  BY LiveRun DEF Ask
<1>2. inter[i] = NoInter /\ inter' = [inter EXCEPT ![i] = row]
  BY DEF Ask
<1> HIDE DEF r, l
<1>3. row \in InterRow /\ row.status = "waiting" /\ row.root = l /\ row.batch = b
  BY <1>1 DEF NoInter, InterRow, InterStatus, Open
<1> HIDE DEF row
<1>4. InterStep
  <2>1. inter \in [Inter -> InterRow]
    BY DEF LifecycleTypeOK
  <2>2. inter' \in [Inter -> InterRow]
    BY <1>2, <1>3, <2>1
  <2>3. b # None /\ l # None
    BY <1>1, StatusesApart
  <2>4. Recorded(i)
    BY <1>1, <1>2, <1>3, <2>1, <2>3 DEF Recorded
  <2>5. QED BY <1>2, <2>1, <2>2, <2>4 DEF InterStep
<1>5. RunStep
  BY KeepRuns DEF Ask
<1>6. exec \in [Exec -> ExecRow] /\ exec' = [exec EXCEPT ![e].waits = @ \cup {i}]
  BY DEF Ask, LifecycleTypeOK
<1>7. /\ exec' \in [Exec -> ExecRow]
      /\ \A f \in Exec : exec'[f].pc = exec[f].pc /\ exec'[f].run = exec[f].run /\ exec'[f].parent = exec[f].parent
  BY <1>6 DEF ExecRow
<1>8. ExecStep
  BY <1>5, <1>7, ExecsKept
<1>9. QED BY <1>4, <1>5, <1>8, KeepResume, KeepCounters DEF Ask, Effect

LEMMA WakeStep ==
  ASSUME LifecycleTypeOK, RunStep, NEW i, exec' = Wake(i)
  PROVE  ExecStep
<1>1. exec \in [Exec -> ExecRow]
  BY DEF LifecycleTypeOK
<1>2. /\ exec' \in [Exec -> ExecRow]
      /\ \A f \in Exec : exec'[f].pc = exec[f].pc /\ exec'[f].run = exec[f].run /\ exec'[f].parent = exec[f].parent
  BY <1>1 DEF Wake, ExecRow
<1>3. QED BY <1>2, ExecsKept

LEMMA AnswerEffect ==
  ASSUME LifecycleTypeOK, NEW p \in Proc, NEW i \in Inter, Answer(p, i)
  PROVE  Effect
<1>1. RunStep
  BY KeepRuns DEF Answer
<1>2. inter[i].status \in Unanswered /\ inter' = [inter EXCEPT ![i].status = "resolved"]
  BY DEF Answer
<1>3. inter[i] \in InterRow /\ inter[i] # NoInter /\ inter[i].batch \in Batch
  <2>1. inter[i].status # "absent"
    BY <1>2 DEF Unanswered
  <2>2. QED BY <2>1, RowFacts DEF InterRow
<1>4. InterStep
  <2>1. inter \in [Inter -> InterRow]
    BY DEF LifecycleTypeOK
  <2>2. Advanced(inter[i], [inter[i] EXCEPT !.status = "resolved"])
    BY <1>2, <1>3 DEF Advanced, InterRow, InterStatus, Open, Unanswered, Answered
  <2>3. \A k \in Inter : inter'[k] = IF k = i THEN [inter[i] EXCEPT !.status = "resolved"] ELSE inter[k]
    BY <1>2, <2>1
  <2>4. inter' \in [Inter -> InterRow]
    BY <1>2, <2>1, <2>2 DEF Advanced
  <2>5. QED BY <2>2, <2>3, <2>4 DEF InterStep
<1> DEFINE row == [pc |-> "recover", batch |-> inter[i].batch, answered |-> i]
<1>5. row \in ResumeRow /\ row.batch # None
  BY <1>3 DEF ResumeRow
<1>6. ExecStep /\ ResumeStep
  <2>1. \/ resume' = [resume EXCEPT ![p] = row] /\ exec' = exec
        \/ exec' = Wake(i) /\ resume' = resume
    BY DEF Answer
  <2> HIDE DEF row
  <2>2. QED BY <1>1, <1>5, <2>1, ResumeSet, KeepExec, WakeStep, KeepResume
<1>7. QED BY <1>1, <1>4, <1>6, KeepCounters DEF Answer, Effect

LEMMA ResumeBegins ==
  ASSUME LifecycleTypeOK, NEW p \in Proc, NEW b \in Batch,
         resume' = [resume EXCEPT ![p] = [Resting EXCEPT !.pc = "recover", !.batch = b]]
  PROVE  ResumeStep
<1> DEFINE row == [Resting EXCEPT !.pc = "recover", !.batch = b]
<1>1. row \in ResumeRow /\ row.batch # None
  BY DEF Resting, ResumeRow
<1> HIDE DEF row
<1>2. QED BY <1>1, ResumeSet DEF row

LEMMA AskResumeEffect ==
  ASSUME LifecycleTypeOK, NEW p \in Proc, NEW b \in Batch, AskResume(p, b)
  PROVE  Effect
<1>1. RunStep
  BY KeepRuns DEF AskResume
<1>2. ResumeStep
  BY ResumeBegins DEF AskResume
<1>3. QED BY <1>1, <1>2, KeepInter, KeepExec, KeepCounters DEF AskResume, Effect

LEMMA TakeRetryEffect ==
  ASSUME LifecycleTypeOK, NEW p \in Proc, NEW b \in Batch, TakeRetry(p, b)
  PROVE  Effect
<1>1. RunStep
  BY KeepRuns DEF TakeRetry
<1>2. ResumeStep
  BY ResumeBegins DEF TakeRetry
<1>3. retry' \in SUBSET Batch
  BY KeepCounters DEF TakeRetry
<1>4. QED BY <1>1, <1>2, <1>3, KeepInter, KeepExec, KeepCounters DEF TakeRetry, Effect

LEMMA TimesOutEffect ==
  ASSUME LifecycleTypeOK, NEW e \in Exec, TimesOut(e)
  PROVE  Effect
<1>1. RunStep
  BY KeepRuns DEF TimesOut
<1>2. exec \in [Exec -> ExecRow] /\ exec' = [exec EXCEPT ![e].pc = "raised"] /\ exec[e].pc # "off"
  BY DEF TimesOut, LifecycleTypeOK
<1>3. /\ exec' \in [Exec -> ExecRow]
      /\ \A f \in Exec : /\ exec'[f].run = exec[f].run /\ exec'[f].parent = exec[f].parent
                         /\ exec'[f].pc = "off" <=> exec[f].pc = "off"
  BY <1>2 DEF ExecRow
<1>4. ExecStep
  BY <1>1, <1>3, ExecsKept
<1>5. QED BY <1>1, <1>4, KeepInter, KeepResume, KeepCounters DEF TimesOut, Effect

-----------------------------------------------------------------------------
(* The actions that end runs and executors.                                *)

LEMMA GoneStep ==
  ASSUME LifecycleTypeOK, RunStep, NEW e \in Exec, NEW roots, NEW raise,
         ExecutorGone(e, roots, raise)
  PROVE  ExecStep
<1> DEFINE row(f) == [exec[f] EXCEPT
           !.pc = IF raise /\ f = exec[e].parent THEN "raised" ELSE @,
           !.parent = IF @ = e THEN None ELSE @,
           !.waits = IF LiveExec(f) /\ run[exec[f].run].lease \in roots THEN {} ELSE @]
<1>1. /\ exec \in [Exec -> ExecRow] /\ NoExec \in ExecRow
      /\ \A f \in Exec : exec[f].parent # None => exec[exec[f].parent].pc # "off"
  BY DEF LifecycleTypeOK, NoExec, ExecRow, LiveExec
<1>2. \A f \in Exec :
        /\ row(f) \in ExecRow /\ row(f).run = exec[f].run
        /\ row(f).parent = IF exec[f].parent = e THEN None ELSE exec[f].parent
        /\ row(f).pc = "off" <=> exec[f].pc = "off"
  <2> TAKE f \in Exec
  <2>1. exec[f] \in ExecRow
    BY <1>1
  <2>2. f = exec[e].parent => exec[f].pc # "off"
    BY <1>1
  <2>3. QED BY <2>1, <2>2 DEF ExecRow
<1>3. exec' = [f \in Exec |-> IF f = e THEN NoExec ELSE row(f)]
  BY DEF ExecutorGone
<1> HIDE DEF row
<1>4. exec' \in [Exec -> ExecRow]
  BY <1>1, <1>2, <1>3
<1>5. \A f \in Exec : exec'[f].pc # "off" => exec'[f].run # None /\ run'[exec'[f].run].status # "absent"
  <2> TAKE f \in Exec
  <2> HAVE exec'[f].pc # "off"
  <2>1. exec[f].pc # "off" /\ exec'[f].run = exec[f].run
    BY <1>2, <1>3 DEF NoExec
  <2>2. QED BY <2>1, LiveRun, StartedKept, StatusesApart
<1>6. \A f \in Exec : exec'[f].parent # None => exec'[exec'[f].parent].pc # "off"
  <2> TAKE f \in Exec
  <2> HAVE exec'[f].parent # None
  <2>1. f # e /\ exec'[f].parent = exec[f].parent /\ exec[f].parent # e /\ exec[f].parent # None
    BY <1>2, <1>3 DEF NoExec
  <2>2. exec[f].parent \in Exec /\ exec[exec[f].parent].pc # "off"
    BY <1>1, <2>1 DEF ExecRow
  <2>3. QED BY <1>2, <1>3, <2>1, <2>2
<1>7. QED BY <1>4, <1>5, <1>6 DEF ExecStep

LEMMA ConflictEffect ==
  ASSUME LifecycleTypeOK, NEW e \in Exec, Conflict(e), UNCHANGED <<resume, crashes>>
  PROVE  Effect
<1>1. RunStep
  BY KeepRuns DEF Conflict
<1>2. ExecStep
  BY <1>1, GoneStep DEF Conflict
<1>3. QED BY <1>1, <1>2, KeepInter, KeepResume, KeepCounters DEF Conflict, Effect

LEMMA SuspendEffect ==
  ASSUME LifecycleTypeOK, NEW e \in Exec, Suspend(e)
  PROVE  Effect
<1> DEFINE r == exec[e].run
<1>1. r \in Run /\ run[r].status # "absent"
  BY LiveRun DEF Suspend
<1>2. CASE ~Finalizable(r, "suspended")
  BY <1>2, ConflictEffect DEF Suspend
<1>3. CASE Finalizable(r, "suspended")
  <2>1. /\ run' = SetStatus({r}, "suspended")
        /\ inter' = IF r \in LeaseOwner THEN FinalizeRows({r}, "suspended") ELSE inter
        /\ retry' = IF r \in LeaseOwner THEN retry \cup ReadyBatches(r) ELSE retry
        /\ ExecutorGone(e, {r} \cap LeaseOwner, r \in ChildRun)
        /\ UNCHANGED <<resume, crashes>>
    BY <1>3 DEF Suspend
  <2>2. RunStep
    BY <1>1, <1>3, <2>1, SetStatusStep DEF Finalizable, Active, RunStatus
  <2>3. InterStep
    BY <1>1, <2>1, FinalizeStep, KeepInter
  <2>4. ExecStep
    BY <2>1, <2>2, GoneStep
  <2>5. retry' \in SUBSET Batch
    BY <2>1, KeepCounters DEF ReadyBatches
  <2>6. QED BY <2>1, <2>2, <2>3, <2>4, <2>5, KeepResume, KeepCounters DEF Effect
<1>4. QED BY <1>2, <1>3

LEMMA TerminalStep ==
  ASSUME LifecycleTypeOK, NEW r \in Run, NEW s \in Terminal, run' = TerminalRuns(r, s)
  PROVE  RunStep
<1>1. \A q \in Run : run[q] \in RunRow
  BY DEF LifecycleTypeOK
<1>2. \A q \in Run :
        \/ run'[q] = run[q]
        \/ run[q].status \in Active /\ \E t \in Terminal : run'[q] = [run[q] EXCEPT !.status = t]
  BY DEF TerminalRuns, Cascade, Terminal
<1>3. \A q \in Run : run'[q] \in RunRow /\ (run'[q] = run[q] \/ Moved(q))
  <2> TAKE q \in Run
  <2>1. CASE run'[q] = run[q]
    BY <1>1, <2>1
  <2>2. ASSUME run[q].status \in Active, NEW t \in Terminal, run'[q] = [run[q] EXCEPT !.status = t]
        PROVE  run'[q] \in RunRow /\ Moved(q)
    <3>1. run[q] \in RunRow /\ t \in RunStatus /\ t # "absent"
      BY <1>1, StatusesApart
    <3>2. QED BY <2>2, <3>1 DEF RunRow, Moved
  <2>3. QED BY <1>2, <2>1, <2>2
<1>4. run' \in [Run -> RunRow]
  BY <1>3 DEF TerminalRuns
<1>5. QED BY <1>3, <1>4 DEF RunStep

LEMMA EndEffect ==
  ASSUME LifecycleTypeOK, NEW e \in Exec, NEW s \in Terminal, End(e, s)
  PROVE  Effect
<1> DEFINE r == exec[e].run
<1>1. r \in Run /\ run[r].status # "absent"
  BY LiveRun DEF End
<1>2. CASE ~Finalizable(r, s)
  BY <1>2, ConflictEffect DEF End
<1>3. CASE Finalizable(r, s)
  <2>1. /\ run' = TerminalRuns(r, s)
        /\ inter' = IF r \in LeaseOwner THEN FinalizeRows({r}, s) ELSE inter
        /\ ExecutorGone(e, {r} \cap LeaseOwner, FALSE)
        /\ UNCHANGED <<retry, resume, crashes>>
    BY <1>3 DEF End
  <2>2. RunStep
    BY <1>1, <2>1, TerminalStep
  <2>3. InterStep
    BY <1>1, <2>1, FinalizeStep, KeepInter
  <2>4. ExecStep
    BY <2>1, <2>2, GoneStep
  <2>5. QED BY <2>1, <2>2, <2>3, <2>4, KeepResume, KeepCounters DEF Effect
<1>4. QED BY <1>2, <1>3

LEMMA StopEffect ==
  ASSUME LifecycleTypeOK, NEW e \in Exec, Stop(e)
  PROVE  Effect
<1>1. RunStep
  BY KeepRuns DEF Stop
<1>2. exec \in [Exec -> ExecRow] /\ exec[e].pc # "off"
  BY DEF Stop, LifecycleTypeOK
<1> DEFINE new(f) == [exec[f] EXCEPT !.pc = "aborted", !.waits = {}]
<1>3. \A f \in Exec : exec'[f] = exec[f] \/ (exec[f].pc # "off" /\ exec'[f] = new(f))
  BY <1>2 DEF Stop
<1>4. \A f \in Exec : /\ new(f) \in ExecRow /\ new(f).pc # "off"
                      /\ new(f).run = exec[f].run /\ new(f).parent = exec[f].parent
  BY <1>2 DEF ExecRow
<1> HIDE DEF new
<1>5. exec' \in [Exec -> ExecRow]
  BY <1>2, <1>3, <1>4 DEF Stop
<1>6. \A f \in Exec : /\ exec'[f].run = exec[f].run /\ exec'[f].parent = exec[f].parent
                      /\ exec'[f].pc = "off" <=> exec[f].pc = "off"
  BY <1>3, <1>4
<1>7. ExecStep
  BY <1>1, <1>5, <1>6, ExecsKept
<1>8. QED BY <1>1, <1>7, KeepInter, KeepResume, KeepCounters DEF Stop, Effect

LEMMA InterruptEffect ==
  ASSUME LifecycleTypeOK, InterruptSession
  PROVE  Effect
<1> DEFINE open == {r \in Run : run[r].status \in Active}
<1>1. /\ run' = SetStatus(open, "interrupted") /\ inter' = FinalizeRows(open, "interrupted")
      /\ exec' = [e \in Exec |-> [exec[e] EXCEPT !.waits = {}]]
      /\ UNCHANGED <<resume, retry, crashes>>
  BY DEF InterruptSession
<1>2. RunStep
  BY <1>1, SetStatusStep DEF RunStatus, Terminal
<1>3. InterStep
  BY <1>1, FinalizeStep
<1>4. exec \in [Exec -> ExecRow]
  BY DEF LifecycleTypeOK
<1>5. /\ exec' \in [Exec -> ExecRow]
      /\ \A f \in Exec : exec'[f].pc = exec[f].pc /\ exec'[f].run = exec[f].run /\ exec'[f].parent = exec[f].parent
  BY <1>1, <1>4 DEF ExecRow
<1>6. ExecStep
  BY <1>2, <1>5, ExecsKept
<1>7. QED BY <1>1, <1>2, <1>3, <1>6, KeepResume, KeepCounters DEF Effect

-----------------------------------------------------------------------------
(* tryResume.                                                              *)

LEMMA RecoverEffect ==
  ASSUME LifecycleTypeOK, NEW p \in Proc, Recover(p)
  PROVE  Effect
<1> DEFINE lapsed == {i \in Inter : inter[i].status = "resuming" /\ inter[i].lapsed}
           roots == {r \in LeaseOwner : r \in {inter[i].root : i \in lapsed}}
           back == {r \in roots : run[r].status = "running"}
           new(i) == IF inter[i].root \in back
                     THEN IF i \in lapsed THEN Unclaimed(inter[i], "resolved") ELSE inter[i]
                     ELSE IF inter[i].root \in roots
                          THEN FinalizeRow(inter[i], run[inter[i].root].status)
                          ELSE inter[i]
<1>1. inter' = [i \in Inter |-> new(i)] /\ run' = SetStatus(back, "suspended")
  BY DEF Recover
<1>2. RunStep
  BY <1>1, SetStatusStep DEF Active, RunStatus
<1>3. \A i \in Inter : new(i) = inter[i] \/ Advanced(inter[i], new(i))
  <2> TAKE i \in Inter
  <2>1. CASE inter[i].root \in back /\ i \in lapsed
    <3>1. inter[i] \in InterRow /\ inter[i] # NoInter /\ inter[i].status = "resuming"
      BY <2>1, RowFacts
    <3>2. "resolved" \in InterStatus \cap Answered
      BY DEF InterStatus, Open, Answered
    <3>3. Advanced(inter[i], Unclaimed(inter[i], "resolved"))
      BY <3>1, <3>2, UnclaimedAdvances
    <3>4. QED BY <2>1, <3>3
  <2>2. CASE inter[i].root \notin back /\ inter[i].root \in roots
    <3>1. inter[i] \in InterRow /\ inter[i] # NoInter /\ inter[i].status # "absent"
      BY <2>2, RowFacts, StatusesApart
    <3>2. Advanced(inter[i], FinalizeRow(inter[i], run[inter[i].root].status))
      BY <3>1, FinalizeRowAdvances
    <3>3. QED BY <2>2, <3>2
  <2>3. QED BY <2>1, <2>2
<1>4. InterStep
  <2> HIDE DEF new
  <2>1. \A i \in Inter : new(i) \in InterRow
    BY <1>3, RowFacts DEF Advanced
  <2>2. QED BY <1>1, <1>3, <2>1 DEF InterStep
<1>5. ResumeStep
  BY ResumeMoves DEF Recover
<1>6. ExecStep
  BY <1>2, KeepExec DEF Recover
<1>7. QED BY <1>2, <1>4, <1>5, <1>6, KeepCounters DEF Recover, Effect

LEMMA ClaimEffect ==
  ASSUME LifecycleTypeOK, NEW p \in Proc, Claim(p)
  PROVE  Effect
<1> DEFINE b == resume[p].batch
<1>1. b \in Batch
  BY DEF Claim, LifecycleTypeOK, ResumeRow
<1>2. PICK r \in RootOf(b) : Claimable(b, r) /\ ClaimBatch(p, b, r)
  BY DEF Claim
<1> HIDE DEF b
<1>3. \A i \in Rows(b) : i \in Inter /\ inter[i] \in InterRow /\ inter[i] # NoInter /\ inter[i].status = "resolved"
  BY <1>1, <1>2, RowFacts DEF Claimable, Ready, Rows
<1>4. r \in Run
  BY <1>2, <1>3, RowFacts, StatusesApart DEF RootOf, InterRow
<1>5. RunStep
  <2>1. run' = SetStatus({r}, "running")
    BY <1>2, <1>4 DEF ClaimBatch, SetStatus, LifecycleTypeOK
  <2>2. QED BY <1>2, <2>1, SetStatusStep DEF Claimable, Active, RunStatus
<1>6. InterStep
  <2> DEFINE new(i) == [inter[i] EXCEPT !.status = "resuming", !.claim = p]
  <2>1. \A i \in Rows(b) : Advanced(inter[i], new(i))
    <3> TAKE i \in Rows(b)
    <3>1. /\ inter[i] \in InterRow /\ inter[i] # NoInter /\ inter[i].status = "resolved"
          /\ "resuming" \in InterStatus \cap Answered
      BY <1>3 DEF InterStatus, Open, Answered
    <3>2. new(i) \in InterRow
      BY <3>1 DEF InterRow
    <3>3. QED BY <3>1, <3>2 DEF Advanced, InterRow, Answered
  <2>2. inter' = [i \in Inter |-> IF i \in Rows(b) THEN new(i) ELSE inter[i]]
    BY <1>2 DEF ClaimBatch
  <2> HIDE DEF new
  <2>3. inter' \in [Inter -> InterRow]
    BY <2>1, <2>2, RowFacts DEF Advanced
  <2>4. QED BY <2>1, <2>2, <2>3 DEF InterStep
<1>7. ResumeStep
  BY ResumeMoves DEF Claim
<1>8. ExecStep
  BY <1>5, KeepExec DEF Claim
<1>9. QED BY <1>5, <1>6, <1>7, <1>8, KeepCounters DEF Claim, Effect

LEMMA ClaimRefusedEffect ==
  ASSUME LifecycleTypeOK, NEW p \in Proc, ClaimRefused(p)
  PROVE  Effect
<1>1. RunStep
  BY KeepRuns DEF ClaimRefused
<1>2. ExecStep
  BY <1>1, KeepExec, WakeStep DEF ClaimRefused
<1>3. ResumeStep
  BY ResumeRests DEF ClaimRefused
<1>4. QED BY <1>1, <1>2, <1>3, KeepInter, KeepCounters DEF ClaimRefused, Effect

LEMMA AttachEffect ==
  ASSUME LifecycleTypeOK, NEW p \in Proc, Attach(p)
  PROVE  Effect
<1>1. RunStep
  BY KeepRuns DEF Attach
<1>2. InterStep
  BY ReleaseStep, KeepInter DEF Attach, Held
<1>3. ResumeStep
  BY ResumeMoves DEF Attach
<1>4. ExecStep
  BY <1>1, KeepExec DEF Attach
<1>5. QED BY <1>1, <1>2, <1>3, <1>4, KeepCounters DEF Attach, Effect

LEMMA StartEffect ==
  ASSUME LifecycleTypeOK, NEW p \in Proc, NEW e \in Exec, Start(p, e)
  PROVE  Effect
<1>1. RunStep
  BY KeepRuns DEF Start
<1>2. resume[p].batch \in Batch
  BY DEF Start, LifecycleTypeOK, ResumeRow
<1>3. PICK r \in RootOf(resume[p].batch) : Begin(e, r, None)
  BY DEF Start
<1>4. r \in Run /\ run'[r].status # "absent"
  BY <1>2, RowFacts, StatusesApart DEF RootOf, Rows, InterRow, Start
<1>5. ExecStep
  BY <1>1, <1>3, <1>4, BeginStep
<1>6. ResumeStep
  BY ResumeRests DEF Start
<1>7. QED BY <1>1, <1>5, <1>6, KeepInter, KeepCounters DEF Start, Effect

LEMMA StartFailedEffect ==
  ASSUME LifecycleTypeOK, NEW p \in Proc, StartFailed(p)
  PROVE  Effect
<1>1. RunStep
  BY KeepRuns DEF StartFailed
<1>2. ResumeStep
  BY ResumeMoves DEF StartFailed
<1>3. QED BY <1>1, <1>2, KeepInter, KeepExec, KeepCounters DEF StartFailed, Effect

LEMMA RollbackEffect ==
  ASSUME LifecycleTypeOK, NEW p \in Proc, Rollback(p)
  PROVE  Effect
<1> DEFINE b == resume[p].batch
           undo == {r \in RootOf(b) : run[r].status = "running" /\ (Held(p) # {} \/ Ready(b))}
<1>1. run' = SetStatus(undo, "suspended") /\ inter' = IF undo = {} THEN inter ELSE ReleaseRows(Held(p))
  BY DEF Rollback
<1>2. RunStep
  BY <1>1, SetStatusStep DEF Active, RunStatus
<1>3. InterStep
  BY <1>1, ReleaseStep, KeepInter DEF Held
<1>4. ResumeStep
  BY ResumeRests DEF Rollback
<1>5. ExecStep
  BY <1>2, KeepExec DEF Rollback
<1>6. QED BY <1>2, <1>3, <1>4, <1>5, KeepCounters DEF Rollback, Effect

LEMMA LapseEffect ==
  ASSUME LifecycleTypeOK, NEW p \in Proc, LeaseLapses(p)
  PROVE  Effect
<1>1. RunStep
  BY KeepRuns DEF LeaseLapses
<1>2. InterStep
  <2> DEFINE new(i) == [inter[i] EXCEPT !.lapsed = TRUE]
  <2>1. inter' = [i \in Inter |-> IF i \in Held(p) THEN new(i) ELSE inter[i]]
    BY DEF LeaseLapses
  <2>2. \A i \in Inter : i \in Held(p) => Advanced(inter[i], new(i))
    BY RowFacts DEF Held, Advanced, InterRow, Answered
  <2> HIDE DEF new
  <2>3. inter' \in [Inter -> InterRow]
    BY <2>1, <2>2, RowFacts DEF Advanced
  <2>4. QED BY <2>1, <2>2, <2>3 DEF InterStep
<1>3. QED BY <1>1, <1>2, KeepExec, KeepResume, KeepCounters DEF LeaseLapses, Effect

LEMMA TryResumeEffect ==
  ASSUME LifecycleTypeOK, NEW p \in Proc, TryResume(p)
  PROVE  Effect
  BY RecoverEffect, ClaimEffect, ClaimRefusedEffect, AttachEffect, StartEffect, StartFailedEffect,
     RollbackEffect DEF TryResume

-----------------------------------------------------------------------------
(* The process stops.                                                      *)

LEMMA CrashEffect ==
  ASSUME LifecycleTypeOK, Crash
  PROVE  Effect
<1>1. RunStep
  <2>1. \A q \in Run : run[q] \in RunRow
    BY DEF LifecycleTypeOK
  <2>2. \A q \in Run :
          \/ run'[q] = run[q]
          \/ run[q].status \in Active /\ \E t \in {"suspended", "interrupted"} :
               run'[q] = [run[q] EXCEPT !.status = t]
    BY DEF Crash, Active
  <2>3. \A q \in Run : run'[q] \in RunRow /\ (run'[q] = run[q] \/ Moved(q))
    <3> TAKE q \in Run
    <3>1. CASE run'[q] = run[q]
      BY <2>1, <3>1
    <3>2. ASSUME run[q].status \in Active, NEW t \in {"suspended", "interrupted"},
                 run'[q] = [run[q] EXCEPT !.status = t]
          PROVE  run'[q] \in RunRow /\ Moved(q)
      <4>1. run[q] \in RunRow /\ t \in RunStatus /\ t # "absent"
        BY <2>1 DEF RunStatus, Active, Terminal
      <4>2. QED BY <3>2, <4>1 DEF RunRow, Moved
    <3>3. QED BY <2>2, <3>1, <3>2
  <2>4. run' \in [Run -> RunRow]
    BY <2>3 DEF Crash
  <2>5. QED BY <2>3, <2>4 DEF RunStep
<1>2. InterStep
  <2> DEFINE back(s) == CASE s = "resuming" -> "resolved" [] s = "waiting" -> "suspended"
                          [] OTHER -> s
             new(i) == [inter[i] EXCEPT !.claim = None, !.lapsed = FALSE, !.status = back(@)]
  <2>1. inter' = [i \in Inter |->
          IF ~ \E r \in LeaseOwner : inter[i].root = r /\ Orphaned(r) THEN inter[i] ELSE new(i)]
    BY DEF Crash
  <2>2. \A i \in Inter : inter[i] # NoInter => Advanced(inter[i], new(i))
    <3> TAKE i \in Inter
    <3> HAVE inter[i] # NoInter
    <3>1. inter[i] \in InterRow /\ inter[i].status # "absent"
      BY RowFacts
    <3>2. /\ back(inter[i].status) \in InterStatus \ {"absent"}
          /\ inter[i].status \in Answered => back(inter[i].status) \in Answered \cup {"cancelled"}
          /\ inter[i].status \in {"consumed", "cancelled"} => back(inter[i].status) = inter[i].status
      BY <3>1 DEF InterRow, InterStatus, Open, Answered
    <3> HIDE DEF back
    <3>3. QED BY <3>1, <3>2 DEF InterRow, Advanced
  <2>3. \A i \in Inter : (\E r \in LeaseOwner : inter[i].root = r /\ Orphaned(r)) => inter[i] # NoInter
    BY RowFacts, StatusesApart
  <2> HIDE DEF new
  <2>4. inter' \in [Inter -> InterRow]
    BY <2>1, <2>2, <2>3, RowFacts DEF Advanced
  <2>5. QED BY <2>1, <2>2, <2>3, <2>4 DEF InterStep
<1>3. ExecStep
  <2>1. NoExec \in ExecRow /\ NoExec.pc = "off" /\ NoExec.parent = None
    BY DEF NoExec, ExecRow
  <2>2. exec' = [e \in Exec |-> NoExec]
    BY DEF Crash
  <2>3. QED BY <2>1, <2>2 DEF ExecStep
<1>4. ResumeStep
  <2>1. Resting \in ResumeRow /\ Resting.pc = "off"
    BY DEF Resting, ResumeRow
  <2>2. resume' = [p \in Proc |-> Resting]
    BY DEF Crash
  <2>3. QED BY <2>1, <2>2 DEF ResumeStep
<1>5. retry' \in SUBSET Batch /\ crashes' \in 0..MaxCrashes
  <2>1. crashes \in 0..MaxCrashes /\ MaxCrashes \in Nat
    BY KeepCounters
  <2>2. crashes < MaxCrashes /\ crashes' = crashes + 1 /\ retry' = {}
    BY DEF Crash
  <2>3. QED BY <2>1, <2>2
<1>6. QED BY <1>1, <1>2, <1>3, <1>4, <1>5 DEF Effect

-----------------------------------------------------------------------------
(* The theorems.                                                           *)

LEMMA NextEffect ==
  ASSUME LifecycleTypeOK, Next
  PROVE  Effect
<1>1. ASSUME NEW e \in Exec, Starts(e) \/ TimesOut(e) \/ Suspend(e) \/ Stop(e)
      PROVE  Effect
  BY <1>1, StartsEffect, TimesOutEffect, SuspendEffect, StopEffect
<1>2. ASSUME NEW e \in Exec, NEW i \in Inter, NEW b \in Batch, Ask(e, i, b)
      PROVE  Effect
  BY <1>2, AskEffect
<1>3. ASSUME NEW e \in Exec, NEW s \in Terminal, End(e, s)
      PROVE  Effect
  BY <1>3, EndEffect
<1>4. ASSUME NEW p \in Proc, TryResume(p) \/ LeaseLapses(p)
      PROVE  Effect
  BY <1>4, TryResumeEffect, LapseEffect
<1>5. ASSUME NEW p \in Proc, NEW i \in Inter, Answer(p, i)
      PROVE  Effect
  BY <1>5, AnswerEffect
<1>6. ASSUME NEW p \in Proc, NEW b \in Batch, AskResume(p, b) \/ TakeRetry(p, b)
      PROVE  Effect
  BY <1>6, AskResumeEffect, TakeRetryEffect
<1>7. QED BY <1>1, <1>2, <1>3, <1>4, <1>5, <1>6, InterruptEffect, CrashEffect DEF Next

LEMMA StutterEffect ==
  ASSUME LifecycleTypeOK, UNCHANGED vars
  PROVE  Effect
  BY KeepRuns, KeepInter, KeepExec, KeepResume, KeepCounters DEF vars, Effect

LEMMA EffectKeepsType ==
  ASSUME LifecycleTypeOK, Effect
  PROVE  LifecycleTypeOK'
<1>1. \A r \in Run : run'[r].status # "absent" =>
        run'[r].lease # None /\ run'[run'[r].lease].status # "absent"
  <2> TAKE r \in Run
  <2> HAVE run'[r].status # "absent"
  <2>1. CASE run[r].status # "absent"
    <3>1. run'[r].lease = run[r].lease /\ run[r].lease # None /\ run[run[r].lease].status # "absent"
      BY <2>1, StartedKept DEF Effect, LifecycleTypeOK
    <3>2. run[r].lease \in Run
      BY <3>1, StatusesApart DEF LifecycleTypeOK, RunRow
    <3>3. QED BY <3>1, <3>2, StartedKept DEF Effect
  <2>2. CASE run[r].status = "absent"
    <3>1. run'[r] # run[r] /\ ~Moved(r)
      BY <2>2 DEF Moved, Active
    <3>2. PICK q \in Run : Begun(q)
      BY <3>1 DEF Effect, RunStep
    <3>3. q = r
      BY <3>1, <3>2 DEF Begun
    <3>4. CASE run'[r].lease = r
      BY <3>4, StatusesApart
    <3>5. CASE run'[r].lease # None /\ run[run'[r].lease].status # "absent"
      <4>1. run'[r].lease \in Run
        BY <3>5, StatusesApart DEF Effect, RunStep, RunRow
      <4>2. QED BY <3>5, <4>1, StartedKept DEF Effect
    <3>6. QED BY <3>2, <3>3, <3>4, <3>5 DEF Begun
  <2>3. QED BY <2>1, <2>2
<1>2. \A i \in Inter : inter'[i] # NoInter =>
        /\ inter'[i].status # "absent" /\ inter'[i].batch # None /\ inter'[i].root # None
        /\ run'[inter'[i].root].status # "absent"
  <2> TAKE i \in Inter
  <2> HAVE inter'[i] # NoInter
  <2>1. /\ inter'[i].status # "absent" /\ inter'[i].batch # None /\ inter'[i].root # None
        /\ run[inter'[i].root].status # "absent"
    <3>1. CASE inter'[i] = inter[i]
      BY <3>1, RowFacts
    <3>2. CASE Advanced(inter[i], inter'[i])
      BY <3>2, RowFacts DEF Advanced
    <3>3. CASE Recorded(i)
      BY <3>3 DEF Recorded
    <3>4. QED BY <3>1, <3>2, <3>3 DEF Effect, InterStep
  <2>2. inter'[i].root \in Run
    BY <2>1, StatusesApart DEF Effect, InterStep, InterRow
  <2>3. QED BY <2>1, <2>2, StartedKept DEF Effect
<1>3. QED BY <1>1, <1>2 DEF Effect, RunStep, InterStep, ExecStep, ResumeStep, LifecycleTypeOK, LiveExec

\* A root becomes active only when none is: so there is at most one.
LEMMA EffectKeepsRoot ==
  ASSUME LifecycleInv, Effect
  PROVE  OneRootRun'
<1> SUFFICES ASSUME NEW q \in RootRun, NEW r \in RootRun,
                    run'[q].status \in Active, run'[r].status \in Active
             PROVE  q = r
  BY DEF OneRootRun, ActiveRoots
<1>1. q \in Run /\ r \in Run
  BY DEF Run, LeaseOwner
<1>2. CASE \A x \in Run : run'[x] = run[x] \/ Moved(x)
  <2>1. q \in ActiveRoots /\ r \in ActiveRoots
    BY <1>1, <1>2 DEF Moved, ActiveRoots
  <2>2. QED BY <2>1 DEF LifecycleInv, OneRootRun
<1>3. CASE \E x \in Run : Begun(x)
  <2>1. PICK x \in Run : Begun(x)
    BY <1>3
  <2>2. \A y \in Run \ {x} : run'[y] = run[y]
    BY <2>1 DEF Begun
  <2>3. CASE x \in RootRun
    <3>1. \A y \in RootRun : run[y].status \notin Active
      BY <2>1, <2>3 DEF Begun, RootSlotFree, ActiveRoots
    <3>2. QED BY <1>1, <2>2, <3>1
  <2>4. CASE x \notin RootRun
    <3>1. q \in ActiveRoots /\ r \in ActiveRoots
      BY <1>1, <2>2, <2>4 DEF ActiveRoots
    <3>2. QED BY <3>1 DEF LifecycleInv, OneRootRun
  <2>5. QED BY <2>3, <2>4
<1>4. QED BY <1>2, <1>3 DEF Effect, RunStep

LEMMA InitInv == Init => LifecycleInv
<1> SUFFICES ASSUME Init PROVE LifecycleInv
  OBVIOUS
<1>1. NoRun \in RunRow /\ NoInter \in InterRow /\ NoExec \in ExecRow /\ Resting \in ResumeRow
  BY DEF NoRun, RunRow, RunStatus, NoInter, InterRow, InterStatus, NoExec, ExecRow, Resting, ResumeRow
<1>2. LifecycleTypeOK
  BY <1>1 DEF Init, LifecycleTypeOK, NoRun, NoExec, Resting, LiveExec
<1>3. OneRootRun
  BY DEF Init, OneRootRun, ActiveRoots, NoRun, Active, Run, LeaseOwner
<1>4. QED BY <1>2, <1>3 DEF LifecycleInv

LEMMA StepInv == LifecycleInv /\ [Next]_vars => LifecycleInv'
<1> SUFFICES ASSUME LifecycleInv, [Next]_vars PROVE LifecycleInv'
  OBVIOUS
<1>1. Effect
  BY NextEffect, StutterEffect DEF LifecycleInv
<1>2. QED BY <1>1, EffectKeepsType, EffectKeepsRoot DEF LifecycleInv

\* The invariant of the run lifecycle holds in every state.
THEOREM LifecycleInvariant == Spec => []LifecycleInv
<1>1. QED BY InitInv, StepInv, PTL DEF Spec

\* Every variable keeps its type, every executor works for a run that was started,
\* and every recorded interaction belongs to one.
THEOREM LifecycleTypeCorrect == Spec => []LifecycleTypeOK
<1>1. LifecycleInv => LifecycleTypeOK
  BY DEF LifecycleInv
<1>2. QED BY <1>1, LifecycleInvariant, PTL

\* Whatever starts, resumes, rollbacks, lapsed claims, stops and crashes do, a session
\* never has two root runs that are running or suspended.
THEOREM SingleRootRun == Spec => []OneRootRun
<1>1. LifecycleInv => OneRootRun
  BY DEF LifecycleInv
<1>2. QED BY <1>1, LifecycleInvariant, PTL

\* No step revives a finished run or rewrites its outcome.
THEOREM FinishedRunsFinal == Spec => FinishedFinal
<1>1. ASSUME LifecycleInv, [Next]_vars
      PROVE  [\A r \in Run : run[r].status \in Terminal => run'[r] = run[r]]_vars
  <2>1. Effect
    BY <1>1, NextEffect, StutterEffect DEF LifecycleInv
  <2>2. \A r \in Run : run[r].status \in Terminal => ~Moved(r) /\ ~Begun(r)
    BY StatusesApart DEF Moved, Begun, NoRun
  <2>3. \A r \in Run : run[r].status \in Terminal => run'[r] = run[r]
    BY <2>1, <2>2 DEF Effect, RunStep, Begun
  <2>4. QED BY <2>3
<1>2. QED BY <1>1, LifecycleInvariant, PTL DEF Spec, FinishedFinal

\* An answer is never taken back, and what is consumed or cancelled stays so.
THEOREM AnswersKept == Spec => AnswerKept
<1>1. ASSUME LifecycleInv, [Next]_vars
      PROVE  [\A i \in Inter :
               /\ inter[i].status \in Answered => inter'[i].status \in Answered \cup {"cancelled"}
               /\ inter[i].status \in {"consumed", "cancelled"} => inter'[i].status = inter[i].status]_vars
  <2>1. Effect
    BY <1>1, NextEffect, StutterEffect DEF LifecycleInv
  <2>2. \A i \in Inter :
          /\ inter[i].status \in Answered => inter'[i].status \in Answered \cup {"cancelled"}
          /\ inter[i].status \in {"consumed", "cancelled"} => inter'[i].status = inter[i].status
    <3> TAKE i \in Inter
    <3>1. CASE inter'[i] = inter[i]
      BY <3>1
    <3>2. CASE Advanced(inter[i], inter'[i])
      BY <3>2 DEF Advanced
    <3>3. CASE Recorded(i)
      BY <3>3 DEF Recorded, NoInter, Answered
    <3>4. QED BY <2>1, <3>1, <3>2, <3>3 DEF Effect, InterStep
  <2>3. QED BY <2>2
<1>2. QED BY <1>1, LifecycleInvariant, PTL DEF Spec, AnswerKept

-----------------------------------------------------------------------------
(* When no claim outlives its lease: who may act for a run, and what keeps *)
(* a suspended run recoverable.                                            *)

\* The run that owns the lease of a started run.
Tree(r) == run[r].lease
HasOpen(r) == \E i \in Inter : inter[i].root = r /\ inter[i].status \in Open
\* A process has claimed a batch of run r and has not yet started or undone it.
Engaged(p, r) ==
  resume[p].pc \in {"attach", "start", "rollback"} /\ r \in RootOf(resume[p].batch)

Unlapsed == \A i \in Inter : ~inter[i].lapsed
LeasesOK == \A r \in LeaseOwner : run[r].status # "absent" => Tree(r) = r

\* All rows of a batch are of one run, and their root is the owner of its lease.
BatchesOK ==
  /\ \A i \in Inter : inter[i] # NoInter =>
       /\ inter[i].run \in Run /\ run[inter[i].run].status # "absent"
       /\ inter[i].root = Tree(inter[i].run)
  /\ \A i, j \in Inter : inter[i].batch = inter[j].batch => inter[i].run = inter[j].run
  /\ \A b \in retry : Rows(b) # {}

\* A run with an executor is not suspended; a parent works in the tree of its child.
ExecsOK ==
  /\ \A e \in Exec : ~LiveExec(e) => exec[e] = NoExec
  /\ \A e \in Exec : LiveExec(e) => run[exec[e].run].status # "suspended"
  /\ \A e \in Exec : exec[e].parent # None => Tree(exec[exec[e].parent].run) = Tree(exec[e].run)

\* One process at a time is engaged with a run, and nothing executes the run then.
ResumesOK ==
  /\ \A p \in Proc : resume[p].pc # "off" => Rows(resume[p].batch) # {}
  /\ \A p \in Proc, r \in LeaseOwner : Engaged(p, r) =>
       /\ run[r].status # "suspended"
       /\ \A e \in Exec : exec[e].run # r
       /\ \A q \in Proc : Engaged(q, r) => q = p

\* A claimed row has the process that claimed it, and its run is running.
ClaimsOK ==
  \A i \in Inter : inter[i].status = "resuming" =>
    /\ run[inter[i].root].status = "running"
    /\ \E p \in Proc : /\ inter[i].claim = p /\ resume[p].pc \in {"attach", "rollback"}
                       /\ resume[p].batch = inter[i].batch

\* While a tree goes on, what its executors wait for is open, and an executor that
\* is about to suspend, or a child that is suspended, leaves something open.
WaitsOK ==
  /\ \A e \in Exec : \A i \in exec[e].waits :
       /\ inter[i].root = Tree(exec[e].run)
       /\ run[inter[i].root].status \in Active => inter[i].status \in Open
  /\ \A e \in Exec : (exec[e].pc = "raised" /\ run[Tree(exec[e].run)].status \in Active) =>
       HasOpen(Tree(exec[e].run))
  /\ \A k \in ChildRun : (run[k].status = "suspended" /\ run[Tree(k)].status \in Active) =>
       HasOpen(Tree(k))

OwnershipInv ==
  /\ LifecycleInv /\ Unlapsed /\ LeasesOK /\ BatchesOK /\ ExecsOK /\ ResumesOK /\ ClaimsOK
  /\ WaitsOK /\ OneExecutor /\ SuspendedRecoverable

-----------------------------------------------------------------------------
(* What a step does beyond Effect.                                         *)

\* Nobody acts for a run that is set suspended, and something can bring it back.
Parked(r) ==
  /\ \A e \in Exec : exec'[e].run # r
  /\ \A p \in Proc : ~Engaged(p, r)'
  /\ r \in LeaseOwner =>
       \E i \in Inter : inter'[i].root = r /\ inter'[i].status \in {"suspended", "resolved"}
  /\ (r \in ChildRun /\ run[Tree(r)].status \in Active) => HasOpen(Tree(r))

RunCourse ==
  /\ \A r \in LeaseOwner : (run[r].status = "absent" /\ run'[r].status # "absent") => run'[r].lease = r
  /\ \A r \in Run : (run[r].status # "suspended" /\ run'[r].status = "suspended") => Parked(r)

\* The row of an interaction: what belongs to an active run stays open, what can bring
\* a suspended run back still can.
RowCourse ==
  \A i \in Inter :
    /\ ~inter'[i].lapsed
    /\ (inter[i].status \in Open /\ run'[inter[i].root].status \in Active) => inter'[i].status \in Open
    /\ (inter[i].status \in {"suspended", "resolved"} /\ run'[inter[i].root].status = "suspended") =>
         inter'[i].status \in {"suspended", "resolved"}

\* An executor goes on; it raises only what it waited for or what a child raised.
GoesOn(e) ==
  /\ LiveExec(e) /\ exec'[e].pc # "off"
  /\ exec'[e].run = exec[e].run /\ exec'[e].parent \in {exec[e].parent, None}
  /\ \A i \in exec'[e].waits :
       i \in exec[e].waits \/ (inter'[i].root = Tree(exec[e].run) /\ inter'[i].status = "waiting")
  /\ exec'[e].pc = "raised" =>
       \/ exec[e].pc = "raised" \/ exec[e].waits # {}
       \/ \E f \in Exec : exec[f].pc = "raised" /\ exec[f].parent = e

\* A new executor, of a run that nobody acts for.
Begins(e) ==
  /\ exec'[e].pc = "live" /\ exec'[e].waits = {}
  /\ run'[exec'[e].run].status # "suspended"
  /\ \A f \in Exec \ {e} : exec'[f].run # exec'[e].run
  /\ \A p \in Proc : ~Engaged(p, exec[e].run)'
  /\ exec'[e].parent # None =>
       LiveExec(exec'[e].parent) /\ Tree(exec[exec'[e].parent].run) = run'[exec'[e].run].lease
ExecCourse == \A e \in Exec : exec'[e] = NoExec \/ GoesOn(e) \/ (exec[e] = NoExec /\ Begins(e))

\* A resume becomes engaged only when it claims a run that nobody acts for.
Claims(p) ==
  \A r \in LeaseOwner : Engaged(p, r)' =>
    /\ run'[r].status # "suspended"
    /\ \A e \in Exec : exec'[e].run # r
    /\ \A q \in Proc : Engaged(q, r)' => q = p
ResumeCourse ==
  \A p \in Proc : resume'[p].pc # "off" =>
    \/ /\ resume[p].pc # "off" /\ resume'[p].batch = resume[p].batch
       /\ \/ resume'[p].pc \in {"attach", "start", "rollback"} =>
               resume[p].pc \in {"attach", "start", "rollback"}
          \/ Claims(p)
    \/ resume'[p].pc = "recover" /\ Rows(resume[p].batch)' # {}

Course == RunCourse /\ RowCourse /\ ExecCourse /\ ResumeCourse /\ BatchesOK' /\ ClaimsOK'

-----------------------------------------------------------------------------
(* A step with this course keeps the invariant.                            *)

LEMMA OneRoot ==
  ASSUME LifecycleTypeOK, BatchesOK, NEW b, b # None, NEW i \in Rows(b)
  PROVE  /\ RootOf(b) = {inter[i].root} /\ inter[i].root \in LeaseOwner
         /\ inter[i] # NoInter /\ run[inter[i].root].status # "absent"
<1>1. \A j \in Rows(b) : /\ j \in Inter /\ inter[j] # NoInter /\ inter[j].run = inter[i].run
                         /\ inter[j].root = Tree(inter[j].run)
  BY DEF Rows, BatchesOK, NoInter
<1>2. inter[i].root \in LeaseOwner /\ run[inter[i].root].status # "absent"
  BY <1>1, RowFacts DEF Rows, InterRow
<1>3. QED BY <1>1, <1>2 DEF RootOf

LEMMA RowsKept ==
  ASSUME InterStep, NEW i \in Inter, inter[i] # NoInter
  PROVE  /\ inter'[i].run = inter[i].run /\ inter'[i].root = inter[i].root
         /\ inter'[i].batch = inter[i].batch
  BY DEF InterStep, Advanced, Recorded

LEMMA RootsKept ==
  ASSUME LifecycleTypeOK, LifecycleTypeOK', BatchesOK, BatchesOK', InterStep, NEW b, b # None, Rows(b) # {}
  PROVE  RootOf(b)' = RootOf(b) /\ Rows(b)' # {}
<1>1. PICK i \in Rows(b) : TRUE
  OBVIOUS
<1>2. inter[i] # NoInter /\ i \in Inter /\ inter[i].batch = b
  BY <1>1 DEF Rows, NoInter
<1>3. i \in Rows(b)' /\ inter'[i].root = inter[i].root
  BY <1>2, RowsKept DEF Rows
<1>4. \A j \in Rows(b)' : inter'[j].root = inter'[i].root
  BY <1>3 DEF Rows, BatchesOK, Tree, NoInter
<1>6. RootOf(b)' = {inter'[i].root}
  BY <1>3, <1>4 DEF RootOf
<1>5. QED BY <1>1, <1>3, <1>6, OneRoot

LEMMA EngagedKept ==
  ASSUME LifecycleTypeOK, LifecycleTypeOK', BatchesOK, ResumesOK, InterStep, Course,
         NEW p \in Proc, NEW r \in LeaseOwner, Engaged(p, r)'
  PROVE  Engaged(p, r) \/ Claims(p)
<1>1. resume'[p].pc \in {"attach", "start", "rollback"} /\ r \in RootOf(resume[p].batch)'
  BY DEF Engaged
<1>2. CASE Claims(p)
  BY <1>2
<1>3. CASE ~Claims(p)
  <2>1. /\ resume[p].pc # "off" /\ resume'[p].batch = resume[p].batch
        /\ resume[p].pc \in {"attach", "start", "rollback"}
    BY <1>1, <1>3 DEF Course, ResumeCourse
  <2>2. PICK b : b = resume[p].batch
    OBVIOUS
  <2>3. b # None /\ Rows(b) # {}
    BY <2>1, <2>2 DEF ResumesOK, LifecycleTypeOK
  <2>4. RootOf(b)' = RootOf(b)
    BY <2>3, RootsKept DEF Course
  <2>5. QED BY <1>1, <2>1, <2>2, <2>4 DEF Engaged, RootOf, Rows
<1>4. QED BY <1>2, <1>3

LEMMA ResumesKept ==
  ASSUME OwnershipInv, LifecycleTypeOK', Effect, Course
  PROVE  ResumesOK'
<1> USE DEF OwnershipInv, LifecycleInv, Effect
<1>1. ASSUME NEW p \in Proc, resume'[p].pc # "off"
      PROVE  Rows(resume[p].batch)' # {}
  <2>1. CASE resume'[p].pc = "recover" /\ Rows(resume[p].batch)' # {}
    BY <2>1
  <2>2. CASE resume[p].pc # "off" /\ resume'[p].batch = resume[p].batch
    <3>1. PICK b : b = resume[p].batch
      OBVIOUS
    <3>2. b # None /\ Rows(b) # {}
      BY <2>2, <3>1 DEF ResumesOK, LifecycleTypeOK
    <3>3. Rows(b)' # {}
      BY <3>2, RootsKept DEF Course
    <3>4. QED BY <2>2, <3>1, <3>3 DEF Rows
  <2>3. QED BY <1>1, <2>1, <2>2 DEF Course, ResumeCourse
<1>2. ASSUME NEW p \in Proc, NEW r \in LeaseOwner, Engaged(p, r)'
      PROVE  run'[r].status # "suspended" /\ \A e \in Exec : exec'[e].run # r
  <2>1. CASE Claims(p)
    BY <1>2, <2>1 DEF Claims
  <2>2. CASE Engaged(p, r)
    <3>1. run[r].status # "suspended" /\ \A e \in Exec : exec[e].run # r
      BY <2>2 DEF ResumesOK
    <3>2. run'[r].status # "suspended"
      BY <1>2, <3>1, StatusesApart DEF Course, RunCourse, Parked
    <3>3. ASSUME NEW e \in Exec, exec'[e].run = r PROVE FALSE
      BY <1>2, <3>1, <3>3, StatusesApart DEF Course, ExecCourse, GoesOn, Begins, NoExec
    <3>4. QED BY <3>2, <3>3
  <2>3. QED BY <1>2, <2>1, <2>2, EngagedKept
<1>3. ASSUME NEW p \in Proc, NEW q \in Proc, NEW r \in LeaseOwner, Engaged(p, r)', Engaged(q, r)'
      PROVE  q = p
  <2>1. CASE Claims(p)
    BY <1>3, <2>1 DEF Claims
  <2>2. CASE Claims(q)
    BY <1>3, <2>2 DEF Claims
  <2>3. CASE Engaged(p, r) /\ Engaged(q, r)
    BY <2>3 DEF ResumesOK
  <2>4. QED BY <1>3, <2>1, <2>2, <2>3, EngagedKept
<1>4. QED BY <1>1, <1>2, <1>3 DEF ResumesOK

LEMMA OneExecutorKept ==
  ASSUME OneExecutor, Course
  PROVE  OneExecutor'
<1> SUFFICES ASSUME NEW e \in Exec, NEW f \in Exec, LiveExec(e)', LiveExec(f)',
                    exec'[e].run = exec'[f].run
             PROVE  e = f
  BY DEF OneExecutor
<1>1. /\ GoesOn(e) \/ Begins(e)
      /\ GoesOn(f) \/ Begins(f)
  BY DEF Course, ExecCourse, LiveExec, NoExec
<1>2. CASE GoesOn(e) /\ GoesOn(f)
  BY <1>2 DEF GoesOn, OneExecutor
<1>3. CASE Begins(e) \/ Begins(f)
  BY <1>3 DEF Begins
<1>4. QED BY <1>1, <1>2, <1>3

\* What a live executor works for is kept: its run, its tree and its lease owner.
LEMMA TreeKept ==
  ASSUME LifecycleTypeOK, Effect, NEW e \in Exec, LiveExec(e)
  PROVE  /\ exec[e].run \in Run /\ run'[exec[e].run].lease = Tree(exec[e].run)
         /\ Tree(exec[e].run) \in LeaseOwner /\ run[Tree(exec[e].run)].status # "absent"
  BY LiveRun, StartedKept DEF LiveExec, Tree, Effect

\* Only a run that is active now, or was not started, is active after the step.
LEMMA ActiveBefore ==
  ASSUME LifecycleTypeOK, Effect, NEW r \in Run, run[r].status # "absent", run'[r].status \in Active
  PROVE  run[r].status \in Active
  BY DEF Effect, RunStep, Moved, Begun, NoRun

LEMMA ExecsKeptOK ==
  ASSUME OwnershipInv, Effect, Course
  PROVE  ExecsOK'
<1> USE DEF OwnershipInv, LifecycleInv
<1>1. \A e \in Exec : ~LiveExec(e)' => exec'[e] = NoExec
  BY DEF Course, ExecCourse, GoesOn, Begins, LiveExec
<1>2. ASSUME NEW e \in Exec, LiveExec(e)'
      PROVE  run'[exec'[e].run].status # "suspended"
  <2>1. CASE GoesOn(e)
    BY <2>1, TreeKept DEF GoesOn, Course, RunCourse, Parked, ExecsOK
  <2>2. CASE Begins(e)
    BY <2>2 DEF Begins
  <2>3. QED BY <1>2, <2>1, <2>2 DEF Course, ExecCourse, LiveExec, NoExec
<1>3. ASSUME NEW e \in Exec, exec'[e].parent # None
      PROVE  run'[exec'[exec'[e].parent].run].lease = run'[exec'[e].run].lease
  <2> DEFINE f == exec'[e].parent
  <2>1. exec'[f].pc # "off" /\ f \in Exec
    BY <1>3 DEF Effect, ExecStep, ExecRow
  <2>2. CASE GoesOn(e)
    <3>1. f = exec[e].parent /\ LiveExec(f)
      BY <1>3, <2>2 DEF GoesOn, LifecycleTypeOK
    <3>2. GoesOn(f)
      BY <2>1, <3>1 DEF Course, ExecCourse, LiveExec, NoExec
    <3>3. Tree(exec[f].run) = Tree(exec[e].run)
      BY <1>3, <3>1 DEF ExecsOK
    <3>4. exec'[f].run = exec[f].run /\ exec'[e].run = exec[e].run
      BY <2>2, <3>2 DEF GoesOn
    <3>5. LiveExec(e)
      BY <2>2 DEF GoesOn
    <3>6. QED BY <2>1, <3>1, <3>3, <3>4, <3>5, TreeKept
  <2>3. CASE Begins(e)
    <3>1. LiveExec(f) /\ Tree(exec[f].run) = run'[exec'[e].run].lease
      BY <1>3, <2>3 DEF Begins
    <3>2. exec'[f].run = exec[f].run
      BY <2>1, <3>1 DEF Course, ExecCourse, LiveExec, NoExec, GoesOn
    <3>3. QED BY <2>1, <3>1, <3>2, TreeKept
  <2>4. QED BY <1>3, <2>2, <2>3 DEF Course, ExecCourse, NoExec
<1>4. QED BY <1>1, <1>2, <1>3 DEF ExecsOK, Tree

\* What is open in a tree stays open while the tree is active.
LEMMA OpenStays ==
  ASSUME LifecycleTypeOK, Effect, Course, NEW r \in LeaseOwner, HasOpen(r), run'[r].status \in Active
  PROVE  HasOpen(r)'
<1>1. PICK i \in Inter : inter[i].root = r /\ inter[i].status \in Open
  BY DEF HasOpen
<1>2. inter[i] # NoInter
  BY <1>1 DEF NoInter, Open
<1>3. QED BY <1>1, <1>2, RowsKept DEF Effect, Course, RowCourse, HasOpen

LEMMA WaitsKept ==
  ASSUME OwnershipInv, LifecycleTypeOK', Effect, Course
  PROVE  WaitsOK'
<1> USE DEF OwnershipInv, LifecycleInv
<1>1. ASSUME NEW e \in Exec, NEW i \in exec'[e].waits
      PROVE  /\ inter'[i].root = run'[exec'[e].run].lease
             /\ run'[inter'[i].root].status \in Active => inter'[i].status \in Open
  <2>1. GoesOn(e) /\ LiveExec(e) /\ exec'[e].run = exec[e].run
    BY <1>1 DEF Course, ExecCourse, NoExec, Begins, GoesOn
  <2>2. CASE i \in exec[e].waits
    <3>1. /\ i \in Inter /\ inter[i].root = Tree(exec[e].run)
          /\ run[inter[i].root].status \in Active => inter[i].status \in Open
      BY <2>2 DEF WaitsOK, LifecycleTypeOK, ExecRow
    <3>2. inter[i] # NoInter /\ inter'[i].root = inter[i].root
      <4>1. inter[i].root # None
        BY <2>1, <3>1, TreeKept, StatusesApart
      <4>2. QED BY <3>1, <4>1, RowFacts, RowsKept DEF Effect
    <3>3. run'[inter[i].root].status \in Active => run[inter[i].root].status \in Active
      BY <2>1, <3>1, TreeKept, ActiveBefore, StatusesApart
    <3>4. QED BY <2>1, <3>1, <3>2, <3>3, TreeKept DEF Course, RowCourse
  <2>3. CASE inter'[i].root = Tree(exec[e].run) /\ inter'[i].status = "waiting"
    BY <2>1, <2>3, TreeKept DEF Open
  <2>4. QED BY <1>1, <2>1, <2>2, <2>3 DEF GoesOn
<1>2. ASSUME NEW e \in Exec, exec'[e].pc = "raised", run'[run'[exec'[e].run].lease].status \in Active
      PROVE  HasOpen(run[exec[e].run].lease)'
  <2>1. GoesOn(e) /\ LiveExec(e) /\ exec'[e].run = exec[e].run
    BY <1>2 DEF Course, ExecCourse, NoExec, Begins, GoesOn
  <2>0. PICK l : l = Tree(exec[e].run)
    OBVIOUS
  <2>2. l \in LeaseOwner /\ l = run'[exec'[e].run].lease /\ run[l].status # "absent"
    BY <2>0, <2>1, TreeKept
  <2>3. run[l].status \in Active
    BY <1>2, <2>2, ActiveBefore, StatusesApart
  <2>4. HasOpen(l)
    <3>1. CASE exec[e].pc = "raised"
      BY <2>0, <2>3, <3>1 DEF WaitsOK
    <3>2. CASE exec[e].waits # {}
      BY <2>0, <2>3, <3>2 DEF WaitsOK, HasOpen, LifecycleTypeOK, ExecRow
    <3>3. ASSUME NEW f \in Exec, exec[f].pc = "raised", exec[f].parent = e
          PROVE  HasOpen(l)
      <4>1. Tree(exec[f].run) = l
        BY <2>0, <3>3, StatusesApart DEF ExecsOK
      <4>2. QED BY <2>3, <3>3, <4>1 DEF WaitsOK
    <3>4. QED BY <1>2, <2>1, <3>1, <3>2, <3>3 DEF GoesOn
  <2>5. HasOpen(l)'
    BY <1>2, <2>2, <2>4, OpenStays
  <2>6. QED BY <2>2, <2>5 DEF HasOpen
<1>3. ASSUME NEW k \in ChildRun, run'[k].status = "suspended", run'[run'[k].lease].status \in Active
      PROVE  HasOpen(Tree(k))'
  <2>0. PICK l : l = Tree(k)
    OBVIOUS
  <2>1. k \in Run /\ k \notin LeaseOwner
    BY DEF Run, LeaseOwner
  <2>2. run[k].status # "absent"
    BY <1>3, <2>1 DEF Effect, RunStep, Moved, Begun, NoRun, Active
  <2>3. l \in LeaseOwner /\ l = run'[k].lease /\ run[l].status # "absent"
    BY <2>0, <2>1, <2>2, StartedKept DEF Tree, LifecycleTypeOK, RunRow, Effect
  <2>4. run[l].status \in Active
    BY <1>3, <2>3, ActiveBefore, StatusesApart
  <2>5. HasOpen(l)
    BY <1>3, <2>0, <2>1, <2>4 DEF WaitsOK, Course, RunCourse, Parked
  <2>6. HasOpen(l)'
    BY <1>3, <2>3, <2>5, OpenStays
  <2>7. QED BY <2>3, <2>6 DEF HasOpen, Tree
<1>4. QED BY <1>1, <1>2, <1>3 DEF WaitsOK, Tree

LEMMA LeasesKept ==
  ASSUME OwnershipInv, Effect, Course
  PROVE  LeasesOK'
<1> USE DEF OwnershipInv, LifecycleInv
<1> SUFFICES ASSUME NEW r \in LeaseOwner, run'[r].status # "absent"
             PROVE  run'[r].lease = r
  BY DEF LeasesOK, Tree
<1>1. CASE run[r].status = "absent"
  BY <1>1 DEF Course, RunCourse
<1>2. CASE run[r].status # "absent"
  BY <1>2, StartedKept, StatusesApart DEF LeasesOK, Tree, Effect
<1>3. QED BY <1>1, <1>2

LEMMA RecoverableKept ==
  ASSUME OwnershipInv, Effect, Course
  PROVE  SuspendedRecoverable'
<1> USE DEF OwnershipInv, LifecycleInv
<1> SUFFICES ASSUME NEW r \in LeaseOwner, run'[r].status = "suspended"
             PROVE  \E i \in Inter : inter'[i].root = r /\ inter'[i].status \in {"suspended", "resolved"}
  BY DEF SuspendedRecoverable
<1>1. CASE run[r].status # "suspended"
  BY <1>1, StatusesApart DEF Course, RunCourse, Parked
<1>2. CASE run[r].status = "suspended"
  <2>1. PICK i \in Inter : inter[i].root = r /\ inter[i].status \in {"suspended", "resolved"}
    BY <1>2 DEF SuspendedRecoverable
  <2>2. inter[i] # NoInter
    BY <2>1 DEF NoInter
  <2>3. QED BY <2>1, <2>2, RowsKept DEF Effect, Course, RowCourse
<1>3. QED BY <1>1, <1>2

LEMMA CourseKeepsInv ==
  ASSUME OwnershipInv, Effect, Course
  PROVE  OwnershipInv'
<1>1. LifecycleTypeOK' /\ OneRootRun'
  BY EffectKeepsType, EffectKeepsRoot DEF OwnershipInv, LifecycleInv
<1>2. Unlapsed'
  BY DEF Course, RowCourse, Unlapsed
<1>3. ResumesOK' /\ WaitsOK' /\ ExecsOK' /\ LeasesOK' /\ OneExecutor' /\ SuspendedRecoverable'
  BY <1>1, ResumesKept, WaitsKept, ExecsKeptOK, LeasesKept, OneExecutorKept, RecoverableKept
     DEF OwnershipInv
<1>4. QED BY <1>1, <1>2, <1>3 DEF OwnershipInv, LifecycleInv, Course

-----------------------------------------------------------------------------
(* What the parts of an action contribute to its course.                   *)

LEMMA KeepRunCourse ==
  ASSUME run' = run
  PROVE  RunCourse
  BY DEF RunCourse

LEMMA KeepRowCourse ==
  ASSUME OwnershipInv, inter' = inter
  PROVE  RowCourse
  BY DEF OwnershipInv, Unlapsed, RowCourse

LEMMA BatchesKept ==
  ASSUME LifecycleTypeOK, BatchesOK, RunStep, InterStep,
         \A i \in Inter : inter'[i].batch = inter[i].batch,
         \A b \in retry' : b \in retry \/ Rows(b) # {}
  PROVE  BatchesOK'
<1>1. \A i \in Inter : inter'[i] # NoInter => inter[i] # NoInter
  BY RowFacts DEF InterStep, Advanced, Recorded, NoInter
<1>2. ASSUME NEW i \in Inter, inter'[i] # NoInter
      PROVE  /\ inter'[i].run \in Run /\ run'[inter'[i].run].status # "absent"
             /\ inter'[i].root = run'[inter'[i].run].lease
  <2>1. inter[i] # NoInter
    BY <1>1, <1>2
  <2>2. /\ inter[i].run \in Run /\ run[inter[i].run].status # "absent"
        /\ inter[i].root = run[inter[i].run].lease
    BY <2>1 DEF BatchesOK, Tree
  <2>3. QED BY <2>1, <2>2, RowsKept, StartedKept
<1>3. ASSUME NEW i \in Inter, NEW j \in Inter, inter'[i].batch = inter'[j].batch
      PROVE  inter'[i].run = inter'[j].run
  <2>1. inter[i].run = inter[j].run
    BY <1>3 DEF BatchesOK
  <2>2. \A x \in Inter : inter'[x].run = inter[x].run
    BY <1>1, RowsKept
  <2>3. QED BY <2>1, <2>2
<1>4. \A b \in retry' : Rows(b)' # {}
  BY DEF BatchesOK, Rows
<1>5. QED BY <1>2, <1>3, <1>4 DEF BatchesOK, Tree

LEMMA ClaimsKept ==
  ASSUME ClaimsOK,
         \A i \in Inter : inter'[i].status = "resuming" =>
           /\ inter'[i] = inter[i]
           /\ run[inter[i].root].status = "running" => run'[inter[i].root].status = "running"
           /\ \A p \in Proc : resume'[p] = resume[p] \/ inter[i].claim # p
  PROVE  ClaimsOK'
  BY DEF ClaimsOK

\* Only a process that has claimed, and not yet attached, holds claimed rows.
LEMMA NotHolding ==
  ASSUME ClaimsOK, NEW p \in Proc, resume[p].pc \notin {"attach", "rollback"}
  PROVE  \A i \in Inter : inter[i].status = "resuming" => inter[i].claim # p
  BY DEF ClaimsOK

LEMMA KeepResumeCourse ==
  ASSUME resume' = resume
  PROVE  ResumeCourse
  BY DEF ResumeCourse

LEMMA StepCourse ==
  ASSUME LifecycleTypeOK, NEW p \in Proc, resume[p].pc # "off",
         NEW pc \in {"claim", "attach", "start", "rollback"}, Step(p, pc),
         pc = "claim" \/ resume[p].pc \in {"attach", "start", "rollback"}
  PROVE  ResumeCourse
<1>1. \A q \in Proc : resume'[q] = IF q = p THEN [resume[p] EXCEPT !.pc = pc] ELSE resume[q]
  BY DEF Step, LifecycleTypeOK
<1>2. resume[p] \in ResumeRow
  BY DEF LifecycleTypeOK
<1>3. resume'[p].pc = pc /\ resume'[p].batch = resume[p].batch
  BY <1>1, <1>2 DEF ResumeRow
<1>4. QED BY <1>1, <1>3 DEF ResumeCourse

LEMMA RestCourse ==
  ASSUME LifecycleTypeOK, NEW p \in Proc, Rest(p)
  PROVE  ResumeCourse
<1>1. \A q \in Proc : resume'[q] = IF q = p THEN Resting ELSE resume[q]
  BY DEF Rest, LifecycleTypeOK
<1>2. QED BY <1>1 DEF ResumeCourse, Resting

LEMMA RecoverCourse ==
  ASSUME LifecycleTypeOK, NEW p \in Proc, NEW row, row.pc = "recover",
         resume' = [resume EXCEPT ![p] = row],
         Rows(row.batch)' # {}
  PROVE  ResumeCourse
<1>1. \A q \in Proc : resume'[q] = IF q = p THEN row ELSE resume[q]
  BY DEF LifecycleTypeOK
<1>2. QED BY <1>1 DEF ResumeCourse, Rows

\* Executors that go on as they are, or with less to wait for.
LEMMA ShrinkCourse ==
  ASSUME ExecsOK,
         \A e \in Exec :
           /\ exec[e] = NoExec => exec'[e] = NoExec
           /\ exec[e] # NoExec =>
                /\ exec'[e].run = exec[e].run /\ exec'[e].parent = exec[e].parent
                /\ exec'[e].pc # "off" /\ exec'[e].waits \subseteq exec[e].waits
                /\ exec'[e].pc = "raised" => exec[e].pc = "raised" \/ exec[e].waits # {}
  PROVE  ExecCourse
  BY DEF ExecCourse, GoesOn, ExecsOK

LEMMA KeepExecCourse ==
  ASSUME ExecsOK, exec' = exec
  PROVE  ExecCourse
<1>1. \A e \in Exec : exec[e] # NoExec => exec[e].pc # "off"
  BY DEF ExecsOK, LiveExec
<1>2. QED BY <1>1, ShrinkCourse

LEMMA WakeCourse ==
  ASSUME LifecycleTypeOK, ExecsOK, NEW i, exec' = Wake(i)
  PROVE  ExecCourse
<1>1. \A e \in Exec : exec[e] # NoExec => exec[e].pc # "off"
  BY DEF ExecsOK, LiveExec
<1>2. \A e \in Exec : exec[e] \in ExecRow /\ exec'[e] = [exec[e] EXCEPT !.waits = @ \ {i}]
  BY DEF LifecycleTypeOK, Wake
<1>3. \A e \in Exec : /\ exec'[e].run = exec[e].run /\ exec'[e].parent = exec[e].parent
                      /\ exec'[e].pc = exec[e].pc /\ exec'[e].waits = exec[e].waits \ {i}
  BY <1>2 DEF ExecRow
<1>4. \A e \in Exec : exec[e] = NoExec => exec'[e] = NoExec
  BY <1>2 DEF NoExec
<1>5. QED BY <1>1, <1>3, <1>4, ShrinkCourse

LEMMA GoneCourse ==
  ASSUME LifecycleTypeOK, ExecsOK, NEW e \in Exec, NEW roots, NEW raise,
         ExecutorGone(e, roots, raise), raise => exec[e].pc = "raised"
  PROVE  ExecCourse /\ exec'[e] = NoExec /\ \A f \in Exec : exec'[f].run \in {exec[f].run, None}
<1> DEFINE row(f) == [exec[f] EXCEPT
           !.pc = IF raise /\ f = exec[e].parent THEN "raised" ELSE @,
           !.parent = IF @ = e THEN None ELSE @,
           !.waits = IF LiveExec(f) /\ run[exec[f].run].lease \in roots THEN {} ELSE @]
<1>1. exec' = [f \in Exec |-> IF f = e THEN NoExec ELSE row(f)]
  BY DEF ExecutorGone
<1>2. \A f \in Exec :
        /\ row(f).run = exec[f].run
        /\ row(f).parent = IF exec[f].parent = e THEN None ELSE exec[f].parent
        /\ row(f).pc = IF raise /\ f = exec[e].parent THEN "raised" ELSE exec[f].pc
        /\ row(f).waits \subseteq exec[f].waits
  <2> TAKE f \in Exec
  <2>1. exec[f] \in ExecRow
    BY DEF LifecycleTypeOK
  <2>2. QED BY <2>1 DEF ExecRow
<1>3. \A f \in Exec : ~LiveExec(f) => row(f) = NoExec
  <2> TAKE f \in Exec
  <2> HAVE ~LiveExec(f)
  <2>1. exec[f] = NoExec /\ f # exec[e].parent /\ e # None
    BY StatusesApart DEF ExecsOK, LifecycleTypeOK
  <2>2. /\ row(f) = [NoExec EXCEPT !.pc = NoExec.pc, !.parent = NoExec.parent, !.waits = NoExec.waits]
        /\ NoExec.parent = None
    BY <2>1 DEF NoExec
  <2>3. QED BY <2>2 DEF NoExec
<1> HIDE DEF row
<1>4. \A f \in Exec : LiveExec(f) => exec'[f] = NoExec \/ GoesOn(f)
  BY <1>1, <1>2 DEF GoesOn, LiveExec
<1>5. QED BY <1>1, <1>2, <1>3, <1>4 DEF ExecCourse, NoExec

LEMMA BeginCourse ==
  ASSUME LifecycleTypeOK, ExecsOK, NEW e \in Exec, NEW r, NEW f, exec[e] = NoExec, Begin(e, r, f),
         run'[r].status # "suspended", \A g \in Exec : exec[g].run # r,
         \A p \in Proc : ~Engaged(p, r)',
         f # None => LiveExec(f) /\ Tree(exec[f].run) = run'[r].lease
  PROVE  ExecCourse
<1> DEFINE row == [run |-> r, pc |-> "live", waits |-> {}, parent |-> f]
<1>1. \A g \in Exec : exec'[g] = IF g = e THEN row ELSE exec[g]
  BY DEF Begin, LifecycleTypeOK
<1>2. row.run = r /\ row.pc = "live" /\ row.waits = {} /\ row.parent = f
  OBVIOUS
<1> HIDE DEF row
<1>3. Begins(e)
  BY <1>1, <1>2 DEF Begins, Engaged, RootOf, Rows
<1>4. \A g \in Exec \ {e} : exec'[g] = NoExec \/ GoesOn(g)
  BY <1>1 DEF ExecsOK, GoesOn, LiveExec
<1>5. QED BY <1>3, <1>4 DEF ExecCourse

\* Who is engaged with a run is engaged with a started run that owns its lease.
LEMMA EngagedRoot ==
  ASSUME LifecycleTypeOK, BatchesOK, NEW p \in Proc, NEW r, Engaged(p, r)
  PROVE  /\ resume[p].batch # None /\ RootOf(resume[p].batch) = {r}
         /\ r \in LeaseOwner /\ run[r].status # "absent"
<1>1. resume[p].batch # None
  BY DEF Engaged, LifecycleTypeOK
<1>2. PICK i \in Rows(resume[p].batch) : inter[i].root = r
  BY DEF Engaged, RootOf
<1>3. QED BY <1>1, <1>2, OneRoot

LEMMA ClaimEngaged ==
  ASSUME ClaimsOK, NEW i \in Inter, inter[i].status = "resuming"
  PROVE  \E p \in Proc : inter[i].claim = p /\ Engaged(p, inter[i].root) /\ resume[p].batch = inter[i].batch
  BY DEF ClaimsOK, Engaged, RootOf, Rows

\* Without new rows, only a process whose state changed becomes engaged.
LEMMA EngagedBefore ==
  ASSUME LifecycleTypeOK, InterStep, \A i \in Inter : inter'[i].batch = inter[i].batch,
         NEW p \in Proc, resume'[p] = resume[p], NEW r, Engaged(p, r)'
  PROVE  Engaged(p, r)
<1>1. resume[p].pc \in {"attach", "start", "rollback"} /\ resume[p].batch # None
  BY DEF Engaged, LifecycleTypeOK
<1>2. PICK i \in Inter : inter'[i].batch = resume[p].batch /\ inter'[i].root = r
  BY DEF Engaged, RootOf, Rows
<1>3. inter[i].batch = resume[p].batch /\ inter[i] # NoInter
  BY <1>1, <1>2 DEF NoInter
<1>4. QED BY <1>1, <1>2, <1>3, RowsKept DEF Engaged, RootOf, Rows

LEMMA NobodyActs ==
  ASSUME OwnershipInv, NEW r \in Run, run[r].status = "absent"
  PROVE  (\A e \in Exec : exec[e].run # r) /\ (\A p \in Proc : ~Engaged(p, r))
<1> USE DEF OwnershipInv, LifecycleInv
<1>1. ASSUME NEW e \in Exec, exec[e].run = r PROVE FALSE
  BY <1>1, LiveRun, StatusesApart DEF ExecsOK, LiveExec, NoExec
<1>2. QED BY <1>1, EngagedRoot

-----------------------------------------------------------------------------
(* The course of the actions that start runs and executors.                *)

LEMMA KeepTables ==
  ASSUME OwnershipInv, Effect, UNCHANGED <<inter, resume, retry>>,
         \A r \in LeaseOwner : run[r].status = "running" => run'[r].status = "running"
  PROVE  RowCourse /\ ResumeCourse /\ BatchesOK' /\ ClaimsOK'
<1> USE DEF OwnershipInv, LifecycleInv, Effect
<1>1. RowCourse /\ ResumeCourse
  BY KeepRowCourse, KeepResumeCourse
<1>2. BatchesOK'
  BY BatchesKept
<1>3. \A i \in Inter : inter[i].status = "resuming" => inter[i].root \in LeaseOwner
  BY RowFacts DEF InterRow
<1>4. ClaimsOK'
  BY <1>3, ClaimsKept
<1>5. QED BY <1>1, <1>2, <1>4

LEMMA FreshCourse ==
  ASSUME OwnershipInv, Effect, NEW r \in Run, NEW l, NEW e \in Exec, NEW f,
         run[r] = NoRun, exec[e] = NoExec,
         run' = [run EXCEPT ![r] = [status |-> "running", lease |-> l]],
         r \in LeaseOwner => l = r,
         Begin(e, r, f), f # None => LiveExec(f) /\ Tree(exec[f].run) = l,
         UNCHANGED <<inter, resume, retry>>
  PROVE  Course
<1> USE DEF OwnershipInv, LifecycleInv
<1>1. run[r].status = "absent"
  BY DEF NoRun
<1>2. \A q \in Run : run'[q] = IF q = r THEN [status |-> "running", lease |-> l] ELSE run[q]
  BY DEF LifecycleTypeOK
<1>3. RunCourse
  BY <1>2, StatusesApart DEF RunCourse
<1>4. \A p \in Proc : ~Engaged(p, r)'
  BY <1>1, NobodyActs, EngagedBefore DEF Effect
<1>5. ExecCourse
  BY <1>1, <1>2, <1>4, NobodyActs, BeginCourse
<1>6. \A q \in LeaseOwner : run[q].status = "running" => run'[q].status = "running"
  BY <1>2, StatusesApart
<1>7. QED BY <1>3, <1>5, <1>6, KeepTables DEF Course

LEMMA StartRootCourse ==
  ASSUME OwnershipInv, Effect, NEW r \in RootRun, NEW e \in Exec, StartRoot(r, e)
  PROVE  Course
  BY FreshCourse, StatusesApart DEF StartRoot

LEMMA StartDetachedCourse ==
  ASSUME OwnershipInv, Effect, NEW d \in DetachedRun, NEW e \in Exec, NEW f \in Exec, StartDetached(d, e, f)
  PROVE  Course
  BY FreshCourse, StatusesApart DEF StartDetached, LeaseOwner

LEMMA StartChildCourse ==
  ASSUME OwnershipInv, Effect, NEW k \in ChildRun, NEW e \in Exec, NEW f \in Exec, StartChild(k, e, f)
  PROVE  Course
<1>1. k \in Run /\ k \notin LeaseOwner
  BY DEF Run, LeaseOwner
<1>2. LiveExec(f)
  BY DEF StartChild, Delegates, LiveExec
<1>3. QED BY <1>1, <1>2, FreshCourse DEF StartChild, Tree

LEMMA ResumeChildCourse ==
  ASSUME OwnershipInv, Effect, NEW k \in ChildRun, NEW e \in Exec, NEW f \in Exec, ResumeChild(k, e, f)
  PROVE  Course
<1> USE DEF OwnershipInv, LifecycleInv
<1>1. k \in Run /\ k \notin LeaseOwner /\ run[k].status = "suspended"
  BY DEF Run, LeaseOwner, ResumeChild
<1>2. \A q \in Run : run'[q] = IF q = k THEN [run[k] EXCEPT !.status = "running"] ELSE run[q]
  BY DEF LifecycleTypeOK, ResumeChild
<1>3. run'[k].status = "running" /\ run'[k].lease = run[k].lease
  BY <1>1, <1>2 DEF LifecycleTypeOK, RunRow
<1>4. RunCourse
  BY <1>1, <1>2, <1>3, StatusesApart DEF RunCourse
<1>5. \A p \in Proc : ~Engaged(p, k)'
  BY <1>1, EngagedBefore, EngagedRoot DEF Effect, ResumeChild
<1>6. \A g \in Exec : exec[g].run # k
  BY <1>1, StatusesApart DEF ExecsOK, NoExec
<1>7. LiveExec(f) /\ Tree(exec[f].run) = run'[k].lease
  <2>1. LiveExec(f) /\ exec[f].run = run[k].lease
    BY DEF ResumeChild, Delegates, LiveExec
  <2>2. run[k].lease \in LeaseOwner /\ run[run[k].lease].status # "absent"
    BY <1>1 DEF LifecycleTypeOK, RunRow
  <2>3. QED BY <1>3, <2>1, <2>2 DEF LeasesOK, Tree
<1>8. ExecCourse
  BY <1>3, <1>5, <1>6, <1>7, BeginCourse DEF ResumeChild
<1>9. \A q \in LeaseOwner : run[q].status = "running" => run'[q].status = "running"
  BY <1>1, <1>2, StatusesApart
<1>10. QED BY <1>4, <1>8, <1>9, KeepTables DEF Course, ResumeChild

-----------------------------------------------------------------------------
(* The course of the actions on interactions.                              *)

LEMMA AskCourse ==
  ASSUME OwnershipInv, Effect, NEW e \in Exec, NEW i \in Inter, NEW b \in Batch, Ask(e, i, b)
  PROVE  Course
<1> USE DEF OwnershipInv, LifecycleInv
<1>1. PICK r : r = exec[e].run
  OBVIOUS
<1>2. r \in Run /\ run[r].status # "absent" /\ LiveExec(e)
  BY <1>1, LiveRun DEF Ask, LiveExec
<1>3. inter[i] = NoInter /\ run' = run
  BY DEF Ask
<1>4. \A j \in Inter : inter'[j] =
        IF j = i THEN [NoInter EXCEPT !.status = "waiting", !.run = r, !.root = run[r].lease, !.batch = b]
        ELSE inter[j]
  BY <1>1 DEF Ask, LifecycleTypeOK
<1>5. /\ inter'[i].status = "waiting" /\ inter'[i].run = r /\ inter'[i].root = run[r].lease
      /\ inter'[i].batch = b /\ ~inter'[i].lapsed
  BY <1>4 DEF NoInter
<1>6. RowCourse
  BY <1>3, <1>4, <1>5 DEF RowCourse, Unlapsed, Open, NoInter
<1>7. BatchesOK'
  <2>1. \A j \in Inter : inter[j].batch = b => inter[j].run = r
    BY <1>1 DEF Ask, AskerOf, Rows
  <2>2. \A j \in Inter : inter[j] # NoInter => inter'[j] = inter[j]
    BY <1>3, <1>4
  <2>3. \A j, k \in Inter : inter'[j].batch = inter'[k].batch => inter'[j].run = inter'[k].run
    BY <1>4, <1>5, <2>1 DEF BatchesOK
  <2>4. \A j \in Inter : inter'[j] # NoInter =>
          /\ inter'[j].run \in Run /\ run'[inter'[j].run].status # "absent"
          /\ inter'[j].root = run'[inter'[j].run].lease
    BY <1>2, <1>3, <1>4, <1>5 DEF BatchesOK, Tree
  <2>5. \A c \in retry' : Rows(c)' # {}
    <3> SUFFICES ASSUME NEW c \in retry PROVE Rows(c)' # {}
      BY DEF Ask
    <3>1. PICK j \in Rows(c) : TRUE
      BY DEF BatchesOK
    <3>2. inter[j].batch # None /\ j \in Inter /\ inter[j].batch = c
      BY <3>1, StatusesApart DEF Rows, LifecycleTypeOK
    <3>3. QED BY <1>3, <1>4, <3>2 DEF Rows, NoInter
  <2>6. QED BY <2>3, <2>4, <2>5 DEF BatchesOK, Tree
<1>8. ClaimsOK'
  BY <1>3, <1>4, <1>5, ClaimsKept DEF Ask
<1>9. ExecCourse
  <2>1. \A f \in Exec : exec[f] \in ExecRow /\ exec'[f] = IF f = e THEN [exec[e] EXCEPT !.waits = @ \cup {i}] ELSE exec[f]
    BY DEF LifecycleTypeOK, Ask
  <2>2. /\ exec'[e].run = exec[e].run /\ exec'[e].parent = exec[e].parent /\ exec'[e].pc = exec[e].pc
        /\ exec'[e].waits = exec[e].waits \cup {i}
    BY <2>1 DEF ExecRow
  <2>3. GoesOn(e)
    BY <1>1, <1>2, <1>5, <2>2 DEF GoesOn, LiveExec, Tree
  <2>4. \A f \in Exec \ {e} : exec'[f] = NoExec \/ GoesOn(f)
    BY <2>1 DEF ExecsOK, GoesOn, LiveExec
  <2>5. QED BY <2>3, <2>4 DEF ExecCourse
<1>10. QED BY <1>3, <1>6, <1>7, <1>8, <1>9, KeepRunCourse, KeepResumeCourse DEF Course, Ask

LEMMA AnswerCourse ==
  ASSUME OwnershipInv, Effect, NEW p \in Proc, NEW i \in Inter, Answer(p, i)
  PROVE  Course
<1> USE DEF OwnershipInv, LifecycleInv, Effect
<1>1. /\ resume[p].pc = "off" /\ inter[i].status \in Unanswered /\ run' = run /\ retry' = retry
      /\ inter' = [inter EXCEPT ![i].status = "resolved"]
  BY DEF Answer, Idle, Resting
<1>2. /\ inter[i] \in InterRow
      /\ \A j \in Inter : inter'[j] = IF j = i THEN [inter[i] EXCEPT !.status = "resolved"] ELSE inter[j]
  BY <1>1 DEF LifecycleTypeOK
<1>3. /\ inter'[i].status = "resolved" /\ inter'[i].batch = inter[i].batch
      /\ inter'[i].lapsed = inter[i].lapsed
  BY <1>2 DEF InterRow
<1>4. RowCourse
  BY <1>2, <1>3 DEF RowCourse, Unlapsed, Open
<1>5. BatchesOK'
  BY <1>1, <1>2, <1>3, BatchesKept
<1>6. ClaimsOK'
  <2>1. \A j \in Inter : inter[j].status = "resuming" => inter[j].claim # p
    BY <1>1, NotHolding
  <2>2. \A q \in Proc \ {p} : resume'[q] = resume[q]
    BY DEF Answer, LifecycleTypeOK
  <2>3. QED BY <1>1, <1>2, <1>3, <2>1, <2>2, ClaimsKept
<1>7. ExecCourse /\ ResumeCourse
  <2>1. CASE exec' = Wake(i) /\ resume' = resume
    BY <2>1, WakeCourse, KeepResumeCourse
  <2>2. CASE /\ resume' = [resume EXCEPT ![p] = [pc |-> "recover", batch |-> inter[i].batch, answered |-> i]]
             /\ exec' = exec
    <3>1. PICK row : row = [pc |-> "recover", batch |-> inter[i].batch, answered |-> i]
      OBVIOUS
    <3>2. i \in Rows(row.batch)'
      BY <1>3, <3>1 DEF Rows
    <3>3. QED BY <2>2, <3>1, <3>2, RecoverCourse, KeepExecCourse
  <2>3. QED BY <2>1, <2>2 DEF Answer
<1>8. QED BY <1>1, <1>4, <1>5, <1>6, <1>7, KeepRunCourse DEF Course

\* The tables stay as they are: what is left is memory.
LEMMA MemoryCourse ==
  ASSUME OwnershipInv, Effect, UNCHANGED <<run, inter>>, ExecCourse, ResumeCourse,
         \A b \in retry' : b \in retry \/ Rows(b) # {},
         \A p \in Proc : resume'[p] = resume[p] \/ \A i \in Inter : inter[i].status = "resuming" => inter[i].claim # p
  PROVE  Course
<1> USE DEF OwnershipInv, LifecycleInv, Effect
<1>1. ClaimsOK'
  BY ClaimsKept
<1>2. BatchesOK'
  BY BatchesKept
<1>3. QED BY <1>1, <1>2, KeepRunCourse, KeepRowCourse DEF Course

LEMMA AskResumeCourse ==
  ASSUME OwnershipInv, Effect, NEW p \in Proc, NEW b \in Batch, AskResume(p, b) \/ TakeRetry(p, b)
  PROVE  Course
<1> USE DEF OwnershipInv, LifecycleInv
<1>1. /\ resume[p].pc = "off" /\ UNCHANGED <<run, inter, exec>> /\ retry' \subseteq retry /\ Rows(b) # {}
      /\ resume' = [resume EXCEPT ![p] = [Resting EXCEPT !.pc = "recover", !.batch = b]]
  BY DEF AskResume, TakeRetry, Idle, Resting, BatchesOK
<1>2. PICK row : row = [Resting EXCEPT !.pc = "recover", !.batch = b]
  OBVIOUS
<1>3. row.pc = "recover" /\ row.batch = b
  BY <1>2 DEF Resting
<1>4. ResumeCourse
  BY <1>1, <1>2, <1>3, RecoverCourse DEF Rows
<1>5. \A q \in Proc \ {p} : resume'[q] = resume[q]
  BY <1>1 DEF LifecycleTypeOK
<1>6. QED BY <1>1, <1>4, <1>5, NotHolding, KeepExecCourse, MemoryCourse

LEMMA TimesOutCourse ==
  ASSUME OwnershipInv, Effect, NEW e \in Exec, TimesOut(e)
  PROVE  Course
<1> USE DEF OwnershipInv, LifecycleInv
<1>1. \A f \in Exec : exec[f] \in ExecRow /\ exec'[f] = IF f = e THEN [exec[e] EXCEPT !.pc = "raised"] ELSE exec[f]
  BY DEF LifecycleTypeOK, TimesOut
<1>2. /\ exec'[e].run = exec[e].run /\ exec'[e].parent = exec[e].parent
      /\ exec'[e].waits = exec[e].waits /\ exec'[e].pc = "raised"
  BY <1>1 DEF ExecRow
<1>3. exec[e].waits # {} /\ exec[e] # NoExec
  BY DEF TimesOut, NoExec
<1>4. \A f \in Exec : exec[f] # NoExec => exec[f].pc # "off"
  BY DEF ExecsOK, LiveExec
<1>5. ExecCourse
  BY <1>1, <1>2, <1>3, <1>4, ShrinkCourse
<1>6. QED BY <1>5, MemoryCourse, KeepResumeCourse DEF TimesOut

-----------------------------------------------------------------------------
(* The course of the actions that end runs and executors.                  *)

LEMMA ConflictCourse ==
  ASSUME OwnershipInv, Effect, NEW e \in Exec, Conflict(e), UNCHANGED <<resume, crashes>>
  PROVE  Course
<1> USE DEF OwnershipInv, LifecycleInv
<1>1. ExecCourse
  BY GoneCourse DEF Conflict
<1>2. QED BY <1>1, MemoryCourse, KeepResumeCourse DEF Conflict

\* finalizePendingInteractions leaves no claim, and no row that is being resumed.
LEMMA FinalizedRow ==
  ASSUME NEW row \in InterRow, NEW target \in Terminal \cup {"suspended"}
  PROVE  /\ ~FinalizeRow(row, target).lapsed
         /\ FinalizeRow(row, target).status = Finalized(target, row.status)
         /\ FinalizeRow(row, target).status # "resuming"
         /\ FinalizeRow(row, target).batch = row.batch /\ FinalizeRow(row, target).root = row.root
<1>1. Finalized(target, row.status) # "resuming"
  BY DEF Finalized, Terminal, Open
<1>2. QED BY <1>1 DEF FinalizeRow, Unclaimed, InterRow

LEMMA SuspendOwnerCourse ==
  ASSUME OwnershipInv, Effect, NEW e \in Exec, NEW r \in LeaseOwner, exec[e].run = r, exec[e].pc = "raised",
         Finalizable(r, "suspended"), run' = SetStatus({r}, "suspended"),
         inter' = FinalizeRows({r}, "suspended"), retry' = retry \cup ReadyBatches(r),
         ExecutorGone(e, {r} \cap LeaseOwner, r \in ChildRun), resume' = resume
  PROVE  Course
<1> USE DEF OwnershipInv, LifecycleInv, Effect
<1>1. LiveExec(e) /\ r \in Run /\ r \notin ChildRun
  BY DEF LiveExec, Run, LeaseOwner
<1>2. run[r].status = "running" /\ Tree(r) = r
  BY <1>1, LiveRun DEF Finalizable, ExecsOK, LeasesOK, LiveExec
<1>3. /\ \A q \in Run : run'[q] = IF q = r THEN [run[r] EXCEPT !.status = "suspended"] ELSE run[q]
      /\ run'[r].status = "suspended"
  BY <1>1 DEF SetStatus, LifecycleTypeOK, RunRow
<1>4. \A i \in Inter : /\ inter[i].root # r => inter'[i] = inter[i]
                       /\ inter[i].root = r =>
                            /\ ~inter'[i].lapsed /\ inter'[i].status # "resuming"
                            /\ inter'[i].status = Finalized("suspended", inter[i].status)
                       /\ inter'[i].batch = inter[i].batch /\ inter'[i].root = inter[i].root
  <2> TAKE i \in Inter
  <2>1. inter[i] \in InterRow
    BY DEF LifecycleTypeOK
  <2>2. inter'[i] = IF inter[i].root = r THEN FinalizeRow(inter[i], "suspended") ELSE inter[i]
    BY DEF FinalizeRows
  <2>3. QED BY <2>1, <2>2, FinalizedRow
<1>5. \A p \in Proc : ~Engaged(p, r)
  BY DEF ResumesOK
<1>6. \A i \in Inter : inter[i].root = r => inter[i].status # "resuming"
  BY <1>5, ClaimEngaged
<1>7. ExecCourse /\ \A f \in Exec : exec'[f].run # r
  <2>1. ExecCourse /\ exec'[e] = NoExec /\ \A f \in Exec : exec'[f].run \in {exec[f].run, None}
    BY <1>1, GoneCourse
  <2>2. \A f \in Exec \ {e} : exec[f].run # r
    BY <1>1, StatusesApart DEF OneExecutor, ExecsOK, NoExec
  <2>3. QED BY <2>1, <2>2, StatusesApart DEF NoExec
<1>8. RunCourse
  <2>1. \A p \in Proc : ~Engaged(p, r)'
    BY <1>4, <1>5, EngagedBefore
  <2>2. \E i \in Inter : inter'[i].root = r /\ inter'[i].status \in {"suspended", "resolved"}
    <3>1. PICK i \in Inter : inter[i].root = r /\ inter[i].status \in Open
      BY <1>2 DEF WaitsOK, HasOpen, Active
    <3>2. Finalized("suspended", inter[i].status) \in {"suspended", "resolved"}
      BY <1>6, <3>1 DEF Open, Finalized
    <3>3. QED BY <1>4, <3>1, <3>2
  <2>3. Parked(r)
    BY <1>1, <1>7, <2>1, <2>2 DEF Parked
  <2>4. QED BY <1>2, <1>3, <2>3, StatusesApart DEF RunCourse
<1>9. RowCourse
  <2> SUFFICES ASSUME NEW i \in Inter
               PROVE  /\ ~inter'[i].lapsed
                      /\ inter[i].status \in Open => inter'[i].status \in Open
                      /\ inter[i].status \in {"suspended", "resolved"} => inter'[i].status \in {"suspended", "resolved"}
    BY DEF RowCourse
  <2>1. CASE inter[i].root # r
    BY <1>4, <2>1 DEF Unlapsed
  <2>2. CASE inter[i].root = r
    BY <1>4, <1>6, <2>2 DEF Finalized, Open
  <2>3. QED BY <2>1, <2>2
<1>10. ClaimsOK'
  <2>1. \A i \in Inter : inter'[i].status = "resuming" => inter'[i] = inter[i] /\ inter[i].root # r
    BY <1>4
  <2>2. \A i \in Inter : inter[i].status = "resuming" => inter[i].root \in Run
    BY RowFacts, StatusesApart DEF InterRow
  <2>3. QED BY <1>3, <2>1, <2>2, ClaimsKept
<1>11. BatchesOK'
  BY <1>4, BatchesKept DEF ReadyBatches, Ready
<1>12. QED BY <1>7, <1>8, <1>9, <1>10, <1>11, KeepResumeCourse DEF Course

LEMMA SuspendChildCourse ==
  ASSUME OwnershipInv, Effect, NEW e \in Exec, NEW k \in ChildRun, exec[e].run = k, exec[e].pc = "raised",
         Finalizable(k, "suspended"), run' = SetStatus({k}, "suspended"),
         ExecutorGone(e, {k} \cap LeaseOwner, TRUE), UNCHANGED <<inter, retry, resume>>
  PROVE  Course
<1> USE DEF OwnershipInv, LifecycleInv
<1>1. LiveExec(e) /\ k \in Run /\ k \notin LeaseOwner
  BY DEF LiveExec, Run, LeaseOwner
<1>2. \A q \in Run : run'[q] = IF q = k THEN [run[k] EXCEPT !.status = "suspended"] ELSE run[q]
  BY <1>1 DEF SetStatus
<1>3. ExecCourse /\ \A f \in Exec : exec'[f].run # k
  <2>1. ExecCourse /\ exec'[e] = NoExec /\ \A f \in Exec : exec'[f].run \in {exec[f].run, None}
    BY <1>1, GoneCourse
  <2>2. \A f \in Exec \ {e} : exec[f].run # k
    BY <1>1, StatusesApart DEF OneExecutor, ExecsOK, NoExec
  <2>3. QED BY <1>1, <2>1, <2>2, StatusesApart DEF NoExec
<1>4. RunCourse
  <2>1. \A p \in Proc : ~Engaged(p, k)'
    BY <1>1, EngagedBefore, EngagedRoot DEF Effect
  <2>2. run[Tree(k)].status \in Active => HasOpen(Tree(k))
    BY DEF WaitsOK
  <2>3. Parked(k)
    BY <1>1, <1>3, <2>1, <2>2 DEF Parked
  <2>4. QED BY <1>1, <1>2, <2>3, StatusesApart DEF RunCourse
<1>5. \A q \in LeaseOwner : run[q].status = "running" => run'[q].status = "running"
  BY <1>1, <1>2, StatusesApart
<1>6. QED BY <1>3, <1>4, <1>5, KeepTables DEF Course

LEMMA SuspendCourse ==
  ASSUME OwnershipInv, Effect, NEW e \in Exec, Suspend(e)
  PROVE  Course
<1>1. PICK r : r = exec[e].run
  OBVIOUS
<1>2. exec[e].pc = "raised" /\ UNCHANGED <<resume, crashes>> /\ r \in Run
  BY <1>1, LiveRun DEF Suspend, OwnershipInv, LifecycleInv
<1>3. CASE ~Finalizable(r, "suspended")
  BY <1>1, <1>2, <1>3, ConflictCourse DEF Suspend
<1>4. CASE Finalizable(r, "suspended")
  <2>1. /\ run' = SetStatus({r}, "suspended")
        /\ inter' = IF r \in LeaseOwner THEN FinalizeRows({r}, "suspended") ELSE inter
        /\ retry' = IF r \in LeaseOwner THEN retry \cup ReadyBatches(r) ELSE retry
        /\ ExecutorGone(e, {r} \cap LeaseOwner, r \in ChildRun)
    BY <1>1, <1>4 DEF Suspend
  <2>2. CASE r \in LeaseOwner
    BY <1>1, <1>2, <1>4, <2>1, <2>2, SuspendOwnerCourse
  <2>3. CASE r \in ChildRun
    <3>1. r \notin LeaseOwner /\ (r \in ChildRun) = TRUE
      BY <2>3 DEF LeaseOwner
    <3>2. ExecutorGone(e, {r} \cap LeaseOwner, TRUE)
      BY <2>1, <3>1
    <3>3. QED BY <1>1, <1>2, <1>4, <2>1, <2>3, <3>1, <3>2, SuspendChildCourse
  <2>4. QED BY <1>2, <2>2, <2>3 DEF Run
<1>5. QED BY <1>3, <1>4

LEMMA EndOwnerCourse ==
  ASSUME OwnershipInv, Effect, NEW e \in Exec, NEW s \in Terminal, NEW r \in LeaseOwner, exec[e].run = r,
         LiveExec(e), run' = TerminalRuns(r, s), inter' = FinalizeRows({r}, s),
         ExecutorGone(e, {r} \cap LeaseOwner, FALSE), UNCHANGED <<retry, resume>>
  PROVE  Course
<1> USE DEF OwnershipInv, LifecycleInv, Effect
<1>1. ExecCourse
  BY GoneCourse
<1>2. \A q \in Run : run'[q] = run[q] \/ (run[q].status \in Active /\ run'[q].status \in Terminal)
  <2> TAKE q \in Run
  <2>1. run[q] \in RunRow
    BY DEF LifecycleTypeOK
  <2>2. \/ run'[q] = run[q]
        \/ run[q].status \in Active /\ \E t \in Terminal : run'[q] = [run[q] EXCEPT !.status = t]
    BY DEF TerminalRuns, Cascade, Terminal
  <2>3. QED BY <2>1, <2>2 DEF RunRow
<1>3. RunCourse
  <2>1. \A q \in Run : run'[q] = run[q] \/ (run'[q].status # "suspended" /\ run[q].status # "absent")
    BY <1>2 DEF Active, Terminal
  <2>2. QED BY <2>1, StatusesApart DEF RunCourse
<1>4. \A i \in Inter : /\ inter[i].root # r => inter'[i] = inter[i]
                       /\ inter[i].root = r => ~inter'[i].lapsed /\ inter'[i].status # "resuming"
                       /\ inter'[i].batch = inter[i].batch
  <2> TAKE i \in Inter
  <2>1. inter[i] \in InterRow
    BY DEF LifecycleTypeOK
  <2>2. inter'[i] = IF inter[i].root = r THEN FinalizeRow(inter[i], s) ELSE inter[i]
    BY DEF FinalizeRows
  <2>3. QED BY <2>1, <2>2, FinalizedRow
<1>5. run[r].status \in Active => run'[r].status \in Terminal
  <2>1. r \in Run /\ run[r] \in RunRow
    BY StatusesApart DEF LifecycleTypeOK
  <2>2. run[r].status \in Active => run'[r] = [run[r] EXCEPT !.status = s]
    BY <2>1 DEF TerminalRuns
  <2>3. QED BY <2>1, <2>2 DEF RunRow
<1>6. run[r].status \notin Active => run'[r].status \notin Active \cup {"suspended"}
  BY <1>2, StatusesApart DEF Active, Terminal
<1>7. RowCourse
  <2> SUFFICES ASSUME NEW i \in Inter
               PROVE  /\ ~inter'[i].lapsed
                      /\ inter[i].root # r => inter'[i] = inter[i]
                      /\ inter[i].root = r => run'[r].status \notin Active \cup {"suspended"}
    BY DEF RowCourse
  <2>1. r \in Run
    BY StatusesApart
  <2>2. QED BY <1>4, <1>5, <1>6 DEF Unlapsed, Active, Terminal
<1>8. ClaimsOK'
  <2>1. ASSUME NEW i \in Inter, inter'[i].status = "resuming", run[inter[i].root].status = "running"
        PROVE  run'[inter[i].root].status = "running"
    <3>1. inter[i].root # r /\ inter'[i] = inter[i]
      BY <1>4, <2>1
    <3>2. inter[i].root \in LeaseOwner
      BY <2>1, <3>1, RowFacts DEF InterRow
    <3>3. inter[i].root \notin Cascade(r)
      BY <3>1, <3>2, <2>1 DEF Cascade, LeasesOK, Tree
    <3>4. run'[inter[i].root] = run[inter[i].root]
      BY <3>1, <3>2, <3>3, StatusesApart DEF TerminalRuns
    <3>5. QED BY <2>1, <3>4
  <2>2. QED BY <1>4, <2>1, ClaimsKept
<1>9. BatchesOK'
  BY <1>4, BatchesKept
<1>10. QED BY <1>1, <1>3, <1>7, <1>8, <1>9, KeepResumeCourse DEF Course

LEMMA EndChildCourse ==
  ASSUME OwnershipInv, Effect, NEW e \in Exec, NEW s \in Terminal, NEW k \in ChildRun, exec[e].run = k,
         LiveExec(e), run' = TerminalRuns(k, s),
         ExecutorGone(e, {k} \cap LeaseOwner, FALSE), UNCHANGED <<inter, retry, resume>>
  PROVE  Course
<1> USE DEF OwnershipInv, LifecycleInv
<1>1. ExecCourse
  BY GoneCourse
<1>2. k \notin LeaseOwner /\ k \in Run
  BY DEF LeaseOwner, Run
<1>3. \A q \in Run : run'[q] = run[q] \/ (q = k /\ run'[q].status = s /\ run[q].status \in Active)
  <2> TAKE q \in Run
  <2>1. run[q] \in RunRow
    BY DEF LifecycleTypeOK
  <2>2. QED BY <1>2, <2>1 DEF TerminalRuns, RunRow
<1>4. RunCourse
  BY <1>2, <1>3 DEF RunCourse, Terminal, Active, Run
<1>5. \A q \in LeaseOwner : run[q].status = "running" => run'[q].status = "running"
  BY <1>2, <1>3, StatusesApart
<1>6. QED BY <1>1, <1>4, <1>5, KeepTables DEF Course

LEMMA EndCourse ==
  ASSUME OwnershipInv, Effect, NEW e \in Exec, NEW s \in Terminal, End(e, s)
  PROVE  Course
<1>1. PICK r : r = exec[e].run
  OBVIOUS
<1>2. exec[e].pc # "off" /\ UNCHANGED <<resume, crashes>>
  BY DEF End
<1>3. r \in Run /\ LiveExec(e)
  BY <1>1, <1>2, LiveRun DEF LiveExec, OwnershipInv, LifecycleInv
<1>4. CASE ~Finalizable(r, s)
  BY <1>1, <1>2, <1>4, ConflictCourse DEF End
<1>5. CASE Finalizable(r, s)
  <2>1. /\ run' = TerminalRuns(r, s)
        /\ inter' = IF r \in LeaseOwner THEN FinalizeRows({r}, s) ELSE inter
        /\ ExecutorGone(e, {r} \cap LeaseOwner, FALSE) /\ retry' = retry
    BY <1>1, <1>5 DEF End
  <2>2. CASE r \in LeaseOwner
    BY <1>1, <1>2, <1>3, <2>1, <2>2, EndOwnerCourse
  <2>3. CASE r \in ChildRun
    BY <1>1, <1>2, <1>3, <2>1, <2>3, EndChildCourse DEF LeaseOwner
  <2>4. QED BY <1>3, <2>2, <2>3 DEF Run
<1>6. QED BY <1>4, <1>5

LEMMA StopCourse ==
  ASSUME OwnershipInv, Effect, NEW e \in Exec, Stop(e)
  PROVE  Course
<1> USE DEF OwnershipInv, LifecycleInv
<1> DEFINE new(f) == [exec[f] EXCEPT !.pc = "aborted", !.waits = {}]
<1>1. \A f \in Exec : exec'[f] = exec[f] \/ (exec[f].pc # "off" /\ exec'[f] = new(f))
  BY DEF Stop, LifecycleTypeOK
<1>2. \A f \in Exec : /\ new(f).run = exec[f].run /\ new(f).parent = exec[f].parent
                      /\ new(f).pc = "aborted" /\ new(f).waits = {}
  BY DEF LifecycleTypeOK, ExecRow
<1> HIDE DEF new
<1>3. \A f \in Exec : exec[f].pc # "off" <=> exec[f] # NoExec
  BY DEF ExecsOK, LiveExec, NoExec
<1>4. ExecCourse
  BY <1>1, <1>2, <1>3, ShrinkCourse
<1>5. QED BY <1>4, MemoryCourse, KeepResumeCourse DEF Stop

LEMMA InterruptCourse ==
  ASSUME OwnershipInv, Effect, InterruptSession
  PROVE  Course
<1> USE DEF OwnershipInv, LifecycleInv, Effect
<1>1. PICK open : open = {r \in Run : run[r].status \in Active}
  OBVIOUS
<1>2. /\ run' = SetStatus(open, "interrupted") /\ inter' = FinalizeRows(open, "interrupted")
      /\ exec' = [e \in Exec |-> [exec[e] EXCEPT !.waits = {}]]
      /\ UNCHANGED <<resume, retry, crashes>>
  BY <1>1 DEF InterruptSession
<1>3. \A q \in Run : run'[q] = run[q] \/ (run'[q].status = "interrupted" /\ run[q].status \in Active)
  <2> TAKE q \in Run
  <2>1. run[q] \in RunRow
    BY DEF LifecycleTypeOK
  <2>2. QED BY <1>1, <1>2, <2>1 DEF SetStatus, RunRow
<1>4. RunCourse
  BY <1>3, StatusesApart DEF RunCourse, Active
<1>5. \A q \in open : run'[q].status = "interrupted"
  <2> TAKE q \in open
  <2>1. q \in Run /\ run[q] \in RunRow
    BY <1>1 DEF LifecycleTypeOK
  <2>2. QED BY <1>2, <2>1 DEF SetStatus, RunRow
<1>6. \A i \in Inter : /\ inter[i].root \notin open => inter'[i] = inter[i]
                       /\ inter[i].root \in open => ~inter'[i].lapsed /\ inter'[i].status # "resuming"
                       /\ inter'[i].batch = inter[i].batch
  <2> TAKE i \in Inter
  <2>1. inter[i] \in InterRow /\ "interrupted" \in Terminal
    BY DEF LifecycleTypeOK, Terminal
  <2>2. inter'[i] = IF inter[i].root \in open THEN FinalizeRow(inter[i], "interrupted") ELSE inter[i]
    BY <1>2 DEF FinalizeRows
  <2>3. QED BY <2>1, <2>2, FinalizedRow
<1>7. RowCourse
  <2> SUFFICES ASSUME NEW i \in Inter
               PROVE  /\ ~inter'[i].lapsed
                      /\ inter[i].root \notin open => inter'[i] = inter[i]
                      /\ inter[i].root \in open => run'[inter[i].root].status = "interrupted"
    BY DEF RowCourse, Active
  <2>1. QED BY <1>5, <1>6 DEF Unlapsed
<1>8. ClaimsOK'
  <2>1. ASSUME NEW i \in Inter, inter'[i].status = "resuming"
        PROVE  inter'[i] = inter[i] /\ run[inter[i].root].status # "running"
    <3>1. inter[i].root \notin open /\ inter'[i] = inter[i]
      BY <1>6, <2>1
    <3>2. inter[i].root \in Run
      BY <2>1, <3>1, RowFacts, StatusesApart DEF InterRow
    <3>3. QED BY <1>1, <3>1, <3>2 DEF Active
  <2>2. QED BY <1>2, <2>1, ClaimsKept
<1>9. BatchesOK'
  BY <1>2, <1>6, BatchesKept
<1>10. ExecCourse
  <2>1. \A e \in Exec : exec[e] \in ExecRow /\ exec'[e] = [exec[e] EXCEPT !.waits = {}]
    BY <1>2 DEF LifecycleTypeOK
  <2>2. \A e \in Exec : /\ exec'[e].run = exec[e].run /\ exec'[e].parent = exec[e].parent
                        /\ exec'[e].pc = exec[e].pc /\ exec'[e].waits = {}
    BY <2>1 DEF ExecRow
  <2>3. \A e \in Exec : exec[e] = NoExec => exec'[e] = NoExec
    BY <2>1 DEF NoExec
  <2>4. \A e \in Exec : exec[e] # NoExec => exec[e].pc # "off"
    BY DEF ExecsOK, LiveExec
  <2>5. QED BY <2>2, <2>3, <2>4, ShrinkCourse
<1>11. QED BY <1>2, <1>4, <1>7, <1>8, <1>9, <1>10, KeepResumeCourse DEF Course

-----------------------------------------------------------------------------
(* The course of tryResume.                                                *)

LEMMA RecoverStepCourse ==
  ASSUME OwnershipInv, Effect, NEW p \in Proc, Recover(p)
  PROVE  Course
<1> USE DEF OwnershipInv, LifecycleInv
<1>1. run' = run /\ inter' = inter
  <2>1. {i \in Inter : inter[i].status = "resuming" /\ inter[i].lapsed} = {}
    BY DEF Unlapsed
  <2>2. /\ run' = SetStatus({}, "suspended")
        /\ inter' = [i \in Inter |-> inter[i]]
    BY <2>1 DEF Recover
  <2>3. QED BY <2>2 DEF SetStatus, LifecycleTypeOK
<1>2. resume[p].pc = "recover" /\ Step(p, "claim") /\ exec' = exec /\ retry' = retry
  BY DEF Recover
<1>3. ResumeCourse
  BY <1>2, StepCourse
<1>4. \A q \in Proc \ {p} : resume'[q] = resume[q]
  BY <1>2 DEF Step, LifecycleTypeOK
<1>5. QED BY <1>1, <1>2, <1>3, <1>4, NotHolding, KeepExecCourse, MemoryCourse

LEMMA ClaimCourse ==
  ASSUME OwnershipInv, Effect, NEW p \in Proc, Claim(p)
  PROVE  Course
<1> USE DEF OwnershipInv, LifecycleInv, Effect
<1>1. PICK b : b = resume[p].batch
  OBVIOUS
<1>2. /\ resume[p].pc = "claim" /\ Step(p, "attach") /\ exec' = exec /\ retry' = retry
      /\ b \in Batch /\ b # None
  BY <1>1 DEF Claim, LifecycleTypeOK, ResumeRow
<1>3. PICK r \in RootOf(b) : Claimable(b, r) /\ ClaimBatch(p, b, r)
  BY <1>1 DEF Claim
<1>4. /\ RootOf(b) = {r} /\ r \in LeaseOwner /\ r \in Run /\ run[r].status = "suspended"
      /\ \A i \in Rows(b) : inter[i].status = "resolved" /\ inter[i].root = r
  <2>1. PICK i \in Rows(b) : inter[i].root = r
    BY <1>3 DEF RootOf
  <2>2. QED BY <1>2, <1>3, <2>1, OneRoot, StatusesApart DEF Claimable, Ready, RootOf
<1>5. \A q \in Run : run'[q] = IF q = r THEN [run[r] EXCEPT !.status = "running"] ELSE run[q]
  BY <1>3, <1>4 DEF ClaimBatch, LifecycleTypeOK
<1>6. run'[r].status = "running"
  BY <1>4, <1>5 DEF LifecycleTypeOK, RunRow
<1>7. \A i \in Inter : /\ i \notin Rows(b) => inter'[i] = inter[i]
                       /\ i \in Rows(b) => /\ inter'[i].status = "resuming" /\ inter'[i].claim = p
                                           /\ inter'[i].lapsed = inter[i].lapsed
                       /\ inter'[i].batch = inter[i].batch /\ inter'[i].root = inter[i].root
  <2> TAKE i \in Inter
  <2>1. inter[i] \in InterRow
    BY DEF LifecycleTypeOK
  <2>2. inter'[i] = IF i \in Rows(b) THEN [inter[i] EXCEPT !.status = "resuming", !.claim = p] ELSE inter[i]
    BY <1>3 DEF ClaimBatch
  <2>3. QED BY <2>1, <2>2 DEF InterRow
<1>8. RunCourse
  BY <1>4, <1>5, <1>6, StatusesApart DEF RunCourse
<1>9. RowCourse
  BY <1>4, <1>6, <1>7 DEF RowCourse, Unlapsed, Open
<1>10. BatchesOK'
  BY <1>2, <1>7, BatchesKept
<1>11. resume'[p].pc = "attach" /\ resume'[p].batch = b /\ \A q \in Proc \ {p} : resume'[q] = resume[q]
  BY <1>1, <1>2 DEF Step, LifecycleTypeOK, ResumeRow
<1>12. ClaimsOK'
  <2> SUFFICES ASSUME NEW i \in Inter, inter'[i].status = "resuming"
               PROVE  /\ run'[inter'[i].root].status = "running"
                      /\ \E q \in Proc : /\ inter'[i].claim = q /\ resume'[q].pc \in {"attach", "rollback"}
                                         /\ resume'[q].batch = inter'[i].batch
    BY DEF ClaimsOK
  <2>1. CASE i \in Rows(b)
    BY <1>4, <1>6, <1>7, <1>11, <2>1 DEF Rows
  <2>2. CASE i \notin Rows(b)
    <3>1. inter'[i] = inter[i] /\ run[inter[i].root].status = "running" /\ inter[i].root \in Run
      BY <1>7, <2>2, RowFacts, StatusesApart DEF ClaimsOK, InterRow
    <3>2. PICK q \in Proc : /\ inter[i].claim = q /\ resume[q].pc \in {"attach", "rollback"}
                            /\ resume[q].batch = inter[i].batch
      BY <3>1 DEF ClaimsOK
    <3>3. q # p
      BY <1>2, <3>2
    <3>4. QED BY <1>5, <1>6, <1>11, <3>1, <3>2, <3>3
  <2>3. QED BY <2>1, <2>2
<1>13. ResumeCourse
  <2>1. RootOf(b)' = {r}
    BY <1>4, <1>7 DEF RootOf, Rows
  <2>2. \A q \in Proc \ {p} : ~Engaged(q, r)'
    BY <1>4, <1>7, <1>11, EngagedBefore DEF ResumesOK
  <2>3. \A x \in LeaseOwner : Engaged(p, x)' => x = r
    BY <1>11, <2>1 DEF Engaged, RootOf, Rows
  <2>4. \A e \in Exec : exec[e].run # r
    BY <1>4, StatusesApart DEF ExecsOK, NoExec
  <2>5. Claims(p)
    BY <1>2, <1>6, <2>2, <2>3, <2>4 DEF Claims
  <2>6. QED BY <1>1, <1>2, <1>11, <2>5 DEF ResumeCourse
<1>14. QED BY <1>2, <1>8, <1>9, <1>10, <1>12, <1>13, KeepExecCourse DEF Course

LEMMA RestsHolding ==
  ASSUME OwnershipInv, NEW p \in Proc, Rest(p) \/ \E pc \in {"start", "rollback"} : Step(p, pc)
  PROVE  \A q \in Proc \ {p} : resume'[q] = resume[q]
  BY DEF Rest, Step, OwnershipInv, LifecycleInv, LifecycleTypeOK

LEMMA ClaimRefusedCourse ==
  ASSUME OwnershipInv, Effect, NEW p \in Proc, ClaimRefused(p)
  PROVE  Course
<1> USE DEF OwnershipInv, LifecycleInv
<1>1. /\ resume[p].pc = "claim" /\ Rest(p) /\ UNCHANGED <<run, inter, retry>>
      /\ exec' = exec \/ \E i : exec' = Wake(i)
  BY DEF ClaimRefused
<1>2. ExecCourse
  BY <1>1, KeepExecCourse, WakeCourse
<1>3. QED BY <1>1, <1>2, RestCourse, RestsHolding, NotHolding, MemoryCourse

LEMMA StartFailedCourse ==
  ASSUME OwnershipInv, Effect, NEW p \in Proc, StartFailed(p)
  PROVE  Course
<1> USE DEF OwnershipInv, LifecycleInv
<1>1. resume[p].pc = "start" /\ Step(p, "rollback") /\ UNCHANGED <<run, inter, exec, retry>>
  BY DEF StartFailed
<1>2. ResumeCourse
  BY <1>1, StepCourse
<1>3. QED BY <1>1, <1>2, RestsHolding, NotHolding, KeepExecCourse, MemoryCourse

LEMMA StartCourse ==
  ASSUME OwnershipInv, Effect, NEW p \in Proc, NEW e \in Exec, Start(p, e)
  PROVE  Course
<1> USE DEF OwnershipInv, LifecycleInv, Effect
<1>1. /\ resume[p].pc = "start" /\ exec[e] = NoExec /\ Rest(p)
      /\ UNCHANGED <<run, inter, retry>>
  BY DEF Start
<1>2. PICK r \in RootOf(resume[p].batch) : Begin(e, r, None)
  BY DEF Start
<1>3. Engaged(p, r)
  BY <1>1, <1>2 DEF Engaged
<1>4. r \in LeaseOwner /\ run[r].status # "suspended" /\ \A g \in Exec : exec[g].run # r
  BY <1>3, EngagedRoot DEF ResumesOK
<1>5. \A q \in Proc : ~Engaged(q, r)'
  <2>1. ~Engaged(p, r)'
    BY <1>1 DEF Rest, Resting, LifecycleTypeOK, Engaged
  <2>2. \A q \in Proc \ {p} : Engaged(q, r)' => Engaged(q, r)
    BY <1>1, RestsHolding, EngagedBefore
  <2>3. QED BY <1>3, <1>4, <2>1, <2>2 DEF ResumesOK
<1>6. ExecCourse
  BY <1>1, <1>2, <1>4, <1>5, BeginCourse
<1>7. QED BY <1>1, <1>6, RestCourse, RestsHolding, NotHolding, MemoryCourse

LEMMA ReleasedRow ==
  ASSUME LifecycleTypeOK, NEW rows, inter' = ReleaseRows(rows), NEW i \in Inter
  PROVE  /\ i \notin rows => inter'[i] = inter[i]
         /\ i \in rows => inter'[i].status = "resolved" /\ ~inter'[i].lapsed
         /\ inter'[i].batch = inter[i].batch /\ inter'[i].root = inter[i].root
<1>1. inter[i] \in InterRow
  BY DEF LifecycleTypeOK
<1>2. inter'[i] = IF i \in rows THEN Unclaimed(inter[i], "resolved") ELSE inter[i]
  BY DEF ReleaseRows
<1>3. QED BY <1>1, <1>2 DEF Unclaimed, InterRow

LEMMA ReleaseCourse ==
  ASSUME OwnershipInv, NEW p \in Proc, inter' = ReleaseRows(Held(p)) \/ inter' = inter
  PROVE  RowCourse /\ \A i \in Inter : inter'[i].batch = inter[i].batch
<1> USE DEF OwnershipInv, LifecycleInv
<1>1. CASE inter' = inter
  BY <1>1, KeepRowCourse
<1>2. CASE inter' = ReleaseRows(Held(p))
  <2>1. \A i \in Inter : /\ i \notin Held(p) => inter'[i] = inter[i]
                         /\ i \in Held(p) => inter'[i].status = "resolved" /\ ~inter'[i].lapsed
                         /\ inter'[i].batch = inter[i].batch
    BY <1>2, ReleasedRow
  <2>2. \A i \in Inter : inter'[i] = inter[i] \/ (inter'[i].status = "resolved" /\ ~inter'[i].lapsed)
    BY <2>1
  <2>3. RowCourse
    BY <2>2 DEF RowCourse, Unlapsed, Open
  <2>4. QED BY <2>1, <2>3
<1>3. QED BY <1>1, <1>2

LEMMA AttachCourse ==
  ASSUME OwnershipInv, Effect, NEW p \in Proc, Attach(p)
  PROVE  Course
<1> USE DEF OwnershipInv, LifecycleInv, Effect
<1>1. /\ resume[p].pc = "attach" /\ UNCHANGED <<run, exec, retry>>
      /\ \/ inter' = ReleaseRows(Held(p)) /\ Step(p, "start")
         \/ /\ inter' = inter /\ Step(p, "rollback")
            /\ Held(p) = {} \/ ~ \A r \in RootOf(resume[p].batch) : run[r].status = "running"
  BY DEF Attach
<1>2. ResumeCourse
  BY <1>1, StepCourse
<1>3. RowCourse /\ \A i \in Inter : inter'[i].batch = inter[i].batch
  BY <1>1, ReleaseCourse
<1>4. BatchesOK'
  BY <1>1, <1>3, BatchesKept
<1>5. \A i \in Held(p) : run[inter[i].root].status = "running" /\ Engaged(p, inter[i].root)
  BY ClaimEngaged DEF Held, ClaimsOK
<1>6. \A i \in Held(p) : RootOf(resume[p].batch) = {inter[i].root}
  BY <1>5, EngagedRoot
<1>7. inter' = ReleaseRows(Held(p)) \/ (inter' = inter /\ Held(p) = {})
  BY <1>1, <1>5, <1>6
<1>8. \A i \in Inter : inter'[i].status = "resuming" => inter'[i] = inter[i] /\ inter[i].claim # p
  <2>1. CASE inter' = inter /\ Held(p) = {}
    BY <2>1 DEF Held
  <2>2. CASE inter' = ReleaseRows(Held(p))
    <3> TAKE i \in Inter
    <3>1. CASE i \in Held(p)
      BY <2>2, <3>1, ReleasedRow
    <3>2. CASE i \notin Held(p)
      BY <2>2, <3>2, ReleasedRow DEF Held
    <3>3. QED BY <3>1, <3>2
  <2>3. QED BY <1>7, <2>1, <2>2
<1>9. ClaimsOK'
  BY <1>1, <1>8, RestsHolding, ClaimsKept
<1>10. QED BY <1>1, <1>2, <1>3, <1>4, <1>9, KeepRunCourse, KeepExecCourse DEF Course

LEMMA RollbackCourse ==
  ASSUME OwnershipInv, Effect, NEW p \in Proc, Rollback(p)
  PROVE  Course
<1> USE DEF OwnershipInv, LifecycleInv, Effect
<1>1. PICK b : b = resume[p].batch
  OBVIOUS
<1>2. /\ resume[p].pc = "rollback" /\ Rest(p) /\ UNCHANGED <<exec, retry>>
      /\ b # None /\ Rows(b) # {}
  BY <1>1 DEF Rollback, LifecycleTypeOK, ResumesOK
<1>3. PICK r \in RootOf(b) : RootOf(b) = {r} /\ r \in LeaseOwner /\ r \in Run
  BY <1>2, OneRoot, StatusesApart
<1>4. Engaged(p, r)
  BY <1>1, <1>2, <1>3 DEF Engaged
<1>5. PICK undo : undo = {x \in RootOf(b) : run[x].status = "running" /\ (Held(p) # {} \/ Ready(b))}
  OBVIOUS
<1>6. inter' = (IF undo = {} THEN inter ELSE ReleaseRows(Held(p))) /\ run' = SetStatus(undo, "suspended")
  BY <1>1, <1>5 DEF Rollback
<1>7. \A i \in Held(p) : /\ i \in Inter /\ inter[i].root = r /\ run[r].status = "running"
                         /\ undo # {}
  <2> TAKE i \in Held(p)
  <2>1. i \in Inter /\ inter[i].status = "resuming" /\ inter[i].claim = p
    BY DEF Held
  <2>2. Engaged(p, inter[i].root) /\ run[inter[i].root].status = "running"
    BY <2>1, ClaimEngaged DEF ClaimsOK
  <2>3. inter[i].root = r
    BY <1>1, <1>3, <2>2, EngagedRoot
  <2>4. QED BY <1>3, <1>5, <2>1, <2>2, <2>3
<1>8. RowCourse /\ \A i \in Inter : inter'[i].batch = inter[i].batch
  BY <1>6, ReleaseCourse
<1>9. BatchesOK'
  BY <1>2, <1>8, BatchesKept
<1>10. \A q \in Run : run'[q] = IF q \in undo THEN [run[q] EXCEPT !.status = "suspended"] ELSE run[q]
  BY <1>6 DEF SetStatus
<1>11. \A i \in Inter : inter'[i].status = "resuming" => inter'[i] = inter[i] /\ inter[i].claim # p
  <2> TAKE i \in Inter
  <2> HAVE inter'[i].status = "resuming"
  <2>1. CASE undo = {}
    BY <1>6, <1>7, <2>1 DEF Held
  <2>2. CASE undo # {} /\ i \in Held(p)
    BY <1>6, <2>2, ReleasedRow
  <2>3. CASE undo # {} /\ i \notin Held(p)
    BY <1>6, <2>3, ReleasedRow DEF Held
  <2>4. QED BY <2>1, <2>2, <2>3
<1>12. \A q \in Proc \ {p} : ~Engaged(q, r)
  BY <1>3, <1>4 DEF ResumesOK
<1>13. ClaimsOK'
  <2>1. ASSUME NEW i \in Inter, inter'[i].status = "resuming"
        PROVE  run'[inter[i].root] = run[inter[i].root]
    <3>1. inter[i].status = "resuming" /\ inter[i].claim # p
      BY <1>11, <2>1
    <3>2. inter[i].root # r
      BY <1>12, <3>1, ClaimEngaged
    <3>3. inter[i].root \in Run
      BY <3>1, RowFacts, StatusesApart DEF InterRow
    <3>4. QED BY <1>3, <1>5, <1>10, <3>2, <3>3
  <2>2. QED BY <1>2, <1>11, <2>1, RestsHolding, ClaimsKept
<1>14. RunCourse
  <2>1. ASSUME r \in undo
        PROVE  Parked(r)
    <3>1. \A e \in Exec : exec'[e].run # r
      BY <1>2, <1>3, <1>4 DEF ResumesOK
    <3>2. \A q \in Proc : ~Engaged(q, r)'
      <4>1. ~Engaged(p, r)'
        BY <1>2 DEF Rest, Resting, LifecycleTypeOK, Engaged
      <4>2. \A q \in Proc \ {p} : Engaged(q, r)' => Engaged(q, r)
        BY <1>2, <1>8, RestsHolding, EngagedBefore
      <4>3. QED BY <1>12, <4>1, <4>2
    <3>3. \E i \in Inter : inter'[i].root = r /\ inter'[i].status \in {"suspended", "resolved"}
      <4>1. inter' = ReleaseRows(Held(p))
        BY <1>6, <2>1
      <4>2. CASE Held(p) # {}
        BY <1>7, <4>1, <4>2, ReleasedRow
      <4>3. CASE Held(p) = {} /\ Ready(b)
        <5>1. PICK i \in Rows(b) : inter[i].root = r /\ i \in Inter /\ inter[i].status = "resolved"
          BY <1>3, <4>3 DEF RootOf, Rows, Ready
        <5>2. QED BY <4>1, <4>3, <5>1, ReleasedRow
      <4>4. QED BY <1>5, <2>1, <4>2, <4>3
    <3>4. r \notin ChildRun
      BY <1>3 DEF LeaseOwner
    <3>5. QED BY <3>1, <3>2, <3>3, <3>4 DEF Parked
  <2>2. \A q \in Run : q \in undo => q = r
    BY <1>3, <1>5
  <2>3. \A q \in LeaseOwner : run[q].status = "absent" => run'[q].status = "absent"
    BY <1>5, <1>10, StatusesApart
  <2>4. QED BY <1>10, <2>1, <2>2, <2>3 DEF RunCourse
<1>15. QED BY <1>2, <1>8, <1>9, <1>13, <1>14, RestCourse, KeepExecCourse DEF Course

-----------------------------------------------------------------------------
(* The process stops.                                                      *)

\* What a crash makes of a row: of a tree that was running, it is released.
LEMMA CrashRows ==
  ASSUME OwnershipInv, Crash, NEW i \in Inter
  PROVE  /\ inter'[i].batch = inter[i].batch /\ inter'[i].root = inter[i].root /\ ~inter'[i].lapsed
         /\ inter'[i].status # "resuming"
         /\ inter[i].status \in Open => inter'[i].status \in Open
         /\ inter[i].status \notin Open => inter'[i].status = inter[i].status
         /\ inter[i].status \in {"suspended", "resolved"} => inter'[i].status \in {"suspended", "resolved"}
         /\ (inter[i].status \in Open /\ inter[i].root \in LeaseOwner /\ Orphaned(inter[i].root)) =>
              inter'[i].status \in {"suspended", "resolved"}
<1> USE DEF OwnershipInv, LifecycleInv
<1> DEFINE back == CASE inter[i].status = "resuming" -> "resolved"
                     [] inter[i].status = "waiting" -> "suspended" [] OTHER -> inter[i].status
           released == \E r \in LeaseOwner : inter[i].root = r /\ Orphaned(r)
<1>1. inter[i] \in InterRow
  BY DEF LifecycleTypeOK
<1>2. inter'[i] = IF ~released THEN inter[i]
                  ELSE [inter[i] EXCEPT !.claim = None, !.lapsed = FALSE, !.status = back]
  BY DEF Crash
<1>3. /\ back # "resuming"
      /\ inter[i].status \in Open => back \in {"suspended", "resolved"}
      /\ inter[i].status \notin Open => back = inter[i].status
  BY DEF Open
<1> HIDE DEF back
<1>4. inter[i].status = "resuming" => released
  <2>1. inter[i].status = "resuming" => inter[i].root \in LeaseOwner /\ run[inter[i].root].status = "running"
    BY RowFacts DEF ClaimsOK, InterRow
  <2>2. inter[i].status = "resuming" => run[inter[i].root].lease = inter[i].root
    BY <2>1 DEF LeasesOK, Tree
  <2>3. QED BY <2>1, <2>2, StatusesApart DEF Orphaned
<1> HIDE DEF released
<1>5. CASE ~released
  <2>1. inter'[i] = inter[i] /\ inter[i].status # "resuming"
    BY <1>2, <1>4, <1>5
  <2>2. ~ \E r \in LeaseOwner : inter[i].root = r /\ Orphaned(r)
    BY <1>5 DEF released
  <2>3. QED BY <2>1, <2>2 DEF Unlapsed
<1>6. CASE released
  <2>1. /\ inter'[i].batch = inter[i].batch /\ inter'[i].root = inter[i].root /\ ~inter'[i].lapsed
        /\ inter'[i].status = back
    BY <1>1, <1>2, <1>6 DEF InterRow
  <2>2. QED BY <1>3, <2>1 DEF Open
<1>7. QED BY <1>5, <1>6

LEMMA CrashCourse ==
  ASSUME OwnershipInv, Effect, Crash
  PROVE  Course
<1> USE DEF OwnershipInv, LifecycleInv, Effect
<1>1. /\ \A e \in Exec : exec'[e] = NoExec
      /\ \A p \in Proc : resume'[p] = Resting
      /\ retry' = {}
  BY DEF Crash
<1>2. \A q \in Run :
        \/ run'[q] = run[q]
        \/ /\ run[q].status = "running" /\ run'[q].lease = run[q].lease
           /\ run'[q].status = IF Pending(run[q].lease) THEN "suspended" ELSE "interrupted"
  <2> TAKE q \in Run
  <2>1. run[q] \in RunRow
    BY DEF LifecycleTypeOK
  <2>2. QED BY <2>1 DEF Crash, RunRow
<1>3. ASSUME NEW q \in Run, run[q].status = "running", run'[q].status = "suspended"
      PROVE  Parked(q)
  <2>1. Pending(run[q].lease)
    BY <1>2, <1>3
  <2>2. \A e \in Exec : exec'[e].run # q
    BY <1>1, StatusesApart DEF NoExec
  <2>3. \A p \in Proc : ~Engaged(p, q)'
    BY <1>1 DEF Engaged, Resting
  <2>4. q \in LeaseOwner => \E i \in Inter : inter'[i].root = q /\ inter'[i].status \in {"suspended", "resolved"}
    <3> HAVE q \in LeaseOwner
    <3>1. run[q].lease = q
      BY <1>3 DEF LeasesOK, Tree
    <3>2. Orphaned(q)
      BY <1>3, <3>1 DEF Orphaned
    <3>3. PICK i \in Inter : inter[i].root = q /\ inter[i].status \in Open
      BY <2>1, <3>1 DEF Pending
    <3>4. QED BY <3>2, <3>3, CrashRows
  <2>5. HasOpen(Tree(q))
    BY <2>1 DEF Pending, HasOpen, Tree
  <2>6. QED BY <2>2, <2>3, <2>4, <2>5 DEF Parked
<1>4. RunCourse
  BY <1>2, <1>3, StatusesApart DEF RunCourse
<1>5. RowCourse
  BY CrashRows DEF RowCourse
<1>6. ExecCourse /\ ResumeCourse
  BY <1>1 DEF ExecCourse, ResumeCourse, Resting
<1>7. BatchesOK'
  BY <1>1, CrashRows, BatchesKept
<1>8. ClaimsOK'
  BY CrashRows DEF ClaimsOK
<1>9. QED BY <1>4, <1>5, <1>6, <1>7, <1>8 DEF Course

-----------------------------------------------------------------------------
(* The invariant, and what follows from it.                                *)

LEMMA StutterCourse ==
  ASSUME OwnershipInv, UNCHANGED vars
  PROVE  Effect /\ Course
<1> USE DEF OwnershipInv, LifecycleInv
<1>1. Effect
  BY StutterEffect
<1>2. QED BY <1>1, KeepExecCourse, KeepResumeCourse, MemoryCourse DEF vars

LEMMA NextCourse ==
  ASSUME ~Lapses, OwnershipInv, Next
  PROVE  Effect /\ Course
<1>1. Effect
  BY NextEffect DEF OwnershipInv, LifecycleInv
<1>2. ASSUME NEW e \in Exec, Starts(e) \/ TimesOut(e) \/ Suspend(e) \/ Stop(e)
      PROVE  Course
  BY <1>1, <1>2, StartRootCourse, StartDetachedCourse, StartChildCourse, ResumeChildCourse,
     TimesOutCourse, SuspendCourse, StopCourse DEF Starts
<1>3. ASSUME NEW e \in Exec, NEW i \in Inter, NEW b \in Batch, Ask(e, i, b)
      PROVE  Course
  BY <1>1, <1>3, AskCourse
<1>4. ASSUME NEW e \in Exec, NEW s \in Terminal, End(e, s)
      PROVE  Course
  BY <1>1, <1>4, EndCourse
<1>5. ASSUME NEW p \in Proc, TryResume(p)
      PROVE  Course
  BY <1>1, <1>5, RecoverStepCourse, ClaimCourse, ClaimRefusedCourse, AttachCourse, StartCourse,
     StartFailedCourse, RollbackCourse DEF TryResume
<1>6. ASSUME NEW p \in Proc, NEW i \in Inter, Answer(p, i)
      PROVE  Course
  BY <1>1, <1>6, AnswerCourse
<1>7. ASSUME NEW p \in Proc, NEW b \in Batch, AskResume(p, b) \/ TakeRetry(p, b)
      PROVE  Course
  BY <1>1, <1>7, AskResumeCourse
<1>8. \A p \in Proc : ~LeaseLapses(p)
  BY DEF LeaseLapses
<1>9. QED BY <1>1, <1>2, <1>3, <1>4, <1>5, <1>6, <1>7, <1>8, InterruptCourse, CrashCourse DEF Next

LEMMA InitOwnership == Init => OwnershipInv
<1> SUFFICES ASSUME Init PROVE OwnershipInv
  OBVIOUS
<1>1. /\ \A r \in Run : run[r] = NoRun
      /\ \A i \in Inter : inter[i] = NoInter
      /\ \A e \in Exec : exec[e] = NoExec
      /\ \A p \in Proc : resume[p] = Resting
      /\ retry = {}
  BY DEF Init
<1>2. Unlapsed /\ ClaimsOK
  BY <1>1 DEF Unlapsed, ClaimsOK, NoInter
<1>8. BatchesOK
  BY <1>1 DEF BatchesOK
<1>3. LeasesOK /\ SuspendedRecoverable
  BY <1>1, StatusesApart DEF LeasesOK, SuspendedRecoverable, NoRun
<1>4. ExecsOK /\ OneExecutor
  BY <1>1 DEF ExecsOK, OneExecutor, LiveExec, NoExec
<1>5. ResumesOK
  BY <1>1 DEF ResumesOK, Engaged, Resting
<1>6. WaitsOK
  BY <1>1 DEF WaitsOK, NoExec, NoRun, Run
<1>7. QED BY <1>2, <1>3, <1>4, <1>5, <1>6, <1>8, InitInv DEF OwnershipInv

LEMMA StepOwnership ==
  ASSUME ~Lapses
  PROVE  OwnershipInv /\ [Next]_vars => OwnershipInv'
  BY NextCourse, StutterCourse, CourseKeepsInv

\* When no claim outlives its lease before it is attached, the invariant of who may act
\* for a run holds in every state.
THEOREM OwnershipInvariant ==
  ASSUME ~Lapses
  PROVE  Spec => []OwnershipInv
<1>1. QED BY InitOwnership, StepOwnership, PTL DEF Spec

\* When no claim outlives its lease, a run never has two executors, however starts,
\* concurrent resumes of its batches, replays by its parent, failing starters and
\* crashes interleave.
THEOREM SingleExecutor ==
  ASSUME ~Lapses
  PROVE  Spec => []OneExecutor
<1>1. OwnershipInv => OneExecutor
  BY DEF OwnershipInv
<1>2. QED BY <1>1, OwnershipInvariant, PTL

\* When no claim outlives its lease, a suspended run always has an interaction that
\* is waiting for its answer or has it: no timeout, rollback or crash leaves a run
\* suspended that nothing can bring back.
THEOREM SuspendedComesBack ==
  ASSUME ~Lapses
  PROVE  Spec => []SuspendedRecoverable
<1>1. OwnershipInv => SuspendedRecoverable
  BY DEF OwnershipInv
<1>2. QED BY <1>1, OwnershipInvariant, PTL

-----------------------------------------------------------------------------
(* The end of a tree, and what a rollback spares.                          *)

\* Only End, InterruptSession and Crash finish a run.
EndsNoRun == \A r \in Run : run[r].status \in Active => run'[r].status \notin Terminal

LEMMA OtherwiseEndsNoRun ==
  ASSUME LifecycleTypeOK, Next
  PROVE  \/ EndsNoRun \/ InterruptSession \/ Crash
         \/ \E e \in Exec, s \in Terminal : End(e, s)
<1>1. run' = run => EndsNoRun
  BY StatusesApart DEF EndsNoRun
<1>2. ASSUME NEW runs, NEW s \in Active, run' = SetStatus(runs, s)
      PROVE  EndsNoRun
  <2> SUFFICES ASSUME NEW q \in Run, run[q].status \in Active
               PROVE  run'[q].status \notin Terminal
    BY DEF EndsNoRun
  <2>1. run[q] \in RunRow
    BY DEF LifecycleTypeOK
  <2>2. run'[q] = IF q \in runs THEN [run[q] EXCEPT !.status = s] ELSE run[q]
    BY <1>2 DEF SetStatus
  <2>3. run'[q].status \in Active
    BY <2>1, <2>2 DEF RunRow
  <2>4. QED BY <2>3, StatusesApart
<1>3. ASSUME NEW q \in Run, NEW l, run' = [run EXCEPT ![q] = [status |-> "running", lease |-> l]]
      PROVE  EndsNoRun
  BY <1>3, StatusesApart DEF EndsNoRun, LifecycleTypeOK, Terminal
<1>4. ASSUME NEW q \in Run, run' = [run EXCEPT ![q].status = "running"]
      PROVE  EndsNoRun
  <2>1. run' = SetStatus({q}, "running")
    BY <1>4 DEF SetStatus, LifecycleTypeOK
  <2>2. QED BY <1>2, <2>1 DEF Active
<1>5. ASSUME NEW e \in Exec, Starts(e)
      PROVE  EndsNoRun
  BY <1>3, <1>4, <1>5 DEF Starts, StartRoot, StartDetached, StartChild, ResumeChild, Run, LeaseOwner
<1>6. ASSUME NEW e \in Exec, Suspend(e)
      PROVE  EndsNoRun
  <2>1. run' = run \/ run' = SetStatus({exec[e].run}, "suspended")
    BY <1>6 DEF Suspend, Conflict
  <2>2. QED BY <1>1, <1>2, <2>1 DEF Active
<1>7. ASSUME NEW p \in Proc, TryResume(p)
      PROVE  EndsNoRun
  <2>1. CASE Claim(p)
    <3>1. resume[p].batch \in Batch
      BY <2>1 DEF Claim, LifecycleTypeOK, ResumeRow
    <3>2. \A r \in RootOf(resume[p].batch) : run[r].status = "suspended" => r \in Run
      BY <3>1, RowFacts, StatusesApart DEF RootOf, Rows, InterRow
    <3>3. QED BY <1>4, <2>1, <3>2 DEF Claim, ClaimBatch, Claimable
  <2>2. CASE Recover(p) \/ Rollback(p)
    <3>1. \E runs : run' = SetStatus(runs, "suspended")
      BY <2>2 DEF Recover, Rollback
    <3>2. QED BY <1>2, <3>1 DEF Active
  <2>3. CASE run' = run
    BY <1>1, <2>3
  <2>4. QED BY <1>7, <2>1, <2>2, <2>3 DEF TryResume, ClaimRefused, Attach, Start, StartFailed
<1>8. ASSUME NEW e \in Exec, TimesOut(e) \/ Stop(e) \/ \E i \in Inter, b \in Batch : Ask(e, i, b)
      PROVE  EndsNoRun
  BY <1>1, <1>8 DEF TimesOut, Stop, Ask
<1>9. ASSUME NEW p \in Proc,
             \/ LeaseLapses(p) \/ \E i \in Inter : Answer(p, i)
             \/ \E b \in Batch : AskResume(p, b) \/ TakeRetry(p, b)
      PROVE  EndsNoRun
  BY <1>1, <1>9 DEF LeaseLapses, Answer, AskResume, TakeRetry
<1>10. QED BY <1>5, <1>6, <1>7, <1>8, <1>9 DEF Next

\* Nothing of the tree of r goes on, and nothing of it stays open.
TreeEnded(r) ==
  /\ \A q \in Run : run'[q].lease = r => run'[q].status \notin Active
  /\ \A i \in Inter : inter'[i].root = r => inter'[i].status \notin Open

\* An interaction whose row is finalized by the end of its root is no longer open.
LEMMA EndedRow ==
  ASSUME NEW row \in InterRow, NEW target \in Terminal
  PROVE  FinalizeRow(row, target).status \notin Open /\ FinalizeRow(row, target).root = row.root
<1>1. Finalized(target, row.status) \notin Open
  BY DEF Finalized, Open, Unanswered, Terminal
<1>2. QED BY <1>1 DEF FinalizeRow, Unclaimed, InterRow

LEMMA EndEndsTree ==
  ASSUME OwnershipInv, NEW e \in Exec, NEW s \in Terminal, End(e, s),
         NEW r \in LeaseOwner, run[r].status \in Active, run'[r].status \in Terminal
  PROVE  TreeEnded(r)
<1> USE DEF OwnershipInv, LifecycleInv
<1>1. PICK x : x = exec[e].run
  OBVIOUS
<1>2. run' # run
  BY StatusesApart
<1>3. /\ run' = TerminalRuns(x, s)
      /\ inter' = IF x \in LeaseOwner THEN FinalizeRows({x}, s) ELSE inter
  BY <1>1, <1>2 DEF End, Conflict
<1>4. r \in Run /\ Tree(r) = r
  BY StatusesApart DEF LeasesOK, Active
<1>5. x = r
  <2>1. run'[r] # run[r]
    BY StatusesApart
  <2>2. r = x \/ (x \in LeaseOwner /\ r \in Cascade(x))
    BY <1>3, <1>4, <2>1 DEF TerminalRuns
  <2>3. QED BY <1>4, <2>2 DEF Cascade, Tree
<1>6. ASSUME NEW q \in Run, run'[q].lease = r
      PROVE  run'[q].status \notin Active
  <2>1. run[q] \in RunRow
    BY DEF LifecycleTypeOK
  <2>2. run'[q].lease = run[q].lease
    BY <1>3, <2>1 DEF TerminalRuns, RunRow
  <2>3. CASE run[q].status \notin Active
    BY <1>3, <2>3, <2>1 DEF TerminalRuns, Cascade
  <2>4. CASE run[q].status \in Active
    <3>1. q = r \/ q \in Cascade(r)
      BY <1>6, <2>2, <2>4 DEF Cascade
    <3>2. run'[q] = [run[q] EXCEPT !.status = s] \/ run'[q] = [run[q] EXCEPT !.status = "failed"]
      BY <1>3, <1>5, <2>4, <3>1 DEF TerminalRuns
    <3>3. QED BY <2>1, <3>2, StatusesApart DEF RunRow, Terminal, Active
  <2>5. QED BY <2>3, <2>4
<1>7. ASSUME NEW i \in Inter, inter'[i].root = r
      PROVE  inter'[i].status \notin Open
  <2>1. inter[i] \in InterRow
    BY DEF LifecycleTypeOK
  <2>2. inter'[i] = IF inter[i].root = r THEN FinalizeRow(inter[i], s) ELSE inter[i]
    BY <1>3, <1>5 DEF FinalizeRows
  <2>3. QED BY <1>7, <2>1, <2>2, EndedRow
<1>8. QED BY <1>6, <1>7 DEF TreeEnded

LEMMA InterruptEndsTree ==
  ASSUME OwnershipInv, InterruptSession, NEW r \in LeaseOwner, run[r].status \in Active
  PROVE  TreeEnded(r)
<1> USE DEF OwnershipInv, LifecycleInv
<1>1. PICK open : open = {q \in Run : run[q].status \in Active}
  OBVIOUS
<1>2. run' = SetStatus(open, "interrupted") /\ inter' = FinalizeRows(open, "interrupted")
  BY <1>1 DEF InterruptSession
<1>3. \A q \in Run : run'[q].status \notin Active
  <2> TAKE q \in Run
  <2>1. run[q] \in RunRow /\ run'[q] = IF q \in open THEN [run[q] EXCEPT !.status = "interrupted"] ELSE run[q]
    BY <1>2 DEF LifecycleTypeOK, SetStatus
  <2>2. QED BY <1>1, <2>1 DEF RunRow, Active
<1>4. ASSUME NEW i \in Inter, inter'[i].root = r
      PROVE  inter'[i].status \notin Open
  <2>1. inter[i] \in InterRow /\ "interrupted" \in Terminal /\ r \in open
    BY <1>1, StatusesApart DEF LifecycleTypeOK, Terminal
  <2>2. inter'[i] = IF inter[i].root \in open THEN FinalizeRow(inter[i], "interrupted") ELSE inter[i]
    BY <1>2 DEF FinalizeRows
  <2>3. QED BY <1>4, <2>1, <2>2, EndedRow
<1>5. QED BY <1>3, <1>4 DEF TreeEnded

\* A crash interrupts a root only when nothing of its tree is open; so no child of it
\* is suspended.
LEMMA CrashEndsTree ==
  ASSUME OwnershipInv, Crash, NEW r \in LeaseOwner, run[r].status \in Active, run'[r].status \in Terminal
  PROVE  TreeEnded(r)
<1> USE DEF OwnershipInv, LifecycleInv
<1>1. \A q \in Run :
        /\ run'[q].lease = run[q].lease
        /\ run[q].status # "running" => run'[q] = run[q]
        /\ run[q].status = "running" =>
             run'[q].status = IF Pending(run[q].lease) THEN "suspended" ELSE "interrupted"
  <2> TAKE q \in Run
  <2>1. run[q] \in RunRow
    BY DEF LifecycleTypeOK
  <2>2. QED BY <2>1 DEF Crash, RunRow
<1>2. r \in Run /\ run[r].lease = r
  BY StatusesApart DEF LeasesOK, Active, Tree
<1>3. ~Pending(r)
  BY <1>1, <1>2 DEF Active, Terminal
<1>4. ASSUME NEW q \in Run, run'[q].lease = r
      PROVE  run'[q].status \notin Active
  <2>1. CASE run[q].status = "running"
    BY <1>1, <1>3, <1>4, <2>1 DEF Active
  <2>2. CASE run[q].status = "suspended"
    <3>1. q \notin LeaseOwner
      BY <1>1, <1>2, <1>4, <2>2, StatusesApart DEF LeasesOK, Tree, Active, Terminal
    <3>2. HasOpen(r)
      BY <1>1, <1>4, <2>2, <3>1 DEF WaitsOK, Tree, Run
    <3>3. QED BY <1>3, <3>2 DEF HasOpen, Pending
  <2>3. QED BY <1>1, <2>1, <2>2 DEF Active
<1>5. ASSUME NEW i \in Inter, inter'[i].root = r
      PROVE  inter'[i].status \notin Open
  <2>1. inter[i].root = r /\ inter[i].status \notin Open
    BY <1>3, <1>5, CrashRows DEF Pending
  <2>2. QED BY <2>1, CrashRows
<1>6. QED BY <1>4, <1>5 DEF TreeEnded

\* When no claim outlives its lease, the end of a run that owns its lease ends its whole
\* tree: no child of it goes on or stays suspended, and none of its interactions stays
\* open, whether it was finalized, stopped or found by the recovery after a crash.
THEOREM WholeTreeEnds ==
  ASSUME ~Lapses
  PROVE  Spec => TreeEnds
<1>1. ASSUME OwnershipInv, [Next]_vars
      PROVE  [\A r \in LeaseOwner :
               (run[r].status \in Active /\ run'[r].status \in Terminal) =>
                 /\ \A q \in Run : run'[q].lease = r => run'[q].status \notin Active
                 /\ \A i \in Inter : inter'[i].root = r => inter'[i].status \notin Open]_vars
  <2> SUFFICES ASSUME Next, NEW r \in LeaseOwner, run[r].status \in Active, run'[r].status \in Terminal
               PROVE  TreeEnded(r)
    BY <1>1 DEF TreeEnded
  <2>1. ~EndsNoRun
    BY StatusesApart DEF EndsNoRun
  <2>2. LifecycleTypeOK
    BY <1>1 DEF OwnershipInv, LifecycleInv
  <2>3. QED BY <1>1, <2>1, <2>2, OtherwiseEndsNoRun, EndEndsTree, InterruptEndsTree, CrashEndsTree
<1>2. QED BY <1>1, OwnershipInvariant, PTL DEF Spec, TreeEnds

\* Only a rollback, or a crash, takes a process from the rollback to rest.
LEMMA RestsByRollback ==
  ASSUME LifecycleTypeOK, Next, NEW p \in Proc,
         resume[p].pc = "rollback", resume'[p] = Resting, crashes' = crashes
  PROVE  Rollback(p)
<1>1. resume' # resume
  BY DEF Resting
<1>2. \A q \in Proc : \A row : resume' = [resume EXCEPT ![q] = row] => q = p
  BY <1>1 DEF LifecycleTypeOK, Resting
<1>3. \A q \in Proc : Rest(q) => q = p
  BY <1>2 DEF Rest
<1>4. \A q \in Proc, pc \in {"claim", "attach", "start", "rollback"} : ~Step(q, pc)
  BY DEF Step, LifecycleTypeOK, Resting, ResumeRow
<1>5. ~Crash
  <2>1. crashes \in 0..MaxCrashes /\ MaxCrashes \in Nat
    BY KeepCounters
  <2>2. Crash => crashes' = crashes + 1
    BY DEF Crash
  <2>3. QED BY <2>1, <2>2
<1>6. ASSUME NEW q \in Proc, Idle(q)
      PROVE  q # p
  BY <1>6 DEF Idle, Resting
<1>7. ASSUME NEW q \in Proc, (\E i \in Inter : Answer(q, i)) \/ (\E b \in Batch : AskResume(q, b) \/ TakeRetry(q, b))
      PROVE  FALSE
  <2>1. Idle(q) /\ (resume' = resume \/ \E row : resume' = [resume EXCEPT ![q] = row])
    BY <1>7 DEF Answer, AskResume, TakeRetry
  <2>2. QED BY <1>1, <1>2, <1>6, <2>1
<1>8. ASSUME NEW e \in Exec
      PROVE  /\ ~Starts(e) /\ ~TimesOut(e) /\ ~Suspend(e) /\ ~Stop(e)
             /\ \A i \in Inter, b \in Batch : ~Ask(e, i, b)
             /\ \A s \in Terminal : ~End(e, s)
  BY <1>1 DEF Starts, StartRoot, StartDetached, StartChild, ResumeChild, TimesOut, Suspend, Stop, Ask, End
<1>9. ASSUME NEW q \in Proc, TryResume(q)
      PROVE  Rollback(p)
  BY <1>3, <1>4, <1>9 DEF TryResume, Recover, Claim, ClaimRefused, Attach, Start, StartFailed, Rollback
<1>10. QED BY <1>1, <1>5, <1>7, <1>8, <1>9 DEF Next, InterruptSession, LeaseLapses

\* When no claim outlives its lease, the rollback of a resume suspends its run only if
\* nothing executes it and no other process has attached to it.
THEOREM RollbackSparing ==
  ASSUME ~Lapses
  PROVE  Spec => RollbackSparesOthers
<1>1. ASSUME OwnershipInv, [Next]_vars
      PROVE  [\A p \in Proc :
               (resume[p].pc = "rollback" /\ resume'[p] = Resting /\ crashes' = crashes) =>
               \A r \in LeaseOwner : (run[r].status = "running" /\ run'[r].status = "suspended") =>
                 /\ \A e \in Exec : exec[e].run # r
                 /\ \A q \in Proc \ {p} : resume[q].pc = "start" => r \notin RootOf(resume[q].batch)]_vars
  <2> SUFFICES ASSUME Next, NEW p \in Proc, NEW r \in LeaseOwner,
                      resume[p].pc = "rollback", resume'[p] = Resting, crashes' = crashes,
                      run[r].status = "running", run'[r].status = "suspended"
               PROVE  /\ \A e \in Exec : exec[e].run # r
                      /\ \A q \in Proc \ {p} : resume[q].pc = "start" => r \notin RootOf(resume[q].batch)
    BY <1>1
  <2>1. Rollback(p)
    BY <1>1, RestsByRollback DEF OwnershipInv, LifecycleInv
  <2>2. r \in RootOf(resume[p].batch)
    BY <2>1, StatusesApart DEF Rollback, SetStatus
  <2>3. Engaged(p, r)
    BY <2>2 DEF Engaged
  <2>4. QED BY <1>1, <2>3 DEF OwnershipInv, ResumesOK, Engaged
<1>2. QED BY <1>1, OwnershipInvariant, PTL DEF Spec, RollbackSparesOthers
=============================================================================
