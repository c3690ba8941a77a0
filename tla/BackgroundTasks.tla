--------------------------- MODULE BackgroundTasks ---------------------------
(***************************************************************************)
(* The background tasks of one session (BackgroundTaskService), on the     *)
(* instances of the backend that share a database.                         *)
(*                                                                         *)
(* A task lives in the memory of the instance that started it.  Its row,   *)
(* with a lease, the notice of its end and the withdrawal of that notice   *)
(* are written one after another by a chain of promises, behind what the   *)
(* program goes on to do.  A command is over when its process has closed   *)
(* and its output is flushed; a child agent when its run is finalized, its *)
(* result queued for the parent, and its callable has returned.            *)
(*                                                                         *)
(* A refresh, before the list is shown or the session judged idle, waits   *)
(* for the chain, fails the rows whose lease has lapsed, reads the rows of *)
(* other instances, and reports to their parents the children whose        *)
(* instance is gone (recoverBackgroundTask).  A restart does the same.     *)
(*                                                                         *)
(* The repository of rows is an interface that a deployment may implement: *)
(* upsert replaces the row.  Left out: the retention of finished tasks,    *)
(* tasks outside a session, suspended children (ChildThread), the events   *)
(* for clients, failing reads, and the timer of the idle pass              *)
(* (scheduleAutoTrigger): the gate may be asked at any time.               *)
(***************************************************************************)
EXTENDS Naturals, Sequences, SequencesExt, FiniteSets

CONSTANTS
  Instance,    \* processes of the backend
  Reader,      \* refreshes that may be under way, ...
  Home,        \* ... each at its instance
  Command,     \* tasks that run a shell command
  Agent,       \* tasks that run a child agent
  Nil,
  MaxChain,    \* bound on the writes that wait in a chain when a heartbeat or a refresh adds one
  Starter,     \* instances on which runs start tasks
  MaxTasks,    \* bound on the tasks that are started
  MaxFaults,   \* bound on failing writes and stalls of an owner
  MaxCrashes   \* bound on crashes of an instance

Task == Command \cup Agent

ASSUME TaskConstants ==
  /\ Command \cap Agent = {} /\ Nil \notin Instance \cup Task /\ IsFiniteSet(Task)
  /\ Home \in [Reader -> Instance] /\ \A i \in Instance : \E q \in Reader : Home[q] = i
  /\ Starter \subseteq Instance
  /\ MaxChain \in Nat /\ MaxTasks \in Nat /\ MaxFaults \in Nat /\ MaxCrashes \in Nat

VARIABLES
  memory,      \* [Instance -> [Task -> status]]: the map `tasks'
  owner,       \* [Task -> the instance that has it in ownedTaskIds, or Nil]
  work,        \* [Task -> how far its process or its callable is]
  childRun,    \* [Agent -> the row of the child's run]
  outcome,     \* [Agent -> what its executor hands back]
  result,      \* [Agent -> the result message for the parent]
  table,       \* [Task -> the status in the row; "expired" is failed by the lease]
  lapsed,      \* rows of running tasks whose lease is over
  notice,      \* [Task -> the message bgnotify_<task>]
  chain,       \* [Instance -> the writes that wait]
  broken,      \* instances whose last write was rejected
  suppressed,  \* [Instance -> suppressedNotificationTaskIds]
  pending,     \* [Instance -> pendingRecoveryTaskIds]
  refresh,     \* [Reader -> the state of its refresh]
  cancelled,   \* history: tasks that were cancelled
  polled,      \* history: <<i, t>>, the end of t was told to a run on i
  presumed,    \* history: tasks whose lease lapsed under a living owner
  lost,        \* history: <<op, t>>, writes that failed
  faults,      \* the faults so far
  crashes      \* the crashes so far

taskVars == <<memory, owner, work, childRun, outcome, result>>
rowVars == <<table, lapsed, notice>>
serviceVars == <<chain, broken, suppressed, pending>>
historyVars == <<cancelled, polled, presumed, lost, crashes>>
tasksVars == <<taskVars, rowVars, serviceVars, refresh, historyVars, faults>>

Finished == {"completed", "failed", "cancelled"}
Owned(i) == {t \in Task : owner[t] = i}
Fault == faults < MaxFaults /\ faults' = faults + 1

Upsert(t, status) == [op |-> "upsert", task |-> t, status |-> status]
Notify(t) == [op |-> "notice", task |-> t, status |-> "queued"]
Settle(t) == [op |-> "settle", task |-> t, status |-> "gone"]

RefreshRest ==
  [pc |-> "rest", why |-> "asked", left |-> 0, rows |-> [t \in Task |-> "absent"],
   todo |-> {}, task |-> Nil, seen |-> "none"]

\* fromDurableRecord: a row that was failed by its lease is a failed task.
Status(row) == IF row = "expired" THEN "failed" ELSE row

-----------------------------------------------------------------------------
(* A task and its end.                                                     *)

Up(i) == \A q \in Reader : Home[q] = i => refresh[q].why # "start"

MayStart(i, t) ==
  /\ i \in Starter /\ Up(i) /\ work[t] = "new"
  /\ Cardinality({s \in Task : work[s] # "new"}) < MaxTasks

Started(i, t) ==
  /\ MayStart(i, t)
  /\ work' = [work EXCEPT ![t] = "running"]
  /\ owner' = [owner EXCEPT ![t] = i]
  /\ memory' = [memory EXCEPT ![i][t] = "running"]
  /\ childRun' = IF t \in Agent THEN [childRun EXCEPT ![t] = "running"] ELSE childRun
  /\ chain' = [chain EXCEPT ![i] = Append(@, Upsert(t, "running"))]
  /\ UNCHANGED <<outcome, result, rowVars, broken, suppressed, pending, refresh,
                 historyVars, faults>>

\* A status is set once; the row follows.
Ends(i, t, status) ==
  IF memory[i][t] = "running"
  THEN /\ memory' = [memory EXCEPT ![i][t] = status]
       /\ chain' = [chain EXCEPT ![i] = Append(@, Upsert(t, status))]
  ELSE UNCHANGED <<memory, chain>>

\* Mutant: also told of a cancelled task.
UnheardOrNot(status) == status \in Finished
\* Mutant: a failure is not told.
UnheardDone(status) == status = "completed"
\* publishCompleted: a cancelled task has no notice, nor has a child whose result
\* went to its parent, nor a task whose end was polled before this.
Unheard(status) == status # "cancelled"
\* Mutant: nothing is marked in memory.
MarkedNever(i, t) == FALSE
Marked(i, t) == t \in suppressed[i]

Published(i, t, status, queue) ==
  LET routed == t \in Agent /\ status = "completed" IN
  /\ chain' = [chain EXCEPT ![i] = IF Unheard(status) /\ ~routed /\ ~Marked(i, t)
                                   THEN Append(queue, Notify(t)) ELSE queue]
  /\ suppressed' = [suppressed EXCEPT ![i] = IF Unheard(status) /\ ~routed THEN @ \ {t} ELSE @]

\* The spawn of a command throws: the task is over at once.
SpawnThrows(i, t) ==
  /\ t \in Command /\ MayStart(i, t)
  /\ work' = [work EXCEPT ![t] = "over"]
  /\ owner' = [owner EXCEPT ![t] = i]
  /\ memory' = [memory EXCEPT ![i][t] = "failed"]
  /\ Published(i, t, "failed", chain[i] \o <<Upsert(t, "running"), Upsert(t, "failed")>>)
  /\ UNCHANGED <<childRun, outcome, result, rowVars, broken, pending, refresh, historyVars, faults>>

\* The process reports an error, or it closes; ...
Errs(t) ==
  /\ t \in Command /\ work[t] = "running"
  /\ memory[owner[t]][t] = "running"
  /\ Ends(owner[t], t, "failed")
  /\ UNCHANGED <<owner, work, childRun, outcome, result, rowVars, broken, suppressed, pending, refresh, historyVars, faults>>

Closes(t) ==
  /\ t \in Command /\ work[t] = "running"
  /\ work' = [work EXCEPT ![t] = "closed"]
  /\ \E status \in {"completed", "failed"} : Ends(owner[t], t, status)
  /\ UNCHANGED <<owner, childRun, outcome, result, rowVars, broken, suppressed, pending,
                 refresh, historyVars, faults>>

\* ... its end is published when the output is flushed.
Flushed(t) ==
  /\ work[t] = "closed"
  /\ work' = [work EXCEPT ![t] = "over"]
  /\ Published(owner[t], t, memory[owner[t]][t], chain[owner[t]])
  /\ UNCHANGED <<memory, owner, childRun, outcome, result, rowVars, broken, pending, refresh,
                 historyVars, faults>>

\* The child's run is finalized; a run that was ended by others refuses.
ChildRunEnds(t) ==
  /\ t \in Agent /\ work[t] = "running"
  /\ work' = [work EXCEPT ![t] = "ended"]
  /\ IF childRun[t] = "running"
     THEN \E status \in {"completed", "failed"} :
            /\ childRun' = [childRun EXCEPT ![t] = status]
            /\ outcome' = [outcome EXCEPT ![t] = status]
     ELSE outcome' = [outcome EXCEPT ![t] = "failed"] /\ UNCHANGED childRun
  /\ UNCHANGED <<memory, owner, result, rowVars, serviceVars, refresh, historyVars, faults>>

\* enqueueChildTerminalResult: not for a run that was aborted; one message per run.
\* If it fails, the child has failed, and that is reported, or fails too.
Told(t, status) == [result EXCEPT ![t] = IF @ = "none" THEN status ELSE @]

Reports(t) ==
  /\ work[t] = "ended"
  /\ work' = [work EXCEPT ![t] = "reported"]
  /\ IF t \in cancelled /\ outcome[t] = "failed"
     THEN UNCHANGED <<result, outcome, faults>>
     ELSE \/ result' = Told(t, outcome[t]) /\ UNCHANGED <<outcome, faults>>
          \/ /\ Fault
             /\ outcome' = [outcome EXCEPT ![t] = "failed"]
             /\ \/ t \notin cancelled /\ result' = Told(t, "failed")
                \/ UNCHANGED result
  /\ UNCHANGED <<memory, owner, childRun, rowVars, serviceVars, refresh, historyVars>>

\* executeCallableTask, after the callable: status, row and end in one go.
Returns(t) ==
  /\ work[t] = "reported"
  /\ work' = [work EXCEPT ![t] = "over"]
  /\ LET i == owner[t] IN
     IF memory[i][t] = "running"
     THEN /\ memory' = [memory EXCEPT ![i][t] = outcome[t]]
          /\ Published(i, t, outcome[t], Append(chain[i], Upsert(t, outcome[t])))
     ELSE UNCHANGED <<memory, chain, suppressed>>
  /\ UNCHANGED <<owner, childRun, outcome, result, rowVars, broken, pending, refresh,
                 historyVars, faults>>

\* cancelKnownTask, by the tool task_stop or by the user.
Cancels(t) ==
  /\ owner[t] # Nil /\ memory[owner[t]][t] = "running"
  /\ Ends(owner[t], t, "cancelled")
  /\ cancelled' = cancelled \cup {t}
  /\ UNCHANGED <<owner, work, childRun, outcome, result, rowVars, broken, suppressed, pending,
                 refresh, polled, presumed, lost, crashes,
                 faults>>

\* A run waits for the task and is told its end (waitForBackgroundTask): the
\* notice is suppressed in memory, and settled behind what the chain holds.
Polls(i, t) ==
  /\ memory[i][t] \in Finished /\ <<i, t>> \notin polled
  /\ suppressed' = [suppressed EXCEPT ![i] = @ \cup {t}]
  /\ chain' = [chain EXCEPT ![i] = Append(@, Settle(t))]
  /\ polled' = polled \cup {<<i, t>>}
  /\ UNCHANGED <<taskVars, rowVars, broken, pending, refresh, cancelled, presumed, lost, crashes,
                 faults>>

-----------------------------------------------------------------------------
(* The chain of writes.                                                    *)

\* Mutant: the heartbeat of whatever it knows to be running.
RenewedAll(i) == {t \in Task : memory[i][t] = "running"}
\* The heartbeat, and the first step of a refresh, renew the leases of what the
\* instance owns.
Renewed(i) == {t \in Owned(i) : memory[i][t] = "running"}
WithRenewals(i) == chain[i] \o [n \in 1..Cardinality(Renewed(i)) |->
                                  Upsert(SetToSeq(Renewed(i))[n], "running")]

Heartbeat(i) ==
  /\ Renewed(i) # {} /\ Len(chain[i]) < MaxChain
  /\ chain' = [chain EXCEPT ![i] = WithRenewals(i)]
  /\ UNCHANGED <<taskVars, rowVars, broken, suppressed, pending, refresh,
                 historyVars, faults>>

\* Mutant: it waits for the writes that were added since, too.
AwaitedStill(q, failed) == IF refresh[q].pc = "wait" /\ failed THEN RefreshRest ELSE refresh[q]
\* A refresh waits for the write that was the last one when it began; if that one
\* is rejected, the refresh is.
Awaited(q, failed) ==
  IF refresh[q].pc # "wait" THEN refresh[q]
  ELSE IF refresh[q].left > 1 THEN [refresh[q] EXCEPT !.left = @ - 1]
  ELSE IF failed THEN RefreshRest
  ELSE [refresh[q] EXCEPT !.pc = "expire", !.left = 0]

\* The effect of a write that succeeds, and what follows it.
Done(i, w) ==
  /\ table' = IF w.op = "upsert" THEN [table EXCEPT ![w.task] = w.status] ELSE table
  /\ lapsed' = IF w.op = "upsert" THEN lapsed \ {w.task} ELSE lapsed
  /\ notice' = CASE w.op = "notice" -> [notice EXCEPT ![w.task] = IF @ = "none" THEN "queued" ELSE @]
                 [] w.op = "settle" -> [notice EXCEPT ![w.task] = IF @ = "queued" THEN "gone" ELSE @]
                 [] OTHER -> notice
  /\ UNCHANGED <<lost, faults>>

Failed(i, w) ==
  /\ Fault
  /\ lost' = lost \cup {<<w.op, w.task>>}
  /\ UNCHANGED rowVars

\* Only an upsert leaves the chain rejected; the errors of the others are caught.
ChainWrites(i) ==
  /\ chain[i] # <<>>
  /\ LET w == Head(chain[i])
         rejected == faults' # faults /\ w.op = "upsert"
     IN /\ Done(i, w) \/ Failed(i, w)
        /\ broken' = IF rejected THEN broken \cup {i} ELSE broken \ {i}
        /\ refresh' = [q \in Reader |-> IF Home[q] = i THEN Awaited(q, rejected) ELSE refresh[q]]
  /\ chain' = [chain EXCEPT ![i] = Tail(@)]
  /\ UNCHANGED <<taskVars, suppressed, pending, cancelled, polled, presumed, crashes>>

\* A run has the notice in its input.
NoticeTaken(t) ==
  /\ notice[t] = "queued"
  /\ notice' = [notice EXCEPT ![t] = "gone"]
  /\ UNCHANGED <<taskVars, table, lapsed, serviceVars, refresh, historyVars, faults>>

\* The time of a lease runs out: of a dead owner, or of one whose writes stall.
LeaseLapses(t) ==
  /\ table[t] = "running" /\ t \notin lapsed
  /\ lapsed' = lapsed \cup {t}
  /\ IF owner[t] = Nil
     THEN UNCHANGED <<presumed, faults>>
     ELSE Fault /\ presumed' = presumed \cup {t}
  /\ UNCHANGED <<taskVars, table, notice, serviceVars, refresh, cancelled, polled, lost, crashes>>

-----------------------------------------------------------------------------
(* A refresh (refreshSessionTasks), for the list or for the gate of the    *)
(* session (hasRunningTasksDurable), and at a start (initialize).          *)

Asks(q) ==
  /\ Up(Home[q]) /\ refresh[q].pc = "rest" /\ Len(chain[Home[q]]) < MaxChain
  /\ LET i == Home[q]
         queue == WithRenewals(i)
     IN /\ chain' = [chain EXCEPT ![i] = queue]
        /\ refresh' = [refresh EXCEPT ![q] =
             IF queue # <<>> THEN [RefreshRest EXCEPT !.pc = "wait", !.left = Len(queue)]
             ELSE IF i \in broken THEN RefreshRest
             ELSE [RefreshRest EXCEPT !.pc = "expire"]]
  /\ UNCHANGED <<taskVars, rowVars, broken, suppressed, pending, historyVars, faults>>

\* failExpiredRunning: the tasks it names have to be recovered.
Expired == {t \in lapsed : table[t] = "running"}
\* Mutant: only a restart recovers.
NotedAtStart(q) == IF refresh[q].why = "start" THEN Expired ELSE {}
Noted(q) == Expired

Expires(q) ==
  /\ refresh[q].pc = "expire"
  /\ table' = [t \in Task |-> IF t \in Expired THEN "expired" ELSE table[t]]
  /\ lapsed' = lapsed \ Expired
  /\ pending' = [pending EXCEPT ![Home[q]] = @ \cup Noted(q)]
  /\ refresh' = [refresh EXCEPT ![q].pc = "read"]
  /\ UNCHANGED <<taskVars, notice, chain, broken, suppressed, historyVars, faults>>

Reads(q) ==
  /\ refresh[q].pc = "read"
  /\ refresh' = [refresh EXCEPT ![q].pc = "handle", ![q].rows = table,
                                ![q].todo = {t \in Task : table[t] # "absent"}]
  /\ UNCHANGED <<taskVars, rowVars, serviceVars, historyVars, faults>>

\* A start also takes up the children that an earlier process has marked.
Candidates(q, t) ==
  IF refresh[q].why = "start" /\ t \in Agent /\ refresh[q].rows[t] = "expired" THEN {t} ELSE {}

\* Mutant: rows replace all of it.
KeptNone(i, t) == FALSE
\* What the instance owns stays as it is in memory; the rest follows the rows.
Kept(i, t) == owner[t] = i

Handles(q, t) ==
  /\ refresh[q].pc = "handle" /\ t \in refresh[q].todo
  /\ LET i == Home[q]
         noted == pending[i] \cup Candidates(q, t)
     IN IF Kept(i, t)
        THEN /\ refresh' = [refresh EXCEPT ![q].todo = @ \ {t}]
             /\ UNCHANGED <<memory, pending>>
        ELSE /\ memory' = [memory EXCEPT ![i][t] = Status(refresh[q].rows[t])]
             /\ IF t \in noted /\ t \in Agent
                THEN /\ pending' = [pending EXCEPT ![i] = noted]
                     /\ refresh' = [refresh EXCEPT ![q].todo = @ \ {t}, ![q].pc = "recover",
                                                   ![q].task = t]
                ELSE /\ pending' = [pending EXCEPT ![i] = @ \ {t}]
                     /\ refresh' = [refresh EXCEPT ![q].todo = @ \ {t}]
  /\ UNCHANGED <<owner, work, childRun, outcome, result, rowVars, chain, broken, suppressed,
                 historyVars, faults>>

\* recoverBackgroundTask: it reads the child's run, ...
Recovers(q) ==
  /\ refresh[q].pc = "recover"
  /\ refresh' = [refresh EXCEPT ![q].pc = "report", ![q].seen = childRun[refresh[q].task]]
  /\ UNCHANGED <<taskVars, rowVars, serviceVars, historyVars, faults>>

\* ... interrupts it if it was running, and tells the parent, unless it was told;
\* a recovery that fails stays pending.
Interrupts(q) ==
  /\ refresh[q].pc = "report" /\ refresh[q].seen = "running"
  /\ childRun' = [childRun EXCEPT ![refresh[q].task] = "failed"]
  /\ refresh' = [refresh EXCEPT ![q].seen = "failed"]
  /\ UNCHANGED <<memory, owner, work, outcome, result, rowVars, serviceVars, historyVars,
                 faults>>

RecoveryTells(q) ==
  /\ refresh[q].pc = "report" /\ refresh[q].seen # "running"
  /\ LET t == refresh[q].task IN
     \/ /\ result' = Told(t, IF refresh[q].rows[t] = "cancelled" THEN "failed" ELSE refresh[q].seen)
        /\ pending' = [pending EXCEPT ![Home[q]] = @ \ {t}]
        /\ UNCHANGED faults
     \/ Fault /\ UNCHANGED <<result, pending>>
  /\ refresh' = [refresh EXCEPT ![q].pc = "handle", ![q].task = Nil, ![q].seen = "none"]
  /\ UNCHANGED <<memory, owner, work, childRun, outcome, rowVars, chain, broken, suppressed,
                 historyVars>>

\* hasRunningTasks: the answer of the gate.
HasRunning(tasks) == \E t \in Task : tasks[t] = "running"

\* Mutant: its own tasks, too.
VanishedAll(i, rows) == {t \in Task : rows[t] = "absent"}
\* Tasks of others that are gone from the table are forgotten, and the gate answers.
Vanished(i, rows) == {t \in Task \ Owned(i) : rows[t] = "absent"}

Answers(q) ==
  /\ refresh[q].pc = "handle" /\ refresh[q].todo = {}
  /\ LET gone == IF refresh[q].why = "start" THEN {} ELSE Vanished(Home[q], refresh[q].rows)
     IN memory' = [memory EXCEPT ![Home[q]] = [t \in Task |->
                                    IF t \in gone THEN "absent" ELSE @[t]]]
  /\ refresh' = [refresh EXCEPT ![q] = RefreshRest]
  /\ UNCHANGED <<owner, work, childRun, outcome, result, rowVars, serviceVars, historyVars, faults>>

\* The process of an instance stops and starts again; the runs of its children may
\* have been ended by the recovery of runs before initialize is called.
Crash(i) ==
  /\ crashes < MaxCrashes /\ crashes' = crashes + 1
  /\ memory' = [memory EXCEPT ![i] = [t \in Task |-> "absent"]]
  /\ work' = [t \in Task |-> IF owner[t] = i THEN "dead" ELSE work[t]]
  /\ \E ended \in SUBSET {t \in Agent : owner[t] = i /\ childRun[t] = "running"} :
       childRun' = [t \in Agent |-> IF t \in ended THEN "failed" ELSE childRun[t]]
  /\ owner' = [t \in Task |-> IF owner[t] = i THEN Nil ELSE owner[t]]
  /\ chain' = [chain EXCEPT ![i] = <<>>]
  /\ broken' = broken \ {i}
  /\ suppressed' = [suppressed EXCEPT ![i] = {}]
  /\ pending' = [pending EXCEPT ![i] = {}]
  /\ \E first \in {q \in Reader : Home[q] = i} :
       refresh' = [q \in Reader |-> IF q = first THEN [RefreshRest EXCEPT !.pc = "expire", !.why = "start"]
                                    ELSE IF Home[q] = i THEN RefreshRest
                                    ELSE refresh[q]]
  /\ UNCHANGED <<outcome, result, rowVars, cancelled, polled, presumed, lost, faults>>

-----------------------------------------------------------------------------

TasksInit ==
  /\ memory = [i \in Instance |-> [t \in Task |-> "absent"]]
  /\ owner = [t \in Task |-> Nil]
  /\ work = [t \in Task |-> "new"]
  /\ childRun = [t \in Agent |-> "none"]
  /\ outcome = [t \in Agent |-> "none"]
  /\ result = [t \in Agent |-> "none"]
  /\ table = [t \in Task |-> "absent"]
  /\ lapsed = {}
  /\ notice = [t \in Task |-> "none"]
  /\ chain = [i \in Instance |-> <<>>]
  /\ broken = {}
  /\ suppressed = [i \in Instance |-> {}]
  /\ pending = [i \in Instance |-> {}]
  /\ refresh = [q \in Reader |-> RefreshRest]
  /\ cancelled = {} /\ polled = {} /\ presumed = {} /\ lost = {}
  /\ faults = 0 /\ crashes = 0

WorkStep(t) == Errs(t) \/ Closes(t) \/ Flushed(t) \/ ChildRunEnds(t) \/ Reports(t) \/ Returns(t)
RefreshStep(q) ==
  \/ Expires(q) \/ Reads(q) \/ (\E t \in Task : Handles(q, t))
  \/ Recovers(q) \/ Interrupts(q) \/ RecoveryTells(q) \/ Answers(q)

TasksNext ==
  \/ \E i \in Instance, t \in Task : Started(i, t) \/ SpawnThrows(i, t) \/ Polls(i, t)
  \/ \E t \in Task : WorkStep(t) \/ Cancels(t) \/ NoticeTaken(t) \/ LeaseLapses(t)
  \/ \E i \in Instance : Heartbeat(i) \/ ChainWrites(i) \/ Crash(i)
  \/ \E q \in Reader : Asks(q) \/ RefreshStep(q)

TasksSpec == TasksInit /\ [][TasksNext]_tasksVars

\* Processes and children end, writes and refreshes that have begun go on, and the
\* lease of a dead owner runs out.  Nobody has to ask for the tasks.
Fairness ==
  /\ \A t \in Task : WF_tasksVars(WorkStep(t)) /\ WF_tasksVars(owner[t] = Nil /\ LeaseLapses(t))
  /\ \A i \in Instance : WF_tasksVars(ChainWrites(i))
  /\ \A q \in Reader : WF_tasksVars(RefreshStep(q))

TasksFairSpec == TasksSpec /\ Fairness

-----------------------------------------------------------------------------
(* Properties.                                                             *)

Statuses == {"absent", "running"} \cup Finished
TasksTypeOK ==
  /\ memory \in [Instance -> [Task -> Statuses]]
  /\ owner \in [Task -> Instance \cup {Nil}]
  /\ work \in [Task -> {"new", "running", "closed", "ended", "reported", "over", "dead"}]
  /\ childRun \in [Agent -> {"none", "running", "completed", "failed"}]
  /\ outcome \in [Agent -> {"none", "completed", "failed"}]
  /\ result \in [Agent -> {"none", "completed", "failed"}]
  /\ table \in [Task -> Statuses \cup {"expired"}]
  /\ lapsed \subseteq {t \in Task : table[t] = "running"}
  /\ notice \in [Task -> {"none", "queued", "gone"}]
  /\ broken \subseteq Instance
  /\ suppressed \in [Instance -> SUBSET Task] /\ pending \in [Instance -> SUBSET Task]
  /\ \A i \in Instance : \A n \in 1..Len(chain[i]) : chain[i][n].task \in Task
  /\ \A t \in Task : owner[t] # Nil => memory[owner[t]][t] # "absent"
  /\ \A q \in Reader : refresh[q].left <= Len(chain[Home[q]])

\* A task that was cancelled stays so, whatever its process, its callable and the
\* refreshes still do, and no run is told of its end.
CancelHolds ==
  \A t \in cancelled : /\ notice[t] = "none"
                       /\ owner[t] # Nil => memory[owner[t]][t] = "cancelled"

\* An end that a run was told, on the instance of the task, does not reach it a
\* second time as a notice: the mark in memory and the settlement behind the chain
\* close the window between them.
Writing(i, t) == \E n \in 1..Len(chain[i]) : chain[i][n].task = t
PolledNotQueued ==
  \A t \in Task : /\ <<owner[t], t>> \in polled
                  /\ ~Writing(owner[t], t) /\ <<"settle", t>> \notin lost
                  => notice[t] # "queued"

\* The row of a task that has ended is not written over, by a late heartbeat, by
\* another instance that still believes it running, or after a restart.
DoneRowStands == [][\A t \in Task : table[t] \in Finished => table'[t] = table[t]]_tasksVars

\* The gate does not call the session free while a task is at work, here or on an
\* instance whose row could be seen, unless its lease has lapsed.
AtWork(t) == owner[t] # Nil /\ memory[owner[t]][t] = "running"
FreeOnlyAtRest ==
  [][\A q \in Reader : refresh[q].why = "asked" /\ refresh[q].pc = "handle" /\ Answers(q)
                       /\ ~HasRunning(memory'[Home[q]])
       => \A t \in Task : AtWork(t) => \/ t \in presumed
                                       \/ owner[t] # Home[q] /\ refresh[q].rows[t] = "absent"]_tasksVars

\* The end of a task that nobody cancelled or polled is put in the queue of the
\* session, if its instance lives and the write succeeds.
Owed(t) == /\ owner[t] # Nil /\ work[t] = "over" /\ memory[owner[t]][t] \in {"completed", "failed"}
           /\ t \in Agent => memory[owner[t]][t] = "failed"
           /\ <<"notice", t>> \notin lost
           /\ \A i \in Instance : <<i, t>> \notin polled
NoticeFollows == []<>(\A t \in Task : Owed(t) => notice[t] # "none")

\* The parent of a child whose instance has died gets a result, through failing
\* writes and further crashes, as long as somebody asks for the tasks on each instance.
Orphaned(t) == work[t] = "dead" /\ table[t] \in {"running", "expired"}
ResultRecovered ==
  (\A q \in Reader : []<>(refresh[q].pc # "rest"))
    => []<>(\A t \in Agent : Orphaned(t) => result[t] # "none")
=============================================================================
