-------------------------- MODULE GoalContinuation --------------------------
(***************************************************************************)
(* The goals of one session and everything that moves them: the idle       *)
(* consumer, which reserves a continuation and turns it into a mailbox row *)
(* and a run; the goal tools of the runs; and the user's stop and start.   *)
(* A goal row carries a generation.  It fences what was decided on an older*)
(* goal: a mailbox row of another generation is stale, and a write that    *)
(* names another generation is refused.                                    *)
(*                                                                         *)
(* Every await is a step of its own: what an operation has read may be old *)
(* when it writes.  Content of goals is abstracted to whether it differs   *)
(* from the fingerprint taken by the last reservation.  The mailbox is a   *)
(* set of rows (AgentMailbox models claims, leases and retries), and no    *)
(* row fails.  Background work is children of the root.  Left out: crashes *)
(* and suspended runs.                                                     *)
(***************************************************************************)
EXTENDS Naturals, FiniteSets

CONSTANTS
  MaxGoals,         \* goals are 1..MaxGoals, in the order of their creation
  Consumer,         \* overlapping idle consumers, one per instance
  UserExec,         \* runs for a user's message
  SystemExec,       \* runs the idle consumer launches
  ChildExec,        \* background children of the session
  None,
  MaxContinuations, \* 20 in the code
  MaxNoProgress,    \* 3 in the code
  MaxActs           \* bound: acts of users and tools in a behaviour

ASSUME GoalConstants ==
  /\ MaxGoals \in Nat /\ MaxContinuations \in Nat \ {0} /\ MaxNoProgress \in Nat \ {0}
  /\ MaxActs \in Nat
  /\ UserExec \cap (SystemExec \cup ChildExec) = {} /\ SystemExec \cap ChildExec = {}
  /\ None \notin UserExec \cup SystemExec \cup ChildExec \cup Consumer

Goal == 1..MaxGoals
RootExec == UserExec \cup SystemExec
Exec == RootExec \cup ChildExec

VARIABLES
  goal,    \* [Goal -> [status, gen, count, idle, pending, moved]]: workflow_goals
  queue,   \* rows for the root: [goal, gen] of a continuation, or [notice]
  exec,    \* [Exec -> [pc, aborted, goal, gen]]: runs and the goal they captured
  root,    \* the run that holds the root slot, or None
  tool,    \* [Exec -> [pc, goal, want]]: a goal_update between its awaits
  idler,   \* [Consumer -> ...]: startSessionIdleRun
  trigger, \* an idle trigger is scheduled
  stop, start,  \* a stopSession and a startGoal of the user
  acts,    \* the counter of the bound
  spent,   \* history: reservations since a user last acted on the goal, and since
           \* its content last changed
  before   \* history: the runs that were at work when a stop paused the goal

history == <<spent, before>>
vars == <<goal, queue, exec, root, tool, idler, trigger, stop, start, acts, history>>

Alive == {"active", "paused"}
NoGoal == [status |-> "absent", gen |-> 0, count |-> 0, idle |-> 0, pending |-> FALSE, moved |-> TRUE]
NoExec == [pc |-> "off", aborted |-> FALSE, goal |-> 0, gen |-> 0]
NoTool == [pc |-> "off", goal |-> 0, want |-> "keep"]
NoIdler == [pc |-> "off", goal |-> 0, queued |-> FALSE, mine |-> NoGoal, batch |-> {}, run |-> None]
NoUser == [pc |-> "off", goal |-> 0, gen |-> 0, status |-> "absent"]

Created == {g \in Goal : goal[g].status # "absent"}
Newest(gs) == IF gs = {} THEN 0 ELSE CHOOSE g \in gs : \A h \in gs : h <= g
\* getCurrent: the newest goal that is active or paused.
Current == Newest({g \in Goal : goal[g].status \in Alive})
\* What the controls act on: the current goal, else the newest.
Addressed == IF Current # 0 THEN Current ELSE Newest(Created)

\* The unique index of workflow_goals: one goal of a session is active or paused.
Fits(g, row) == row.status \in Alive => \A h \in Goal \ {g} : goal[h].status \notin Alive

Row(g, n) == [goal |-> g, gen |-> n]
IsGoalRow(row) == row.goal # 0
\* isCurrentGoalContinuation
RowCurrent(row) ==
  /\ row.goal # 0 /\ row.goal = Current
  /\ goal[row.goal].status = "active" /\ goal[row.goal].gen = row.gen

-----------------------------------------------------------------------------
(* The transactions of GoalOps.                                            *)

\* update: a status that changes advances the generation.
Updated(row, status) ==
  [row EXCEPT !.status = status,
              !.pending = IF status = "active" THEN @ ELSE FALSE,
              !.gen = IF status # row.status THEN @ + 1 ELSE @]

\* restartBlocked: the budget starts anew.
Restarted(row) ==
  IF row.status = "blocked"
  THEN [row EXCEPT !.status = "active", !.count = 0, !.idle = 0, !.pending = FALSE, !.moved = TRUE,
                   !.gen = @ + 1]
  ELSE row

\* Mutant: progress is taken for granted.
IdleRoundsNever(row) == 0
\* Reservations in a row that found the content as the last one left it; the
\* first one has no fingerprint to compare with.
IdleRounds(row) == IF row.count = 0 \/ row.moved THEN 0 ELSE row.idle + 1
Exhausted(row) == row.count >= MaxContinuations \/ IdleRounds(row) >= MaxNoProgress
\* claimContinuation.  Blocking a goal does not advance its generation.
Reserved(row) ==
  [row EXCEPT !.count = @ + 1, !.idle = IdleRounds(row), !.gen = @ + 1, !.pending = TRUE, !.moved = FALSE]
Blocked(row) ==
  [row EXCEPT !.status = "blocked", !.idle = IdleRounds(row), !.pending = FALSE, !.moved = FALSE]

NoSpent == [all |-> 0, still |-> 0]

-----------------------------------------------------------------------------
(* The idle consumer, startSessionIdleRun.                                 *)

Goto(c, pc) == idler' = [idler EXCEPT ![c].pc = pc]
Rest(c) == idler' = [idler EXCEPT ![c] = NoIdler]

\* checkSessionBusy: a root run holds the slot, or background work of the root runs.
Busy == root # None \/ \E x \in ChildExec : exec[x].pc # "off" /\ ~exec[x].aborted

\* The timer of scheduleAutoTrigger fires.
Wakes(c) ==
  /\ trigger /\ idler[c] = NoIdler
  /\ trigger' = FALSE
  /\ Goto(c, "read")
  /\ UNCHANGED <<goal, queue, exec, root, tool, stop, start, acts, history>>

\* The current goal, if it is active.
ReadGoal(c) ==
  /\ idler[c].pc = "read"
  /\ idler' = [idler EXCEPT ![c].pc = "look",
                 ![c].goal = IF Current # 0 /\ goal[Current].status = "active" THEN Current ELSE 0]
  /\ UNCHANGED <<goal, queue, exec, root, tool, trigger, stop, start, acts, history>>

\* The rows that wait; nothing to do when the session is busy or has no work.
LookAtRows(c) ==
  /\ idler[c].pc = "look"
  /\ IF Busy \/ (queue = {} /\ idler[c].goal = 0)
     THEN Rest(c)
     ELSE idler' = [idler EXCEPT ![c].pc = "ready", ![c].queued = \E row \in queue : IsGoalRow(row)]
  /\ UNCHANGED <<goal, queue, exec, root, tool, trigger, stop, start, acts, history>>

BusyAfterReady(c) ==
  /\ idler[c].pc = "ready"
  /\ IF Busy THEN Rest(c)
     ELSE Goto(c, IF idler[c].queued \/ idler[c].goal = 0 THEN "busy" ELSE "reserve")
  /\ UNCHANGED <<goal, queue, exec, root, tool, trigger, stop, start, acts, history>>

\* claimContinuation, on the goal that is current now.
Reserve(c) ==
  /\ idler[c].pc = "reserve"
  /\ LET g == Current IN
       IF g = 0 \/ goal[g].status # "active" \/ goal[g].pending
       THEN Goto(c, "busy") /\ UNCHANGED <<goal, spent>>
       ELSE IF Exhausted(goal[g])
       THEN /\ goal' = [goal EXCEPT ![g] = Blocked(@)]
            /\ Goto(c, "busy") /\ UNCHANGED spent
       ELSE /\ goal' = [goal EXCEPT ![g] = Reserved(@)]
            /\ spent' = [spent EXCEPT ![g].all = @ + 1, ![g].still = @ + 1]
            /\ idler' = [idler EXCEPT ![c].pc = "enqueue", ![c].goal = g, ![c].mine = goal'[g]]
  /\ UNCHANGED <<queue, exec, root, tool, trigger, stop, start, acts, before>>

EnqueueGoalRow(c) ==
  /\ idler[c].pc = "enqueue"
  /\ queue' = queue \cup {Row(idler[c].goal, idler[c].mine.gen)}
  /\ Goto(c, "release")
  /\ UNCHANGED <<goal, exec, root, tool, trigger, stop, start, acts, history>>

\* releaseContinuation, by generation.
ReleaseReservation(c) ==
  /\ idler[c].pc = "release"
  /\ LET g == idler[c].goal IN
       goal' = IF goal[g].gen = idler[c].mine.gen THEN [goal EXCEPT ![g].pending = FALSE] ELSE goal
  /\ Goto(c, "busy")
  /\ UNCHANGED <<queue, exec, root, tool, trigger, stop, start, acts, history>>

BusyAfterClaim(c) ==
  /\ idler[c].pc = "busy"
  /\ IF Busy THEN Rest(c) ELSE Goto(c, "take")
  /\ UNCHANGED <<goal, queue, exec, root, tool, trigger, stop, start, acts, history>>

\* claimIdleMessages
TakeRows(c) ==
  /\ idler[c].pc = "take"
  /\ queue' = {}
  /\ IF queue = {} THEN Rest(c)
     ELSE idler' = [idler EXCEPT ![c].pc = "check", ![c].batch = queue]
  /\ UNCHANGED <<goal, exec, root, tool, trigger, stop, start, acts, history>>

\* Mutant: nothing makes up for a stale row.
RetriggerNever(stale) == FALSE
\* A goal whose row was dropped as stale is looked at again.
Retrigger(stale) == stale # {} /\ Current # 0 /\ goal[Current].status = "active"

\* Stale continuation rows are settled.
CheckRows(c) ==
  /\ idler[c].pc = "check"
  /\ LET stale == {row \in idler[c].batch : IsGoalRow(row) /\ ~RowCurrent(row)}
         rest == idler[c].batch \ stale
     IN  /\ trigger' = (trigger \/ Retrigger(stale))
         /\ IF rest = {} THEN Rest(c)
            ELSE idler' = [idler EXCEPT ![c].pc = "launch", ![c].batch = rest]
  /\ UNCHANGED <<goal, queue, exec, root, tool, stop, start, acts, history>>

\* launchSystemRun
Launch(c, x) ==
  /\ idler[c].pc = "launch"
  /\ exec[x] = NoExec
  /\ exec' = [exec EXCEPT ![x].pc = "launched"]
  /\ idler' = [idler EXCEPT ![c].pc = "wait", ![c].run = x]
  /\ UNCHANGED <<goal, queue, root, tool, trigger, stop, start, acts, history>>

-----------------------------------------------------------------------------
(* Runs.                                                                   *)

\* A message of a user starts a run.
UserRun(x) ==
  /\ acts < MaxActs /\ acts' = acts + 1
  /\ exec[x] = NoExec
  /\ exec' = [exec EXCEPT ![x].pc = "launched"]
  /\ UNCHANGED <<goal, queue, root, tool, idler, trigger, stop, start, history>>

\* captureGoalRun, before the run starts: its goal and generation, for good.
Capture(x) ==
  /\ exec[x].pc = "launched"
  /\ exec' = [exec EXCEPT ![x].pc = "captured", ![x].goal = Addressed,
                ![x].gen = IF Addressed = 0 THEN 0 ELSE goal[Addressed].gen]
  /\ UNCHANGED <<goal, queue, root, tool, idler, trigger, stop, start, acts, history>>

\* startOrAppendRoot: a continuation that heads the batch must be current; an
\* active root run makes it a followup.  Else the whole batch is digested.
HeadAllowed(row) == IsGoalRow(row) => RowCurrent(row)
\* The run is over, or never was.
Gone(x) ==
  /\ exec' = [exec EXCEPT ![x] = NoExec]
  /\ before' = [g \in Goal |-> before[g] \ {x}]
StartRun(x) ==
  /\ exec[x].pc = "captured" /\ x \in UserExec
  /\ IF root = None
     THEN /\ root' = x
          /\ exec' = [exec EXCEPT ![x].pc = "running"]
          /\ UNCHANGED <<trigger, before>>
     ELSE /\ Gone(x)
          /\ trigger' = TRUE
          /\ UNCHANGED root
  /\ UNCHANGED <<goal, queue, tool, idler, stop, start, acts, spent>>

StartBatch(c, x) ==
  /\ exec[x].pc = "captured" /\ idler[c].run = x
  /\ \E head \in idler[c].batch :
       IF root = None /\ HeadAllowed(head)
       THEN /\ root' = x
            /\ exec' = [exec EXCEPT ![x].pc = "running"]
            /\ UNCHANGED <<queue, trigger, before>>
       ELSE /\ Gone(x)
            /\ queue' = queue \cup idler[c].batch
            /\ trigger' = TRUE
            /\ UNCHANGED root
  /\ Rest(c)
  /\ UNCHANGED <<goal, tool, stop, start, acts, spent>>

\* A running root run takes the rows that wait; stale continuations are dropped.
Refresh(x) ==
  /\ x = root /\ ~exec[x].aborted
  /\ queue # {}
  /\ queue' = {}
  /\ UNCHANGED <<goal, exec, root, tool, idler, trigger, stop, start, acts, history>>

\* A running root run sends off a background child.
ChildRun(x) ==
  /\ acts < MaxActs /\ acts' = acts + 1
  /\ exec[x] = NoExec
  /\ root # None /\ ~exec[root].aborted
  /\ exec' = [exec EXCEPT ![x].pc = "launched"]
  /\ UNCHANGED <<goal, queue, root, tool, idler, trigger, stop, start, history>>

ChildStarts(x) ==
  /\ exec[x].pc = "captured"
  /\ exec' = [exec EXCEPT ![x].pc = "running"]
  /\ UNCHANGED <<goal, queue, root, tool, idler, trigger, stop, start, acts, history>>

\* Its result is sent to the root before its task is over.
ChildReports(x) ==
  /\ exec[x].pc = "running" /\ tool[x].pc = "off"
  /\ exec' = [exec EXCEPT ![x].pc = "reported"]
  /\ queue' = queue \cup {Row(0, 0)}
  /\ trigger' = TRUE
  /\ UNCHANGED <<goal, root, tool, idler, stop, start, acts, history>>

\* Mutant: a cancellation is no reason to look at the session.
CancelTriggersNot == trigger
\* A session whose last background work is cancelled may go on with its goal.
CancelTriggers == TRUE
\* The user cancels the task of a child; the run notices it later.
ChildCancelled(x) ==
  /\ acts < MaxActs /\ acts' = acts + 1
  /\ exec[x].pc # "off" /\ ~exec[x].aborted
  /\ exec' = [exec EXCEPT ![x].aborted = TRUE]
  /\ trigger' = CancelTriggers
  /\ UNCHANGED <<goal, queue, root, tool, idler, stop, start, history>>

\* The task is over; a cancelled one has been so before, and says nothing.
ChildEnds(x) ==
  /\ exec[x].pc = "reported" \/ (exec[x].pc # "off" /\ exec[x].aborted /\ tool[x].pc = "off")
  /\ Gone(x)
  /\ trigger' = (trigger \/ ~exec[x].aborted)
  /\ UNCHANGED <<goal, queue, root, tool, idler, stop, start, acts, spent>>

\* A root run ends, whatever its outcome, and the session is looked at again.
RunEnds(x) ==
  /\ exec[x].pc = "running" /\ tool[x].pc = "off"
  /\ Gone(x)
  /\ root' = None
  /\ trigger' = TRUE
  /\ UNCHANGED <<goal, queue, tool, idler, stop, start, acts, spent>>

-----------------------------------------------------------------------------
(* The goal tools of a run.                                                *)

Works(x) == exec[x].pc = "running" /\ tool[x].pc = "off" /\ acts < MaxActs

GoalCreate(x) ==
  /\ Works(x) /\ ~exec[x].aborted
  /\ Current = 0 /\ Cardinality(Created) < MaxGoals
  /\ LET g == Newest(Created) + 1 IN
       /\ goal' = [goal EXCEPT ![g].status = "active"]
       /\ exec' = [exec EXCEPT ![x].goal = g, ![x].gen = 0]
  /\ acts' = acts + 1
  /\ UNCHANGED <<queue, root, tool, idler, trigger, stop, start, history>>

\* Mutant: any run may resume a goal.
MayReactivateAny(x) == TRUE
\* No background work resumes a goal.
MayReactivate(x) == x \in UserExec

\* goal_update reads the goal.  Its checks are made on what it read; the write
\* is refused if the captured generation is no longer the goal's.
ToolReads(x, g, want) ==
  /\ Works(x) /\ ~exec[x].aborted
  /\ g \in Created /\ exec[x].goal = g
  /\ want = "active" /\ goal[g].status # "active" => MayReactivate(x)
  /\ LET status == goal[g].status
         reopen == status = "blocked" /\ want = "active"
     IN  /\ reopen \/ status \notin {"completed", "blocked"} \/ want \in {"keep", status}
         /\ tool' = [tool EXCEPT ![x] =
              [pc |-> IF reopen THEN "restart" ELSE "write", goal |-> g, want |-> want]]
  /\ acts' = acts + 1
  /\ UNCHANGED <<goal, queue, exec, root, idler, trigger, stop, start, history>>

\* Mutant: a write is not fenced by the generation.
GuardUnfenced(x, g) == ~exec[x].aborted
\* assertGoalMutationAllowed
Guard(x, g) == ~exec[x].aborted /\ goal[g].gen = exec[x].gen

\* The run remembers the generation it wrote.
Writes(x, g, row) ==
  /\ Fits(g, row)
  /\ goal' = [goal EXCEPT ![g] = row]
  /\ exec' = [exec EXCEPT ![x].gen = row.gen]
  /\ spent' = IF x \in UserExec THEN [spent EXCEPT ![g] = NoSpent]
              ELSE IF row.moved THEN [spent EXCEPT ![g].still = 0] ELSE spent
  /\ UNCHANGED before

\* What goal_update makes of the goal's status and fences.
Rewritten(x, g) == Updated(goal[g], IF tool[x].want = "keep" THEN goal[g].status ELSE tool[x].want)

\* The write fails, and nothing has happened.
ToolRefused(x) ==
  /\ tool[x].pc # "off"
  /\ LET g == tool[x].goal IN
       Guard(x, g) => ~Fits(g, IF tool[x].pc = "restart" THEN Restarted(goal[g]) ELSE Rewritten(x, g))
  /\ tool' = [tool EXCEPT ![x] = NoTool]
  /\ UNCHANGED <<goal, queue, exec, root, idler, trigger, stop, start, acts, history>>

ToolRestarts(x) ==
  /\ tool[x].pc = "restart" /\ Guard(x, tool[x].goal)
  /\ LET g == tool[x].goal
         row == Restarted(goal[g])
     IN  /\ Writes(x, g, row)
         /\ tool' = IF row.status \in Alive THEN [tool EXCEPT ![x].pc = "write"]
                    ELSE [tool EXCEPT ![x] = NoTool]
  /\ UNCHANGED <<queue, root, idler, trigger, stop, start, acts>>

ToolWrites(x) ==
  /\ tool[x].pc = "write" /\ Guard(x, tool[x].goal)
  /\ LET g == tool[x].goal IN
       \E moved \in BOOLEAN : Writes(x, g, [Rewritten(x, g) EXCEPT !.moved = moved])
  /\ tool' = [tool EXCEPT ![x] = NoTool]
  /\ UNCHANGED <<queue, root, idler, trigger, stop, start, acts>>

-----------------------------------------------------------------------------
(* The user's controls.                                                    *)

\* What a control has read of goal g.
Read(pc, g) == [pc |-> pc, goal |-> g, gen |-> goal[g].gen, status |-> goal[g].status]
\* stopSession goes on with the current goal while it is active.
StopReads == stop' = IF Current # 0 /\ goal[Current].status = "active"
                     THEN Read("pause", Current) ELSE [NoUser EXCEPT !.pc = "cut"]

StopAsked ==
  /\ acts < MaxActs /\ acts' = acts + 1
  /\ stop = NoUser
  /\ StopReads
  /\ UNCHANGED <<goal, queue, exec, root, tool, idler, trigger, start, history>>

StopPauses ==
  /\ stop.pc = "pause"
  /\ LET g == stop.goal IN
       IF goal[g].gen = stop.gen
       THEN /\ Fits(g, Updated(goal[g], "paused"))
            /\ goal' = [goal EXCEPT ![g] = Updated(@, "paused")]
            /\ stop' = [NoUser EXCEPT !.pc = "cut"]
            /\ before' = [before EXCEPT ![g] = @ \cup {x \in Exec : exec[x].pc \in {"captured", "running"}}]
       ELSE /\ StopReads
            /\ UNCHANGED <<goal, before>>
  /\ UNCHANGED <<queue, exec, root, tool, idler, trigger, start, acts, spent>>

\* Another goal has become current: the stop ends with an error.
StopFails ==
  /\ stop.pc = "pause" /\ goal[stop.goal].gen = stop.gen
  /\ ~Fits(stop.goal, Updated(goal[stop.goal], "paused"))
  /\ stop' = NoUser
  /\ UNCHANGED <<goal, queue, exec, root, tool, idler, trigger, start, acts, history>>

\* The foreground run is aborted.
StopCuts ==
  /\ stop.pc = "cut"
  /\ exec' = IF root = None THEN exec ELSE [exec EXCEPT ![root].aborted = TRUE]
  /\ stop' = NoUser
  /\ UNCHANGED <<goal, queue, root, tool, idler, trigger, start, acts, history>>

StartAsked ==
  /\ acts < MaxActs /\ acts' = acts + 1
  /\ start = NoUser /\ Addressed # 0
  /\ start' = Read(IF goal[Addressed].status = "active" THEN "trigger" ELSE "write", Addressed)
  /\ UNCHANGED <<goal, queue, exec, root, tool, idler, trigger, stop, history>>

\* startGoal: a goal that changed in the meantime is left alone, with an error,
\* as is one that may not be active beside another.
Restart(row) == IF start.status = "blocked" THEN Restarted(row) ELSE Updated(row, "active")
StartWrites ==
  /\ start.pc = "write"
  /\ LET g == start.goal IN
       IF goal[g].gen = start.gen /\ Fits(g, Restart(goal[g]))
       THEN /\ goal' = [goal EXCEPT ![g] = Restart(@)]
            /\ spent' = [spent EXCEPT ![g] = NoSpent]
            /\ start' = [start EXCEPT !.pc = "trigger"]
       ELSE start' = NoUser /\ UNCHANGED <<goal, spent>>
  /\ UNCHANGED <<queue, exec, root, tool, idler, trigger, stop, acts, before>>

\* The route that started the goal calls scheduleAutoTrigger.
StartTriggers ==
  /\ start.pc = "trigger"
  /\ trigger' = TRUE
  /\ start' = NoUser
  /\ UNCHANGED <<goal, queue, exec, root, tool, idler, stop, acts, history>>

-----------------------------------------------------------------------------

Init ==
  /\ goal = [g \in Goal |-> NoGoal]
  /\ queue = {}
  /\ exec = [x \in Exec |-> NoExec]
  /\ root = None
  /\ tool = [x \in Exec |-> NoTool]
  /\ idler = [c \in Consumer |-> NoIdler]
  /\ trigger = FALSE
  /\ stop = NoUser /\ start = NoUser
  /\ acts = 0
  /\ spent = [g \in Goal |-> NoSpent] /\ before = [g \in Goal |-> {}]

Idle(c) ==
  \/ Wakes(c) \/ ReadGoal(c) \/ LookAtRows(c) \/ BusyAfterReady(c) \/ Reserve(c)
  \/ EnqueueGoalRow(c) \/ ReleaseReservation(c) \/ BusyAfterClaim(c) \/ TakeRows(c) \/ CheckRows(c)
  \/ \E x \in SystemExec : Launch(c, x) \/ StartBatch(c, x)

Want == {"keep", "active", "paused", "completed", "blocked"}
Tools(x) ==
  \/ GoalCreate(x) \/ ToolRefused(x) \/ ToolRestarts(x) \/ ToolWrites(x)
  \/ \E g \in Goal, want \in Want : ToolReads(x, g, want)

Control == StopAsked \/ StopPauses \/ StopFails \/ StopCuts \/ StartAsked \/ StartWrites \/ StartTriggers

Next ==
  \/ \E c \in Consumer : Idle(c)
  \/ \E x \in UserExec : UserRun(x) \/ StartRun(x)
  \/ \E x \in RootExec : Refresh(x) \/ RunEnds(x)
  \/ \E x \in ChildExec : ChildRun(x) \/ ChildStarts(x) \/ ChildReports(x) \/ ChildCancelled(x) \/ ChildEnds(x)
  \/ \E x \in Exec : Capture(x) \/ Tools(x)
  \/ Control

Spec == Init /\ [][Next]_vars

-----------------------------------------------------------------------------
(* Correctness.                                                            *)

GoalStatus == {"absent", "active", "paused", "completed", "blocked"}
GoalRow == [status : GoalStatus, gen : Nat, count : 0..MaxContinuations, idle : Nat,
            pending : BOOLEAN, moved : BOOLEAN]

\* Every variable is of its type, and only an active goal is reserved.
GoalTypeOK ==
  /\ goal \in [Goal -> GoalRow]
  /\ \A row \in queue : row.goal \in Goal \cup {0} /\ row.gen \in Nat
  /\ exec \in [Exec -> [pc : {"off", "launched", "captured", "running", "reported"}, aborted : BOOLEAN,
                        goal : Goal \cup {0}, gen : Nat]]
  /\ root \in RootExec \cup {None}
  /\ tool \in [Exec -> [pc : {"off", "restart", "write"}, goal : Goal \cup {0}, want : Want]]
  /\ trigger \in BOOLEAN
  /\ \A g \in Goal : goal[g].pending => goal[g].status = "active"
  /\ \A row \in queue : IsGoalRow(row) => row.gen <= goal[row.goal].gen

\* When a stop of the user has paused a goal, neither background work nor any run
\* that was at work then makes it active again.
PauseHolds ==
  [][\A g \in Goal, x \in Exec :
       (/\ goal[g].status = "paused" /\ goal'[g].status = "active"
        /\ tool[x].pc # "off" /\ tool'[x].pc # tool[x].pc) =>
          x \in UserExec /\ x \notin before[g]]_vars

\* Without an act of a user a goal is continued at most MaxContinuations times, and
\* at most MaxNoProgress times in a row without a change of its content.
AutonomyBounded ==
  \A g \in Goal : spent[g].all <= MaxContinuations /\ spent[g].still <= MaxNoProgress

AtRest ==
  /\ ~trigger /\ root = None
  /\ \A c \in Consumer : idler[c] = NoIdler
  /\ \A x \in Exec : exec[x] = NoExec
  /\ stop = NoUser /\ start = NoUser

\* A session never comes to rest with an active goal or with a row in the queue:
\* whatever interferes with a continuation, something looks at the session again.
ActiveGoalDriven == AtRest => queue = {} /\ (Current # 0 => goal[Current].status # "active")
=============================================================================
