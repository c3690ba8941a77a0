---------------------- MODULE GoalContinuation_proofs ----------------------
(***************************************************************************)
(* Theorems about the goals of a session, for any number of goals, runs    *)
(* and consumers, any budget and any number of acts.                       *)
(*                                                                         *)
(* A goal's generation never goes back, and it moves when the goal is      *)
(* paused (Later).  So whatever was decided on an older goal is behind it: *)
(* rows, reservations, and the runs that a stop found at work.  The rounds *)
(* without a user are counted twice, in the row and by the history         *)
(* variable; the two meet because only a user's act resets the row.        *)
(*                                                                         *)
(* The second part follows what drives a session that has work, from one   *)
(* driver to the next.                                                     *)
(*                                                                         *)
(* The third is about the background tasks that hold such a session back,  *)
(* on any number of instances (BackgroundTasks): TasksShape is the shape   *)
(* of the state, OrderInv what waits in the chains of writes against what  *)
(* is written, and GateInv what the gate may go by.                        *)
(***************************************************************************)
EXTENDS GoalContinuation, BackgroundTasks, TLAPS, FiniteSetTheorems, WellFoundedInduction,
        SequenceTheorems

Rows == [goal : Goal \cup {0}, gen : Nat]
RowOK(row) == row \in Rows /\ (row.goal # 0 => row.gen <= goal[row.goal].gen)

\* The goals of a session are created in order, and one at a time is alive.
InOrder == \A g, h \in Goal : h < g /\ goal[g].status # "absent" => goal[h].status # "absent"
OneAlive == \A g, h \in Goal : goal[g].status \in Alive /\ goal[h].status \in Alive => g = h
GoalsOK ==
  /\ goal \in [Goal -> GoalRow]
  /\ \A g \in Goal : goal[g].pending => goal[g].status = "active"
  /\ InOrder /\ OneAlive

\* A row in the queue or in a consumer's hands, and the reservation of a consumer, are
\* of a generation the goal has had.
IdlerRow == [pc : {"off", "read", "look", "ready", "reserve", "enqueue", "release", "busy", "take",
                   "check", "launch", "wait"},
             goal : Goal \cup {0}, queued : BOOLEAN, mine : GoalRow, batch : SUBSET Rows,
             run : SystemExec \cup {None}]
IdlersOK ==
  /\ idler \in [Consumer -> IdlerRow]
  /\ \A row \in queue : RowOK(row)
  /\ \A c \in Consumer :
       /\ \A row \in idler[c].batch : RowOK(row)
       /\ idler[c].pc \in {"enqueue", "release"} =>
            idler[c].goal \in Goal /\ idler[c].mine.gen <= goal[idler[c].goal].gen

\* What a control has read is a goal that exists; a stop finds its goal paused by
\* someone else only at a later generation.
UserRow == [pc : {"off", "pause", "cut", "write", "trigger"}, goal : Goal \cup {0}, gen : Nat,
            status : GoalStatus]
StopReadOK ==
  /\ stop.goal \in Created /\ stop.gen <= goal[stop.goal].gen
  /\ stop.gen = goal[stop.goal].gen => goal[stop.goal].status # "paused"
ControlsOK ==
  /\ stop \in UserRow /\ start \in UserRow
  /\ stop.pc \in {"off", "pause", "cut"} /\ start.pc \in {"off", "write", "trigger"}
  /\ stop.pc = "pause" => StopReadOK
  /\ start.pc = "write" => start.goal \in Created
  /\ trigger \in BOOLEAN /\ acts \in Nat

ExecRow == [pc : {"off", "launched", "captured", "running", "reported"}, aborted : BOOLEAN,
            goal : Goal \cup {0}, gen : Nat]
ToolRow == [pc : {"off", "restart", "write"}, goal : Goal \cup {0}, want : Want]

\* A tool under way belongs to a run at work and is about the goal that run has
\* captured; only a user's run restarts a goal, and a background run that wants a
\* goal active is fenced off once the goal has been paused.
RunOK(x) ==
  /\ exec[x].goal # 0 => exec[x].gen <= goal[exec[x].goal].gen
  /\ tool[x].pc # "off" =>
       /\ exec[x].pc = "running"
       /\ tool[x].goal \in Created /\ tool[x].goal = exec[x].goal
       /\ tool[x].pc = "restart" => x \in UserExec
       /\ (/\ x \notin UserExec /\ tool[x].want = "active"
           /\ goal[tool[x].goal].gen = exec[x].gen) => goal[tool[x].goal].status # "paused"
RunsOK ==
  /\ exec \in [Exec -> ExecRow] /\ tool \in [Exec -> ToolRow] /\ root \in RootExec \cup {None}
  /\ \A x \in Exec : RunOK(x)

\* A run that was at work when a stop paused its goal is behind the goal's generation.
BeforeOK ==
  /\ before \in [Goal -> SUBSET Exec]
  /\ \A g \in Goal : \A x \in before[g] :
       /\ goal[g].status # "absent"
       /\ exec[x].pc \in {"captured", "running", "reported"}
       /\ exec[x].goal = g => exec[x].gen < goal[g].gen

\* The rounds since a user acted on the goal are counted in its row, and so are those
\* since its content changed, up to the first one.
BudgetOK ==
  /\ spent \in [Goal -> [all : Nat, still : Nat]]
  /\ \A g \in Goal :
       /\ spent[g].all <= goal[g].count /\ spent[g].still <= spent[g].all
       /\ spent[g].still <= MaxNoProgress /\ spent[g].still <= goal[g].idle + 1
       /\ goal[g].moved => spent[g].still = 0

GoalInv == GoalsOK /\ IdlersOK /\ ControlsOK /\ RunsOK /\ BeforeOK /\ BudgetOK

\* What a step may do to the row of a goal.
Later(old, new) ==
  /\ old.gen <= new.gen
  /\ new.status = "absent" => old.status = "absent"
  /\ new.status = "paused" /\ old.status # "paused" => old.gen < new.gen
GoalsAdvance == \A g \in Goal : Later(goal[g], goal'[g])

USE GoalConstants

-----------------------------------------------------------------------------
(* The order of the goals.                                                 *)

LEMMA NewestIsMax ==
  ASSUME NEW gs \in SUBSET Goal, gs # {}
  PROVE  Newest(gs) \in gs /\ \A h \in gs : h <= Newest(gs)
<1> DEFINE T == {MaxGoals - g : g \in gs}
<1>1. gs \subseteq 1..MaxGoals
  BY DEF Goal
<1>2. T \subseteq Nat /\ T # {}
  <2>1. \A g \in gs : MaxGoals - g \in Nat
    BY <1>1
  <2>2. PICK g \in gs : TRUE
    OBVIOUS
  <2>3. MaxGoals - g \in T
    OBVIOUS
  <2>4. QED BY <2>1, <2>3
<1>3. PICK t \in T : \A u \in T : ~ (<<u, t>> \in OpToRel(<, Nat))
  BY <1>2, NatLessThanWellFounded, WFMin
<1>4. \A u \in T : ~ (u < t)
  BY <1>2, <1>3 DEF OpToRel
<1>5. PICK g \in gs : t = MaxGoals - g
  BY <1>3
<1>6. \A h \in gs : h <= g
  <2> TAKE h \in gs
  <2>1. ~ (MaxGoals - h < MaxGoals - g)
    BY <1>4, <1>5
  <2>2. QED BY <1>1, <2>1
<1>7. QED BY <1>6 DEF Newest

LEMMA Numbers == Goal \subseteq Nat \ {0} /\ 0 \notin Goal
  BY DEF Goal

LEMMA CurrentGoal ==
  /\ Current \in Goal \cup {0}
  /\ Current # 0 => goal[Current].status \in Alive
  /\ Current = 0 => \A g \in Goal : goal[g].status \notin Alive
<1> DEFINE gs == {g \in Goal : goal[g].status \in Alive}
<1>1. CASE gs = {}
  <2>1. Current = 0
    BY <1>1 DEF Current, Newest
  <2>2. QED BY <1>1, <2>1
<1>2. CASE gs # {}
  <2>1. Current \in gs
    BY <1>2, NewestIsMax DEF Current
  <2>2. QED BY <2>1, Numbers
<1>3. QED BY <1>1, <1>2

LEMMA AddressedGoal == Addressed \in Created \cup {0} /\ Created \subseteq Goal
<1>1. Created \subseteq Goal
  BY DEF Created
<1>2. Newest(Created) \in Created \cup {0}
  BY <1>1, NewestIsMax DEF Newest
<1>3. Current # 0 => Current \in Created
  BY CurrentGoal DEF Created, Alive
<1>4. QED BY <1>1, <1>2, <1>3 DEF Addressed

\* The number of a new goal is free, and all goals before it exist.
LEMMA NextGoal ==
  ASSUME InOrder, Cardinality(Created) < MaxGoals
  PROVE  LET n == Newest(Created) + 1 IN
           n \in Goal /\ n \notin Created /\ \A h \in Goal : h < n => h \in Created
<1> DEFINE m == Newest(Created)
<1>1. Created \subseteq Goal
  BY DEF Created
<1>2. CASE Created = {}
  <2>1. m = 0
    BY <1>2 DEF Newest
  <2>2. Cardinality(Created) = 0
    BY <1>2, FS_EmptySet
  <2>3. QED BY <1>2, <2>1, <2>2 DEF Goal
<1>3. CASE Created # {}
  <2>1. m \in Created /\ \A h \in Created : h <= m
    BY <1>1, <1>3, NewestIsMax
  <2>2. m \in 1..MaxGoals
    BY <1>1, <2>1 DEF Goal
  <2>3. \A h \in 1..m : h \in Created
    BY <2>1, <2>2 DEF InOrder, Created, Goal
  <2>4. Created = 1..m
    <3>1. \A h \in Created : h \in 1..m
      BY <1>1, <2>1, <2>2 DEF Goal
    <3> HIDE DEF m
    <3>2. QED BY <2>3, <3>1
  <2>5. Cardinality(1..m) = m
    BY <2>2, FS_Interval
  <2>6. m < MaxGoals
    BY <2>4, <2>5
  <2>7. QED BY <2>2, <2>4, <2>6 DEF Goal
<1>4. QED BY <1>2, <1>3

-----------------------------------------------------------------------------
(* One row of the table changes, or none.                                  *)

LEMMA GoalsRest ==
  ASSUME GoalsOK, goal' = goal
  PROVE  GoalsOK' /\ GoalsAdvance
<1>1. \A g \in Goal : goal[g].gen <= goal[g].gen
  BY DEF GoalsOK, GoalRow
<1>2. QED BY <1>1 DEF GoalsOK, GoalsAdvance, Later, InOrder, OneAlive

LEMMA GoalMoves ==
  ASSUME GoalsOK, NEW g \in Goal, NEW row \in GoalRow,
         row.status = "absent" \/ goal[g].status # "absent",
         Later(goal[g], row), Fits(g, row), row.pending => row.status = "active",
         goal' = [goal EXCEPT ![g] = row]
  PROVE  GoalsOK' /\ GoalsAdvance
<1>1. goal' \in [Goal -> GoalRow] /\ goal'[g] = row /\ \A h \in Goal \ {g} : goal'[h] = goal[h]
  BY DEF GoalsOK
<1>2. GoalsAdvance
  BY <1>1 DEF GoalsAdvance, Later, GoalsOK, GoalRow
<1>3. InOrder'
  BY <1>1 DEF InOrder, GoalsOK, Later
<1>4. OneAlive'
  BY <1>1 DEF OneAlive, GoalsOK, Fits
<1>5. QED BY <1>1, <1>2, <1>3, <1>4 DEF GoalsOK

LEMMA BudgetRests ==
  ASSUME BudgetOK, UNCHANGED <<goal, spent>>
  PROVE  BudgetOK'
  BY DEF BudgetOK

LEMMA BudgetMoves ==
  ASSUME GoalsOK, BudgetOK, NEW g \in Goal, NEW row, NEW s \in [all : Nat, still : Nat],
         s.all <= row.count, s.still <= s.all, s.still <= MaxNoProgress, s.still <= row.idle + 1,
         row.moved => s.still = 0,
         goal' = [goal EXCEPT ![g] = row], spent' = [spent EXCEPT ![g] = s]
  PROVE  BudgetOK'
<1>1. goal'[g] = row /\ \A h \in Goal \ {g} : goal'[h] = goal[h]
  BY DEF GoalsOK
<1>2. spent'[g] = s /\ \A h \in Goal \ {g} : spent'[h] = spent[h]
  BY DEF BudgetOK
<1>3. spent' \in [Goal -> [all : Nat, still : Nat]]
  BY DEF BudgetOK
<1>4. QED BY <1>1, <1>2, <1>3 DEF BudgetOK

-----------------------------------------------------------------------------
(* What an advancing table leaves true.                                    *)

LEMMA RowsKept ==
  ASSUME GoalsOK, GoalsOK', GoalsAdvance, NEW row, RowOK(row)
  PROVE  RowOK(row)'
<1>1. row \in Rows /\ (row.goal # 0 => row.gen <= goal[row.goal].gen)
  BY DEF RowOK
<1>2. row.goal # 0 => row.goal \in Goal
  BY <1>1 DEF Rows
<1>3. row.goal # 0 => row.gen <= goal'[row.goal].gen
  BY <1>1, <1>2 DEF GoalsAdvance, Later, GoalsOK, GoalRow, Rows
<1>4. QED BY <1>1, <1>3 DEF RowOK

LEMMA IdlersKept ==
  ASSUME GoalsOK, GoalsOK', GoalsAdvance, IdlersOK, idler' = idler,
         \A row \in queue' : RowOK(row) \/ RowOK(row)'
  PROVE  IdlersOK'
<1>1. \A row \in queue' : RowOK(row)'
  BY RowsKept
<1>2. \A c \in Consumer : \A row \in idler'[c].batch : RowOK(row)'
  BY RowsKept DEF IdlersOK
<1>3. ASSUME NEW c \in Consumer, idler'[c].pc \in {"enqueue", "release"}
      PROVE  idler'[c].goal \in Goal /\ idler'[c].mine.gen <= goal'[idler'[c].goal].gen
  <2>1. idler[c].goal \in Goal /\ idler[c].mine.gen <= goal[idler[c].goal].gen
        /\ idler[c].mine.gen \in Nat
    BY <1>3 DEF IdlersOK, IdlerRow, GoalRow
  <2>2. QED BY <2>1 DEF GoalsAdvance, Later, GoalsOK, GoalRow
<1>4. QED BY <1>1, <1>2, <1>3 DEF IdlersOK

LEMMA IdlerMoves ==
  ASSUME GoalsOK, GoalsOK', GoalsAdvance, IdlersOK, NEW c \in Consumer, NEW i \in IdlerRow,
         idler' = [idler EXCEPT ![c] = i],
         \A row \in queue' : RowOK(row) \/ RowOK(row)',
         \A row \in i.batch : RowOK(row),
         i.pc \in {"enqueue", "release"} => i.goal \in Goal /\ i.mine.gen <= goal'[i.goal].gen
  PROVE  IdlersOK'
<1>1. idler' \in [Consumer -> IdlerRow] /\ idler'[c] = i
      /\ \A d \in Consumer \ {c} : idler'[d] = idler[d]
  BY DEF IdlersOK
<1>2. \A row \in queue' : RowOK(row)'
  BY RowsKept
<1>3. ASSUME NEW d \in Consumer, NEW row \in idler'[d].batch
      PROVE  RowOK(row)'
  <2>1. RowOK(row)
    BY <1>1, <1>3 DEF IdlersOK
  <2>2. QED BY <2>1, RowsKept
<1>4. ASSUME NEW d \in Consumer, idler'[d].pc \in {"enqueue", "release"}
      PROVE  idler'[d].goal \in Goal /\ idler'[d].mine.gen <= goal'[idler'[d].goal].gen
  <2>1. CASE d = c
    BY <1>1, <1>4, <2>1
  <2>2. CASE d # c
    <3>1. idler[d].goal \in Goal /\ idler[d].mine.gen <= goal[idler[d].goal].gen
          /\ idler[d].mine.gen \in Nat /\ idler'[d] = idler[d]
      BY <1>1, <1>4, <2>2 DEF IdlersOK, IdlerRow, GoalRow
    <3>2. QED BY <3>1 DEF GoalsAdvance, Later, GoalsOK, GoalRow
  <2>3. QED BY <2>1, <2>2
<1>5. QED BY <1>1, <1>2, <1>3, <1>4 DEF IdlersOK

LEMMA ControlsKept ==
  ASSUME GoalsOK, GoalsOK', GoalsAdvance, ControlsOK, start' = start,
         stop' = stop \/ (stop' \in UserRow /\ stop'.pc \in {"off", "cut"}),
         trigger' \in BOOLEAN, acts' \in Nat
  PROVE  ControlsOK'
<1>1. \A g \in Created : g \in Created'
  BY DEF GoalsAdvance, Later, Created
<1>2. ASSUME stop'.pc = "pause" PROVE StopReadOK'
  <2>1. stop' = stop /\ StopReadOK /\ stop.goal \in Goal /\ stop.gen \in Nat
    BY <1>2 DEF ControlsOK, UserRow, StopReadOK, Created
  <2>2. /\ Later(goal[stop.goal], goal'[stop.goal])
        /\ goal[stop.goal].gen \in Nat /\ goal'[stop.goal].gen \in Nat
    BY <2>1 DEF GoalsAdvance, GoalsOK, GoalRow
  <2>3. stop.gen <= goal'[stop.goal].gen
    BY <2>1, <2>2 DEF StopReadOK, Later
  <2>4. stop.gen = goal'[stop.goal].gen => goal'[stop.goal].status # "paused"
    BY <2>1, <2>2 DEF StopReadOK, Later
  <2>5. QED BY <1>1, <2>1, <2>3, <2>4 DEF StopReadOK
<1>3. stop' \in UserRow /\ stop'.pc \in {"off", "pause", "cut"}
  BY DEF ControlsOK
<1>4. QED BY <1>1, <1>2, <1>3 DEF ControlsOK

LEMMA RunKept ==
  ASSUME GoalsOK, GoalsOK', GoalsAdvance, RunsOK, NEW x \in Exec, exec'[x] = exec[x], tool'[x] = tool[x]
  PROVE  RunOK(x)'
<1>1. exec[x] \in ExecRow /\ tool[x] \in ToolRow
  BY DEF RunsOK
<1>2. exec[x].goal # 0 => exec[x].goal \in Goal /\ exec[x].gen <= goal[exec[x].goal].gen
  BY <1>1 DEF RunsOK, RunOK, ExecRow
<1>3. exec'[x].goal # 0 => exec'[x].gen <= goal'[exec'[x].goal].gen
  BY <1>1, <1>2 DEF GoalsAdvance, Later, GoalsOK, GoalRow, ExecRow
<1>4. ASSUME tool'[x].pc # "off"
      PROVE  /\ exec'[x].pc = "running"
             /\ tool'[x].goal \in Created' /\ tool'[x].goal = exec'[x].goal
             /\ tool'[x].pc = "restart" => x \in UserExec
             /\ (/\ x \notin UserExec /\ tool'[x].want = "active"
                 /\ goal'[tool'[x].goal].gen = exec'[x].gen) => goal'[tool'[x].goal].status # "paused"
  <2> DEFINE g == tool[x].goal
  <2>1. /\ exec[x].pc = "running" /\ g \in Created /\ g = exec[x].goal
        /\ tool[x].pc = "restart" => x \in UserExec
        /\ (x \notin UserExec /\ tool[x].want = "active" /\ goal[g].gen = exec[x].gen)
              => goal[g].status # "paused"
    BY <1>4 DEF RunsOK, RunOK
  <2>2. g \in Goal /\ g # 0 /\ goal[g].status # "absent"
    BY <2>1, Numbers DEF Created
  <2>3. Later(goal[g], goal'[g]) /\ goal[g] \in GoalRow /\ goal'[g] \in GoalRow
    BY <2>2 DEF GoalsAdvance, GoalsOK
  <2>4. g \in Created'
    BY <2>2, <2>3 DEF Created, Later
  <2>5. exec[x].gen <= goal[g].gen /\ exec[x].gen \in Nat
    BY <1>1, <1>2, <2>1, <2>2 DEF ExecRow
  <2>6. goal'[g].gen = exec[x].gen => goal[g].gen = exec[x].gen /\ ~ (goal[g].gen < goal'[g].gen)
    BY <2>3, <2>5 DEF Later, GoalRow
  <2>7. (x \notin UserExec /\ tool[x].want = "active" /\ goal'[g].gen = exec[x].gen)
          => goal'[g].status # "paused"
    BY <2>1, <2>3, <2>6 DEF Later
  <2>8. QED BY <2>1, <2>4, <2>7
<1>5. QED BY <1>3, <1>4 DEF RunOK

LEMMA RunsKept ==
  ASSUME GoalsOK, GoalsOK', GoalsAdvance, RunsOK, UNCHANGED <<exec, tool, root>>
  PROVE  RunsOK'
<1>1. \A x \in Exec : RunOK(x)'
  BY RunKept
<1>2. QED BY <1>1 DEF RunsOK

LEMMA RunMoves ==
  ASSUME GoalsOK, GoalsOK', GoalsAdvance, RunsOK, NEW x \in Exec, NEW e \in ExecRow, NEW t \in ToolRow,
         exec' = [exec EXCEPT ![x] = e], tool' = [tool EXCEPT ![x] = t],
         root' \in RootExec \cup {None}, RunOK(x)'
  PROVE  RunsOK'
<1>1. exec' \in [Exec -> ExecRow] /\ tool' \in [Exec -> ToolRow]
      /\ \A y \in Exec \ {x} : exec'[y] = exec[y] /\ tool'[y] = tool[y]
  BY DEF RunsOK
<1>2. \A y \in Exec : RunOK(y)'
  BY <1>1, RunKept
<1>3. QED BY <1>1, <1>2 DEF RunsOK

\* The runs of before[g] are kept, or fewer, as long as each stays behind its goal.
LEMMA BeforeKept ==
  ASSUME GoalsOK, GoalsOK', GoalsAdvance, RunsOK, BeforeOK,
         before' \in [Goal -> SUBSET Exec],
         \A g \in Goal : before'[g] \subseteq before[g],
         \A g \in Goal : \A x \in before'[g] :
           /\ exec'[x].pc \in {"captured", "running", "reported"}
           /\ exec'[x].goal = g => exec'[x].gen = exec[x].gen /\ exec[x].goal = g
  PROVE  BeforeOK'
<1>1. ASSUME NEW g \in Goal, NEW x \in before'[g]
      PROVE  goal'[g].status # "absent" /\ (exec'[x].goal = g => exec'[x].gen < goal'[g].gen)
  <2>1. x \in before[g] /\ x \in Exec /\ goal[g].status # "absent"
        /\ (exec[x].goal = g => exec[x].gen < goal[g].gen)
    BY DEF BeforeOK
  <2>2. Later(goal[g], goal'[g]) /\ goal[g].gen \in Nat /\ goal'[g].gen \in Nat /\ exec[x].gen \in Nat
    BY <2>1 DEF GoalsAdvance, GoalsOK, GoalRow, RunsOK, ExecRow
  <2>3. QED BY <2>1, <2>2 DEF Later
<1>2. QED BY <1>1 DEF BeforeOK

LEMMA BeforeRests ==
  ASSUME GoalsOK, GoalsOK', GoalsAdvance, RunsOK, BeforeOK, UNCHANGED <<exec, before>>
  PROVE  BeforeOK'
<1>1. before' \in [Goal -> SUBSET Exec] /\ \A g \in Goal : before'[g] \subseteq before[g]
  BY DEF BeforeOK
<1>2. \A g \in Goal : \A x \in before'[g] :
        /\ exec'[x].pc \in {"captured", "running", "reported"}
        /\ exec'[x].goal = g => exec'[x].gen = exec[x].gen /\ exec[x].goal = g
  BY DEF BeforeOK
<1>3. QED BY <1>1, <1>2, BeforeKept

-----------------------------------------------------------------------------
(* The idle consumer.                                                      *)

LEMMA Blanks ==
  /\ NoGoal \in GoalRow /\ NoIdler \in IdlerRow /\ NoExec \in ExecRow /\ NoTool \in ToolRow
  /\ NoUser \in UserRow
<1>1. NoGoal \in GoalRow
  BY DEF NoGoal, GoalRow, GoalStatus
<1>2. QED
  BY <1>1 DEF NoIdler, IdlerRow, NoExec, ExecRow, NoTool, ToolRow, Want, NoUser, UserRow, GoalStatus

\* A step that only moves a consumer and the rows it holds or finds.
LEMMA IdlerStep ==
  ASSUME GoalInv, NEW c \in Consumer, NEW i \in IdlerRow, idler' = [idler EXCEPT ![c] = i],
         UNCHANGED <<goal, exec, root, tool, stop, start, acts, spent, before>>,
         trigger' \in BOOLEAN, queue' \subseteq queue, i.batch \subseteq queue \cup idler[c].batch,
         i.pc \notin {"enqueue", "release"}
  PROVE  GoalInv'
<1>1. GoalsOK' /\ GoalsAdvance /\ BudgetOK'
  BY GoalsRest, BudgetRests DEF GoalInv
<1>2. IdlersOK'
  <2>1. \A row \in queue \cup i.batch : RowOK(row)
    BY DEF GoalInv, IdlersOK
  <2>2. QED BY <1>1, <2>1, IdlerMoves DEF GoalInv
<1>3. ControlsOK'
  BY <1>1, ControlsKept DEF GoalInv, ControlsOK
<1>4. RunsOK' /\ BeforeOK'
  BY <1>1, RunsKept, BeforeRests DEF GoalInv
<1>5. QED BY <1>1, <1>2, <1>3, <1>4 DEF GoalInv

\* Its row after a change of the program counter alone, and of its batch.
LEMMA IdlerRows ==
  ASSUME IdlersOK, NEW c \in Consumer
  PROVE  /\ idler[c] \in IdlerRow
         /\ \A pc \in {"read", "look", "ready", "reserve", "release", "busy", "take"} :
              /\ [idler[c] EXCEPT !.pc = pc] \in IdlerRow
              /\ [idler EXCEPT ![c].pc = pc] = [idler EXCEPT ![c] = [idler[c] EXCEPT !.pc = pc]]
         /\ \A row \in queue \cup idler[c].batch : row \in Rows
<1>1. idler[c] \in IdlerRow
  BY DEF IdlersOK
<1>2. \A pc \in {"read", "look", "ready", "reserve", "release", "busy", "take"} :
        /\ [idler[c] EXCEPT !.pc = pc] \in IdlerRow
        /\ [idler EXCEPT ![c].pc = pc] = [idler EXCEPT ![c] = [idler[c] EXCEPT !.pc = pc]]
  BY <1>1 DEF IdlerRow
<1>3. QED BY <1>1, <1>2 DEF IdlersOK, RowOK

LEMMA RestKeeps ==
  ASSUME GoalInv, NEW c \in Consumer, Rest(c),
         UNCHANGED <<goal, exec, root, tool, stop, start, acts, spent, before>>,
         trigger' \in BOOLEAN, queue' \subseteq queue
  PROVE  GoalInv'
<1>1. NoIdler \in IdlerRow /\ NoIdler.batch = {} /\ NoIdler.pc = "off"
  BY Blanks DEF NoIdler
<1>2. QED BY <1>1, IdlerStep DEF Rest

LEMMA GotoRow ==
  ASSUME GoalInv, NEW c \in Consumer,
         NEW pc \in {"read", "look", "ready", "reserve", "release", "busy", "take"}, Goto(c, pc)
  PROVE  LET i == [idler[c] EXCEPT !.pc = pc] IN
           /\ i \in IdlerRow /\ idler' = [idler EXCEPT ![c] = i]
           /\ i.batch = idler[c].batch /\ i.pc = pc /\ i.goal = idler[c].goal /\ i.mine = idler[c].mine
<1> DEFINE i == [idler[c] EXCEPT !.pc = pc]
<1>1. i \in IdlerRow /\ idler' = [idler EXCEPT ![c] = i]
  BY IdlerRows DEF Goto, GoalInv
<1>2. i.batch = idler[c].batch /\ i.pc = pc /\ i.goal = idler[c].goal /\ i.mine = idler[c].mine
  BY IdlerRows DEF IdlerRow, GoalInv
<1>3. QED BY <1>1, <1>2

LEMMA GotoKeeps ==
  ASSUME GoalInv, NEW c \in Consumer, NEW pc \in {"read", "look", "ready", "reserve", "busy", "take"},
         Goto(c, pc), UNCHANGED <<goal, exec, root, tool, stop, start, acts, spent, before>>,
         trigger' \in BOOLEAN, queue' \subseteq queue
  PROVE  GoalInv'
<1> DEFINE i == [idler[c] EXCEPT !.pc = pc]
<1>0. pc \in {"read", "look", "ready", "reserve", "release", "busy", "take"}
  OBVIOUS
<1>1. i \in IdlerRow /\ idler' = [idler EXCEPT ![c] = i] /\ i.batch = idler[c].batch /\ i.pc = pc
  BY <1>0, GotoRow
<1> HIDE DEF i
<1>2. QED BY <1>1, IdlerStep

\* The steps that only read, or that only take rows.
LEMMA LooksKeep ==
  ASSUME GoalInv, NEW c \in Consumer,
         Wakes(c) \/ ReadGoal(c) \/ LookAtRows(c) \/ BusyAfterReady(c) \/ BusyAfterClaim(c)
           \/ TakeRows(c) \/ CheckRows(c)
  PROVE  GoalInv'
<1>1. /\ idler[c] \in IdlerRow /\ trigger \in BOOLEAN
      /\ \A row \in queue \cup idler[c].batch : row \in Rows
  BY IdlerRows DEF GoalInv, ControlsOK
<1>2. CASE Wakes(c)
  BY GotoKeeps, <1>1, <1>2 DEF Wakes, history
<1>3. CASE ReadGoal(c)
  <2> DEFINE i == [idler[c] EXCEPT !.pc = "look",
                     !.goal = IF Current # 0 /\ goal[Current].status = "active" THEN Current ELSE 0]
  <2>1. i \in IdlerRow /\ i.pc = "look" /\ i.batch = idler[c].batch
    BY <1>1, CurrentGoal DEF IdlerRow
  <2>2. idler' = [idler EXCEPT ![c] = i]
    BY <1>3, <1>1 DEF ReadGoal, GoalInv, IdlersOK
  <2> HIDE DEF i
  <2>3. QED BY <1>3, <1>1, <2>1, <2>2, IdlerStep DEF ReadGoal, history
<1>4. CASE LookAtRows(c)
  <2>1. CASE Rest(c)
    BY <1>1, RestKeeps, <1>4, <2>1 DEF LookAtRows, history
  <2>2. CASE ~Rest(c)
    <3> DEFINE i == [idler[c] EXCEPT !.pc = "ready", !.queued = \E row \in queue : IsGoalRow(row)]
    <3>1. i \in IdlerRow /\ i.pc = "ready" /\ i.batch = idler[c].batch
      BY <1>1 DEF IdlerRow
    <3>2. idler' = [idler EXCEPT ![c] = i]
      BY <1>4, <1>1, <2>2 DEF LookAtRows, GoalInv, IdlersOK
    <3> HIDE DEF i
    <3>3. QED BY <1>4, <1>1, <3>1, <3>2, IdlerStep DEF LookAtRows, history
  <2>3. QED BY <2>1, <2>2
<1>5. CASE BusyAfterReady(c)
  <2>1. Rest(c) \/ \E pc \in {"busy", "reserve"} : Goto(c, pc)
    BY <1>5 DEF BusyAfterReady
  <2>2. QED BY <1>1, RestKeeps, GotoKeeps, <1>5, <2>1 DEF BusyAfterReady, history
<1>6. CASE BusyAfterClaim(c)
  <2>1. Rest(c) \/ Goto(c, "take")
    BY <1>6 DEF BusyAfterClaim
  <2>2. QED BY <1>1, RestKeeps, GotoKeeps, <1>6, <2>1 DEF BusyAfterClaim, history
<1>7. CASE TakeRows(c)
  <2>1. CASE Rest(c)
    BY <1>1, RestKeeps, <1>7, <2>1 DEF TakeRows, history
  <2>2. CASE ~Rest(c)
    <3> DEFINE i == [idler[c] EXCEPT !.pc = "check", !.batch = queue]
    <3>1. i \in IdlerRow /\ i.pc = "check" /\ i.batch = queue
      BY <1>1 DEF IdlerRow
    <3>2. idler' = [idler EXCEPT ![c] = i]
      BY <1>7, <1>1, <2>2 DEF TakeRows, GoalInv, IdlersOK
    <3> HIDE DEF i
    <3>3. QED BY <1>7, <1>1, <3>1, <3>2, IdlerStep DEF TakeRows, history
  <2>3. QED BY <2>1, <2>2
<1>8. CASE CheckRows(c)
  <2>1. trigger' \in BOOLEAN
    BY <1>8, <1>1 DEF CheckRows
  <2>2. CASE Rest(c)
    BY RestKeeps, <1>8, <2>1, <2>2 DEF CheckRows, history
  <2>3. CASE ~Rest(c)
    <3> DEFINE stale == {row \in idler[c].batch : IsGoalRow(row) /\ ~RowCurrent(row)}
               i == [idler[c] EXCEPT !.pc = "launch", !.batch = idler[c].batch \ stale]
    <3>1. i \in IdlerRow /\ i.pc = "launch" /\ i.batch \subseteq idler[c].batch
      <4>1. idler[c].batch \ stale \in SUBSET Rows
        BY <1>1
      <4> HIDE DEF stale
      <4>2. QED BY <1>1, <4>1 DEF IdlerRow
    <3>2. idler' = [idler EXCEPT ![c] = i]
      BY <1>8, <1>1, <2>3 DEF CheckRows, GoalInv, IdlersOK
    <3> HIDE DEF i
    <3>3. QED BY <1>8, <2>1, <3>1, <3>2, IdlerStep DEF CheckRows, history
  <2>4. QED BY <2>2, <2>3
<1>9. QED BY <1>2, <1>3, <1>4, <1>5, <1>6, <1>7, <1>8

\* The rest of the state when a consumer writes a goal.
LEMMA IdlerWrites ==
  ASSUME GoalInv, GoalsOK', GoalsAdvance, BudgetOK', IdlersOK',
         UNCHANGED <<exec, root, tool, trigger, stop, start, acts, before>>
  PROVE  GoalInv'
<1>1. ControlsOK'
  BY ControlsKept DEF GoalInv, ControlsOK
<1>2. RunsOK' /\ BeforeOK'
  BY RunsKept, BeforeRests DEF GoalInv
<1>3. QED BY <1>1, <1>2 DEF GoalInv

\* A reservation is within both budgets, and the history counts no more than the row.
LEMMA ReserveWithin ==
  ASSUME GoalInv, NEW g \in Goal
  PROVE  LET row == goal[g] IN
           /\ IdleRounds(row) \in Nat
           /\ spent[g].still <= IdleRounds(row) + 1
           /\ row.moved \/ row.count = 0 => spent[g].still = 0
           /\ ~Exhausted(row) => /\ row.count + 1 \in 0..MaxContinuations
                                 /\ IdleRounds(row) + 1 <= MaxNoProgress
                                 /\ spent[g].still <= IdleRounds(row)
<1>1. goal[g] \in GoalRow /\ spent[g] \in [all : Nat, still : Nat]
  BY DEF GoalInv, GoalsOK, BudgetOK
<1>2. /\ spent[g].all <= goal[g].count /\ spent[g].still <= spent[g].all
      /\ spent[g].still <= goal[g].idle + 1
      /\ goal[g].moved => spent[g].still = 0
  BY DEF GoalInv, BudgetOK
<1>3. /\ goal[g].count \in 0..MaxContinuations /\ goal[g].idle \in Nat
      /\ spent[g].all \in Nat /\ spent[g].still \in Nat
  BY <1>1 DEF GoalRow
<1>4. goal[g].count = 0 => spent[g].still = 0
  BY <1>2, <1>3
<1>5. IdleRounds(goal[g]) \in Nat
  BY <1>3 DEF IdleRounds
<1>6. spent[g].still <= IdleRounds(goal[g])
  BY <1>2, <1>3, <1>4 DEF IdleRounds
<1>7. ~Exhausted(goal[g]) => goal[g].count + 1 \in 0..MaxContinuations
                             /\ IdleRounds(goal[g]) + 1 <= MaxNoProgress
  BY <1>3, <1>5 DEF Exhausted
<1>8. QED BY <1>2, <1>3, <1>4, <1>5, <1>6, <1>7

LEMMA ReserveKeeps ==
  ASSUME GoalInv, NEW c \in Consumer, Reserve(c)
  PROVE  GoalInv'
<1> DEFINE g == Current
<1>1. trigger \in BOOLEAN /\ UNCHANGED <<queue, exec, root, tool, trigger, stop, start, acts, before>>
  BY DEF GoalInv, ControlsOK, Reserve
<1>2. CASE Goto(c, "busy") /\ UNCHANGED <<goal, spent>>
  BY <1>1, <1>2, GotoKeeps
<1>3. CASE /\ g # 0 /\ goal[g].status = "active" /\ Exhausted(goal[g])
           /\ goal' = [goal EXCEPT ![g] = Blocked(goal[g])]
           /\ Goto(c, "busy") /\ UNCHANGED spent
  <2> DEFINE row == Blocked(goal[g])
             i == [idler[c] EXCEPT !.pc = "busy"]
  <2>1. g \in Goal /\ goal[g] \in GoalRow
    BY <1>3, CurrentGoal DEF GoalInv, GoalsOK
  <2>2. /\ IdleRounds(goal[g]) \in Nat /\ spent[g].still <= IdleRounds(goal[g]) + 1
    BY <2>1, ReserveWithin
  <2>3. /\ row \in GoalRow /\ row.status = "blocked" /\ row.gen = goal[g].gen /\ row.pending = FALSE
        /\ row.count = goal[g].count /\ row.idle = IdleRounds(goal[g]) /\ row.moved = FALSE
    BY <2>1, <2>2 DEF Blocked, GoalRow, GoalStatus
  <2>4. Later(goal[g], row) /\ Fits(g, row)
    BY <2>1, <2>3 DEF Later, Fits, Alive, GoalRow
  <2>5. spent[g] \in [all : Nat, still : Nat] /\ spent[g].all <= goal[g].count
        /\ spent[g].still <= spent[g].all /\ spent[g].still <= MaxNoProgress
        /\ spent' = [spent EXCEPT ![g] = spent[g]]
    BY <1>3, <2>1 DEF GoalInv, BudgetOK
  <2>6. i \in IdlerRow /\ idler' = [idler EXCEPT ![c] = i] /\ i.pc = "busy" /\ i.batch = idler[c].batch
    BY <1>3, GotoRow
  <2> HIDE DEF row, i
  <2>7. goal' = [goal EXCEPT ![g] = row]
    BY <1>3 DEF row
  <2>8. GoalsOK' /\ GoalsAdvance
    BY <1>3, <2>1, <2>3, <2>4, <2>7, GoalMoves DEF GoalInv
  <2>9. BudgetOK'
    BY <2>1, <2>2, <2>3, <2>5, <2>7, BudgetMoves DEF GoalInv
  <2>10. IdlersOK'
    BY <1>1, <2>6, <2>8, IdlerMoves DEF GoalInv, IdlersOK
  <2>11. QED BY <1>1, <2>8, <2>9, <2>10, IdlerWrites
<1>4. CASE /\ g # 0 /\ goal[g].status = "active" /\ ~Exhausted(goal[g])
           /\ goal' = [goal EXCEPT ![g] = Reserved(goal[g])]
           /\ spent' = [spent EXCEPT ![g].all = @ + 1, ![g].still = @ + 1]
           /\ idler' = [idler EXCEPT ![c].pc = "enqueue", ![c].goal = g, ![c].mine = goal'[g]]
  <2> DEFINE row == Reserved(goal[g])
             s == [all |-> spent[g].all + 1, still |-> spent[g].still + 1]
             i == [idler[c] EXCEPT !.pc = "enqueue", !.goal = g, !.mine = row]
  <2>1. g \in Goal /\ goal[g] \in GoalRow
    BY <1>4, CurrentGoal DEF GoalInv, GoalsOK
  <2>2. /\ IdleRounds(goal[g]) \in Nat /\ goal[g].count + 1 \in 0..MaxContinuations
        /\ IdleRounds(goal[g]) + 1 <= MaxNoProgress /\ spent[g].still <= IdleRounds(goal[g])
    BY <1>4, <2>1, ReserveWithin
  <2>3. /\ row \in GoalRow /\ row.status = "active" /\ row.gen = goal[g].gen + 1
        /\ row.count = goal[g].count + 1 /\ row.idle = IdleRounds(goal[g]) /\ row.moved = FALSE
    <3>1. goal[g].status = "active" /\ goal[g].gen + 1 \in Nat
      BY <1>4, <2>1 DEF GoalRow
    <3>2. QED BY <2>1, <2>2, <3>1 DEF Reserved, GoalRow
  <2>4. Later(goal[g], row) /\ Fits(g, row)
    BY <1>4, <2>1, <2>3 DEF Later, Fits, Alive, GoalRow, GoalInv, GoalsOK, OneAlive
  <2>5. spent[g].all \in Nat /\ spent[g].still \in Nat /\ spent[g].all <= goal[g].count
        /\ spent[g].still <= spent[g].all
    BY <2>1 DEF GoalInv, BudgetOK
  <2>6. /\ s \in [all : Nat, still : Nat] /\ s.all = spent[g].all + 1 /\ s.still = spent[g].still + 1
        /\ spent' = [spent EXCEPT ![g] = s]
    BY <1>4, <2>1, <2>5 DEF GoalInv, BudgetOK
  <2>7. s.all <= row.count /\ s.still <= s.all /\ s.still <= MaxNoProgress /\ s.still <= row.idle + 1
    <3>1. goal[g].count \in Nat
      BY <2>1 DEF GoalRow
    <3> HIDE DEF row, s
    <3>2. QED BY <2>2, <2>3, <2>5, <2>6, <3>1
  <2>8. goal'[g] = row
    BY <1>4, <2>1 DEF GoalInv, GoalsOK
  <2>9. /\ i \in IdlerRow /\ i.pc = "enqueue" /\ i.batch = idler[c].batch /\ i.goal = g /\ i.mine = row
        /\ idler' = [idler EXCEPT ![c] = i]
    <3> HIDE DEF row
    <3>1. idler \in [Consumer -> IdlerRow] /\ idler[c] \in IdlerRow /\ g \in Goal \cup {0} /\ row \in GoalRow
      BY <2>1, <2>3 DEF GoalInv, IdlersOK
    <3> HIDE DEF g
    <3>2. /\ i \in IdlerRow /\ i.pc = "enqueue" /\ i.batch = idler[c].batch /\ i.goal = g /\ i.mine = row
      BY <3>1 DEF IdlerRow
    <3>3. idler' = [idler EXCEPT ![c] = i]
      <4>1. idler' = [idler EXCEPT ![c].pc = "enqueue", ![c].goal = g, ![c].mine = row]
        BY <1>4, <2>8
      <4>2. QED BY <3>1, <4>1
    <3>4. QED BY <3>2, <3>3
  <2> HIDE DEF row, s, i
  <2>10. goal' = [goal EXCEPT ![g] = row]
    BY <1>4 DEF row
  <2>11. GoalsOK' /\ GoalsAdvance
    BY <1>4, <2>1, <2>3, <2>4, <2>10, GoalMoves DEF GoalInv
  <2>12. BudgetOK'
    BY <2>1, <2>3, <2>6, <2>7, <2>10, BudgetMoves DEF GoalInv
  <2>13. row.gen <= goal'[g].gen
    BY <2>3, <2>8 DEF GoalRow
  <2>14. IdlersOK'
    BY <1>1, <2>1, <2>9, <2>11, <2>13, IdlerMoves DEF GoalInv, IdlersOK
  <2>15. QED BY <1>1, <2>11, <2>12, <2>14, IdlerWrites
<1>5. QED BY <1>2, <1>3, <1>4 DEF Reserve

LEMMA EnqueueGoalRowKeeps ==
  ASSUME GoalInv, NEW c \in Consumer, EnqueueGoalRow(c)
  PROVE  GoalInv'
<1> DEFINE new == Row(idler[c].goal, idler[c].mine.gen)
           i == [idler[c] EXCEPT !.pc = "release"]
<1>1. GoalsOK' /\ GoalsAdvance /\ BudgetOK'
  BY GoalsRest, BudgetRests DEF GoalInv, EnqueueGoalRow, history
<1>2. /\ idler[c] \in IdlerRow /\ idler[c].goal \in Goal
      /\ idler[c].mine.gen <= goal[idler[c].goal].gen
  BY DEF GoalInv, IdlersOK, EnqueueGoalRow
<1>3. RowOK(new)
  BY <1>2 DEF RowOK, Row, Rows, IdlerRow, GoalRow
<1>4. /\ i \in IdlerRow /\ idler' = [idler EXCEPT ![c] = i] /\ i.batch = idler[c].batch
      /\ i.goal = idler[c].goal /\ i.mine = idler[c].mine
  BY GotoRow DEF EnqueueGoalRow
<1> HIDE DEF i
<1>5. goal' = goal /\ queue' = queue \cup {new}
  BY DEF EnqueueGoalRow
<1>6. IdlersOK'
  BY <1>1, <1>2, <1>3, <1>4, <1>5, IdlerMoves DEF GoalInv, IdlersOK
<1>7. QED BY <1>1, <1>6, IdlerWrites DEF EnqueueGoalRow, history

LEMMA ReleaseKeeps ==
  ASSUME GoalInv, NEW c \in Consumer, ReleaseReservation(c)
  PROVE  GoalInv'
<1> DEFINE g == idler[c].goal
           row == [goal[g] EXCEPT !.pending = FALSE]
<1>1. g \in Goal /\ goal[g] \in GoalRow /\ trigger \in BOOLEAN
  BY DEF GoalInv, IdlersOK, ReleaseReservation, GoalsOK, ControlsOK
<1>2. CASE goal' = goal
  BY <1>1, <1>2, GotoKeeps DEF ReleaseReservation, history
<1>3. CASE goal' # goal
  <2>1. goal' = [goal EXCEPT ![g] = row]
    BY <1>3 DEF ReleaseReservation
  <2>2. /\ row \in GoalRow /\ row.status = goal[g].status /\ row.gen = goal[g].gen /\ row.pending = FALSE
        /\ row.count = goal[g].count /\ row.idle = goal[g].idle /\ row.moved = goal[g].moved
    BY <1>1 DEF GoalRow
  <2> HIDE DEF row
  <2>3. Later(goal[g], row) /\ Fits(g, row)
    BY <1>1, <2>2 DEF Later, Fits, GoalRow, GoalInv, GoalsOK, OneAlive
  <2>4. GoalsOK' /\ GoalsAdvance
    BY <1>1, <2>1, <2>2, <2>3, GoalMoves DEF GoalInv
  <2>5. BudgetOK'
    <3>1. /\ spent[g] \in [all : Nat, still : Nat] /\ spent[g].all <= row.count
          /\ spent[g].still <= spent[g].all /\ spent[g].still <= MaxNoProgress
          /\ spent[g].still <= row.idle + 1 /\ (row.moved => spent[g].still = 0)
      BY <1>1, <2>2 DEF GoalInv, BudgetOK
    <3>2. spent' = [spent EXCEPT ![g] = spent[g]]
      BY DEF GoalInv, BudgetOK, ReleaseReservation, history
    <3>3. QED BY <1>1, <2>1, <3>1, <3>2, BudgetMoves DEF GoalInv
  <2>6. IdlersOK'
    <3> DEFINE i == [idler[c] EXCEPT !.pc = "busy"]
    <3>1. i \in IdlerRow /\ idler' = [idler EXCEPT ![c] = i] /\ i.pc = "busy" /\ i.batch = idler[c].batch
      BY GotoRow DEF ReleaseReservation
    <3> HIDE DEF i
    <3>2. QED BY <2>4, <3>1, IdlerMoves DEF GoalInv, IdlersOK, ReleaseReservation
  <2>7. QED BY <2>4, <2>5, <2>6, IdlerWrites DEF ReleaseReservation, history
<1>4. QED BY <1>2, <1>3

-----------------------------------------------------------------------------
(* Runs.                                                                   *)

\* A step that moves one run, and no goal and no tool.
LEMMA RunStep ==
  ASSUME GoalInv, NEW x \in Exec, NEW e \in ExecRow, exec' = [exec EXCEPT ![x] = e],
         UNCHANGED <<goal, tool, stop, start, spent>>,
         e.goal # 0 => e.gen <= goal[e.goal].gen,
         tool[x].pc # "off" => e.pc = "running" /\ e.goal = exec[x].goal /\ e.gen = exec[x].gen,
         trigger' \in BOOLEAN, acts' \in Nat, root' \in RootExec \cup {None},
         before' \in [Goal -> SUBSET Exec], \A g \in Goal : before'[g] \subseteq before[g],
         \A g \in Goal : x \in before'[g] =>
           e.pc \in {"captured", "running", "reported"} /\ e.goal = exec[x].goal /\ e.gen = exec[x].gen,
         IdlersOK'
  PROVE  GoalInv'
<1>1. GoalsOK' /\ GoalsAdvance /\ BudgetOK'
  BY GoalsRest, BudgetRests DEF GoalInv
<1>2. ControlsOK'
  BY <1>1, ControlsKept DEF GoalInv
<1>3. exec'[x] = e /\ \A y \in Exec \ {x} : exec'[y] = exec[y]
  BY DEF GoalInv, RunsOK
<1>4. RunOK(x)'
  <2>1. RunOK(x)
    BY DEF GoalInv, RunsOK
  <2>2. QED BY <1>3, <2>1 DEF RunOK, Created
<1>5. tool' = [tool EXCEPT ![x] = tool[x]] /\ tool[x] \in ToolRow
  BY DEF GoalInv, RunsOK
<1>6. RunsOK'
  BY <1>1, <1>4, <1>5, RunMoves DEF GoalInv
<1>7. \A g \in Goal : \A y \in before'[g] :
        /\ exec'[y].pc \in {"captured", "running", "reported"}
        /\ exec'[y].goal = g => exec'[y].gen = exec[y].gen /\ exec[y].goal = g
  BY <1>3 DEF GoalInv, BeforeOK
<1>8. BeforeOK'
  BY <1>1, <1>7, BeforeKept DEF GoalInv
<1>9. QED BY <1>1, <1>2, <1>6, <1>8 DEF GoalInv

LEMMA RunFacts ==
  ASSUME GoalInv, NEW x \in Exec
  PROVE  /\ exec[x] \in ExecRow /\ tool[x] \in ToolRow
         /\ exec[x].goal # 0 => exec[x].gen <= goal[exec[x].goal].gen
         /\ tool[x].pc # "off" => exec[x].pc = "running"
         /\ \A g \in Goal : x \in before[g] => exec[x].pc \in {"captured", "running", "reported"}
         /\ before \in [Goal -> SUBSET Exec] /\ root \in RootExec \cup {None}
         /\ trigger \in BOOLEAN /\ acts \in Nat
  BY DEF GoalInv, RunsOK, RunOK, BeforeOK, ControlsOK

\* Consumers and queue at rest, or with a row more.
LEMMA IdlersRest ==
  ASSUME GoalInv, UNCHANGED <<goal, idler>>, \A row \in queue' : row \in queue \/ row = Row(0, 0)
  PROVE  IdlersOK'
<1>1. GoalsOK' /\ GoalsAdvance
  BY GoalsRest DEF GoalInv
<1>2. RowOK(Row(0, 0))
  BY DEF RowOK, Row, Rows
<1>3. \A row \in queue' : RowOK(row)
  BY <1>2 DEF GoalInv, IdlersOK
<1>4. QED BY <1>1, <1>3, IdlersKept DEF GoalInv

\* A run whose program counter moves while it has no tool under way.
LEMMA RunGoes ==
  ASSUME GoalInv, NEW x \in Exec,
         NEW pc \in {"off", "launched", "captured", "running", "reported"},
         exec' = [exec EXCEPT ![x].pc = pc], tool[x].pc = "off",
         UNCHANGED <<goal, tool, stop, start, spent, before>>,
         trigger' \in BOOLEAN, acts' \in Nat, root' \in RootExec \cup {None},
         pc \in {"captured", "running", "reported"} \/ \A g \in Goal : x \notin before[g],
         IdlersOK'
  PROVE  GoalInv'
<1> DEFINE e == [exec[x] EXCEPT !.pc = pc]
<1>1. e \in ExecRow /\ e.pc = pc /\ e.goal = exec[x].goal /\ e.gen = exec[x].gen
  BY RunFacts DEF ExecRow
<1>2. exec' = [exec EXCEPT ![x] = e]
  BY DEF GoalInv, RunsOK
<1> HIDE DEF e
<1>3. QED BY <1>1, <1>2, RunFacts, RunStep

\* A run that is over is forgotten.
LEMMA GoneKeeps ==
  ASSUME GoalInv, NEW x \in Exec, Gone(x), tool[x].pc = "off",
         UNCHANGED <<goal, tool, stop, start, spent>>,
         trigger' \in BOOLEAN, acts' \in Nat, root' \in RootExec \cup {None}, IdlersOK'
  PROVE  GoalInv'
<1>1. NoExec \in ExecRow /\ NoExec.goal = 0 /\ exec' = [exec EXCEPT ![x] = NoExec]
  BY Blanks DEF NoExec, Gone
<1>2. /\ before' \in [Goal -> SUBSET Exec]
      /\ \A g \in Goal : before'[g] \subseteq before[g] /\ x \notin before'[g]
  BY RunFacts DEF Gone
<1>3. QED BY <1>1, <1>2, RunStep

\* Aborting a run leaves the rest of its row.
LEMMA AbortKeeps ==
  ASSUME GoalInv, NEW x \in Exec, exec' = [exec EXCEPT ![x].aborted = TRUE],
         UNCHANGED <<goal, tool, root, start, spent, before>>,
         stop' = stop \/ stop' = NoUser,
         trigger' \in BOOLEAN, acts' \in Nat, IdlersOK'
  PROVE  GoalInv'
<1> DEFINE e == [exec[x] EXCEPT !.aborted = TRUE]
<1>1. e \in ExecRow /\ e.pc = exec[x].pc /\ e.goal = exec[x].goal /\ e.gen = exec[x].gen
  BY RunFacts DEF ExecRow
<1>2. exec' = [exec EXCEPT ![x] = e]
  BY DEF GoalInv, RunsOK
<1>3. GoalsOK' /\ GoalsAdvance /\ BudgetOK'
  BY GoalsRest, BudgetRests DEF GoalInv
<1>4. ControlsOK'
  <2>1. NoUser \in UserRow /\ NoUser.pc = "off"
    BY Blanks DEF NoUser
  <2>2. QED BY <1>3, <2>1, ControlsKept DEF GoalInv
<1> HIDE DEF e
<1>5. exec'[x] = e /\ \A y \in Exec \ {x} : exec'[y] = exec[y]
  BY <1>2 DEF GoalInv, RunsOK
<1>6. RunOK(x)'
  <2>1. RunOK(x)
    BY DEF GoalInv, RunsOK
  <2>2. QED BY <1>1, <1>5, <2>1 DEF RunOK, Created
<1>7. tool' = [tool EXCEPT ![x] = tool[x]] /\ tool[x] \in ToolRow /\ root' \in RootExec \cup {None}
  BY DEF GoalInv, RunsOK
<1>8. RunsOK'
  BY <1>1, <1>2, <1>3, <1>6, <1>7, RunMoves DEF GoalInv
<1>9. /\ before' \in [Goal -> SUBSET Exec] /\ \A g \in Goal : before'[g] \subseteq before[g]
      /\ \A g \in Goal : \A y \in before'[g] :
           /\ exec'[y].pc \in {"captured", "running", "reported"}
           /\ exec'[y].goal = g => exec'[y].gen = exec[y].gen /\ exec[y].goal = g
  BY <1>1, <1>5 DEF GoalInv, BeforeOK
<1>10. BeforeOK'
  BY <1>3, <1>9, BeforeKept DEF GoalInv
<1>11. QED BY <1>3, <1>4, <1>8, <1>10 DEF GoalInv

LEMMA LaunchKeeps ==
  ASSUME GoalInv, NEW c \in Consumer, NEW x \in SystemExec, Launch(c, x)
  PROVE  GoalInv'
<1> DEFINE i == [idler[c] EXCEPT !.pc = "wait", !.run = x]
<1>1. x \in Exec /\ exec[x] = NoExec
  BY DEF Exec, RootExec, Launch
<1>2. exec[x].pc = "off" /\ tool[x].pc = "off" /\ \A g \in Goal : x \notin before[g]
  BY <1>1, RunFacts DEF NoExec
<1>3. i \in IdlerRow /\ i.pc = "wait" /\ i.batch = idler[c].batch
  <2>1. idler[c] \in IdlerRow
    BY DEF GoalInv, IdlersOK
  <2>2. QED BY <2>1 DEF IdlerRow
<1>4. idler' = [idler EXCEPT ![c] = i]
  BY DEF Launch, GoalInv, IdlersOK
<1> HIDE DEF i
<1>5. GoalsOK' /\ GoalsAdvance
  BY GoalsRest DEF GoalInv, Launch
<1>6. IdlersOK'
  BY <1>3, <1>4, <1>5, IdlerMoves DEF GoalInv, IdlersOK, Launch
<1>7. QED BY <1>1, <1>2, <1>6, RunFacts, RunGoes DEF Launch, history

LEMMA StartBatchKeeps ==
  ASSUME GoalInv, NEW c \in Consumer, NEW x \in SystemExec, StartBatch(c, x)
  PROVE  GoalInv'
<1>1. x \in Exec /\ x \in RootExec /\ exec[x].pc = "captured" /\ tool[x].pc = "off"
  <2>1. x \in Exec /\ x \in RootExec
    BY DEF Exec, RootExec
  <2>2. QED BY <2>1, RunFacts DEF StartBatch
<1>2. GoalsOK' /\ GoalsAdvance
  BY GoalsRest DEF GoalInv, StartBatch
<1>3. IdlersOK'
  <2>1. NoIdler \in IdlerRow /\ NoIdler.batch = {} /\ NoIdler.pc = "off"
    BY Blanks DEF NoIdler
  <2>2. \A row \in queue' : row \in queue \cup idler[c].batch
    BY DEF StartBatch
  <2>3. \A row \in queue' : RowOK(row)
    BY <2>2 DEF GoalInv, IdlersOK
  <2>4. QED BY <1>2, <2>1, <2>3, IdlerMoves DEF GoalInv, StartBatch, Rest
<1>4. trigger' \in BOOLEAN /\ root' \in RootExec \cup {None} /\ acts' \in Nat
  BY <1>1, RunFacts DEF StartBatch
<1>5. CASE exec' = [exec EXCEPT ![x].pc = "running"] /\ before' = before
  BY <1>1, <1>3, <1>4, <1>5, RunGoes DEF StartBatch
<1>6. CASE Gone(x)
  BY <1>1, <1>3, <1>4, <1>6, GoneKeeps DEF StartBatch
<1>7. QED BY <1>5, <1>6 DEF StartBatch

LEMMA IdleKeeps ==
  ASSUME GoalInv, NEW c \in Consumer, Idle(c)
  PROVE  GoalInv'
  BY LooksKeep, ReserveKeeps, EnqueueGoalRowKeeps, ReleaseKeeps, LaunchKeeps, StartBatchKeeps DEF Idle

LEMMA CaptureKeeps ==
  ASSUME GoalInv, NEW x \in Exec, Capture(x)
  PROVE  GoalInv'
<1> DEFINE n == IF Addressed = 0 THEN 0 ELSE goal[Addressed].gen
           e == [exec[x] EXCEPT !.pc = "captured", !.goal = Addressed, !.gen = n]
<1>1. Addressed \in Goal \cup {0} /\ 0 \notin Goal
  BY AddressedGoal, Numbers
<1>2. n \in Nat /\ (Addressed # 0 => n <= goal[Addressed].gen)
  BY <1>1 DEF GoalInv, GoalsOK, GoalRow
<1>3. exec[x] \in ExecRow /\ exec[x].pc = "launched" /\ tool[x].pc = "off" /\ \A g \in Goal : x \notin before[g]
  BY RunFacts DEF Capture
<1>4. exec' = [exec EXCEPT ![x] = e]
  BY DEF Capture, GoalInv, RunsOK
<1> HIDE DEF n
<1>5. e \in ExecRow /\ e.goal = Addressed /\ e.gen = n
  BY <1>1, <1>2, <1>3 DEF ExecRow
<1> HIDE DEF e
<1>6. IdlersOK'
  BY IdlersRest DEF Capture
<1>7. QED BY <1>2, <1>3, <1>4, <1>5, <1>6, RunFacts, RunStep DEF Capture, history

LEMMA RunsKeep ==
  ASSUME GoalInv, NEW x \in Exec,
         \/ x \in UserExec /\ (UserRun(x) \/ StartRun(x))
         \/ x \in RootExec /\ (Refresh(x) \/ RunEnds(x))
         \/ x \in ChildExec /\ (ChildRun(x) \/ ChildStarts(x) \/ ChildReports(x) \/ ChildCancelled(x)
                                  \/ ChildEnds(x))
  PROVE  GoalInv'
<1>1. /\ exec[x] \in ExecRow /\ tool[x] \in ToolRow /\ root \in RootExec \cup {None}
      /\ tool[x].pc # "off" => exec[x].pc = "running"
      /\ \A g \in Goal : x \in before[g] => exec[x].pc \in {"captured", "running", "reported"}
      /\ trigger \in BOOLEAN /\ acts \in Nat /\ acts + 1 \in Nat
  BY RunFacts
<1>2. exec[x] = NoExec => tool[x].pc = "off" /\ \A g \in Goal : x \notin before[g]
  BY <1>1 DEF NoExec
<1>3. CASE UserRun(x)
  <2>1. IdlersOK'
    BY <1>3, IdlersRest DEF UserRun
  <2>2. QED BY <1>1, <1>2, <1>3, <2>1, RunGoes DEF UserRun, history
<1>4. CASE x \in UserExec /\ StartRun(x)
  <2>1. IdlersOK'
    BY <1>4, IdlersRest DEF StartRun
  <2>2. x \in RootExec /\ tool[x].pc = "off"
    BY <1>1, <1>4 DEF RootExec, StartRun
  <2>3. CASE Gone(x)
    BY <1>1, <1>4, <2>1, <2>2, <2>3, GoneKeeps DEF StartRun
  <2>4. CASE ~Gone(x)
    BY <1>1, <1>4, <2>1, <2>2, <2>4, RunGoes DEF StartRun
  <2>5. QED BY <2>3, <2>4
<1>5. CASE Refresh(x)
  <2>1. GoalsOK' /\ GoalsAdvance /\ BudgetOK'
    BY <1>5, GoalsRest, BudgetRests DEF GoalInv, Refresh, history
  <2>2. IdlersOK'
    BY <1>5, IdlersRest DEF Refresh
  <2>3. QED BY <1>5, <2>1, <2>2, IdlerWrites DEF Refresh, history
<1>6. CASE x \in RootExec /\ RunEnds(x)
  <2>1. IdlersOK'
    BY <1>6, IdlersRest DEF RunEnds
  <2>2. QED BY <1>1, <1>6, <2>1, GoneKeeps DEF RunEnds
<1>7. CASE ChildRun(x)
  <2>1. IdlersOK'
    BY <1>7, IdlersRest DEF ChildRun
  <2>2. QED BY <1>1, <1>2, <1>7, <2>1, RunGoes DEF ChildRun, history
<1>8. CASE ChildStarts(x)
  <2>1. IdlersOK'
    BY <1>8, IdlersRest DEF ChildStarts
  <2>2. QED BY <1>1, <1>8, <2>1, RunGoes DEF ChildStarts, history
<1>9. CASE ChildReports(x)
  <2>1. IdlersOK'
    BY <1>9, IdlersRest DEF ChildReports
  <2>2. QED BY <1>1, <1>9, <2>1, RunGoes DEF ChildReports, history
<1>10. CASE ChildCancelled(x)
  <2>1. IdlersOK'
    BY <1>10, IdlersRest DEF ChildCancelled
  <2>2. QED BY <1>1, <1>10, <2>1, AbortKeeps DEF ChildCancelled, CancelTriggers, history
<1>11. CASE ChildEnds(x)
  <2>1. IdlersOK'
    BY <1>11, IdlersRest DEF ChildEnds
  <2>2. tool[x].pc = "off" /\ trigger' \in BOOLEAN
    BY <1>1, <1>11 DEF ChildEnds
  <2>3. QED BY <1>1, <1>11, <2>1, <2>2, GoneKeeps DEF ChildEnds
<1>12. QED BY <1>3, <1>4, <1>5, <1>6, <1>7, <1>8, <1>9, <1>10, <1>11

-----------------------------------------------------------------------------
(* The goal tools.                                                         *)

\* What a write of a tool makes of a row.
LEMMA UpdatedRow ==
  ASSUME NEW row \in GoalRow, NEW status \in GoalStatus \ {"absent"}, row.pending => row.status = "active"
  PROVE  LET new == Updated(row, status) IN
           /\ new \in GoalRow /\ new.status = status /\ new.count = row.count /\ new.idle = row.idle
           /\ new.moved = row.moved /\ (new.pending => new.status = "active")
           /\ Later(row, new)
<1> DEFINE new == Updated(row, status)
<1>1. row.gen \in Nat /\ row.gen + 1 \in Nat /\ row.pending \in BOOLEAN
  BY DEF GoalRow
<1>2. /\ new \in GoalRow /\ new.status = status /\ new.count = row.count /\ new.idle = row.idle
      /\ new.moved = row.moved /\ new.pending = (IF status = "active" THEN row.pending ELSE FALSE)
      /\ new.gen = IF status # row.status THEN row.gen + 1 ELSE row.gen
  BY <1>1 DEF Updated, GoalRow
<1> HIDE DEF new
<1>3. Later(row, new)
  BY <1>1, <1>2 DEF Later
<1>4. new.pending => new.status = "active"
  BY <1>2
<1>5. QED BY <1>2, <1>3, <1>4 DEF new

LEMMA RestartedRow ==
  ASSUME NEW row \in GoalRow, row.pending => row.status = "active"
  PROVE  LET new == Restarted(row) IN
           /\ new \in GoalRow /\ (new.pending => new.status = "active")
           /\ new.status \in {row.status, "active"} /\ (row.status = "absent" => new = row)
           /\ row.status = "paused" => new.status = "paused"
           /\ Later(row, new)
<1>1. CASE row.status = "blocked"
  <2> DEFINE new == [row EXCEPT !.status = "active", !.count = 0, !.idle = 0, !.pending = FALSE,
                                !.moved = TRUE, !.gen = @ + 1]
  <2>1. 0 \in 0..MaxContinuations /\ row.gen \in Nat /\ row.gen + 1 \in Nat /\ "active" \in GoalStatus
    BY DEF GoalRow, GoalStatus
  <2>2. new \in GoalRow /\ new.status = "active" /\ new.pending = FALSE /\ new.gen = row.gen + 1
    BY <2>1 DEF GoalRow
  <2>3. Restarted(row) = new
    BY <1>1 DEF Restarted
  <2> HIDE DEF new
  <2>4. QED BY <1>1, <2>1, <2>2, <2>3 DEF Later
<1>2. CASE row.status # "blocked"
  BY <1>2 DEF Restarted, Later, GoalRow
<1>3. QED BY <1>1, <1>2

LEMMA GoalCreateKeeps ==
  ASSUME GoalInv, NEW x \in Exec, GoalCreate(x)
  PROVE  GoalInv'
<1> DEFINE g == Newest(Created) + 1
           row == [goal[g] EXCEPT !.status = "active"]
           e == [exec[x] EXCEPT !.goal = g, !.gen = 0]
<1>1. g \in Goal /\ g \notin Created /\ \A h \in Goal : h < g => h \in Created
  BY NextGoal DEF GoalInv, GoalsOK, GoalCreate
<1>2. goal[g] \in GoalRow /\ goal[g].status = "absent"
  BY <1>1 DEF GoalInv, GoalsOK, Created
<1>3. /\ goal' = [goal EXCEPT ![g] = row] /\ exec' = [exec EXCEPT ![x] = e]
      /\ UNCHANGED <<queue, root, tool, idler, trigger, stop, start, history>> /\ acts' = acts + 1
  <2>1. goal' = [goal EXCEPT ![g].status = "active"] /\ exec' = [exec EXCEPT ![x].goal = g, ![x].gen = 0]
    BY DEF GoalCreate
  <2> HIDE DEF g
  <2>2. QED BY <2>1 DEF GoalCreate, GoalInv, GoalsOK, RunsOK
<1>4. \A h \in Goal : goal[h].status \notin Alive
  BY CurrentGoal DEF GoalCreate
<1>5. exec[x] \in ExecRow /\ tool[x].pc = "off" /\ tool[x] \in ToolRow /\ exec[x].pc = "running"
  BY RunFacts DEF GoalCreate, Works
<1> HIDE DEF g
<1>6. /\ row \in GoalRow /\ row.status = "active" /\ row.gen = goal[g].gen /\ row.pending = goal[g].pending
      /\ row.count = goal[g].count /\ row.idle = goal[g].idle /\ row.moved = goal[g].moved
  BY <1>2 DEF GoalRow, GoalStatus
<1>7. e \in ExecRow /\ e.goal = g /\ e.gen = 0 /\ e.pc = "running"
  BY <1>1, <1>5 DEF ExecRow
<1> HIDE DEF row, e
<1>8. goal'[g] = row /\ (\A h \in Goal \ {g} : goal'[h] = goal[h]) /\ goal' \in [Goal -> GoalRow]
  BY <1>1, <1>3, <1>6 DEF GoalInv, GoalsOK
<1>9. GoalsAdvance
  BY <1>1, <1>2, <1>6, <1>8 DEF GoalsAdvance, Later, GoalInv, GoalsOK, GoalRow
<1>10. GoalsOK'
  <2>1. InOrder'
    BY <1>1, <1>6, <1>8, Numbers DEF InOrder, GoalInv, GoalsOK, Created
  <2>2. OneAlive'
    BY <1>4, <1>8 DEF OneAlive
  <2>3. QED BY <1>6, <1>8, <2>1, <2>2 DEF GoalInv, GoalsOK
<1>11. BudgetOK'
  <2>1. /\ spent[g] \in [all : Nat, still : Nat] /\ spent[g].all <= row.count
        /\ spent[g].still <= spent[g].all /\ spent[g].still <= MaxNoProgress
        /\ spent[g].still <= row.idle + 1 /\ (row.moved => spent[g].still = 0)
        /\ spent' = [spent EXCEPT ![g] = spent[g]]
    BY <1>1, <1>3, <1>6 DEF GoalInv, BudgetOK, history
  <2>2. QED BY <1>1, <1>3, <2>1, BudgetMoves DEF GoalInv
<1>12. IdlersOK'
  BY <1>3, <1>9, <1>10, IdlersKept DEF GoalInv, IdlersOK
<1>13. ControlsOK'
  BY <1>3, <1>9, <1>10, ControlsKept DEF GoalInv, ControlsOK
<1>14. RunsOK'
  <2>1. exec'[x] = e /\ tool' = [tool EXCEPT ![x] = tool[x]] /\ tool'[x] = tool[x]
        /\ root' \in RootExec \cup {None}
    BY <1>3 DEF GoalInv, RunsOK
  <2>2. 0 <= goal'[g].gen
    BY <1>1, <1>8 DEF GoalRow
  <2>3. RunOK(x)'
    BY <1>5, <1>7, <2>1, <2>2 DEF RunOK
  <2>4. QED BY <1>3, <1>5, <1>7, <1>9, <1>10, <2>1, <2>3, RunMoves DEF GoalInv
<1>15. BeforeOK'
  <2>1. before[g] = {}
    BY <1>1, <1>2 DEF GoalInv, BeforeOK
  <2>2. exec'[x] = e /\ \A y \in Exec \ {x} : exec'[y] = exec[y]
    BY <1>3 DEF GoalInv, RunsOK
  <2>3. \A h \in Goal : \A y \in before'[h] :
          /\ exec'[y].pc \in {"captured", "running", "reported"}
          /\ exec'[y].goal = h => exec'[y].gen = exec[y].gen /\ exec[y].goal = h
    BY <1>3, <1>7, <2>1, <2>2 DEF GoalInv, BeforeOK, history
  <2>4. before' \in [Goal -> SUBSET Exec] /\ \A h \in Goal : before'[h] \subseteq before[h]
    BY <1>3 DEF GoalInv, BeforeOK, history
  <2>5. QED BY <1>9, <1>10, <2>3, <2>4, BeforeKept DEF GoalInv
<1>16. QED BY <1>10, <1>11, <1>12, <1>13, <1>14, <1>15 DEF GoalInv

\* A step that only moves the tool of one run.
LEMMA ToolStep ==
  ASSUME GoalInv, NEW x \in Exec, NEW t \in ToolRow, tool' = [tool EXCEPT ![x] = t],
         UNCHANGED <<goal, queue, exec, root, idler, trigger, stop, start, history>>, acts' \in Nat,
         t.pc # "off" => /\ exec[x].pc = "running" /\ t.goal \in Created /\ t.goal = exec[x].goal
                         /\ t.pc = "restart" => x \in UserExec
                         /\ x \notin UserExec /\ t.want = "active" => goal[t.goal].status # "paused"
  PROVE  GoalInv'
<1>1. GoalsOK' /\ GoalsAdvance /\ BudgetOK'
  BY GoalsRest, BudgetRests DEF GoalInv, history
<1>2. IdlersOK' /\ ControlsOK' /\ BeforeOK'
  BY <1>1, IdlersKept, ControlsKept, BeforeRests DEF GoalInv, IdlersOK, ControlsOK, history
<1>3. exec' = [exec EXCEPT ![x] = exec[x]] /\ exec[x] \in ExecRow /\ tool'[x] = t /\ exec'[x] = exec[x]
      /\ root' \in RootExec \cup {None}
  BY DEF GoalInv, RunsOK
<1>4. RunOK(x)'
  BY <1>3, RunFacts DEF RunOK, Created
<1>5. QED BY <1>1, <1>2, <1>3, <1>4, RunMoves DEF GoalInv

LEMMA ToolReadsKeeps ==
  ASSUME GoalInv, NEW x \in Exec, NEW g \in Goal, NEW want \in Want, ToolReads(x, g, want)
  PROVE  GoalInv'
<1> DEFINE reopen == goal[g].status = "blocked" /\ want = "active"
           t == [pc |-> IF reopen THEN "restart" ELSE "write", goal |-> g, want |-> want]
<1>1. t \in ToolRow /\ t.goal = g /\ t.want = want /\ (t.pc = "restart" => reopen)
  BY DEF ToolRow
<1>2. tool' = [tool EXCEPT ![x] = t]
  BY DEF ToolReads
<1>3. /\ exec[x].pc = "running" /\ g \in Created /\ exec[x].goal = g
      /\ want = "active" /\ goal[g].status # "active" => x \in UserExec
  BY DEF ToolReads, Works, MayReactivate
<1>4. acts' \in Nat
  BY RunFacts DEF ToolReads
<1> HIDE DEF t
<1>5. UNCHANGED <<goal, queue, exec, root, idler, trigger, stop, start, history>>
  BY DEF ToolReads
<1>6. t.pc = "restart" => x \in UserExec
  BY <1>1, <1>3
<1>7. x \notin UserExec /\ t.want = "active" => goal[t.goal].status # "paused"
  BY <1>1, <1>3
<1> HIDE DEF reopen
<1>8. QED BY <1>1, <1>2, <1>3, <1>4, <1>5, <1>6, <1>7, ToolStep

LEMMA ToolRefusedKeeps ==
  ASSUME GoalInv, NEW x \in Exec, ToolRefused(x)
  PROVE  GoalInv'
<1>1. NoTool \in ToolRow /\ NoTool.pc = "off"
  BY Blanks DEF NoTool
<1>2. acts' \in Nat
  BY RunFacts DEF ToolRefused
<1>3. QED BY <1>1, <1>2, ToolStep DEF ToolRefused

\* A write of a tool: the row fits, the run is up to date with its goal, the budget
\* of a user's run starts anew.
LEMMA WritesKeep ==
  ASSUME GoalInv, NEW x \in Exec, NEW g \in Goal, NEW row \in GoalRow, NEW t \in ToolRow,
         g \in Created, exec[x].goal = g, exec[x].pc = "running", goal[g].gen = exec[x].gen,
         Writes(x, g, row), tool' = [tool EXCEPT ![x] = t],
         t.pc # "off" => t.pc = "write" /\ t.goal = g /\ x \in UserExec,
         UNCHANGED <<queue, root, idler, trigger, stop, start, acts>>,
         Later(goal[g], row), row.pending => row.status = "active",
         x \notin UserExec => row.count = goal[g].count /\ row.idle = goal[g].idle
  PROVE  GoalInv'
<1> DEFINE e == [exec[x] EXCEPT !.gen = row.gen]
           s == IF x \in UserExec THEN NoSpent
                ELSE IF row.moved THEN [spent[g] EXCEPT !.still = 0] ELSE spent[g]
<1>1. goal[g].status # "absent" /\ goal' = [goal EXCEPT ![g] = row] /\ Fits(g, row) /\ before' = before
  BY DEF Created, Writes
<1>2. GoalsOK' /\ GoalsAdvance
  BY <1>1, GoalMoves DEF GoalInv
<1>3. goal'[g] = row
  BY <1>1 DEF GoalInv, GoalsOK
<1>4. /\ s \in [all : Nat, still : Nat] /\ s.all <= row.count /\ s.still <= s.all
      /\ s.still <= MaxNoProgress /\ s.still <= row.idle + 1 /\ (row.moved => s.still = 0)
  <2>1. row.count \in Nat /\ row.idle \in Nat
    BY DEF GoalRow
  <2>2. CASE x \in UserExec
    <3>1. s = [all |-> 0, still |-> 0]
      BY <2>2 DEF NoSpent
    <3> HIDE DEF s
    <3>2. QED BY <2>1, <3>1
  <2>3. CASE x \notin UserExec
    <3>1. /\ spent[g] \in [all : Nat, still : Nat] /\ spent[g].all <= row.count
          /\ spent[g].still <= spent[g].all /\ spent[g].still <= MaxNoProgress
          /\ spent[g].still <= row.idle + 1
      BY <2>3 DEF GoalInv, BudgetOK
    <3>2. CASE row.moved
      <4>1. s \in [all : Nat, still : Nat] /\ s.all = spent[g].all /\ s.still = 0
        BY <2>3, <3>1, <3>2
      <4> HIDE DEF s
      <4>2. QED BY <2>1, <3>1, <4>1
    <3>3. CASE ~row.moved
      BY <2>3, <3>1, <3>3
    <3>4. QED BY <3>2, <3>3
  <2>4. QED BY <2>2, <2>3
<1>5. spent' = [spent EXCEPT ![g] = s]
  BY DEF Writes, GoalInv, BudgetOK
<1>6. e \in ExecRow /\ e.goal = g /\ e.gen = row.gen /\ e.pc = "running" /\ exec' = [exec EXCEPT ![x] = e]
  BY RunFacts DEF Writes, GoalInv, RunsOK, ExecRow, GoalRow
<1> HIDE DEF s, e
<1>7. BudgetOK'
  BY <1>1, <1>4, <1>5, BudgetMoves DEF GoalInv
<1>8. IdlersOK' /\ ControlsOK'
  BY <1>2, IdlersKept, ControlsKept DEF GoalInv, IdlersOK, ControlsOK
<1>9. exec'[x] = e /\ tool'[x] = t /\ (\A y \in Exec \ {x} : exec'[y] = exec[y])
      /\ root' \in RootExec \cup {None}
  BY <1>6 DEF GoalInv, RunsOK
<1>10. RunsOK'
  <2>1. g \in Created'
    BY <1>1, <1>3 DEF Created, Later
  <2>2. row.gen <= goal'[g].gen
    BY <1>3 DEF GoalRow
  <2>3. RunOK(x)'
    BY <1>6, <1>9, <2>1, <2>2 DEF RunOK
  <2>4. QED BY <1>2, <1>6, <1>9, <2>3, RunMoves DEF GoalInv
<1>11. BeforeOK'
  <2>1. x \notin before[g]
    BY DEF GoalInv, BeforeOK, GoalsOK, GoalRow
  <2>2. before' \in [Goal -> SUBSET Exec] /\ \A h \in Goal : before'[h] \subseteq before[h]
    BY <1>1 DEF GoalInv, BeforeOK
  <2>3. \A h \in Goal : \A y \in before'[h] :
          /\ exec'[y].pc \in {"captured", "running", "reported"}
          /\ exec'[y].goal = h => exec'[y].gen = exec[y].gen /\ exec[y].goal = h
    BY <1>1, <1>6, <1>9, <2>1 DEF GoalInv, BeforeOK
  <2>4. QED BY <1>2, <2>2, <2>3, BeforeKept DEF GoalInv
<1>12. QED BY <1>2, <1>7, <1>8, <1>10, <1>11 DEF GoalInv

\* What a tool under way that passes the guard knows.
LEMMA GuardFacts ==
  ASSUME GoalInv, NEW x \in Exec, tool[x].pc # "off", Guard(x, tool[x].goal)
  PROVE  LET g == tool[x].goal IN
           /\ g \in Goal /\ g \in Created /\ goal[g] \in GoalRow /\ goal[g].status # "absent"
           /\ exec[x].goal = g /\ exec[x].pc = "running" /\ goal[g].gen = exec[x].gen
           /\ goal[g].pending => goal[g].status = "active"
           /\ tool[x] \in ToolRow
           /\ tool[x].pc = "restart" => x \in UserExec
           /\ x \notin UserExec /\ tool[x].want = "active" => goal[g].status # "paused"
  BY DEF GoalInv, RunsOK, RunOK, Guard, Created, GoalsOK

LEMMA ToolRestartsKeeps ==
  ASSUME GoalInv, NEW x \in Exec, ToolRestarts(x)
  PROVE  GoalInv'
<1> DEFINE g == tool[x].goal
           row == Restarted(goal[g])
           t == IF row.status \in Alive THEN [tool[x] EXCEPT !.pc = "write"] ELSE NoTool
<1>1. /\ g \in Goal /\ g \in Created /\ goal[g] \in GoalRow /\ exec[x].goal = g
      /\ exec[x].pc = "running" /\ goal[g].gen = exec[x].gen
      /\ goal[g].pending => goal[g].status = "active"
      /\ tool[x] \in ToolRow /\ x \in UserExec
  BY GuardFacts DEF ToolRestarts
<1>2. row \in GoalRow /\ (row.pending => row.status = "active") /\ Later(goal[g], row)
  BY <1>1, RestartedRow
<1>3. t \in ToolRow /\ (t.pc # "off" => t.pc = "write" /\ t.goal = g)
  BY <1>1, Blanks DEF ToolRow, NoTool
<1>4. tool' = [tool EXCEPT ![x] = t]
  BY DEF ToolRestarts, GoalInv, RunsOK
<1>5. Writes(x, g, row) /\ UNCHANGED <<queue, root, idler, trigger, stop, start, acts>>
  BY DEF ToolRestarts
<1> HIDE DEF g, row, t
<1>6. QED BY <1>1, <1>2, <1>3, <1>4, <1>5, WritesKeep

\* The status a tool writes is one of a goal that exists.
LEMMA RewrittenRow ==
  ASSUME GoalInv, NEW x \in Exec, tool[x].pc # "off", Guard(x, tool[x].goal), NEW moved \in BOOLEAN
  PROVE  LET old == goal[tool[x].goal]
             new == [Rewritten(x, tool[x].goal) EXCEPT !.moved = moved]
         IN  /\ new \in GoalRow /\ (new.pending => new.status = "active") /\ Later(old, new)
             /\ new.count = old.count /\ new.idle = old.idle
             /\ new.status = IF tool[x].want = "keep" THEN old.status ELSE tool[x].want
<1> DEFINE g == tool[x].goal
           status == IF tool[x].want = "keep" THEN goal[g].status ELSE tool[x].want
           row == Updated(goal[g], status)
<1>1. /\ g \in Goal /\ goal[g] \in GoalRow /\ goal[g].status # "absent" /\ tool[x] \in ToolRow
      /\ goal[g].pending => goal[g].status = "active"
  BY GuardFacts
<1>2. status \in GoalStatus \ {"absent"}
  BY <1>1 DEF GoalRow, ToolRow, Want, GoalStatus
<1>3. Rewritten(x, g) = row
  BY DEF Rewritten
<1> HIDE DEF g, status
<1>4. /\ row \in GoalRow /\ row.status = status /\ row.count = goal[g].count /\ row.idle = goal[g].idle
      /\ (row.pending => row.status = "active") /\ Later(goal[g], row)
  BY <1>1, <1>2, UpdatedRow
<1> HIDE DEF row
<1>5. LET new == [row EXCEPT !.moved = moved] IN
        /\ new \in GoalRow /\ new.status = row.status /\ new.count = row.count /\ new.idle = row.idle
        /\ new.gen = row.gen /\ new.pending = row.pending
  BY <1>4 DEF GoalRow
<1>6. QED BY <1>3, <1>4, <1>5 DEF Later, g, status

LEMMA ToolWritesKeeps ==
  ASSUME GoalInv, NEW x \in Exec, ToolWrites(x)
  PROVE  GoalInv'
<1> DEFINE g == tool[x].goal
<1>1. PICK moved \in BOOLEAN : Writes(x, g, [Rewritten(x, g) EXCEPT !.moved = moved])
  BY DEF ToolWrites
<1> DEFINE row == [Rewritten(x, g) EXCEPT !.moved = moved]
<1>2. tool[x].pc # "off" /\ Guard(x, g)
  BY DEF ToolWrites
<1>3. /\ g \in Goal /\ g \in Created /\ exec[x].goal = g /\ exec[x].pc = "running"
      /\ goal[g].gen = exec[x].gen
  BY <1>2, GuardFacts
<1>4. /\ row \in GoalRow /\ (row.pending => row.status = "active") /\ Later(goal[g], row)
      /\ row.count = goal[g].count /\ row.idle = goal[g].idle
  BY <1>2, RewrittenRow
<1>5. NoTool \in ToolRow /\ NoTool.pc = "off" /\ tool' = [tool EXCEPT ![x] = NoTool]
  BY Blanks DEF NoTool, ToolWrites
<1>6. UNCHANGED <<queue, root, idler, trigger, stop, start, acts>>
  BY DEF ToolWrites
<1>7. Writes(x, g, row)
  BY <1>1
<1> HIDE DEF g, row
<1>8. QED BY <1>3, <1>4, <1>5, <1>6, <1>7, WritesKeep

LEMMA ToolsKeep ==
  ASSUME GoalInv, NEW x \in Exec, Tools(x)
  PROVE  GoalInv'
  BY GoalCreateKeeps, ToolReadsKeeps, ToolRefusedKeeps, ToolRestartsKeeps, ToolWritesKeeps DEF Tools

-----------------------------------------------------------------------------
(* The user's controls.                                                    *)

\* A step that only moves a control.
LEMMA ControlStep ==
  ASSUME GoalInv, UNCHANGED <<goal, queue, exec, root, tool, idler, history>>, ControlsOK'
  PROVE  GoalInv'
<1>1. GoalsOK' /\ GoalsAdvance /\ BudgetOK'
  BY GoalsRest, BudgetRests DEF GoalInv, history
<1>2. IdlersOK' /\ RunsOK' /\ BeforeOK'
  BY <1>1, IdlersKept, RunsKept, BeforeRests DEF GoalInv, IdlersOK, history
<1>3. QED BY <1>1, <1>2 DEF GoalInv

\* What a control reads is a goal that exists.
LEMMA ReadFacts ==
  ASSUME GoalInv, NEW g \in Created, NEW pc \in {"pause", "write", "trigger"}
  PROVE  /\ Read(pc, g) \in UserRow /\ Read(pc, g).pc = pc
         /\ Read(pc, g).goal = g /\ Read(pc, g).gen = goal[g].gen
  BY DEF Read, UserRow, GoalInv, GoalsOK, GoalRow, Created

LEMMA StopReadsRow ==
  ASSUME GoalInv, StopReads
  PROVE  /\ stop' \in UserRow /\ stop'.pc \in {"pause", "cut"}
         /\ stop'.pc = "pause" =>
              /\ stop'.goal \in Created /\ stop'.gen = goal[stop'.goal].gen
              /\ goal[stop'.goal].status = "active"
<1>1. CASE Current # 0 /\ goal[Current].status = "active"
  <2>1. Current \in Created
    BY <1>1, CurrentGoal DEF Created
  <2>2. stop' = Read("pause", Current)
    BY <1>1 DEF StopReads
  <2>3. /\ Read("pause", Current) \in UserRow /\ Read("pause", Current).pc = "pause"
        /\ Read("pause", Current).goal = Current /\ Read("pause", Current).gen = goal[Current].gen
    BY <2>1, ReadFacts
  <2>4. QED BY <1>1, <2>1, <2>2, <2>3
<1>2. CASE ~(Current # 0 /\ goal[Current].status = "active")
  <2>1. stop' = [NoUser EXCEPT !.pc = "cut"]
    BY <1>2 DEF StopReads
  <2>2. QED BY <2>1 DEF NoUser, UserRow, GoalStatus
<1>3. QED BY <1>1, <1>2

LEMMA StopPausesKeeps ==
  ASSUME GoalInv, StopPauses, goal[stop.goal].gen = stop.gen
  PROVE  GoalInv'
<1> DEFINE g == stop.goal
           row == Updated(goal[g], "paused")
           cut == {x \in Exec : exec[x].pc \in {"captured", "running"}}
<1>1. /\ g \in Goal /\ g \in Created /\ goal[g] \in GoalRow /\ goal[g].status # "absent"
      /\ goal[g].pending => goal[g].status = "active"
  BY DEF StopPauses, GoalInv, ControlsOK, StopReadOK, Created, GoalsOK
<1>2. /\ Fits(g, row) /\ goal' = [goal EXCEPT ![g] = row] /\ stop' = [NoUser EXCEPT !.pc = "cut"]
      /\ before' = [before EXCEPT ![g] = @ \cup cut]
      /\ UNCHANGED <<queue, exec, root, tool, idler, trigger, start, acts, spent>>
  BY DEF StopPauses
<1>3. /\ row \in GoalRow /\ row.status = "paused" /\ row.count = goal[g].count /\ row.idle = goal[g].idle
      /\ row.moved = goal[g].moved /\ (row.pending => row.status = "active") /\ Later(goal[g], row)
  BY <1>1, UpdatedRow DEF GoalStatus
<1> HIDE DEF g, row
<1>4. GoalsOK' /\ GoalsAdvance
  BY <1>1, <1>2, <1>3, GoalMoves DEF GoalInv
<1>5. BudgetOK'
  <2>1. /\ spent[g] \in [all : Nat, still : Nat] /\ spent[g].all <= row.count
        /\ spent[g].still <= spent[g].all /\ spent[g].still <= MaxNoProgress
        /\ spent[g].still <= row.idle + 1 /\ (row.moved => spent[g].still = 0)
        /\ spent' = [spent EXCEPT ![g] = spent[g]]
    BY <1>1, <1>2, <1>3 DEF GoalInv, BudgetOK
  <2>2. QED BY <1>1, <1>2, <2>1, BudgetMoves DEF GoalInv
<1>6. IdlersOK' /\ RunsOK'
  BY <1>2, <1>4, IdlersKept, RunsKept DEF GoalInv, IdlersOK
<1>7. ControlsOK'
  <2>1. stop' \in UserRow /\ stop'.pc = "cut"
    BY <1>2 DEF NoUser, UserRow, GoalStatus
  <2>2. QED BY <1>2, <1>4, <2>1, ControlsKept DEF GoalInv, ControlsOK
<1>8. ASSUME NEW h \in Goal, NEW x \in before'[h]
      PROVE  /\ x \in Exec
             /\ goal'[h].status # "absent"
             /\ exec'[x].pc \in {"captured", "running", "reported"}
             /\ exec'[x].goal = h => exec'[x].gen < goal'[h].gen
  <2>1. CASE x \in before[h]
    <3>1. /\ goal[h].status # "absent" /\ exec[x].pc \in {"captured", "running", "reported"}
          /\ x \in Exec /\ (exec[x].goal = h => exec[x].gen < goal[h].gen)
      BY <2>1 DEF GoalInv, BeforeOK
    <3>2. Later(goal[h], goal'[h]) /\ goal[h].gen \in Nat /\ goal'[h].gen \in Nat /\ exec[x].gen \in Nat
      BY <1>4, <3>1, RunFacts DEF GoalsAdvance, GoalInv, GoalsOK, GoalRow, ExecRow
    <3>3. QED BY <1>2, <3>1, <3>2 DEF Later
  <2>2. CASE x \notin before[h]
    <3>1. h = g /\ x \in cut
      BY <1>1, <1>2, <2>2 DEF GoalInv, BeforeOK
    <3>2. x \in Exec /\ exec[x].pc \in {"captured", "running"} /\ exec'[x] = exec[x]
      BY <1>2, <3>1
    <3>3. goal'[g] = row /\ row.status # "absent"
      BY <1>1, <1>2, <1>3 DEF GoalInv, GoalsOK
    <3>4. goal[g].status # "paused"
      BY DEF StopPauses, GoalInv, ControlsOK, StopReadOK, g
    <3>5. goal[g].gen < row.gen /\ goal[g].gen \in Nat /\ row.gen \in Nat
      BY <1>1, <1>3, <3>4 DEF Later, GoalRow
    <3>6. exec[x].goal = g => exec[x].gen <= goal[g].gen
      BY <1>1, <3>2, Numbers, RunFacts
    <3>7. exec[x].gen \in Nat
      BY <3>2, RunFacts DEF ExecRow
    <3>8. exec[x].goal = g => exec[x].gen < row.gen
      BY <3>5, <3>6, <3>7
    <3>9. QED BY <3>1, <3>2, <3>3, <3>8
  <2>3. QED BY <2>1, <2>2
<1>9. BeforeOK'
  <2>1. before' \in [Goal -> SUBSET Exec]
    BY <1>2 DEF GoalInv, BeforeOK
  <2>2. QED BY <1>8, <2>1 DEF BeforeOK
<1>10. QED BY <1>4, <1>5, <1>6, <1>7, <1>9 DEF GoalInv

LEMMA StartWritesKeeps ==
  ASSUME GoalInv, StartWrites, start' # NoUser
  PROVE  GoalInv'
<1> DEFINE g == start.goal
           row == Restart(goal[g])
<1>1. /\ g \in Goal /\ g \in Created /\ goal[g] \in GoalRow /\ goal[g].status # "absent"
      /\ goal[g].pending => goal[g].status = "active"
  BY DEF StartWrites, GoalInv, ControlsOK, Created, GoalsOK
<1>2. /\ Fits(g, row) /\ goal' = [goal EXCEPT ![g] = row] /\ start' = [start EXCEPT !.pc = "trigger"]
      /\ spent' = [spent EXCEPT ![g] = NoSpent]
      /\ UNCHANGED <<queue, exec, root, tool, idler, trigger, stop, acts, before>>
  BY DEF StartWrites
<1>3. row \in GoalRow /\ (row.pending => row.status = "active") /\ Later(goal[g], row)
  <2>1. CASE start.status = "blocked"
    BY <1>1, <2>1, RestartedRow DEF Restart
  <2>2. CASE start.status # "blocked"
    BY <1>1, <2>2, UpdatedRow DEF Restart, GoalStatus
  <2>3. QED BY <2>1, <2>2
<1> HIDE DEF g, row
<1>4. GoalsOK' /\ GoalsAdvance
  BY <1>1, <1>2, <1>3, GoalMoves DEF GoalInv
<1>5. BudgetOK'
  <2>1. row.count \in Nat /\ row.idle \in Nat
    BY <1>3 DEF GoalRow
  <2>2. /\ NoSpent \in [all : Nat, still : Nat] /\ NoSpent.all = 0 /\ NoSpent.still = 0
    BY DEF NoSpent
  <2>3. /\ NoSpent.all <= row.count /\ NoSpent.still <= NoSpent.all /\ NoSpent.still <= MaxNoProgress
        /\ NoSpent.still <= row.idle + 1
    BY <2>1, <2>2
  <2>4. QED BY <1>1, <1>2, <2>2, <2>3, BudgetMoves DEF GoalInv
<1>6. IdlersOK' /\ RunsOK' /\ BeforeOK'
  BY <1>2, <1>4, IdlersKept, RunsKept, BeforeRests DEF GoalInv, IdlersOK
<1>7. ControlsOK'
  <2>1. start' \in UserRow /\ start'.pc = "trigger"
    BY <1>2 DEF GoalInv, ControlsOK, UserRow
  <2>2. (stop.pc = "pause" => StopReadOK')
    <3> SUFFICES ASSUME stop.pc = "pause" PROVE StopReadOK'
      OBVIOUS
    <3>1. StopReadOK /\ stop.goal \in Goal /\ stop.gen \in Nat /\ stop' = stop
      BY <1>2 DEF GoalInv, ControlsOK, UserRow, StopReadOK, Created
    <3>2. /\ Later(goal[stop.goal], goal'[stop.goal])
          /\ goal[stop.goal].gen \in Nat /\ goal'[stop.goal].gen \in Nat
      BY <1>4, <3>1 DEF GoalsAdvance, GoalInv, GoalsOK, GoalRow
    <3>3. QED BY <3>1, <3>2 DEF StopReadOK, Later, Created
  <2>3. QED BY <1>2, <2>1, <2>2 DEF GoalInv, ControlsOK
<1>8. QED BY <1>4, <1>5, <1>6, <1>7 DEF GoalInv

LEMMA ControlKeeps ==
  ASSUME GoalInv, Control
  PROVE  GoalInv'
<1>1. acts \in Nat /\ acts + 1 \in Nat /\ trigger \in BOOLEAN /\ NoUser \in UserRow /\ NoUser.pc = "off"
  BY Blanks DEF GoalInv, ControlsOK, NoUser
<1>2. \A g \in Created : g \in Goal /\ goal[g].gen \in Nat
  BY DEF Created, GoalInv, GoalsOK, GoalRow
<1>3. ASSUME StopReads, goal' = goal, UNCHANGED <<trigger, start>>, acts' \in Nat PROVE ControlsOK'
  <2>1. /\ stop' \in UserRow /\ stop'.pc \in {"pause", "cut"}
        /\ stop'.pc = "pause" => stop'.goal \in Created /\ stop'.gen = goal[stop'.goal].gen
                                 /\ goal[stop'.goal].status = "active"
    BY <1>3, StopReadsRow
  <2>2. stop'.pc = "pause" => StopReadOK'
    BY <1>2, <1>3, <2>1 DEF StopReadOK, Created
  <2>3. QED BY <1>1, <1>3, <2>1, <2>2 DEF GoalInv, ControlsOK, Created
<1>4. ASSUME stop' = NoUser, goal' = goal, UNCHANGED <<trigger, start, acts>> PROVE ControlsOK'
  BY <1>1, <1>4 DEF GoalInv, ControlsOK, Created
<1>5. ASSUME start' \in UserRow, start'.pc \in {"off", "write", "trigger"},
             start'.pc = "write" => start'.goal \in Created,
             goal' = goal, stop' = stop, trigger' \in BOOLEAN, acts' \in Nat
      PROVE  ControlsOK'
  BY <1>5 DEF GoalInv, ControlsOK, StopReadOK, Created
<1>6. CASE StopAsked
  BY <1>1, <1>3, <1>6, ControlStep DEF StopAsked
<1>7. CASE StopPauses
  <2>1. CASE goal[stop.goal].gen = stop.gen
    BY <1>7, <2>1, StopPausesKeeps
  <2>2. CASE goal[stop.goal].gen # stop.gen
    BY <1>1, <1>3, <1>7, <2>2, ControlStep DEF StopPauses, history
  <2>3. QED BY <2>1, <2>2
<1>8. CASE StopFails
  BY <1>4, <1>8, ControlStep DEF StopFails
<1>9. CASE StopCuts
  <2>1. CASE root = None
    BY <1>4, <1>9, <2>1, ControlStep DEF StopCuts
  <2>2. CASE root # None
    <3>1. root \in Exec
      BY <2>2 DEF GoalInv, RunsOK, Exec
    <3>2. IdlersOK'
      BY <1>9, IdlersRest DEF StopCuts
    <3>3. QED BY <1>1, <1>9, <2>2, <3>1, <3>2, AbortKeeps DEF StopCuts, history
  <2>3. QED BY <2>1, <2>2
<1>10. CASE StartAsked
  <2>1. Addressed \in Created
    BY <1>10, AddressedGoal DEF StartAsked
  <2>2. \E pc \in {"write", "trigger"} : start' = Read(pc, Addressed)
    BY <1>10 DEF StartAsked
  <2>3. start' \in UserRow /\ start'.pc \in {"write", "trigger"} /\ start'.goal = Addressed
    BY <2>1, <2>2, ReadFacts
  <2>4. QED BY <1>1, <1>5, <1>10, <2>1, <2>3, ControlStep DEF StartAsked
<1>11. CASE StartWrites
  <2>1. CASE start' # NoUser
    BY <1>11, <2>1, StartWritesKeeps
  <2>2. CASE start' = NoUser
    <3>1. goal' = goal /\ spent' = spent
      BY <1>11, <2>2 DEF StartWrites, NoUser
    <3>2. QED BY <1>1, <1>5, <1>11, <2>2, <3>1, ControlStep DEF StartWrites, history
  <2>3. QED BY <2>1, <2>2
<1>12. CASE StartTriggers
  BY <1>1, <1>5, <1>12, ControlStep DEF StartTriggers
<1>13. QED BY <1>6, <1>7, <1>8, <1>9, <1>10, <1>11, <1>12 DEF Control

-----------------------------------------------------------------------------
(* The theorems.                                                           *)

LEMMA GoalInit == Init => GoalInv
<1> SUFFICES ASSUME Init PROVE GoalInv
  OBVIOUS
<1>1. /\ NoGoal \in GoalRow /\ NoGoal.status = "absent" /\ NoGoal.pending = FALSE /\ NoGoal.count = 0
      /\ NoGoal.idle = 0
  BY Blanks DEF NoGoal
<1>2. GoalsOK
  <2>1. \A g \in Goal : goal[g] = NoGoal
    BY DEF Init
  <2>2. goal \in [Goal -> GoalRow]
    BY <1>1 DEF Init
  <2>3. QED BY <1>1, <2>1, <2>2 DEF GoalsOK, InOrder, OneAlive, Alive
<1>3. IdlersOK
  <2>1. NoIdler \in IdlerRow /\ NoIdler.batch = {} /\ NoIdler.pc = "off"
    BY Blanks DEF NoIdler
  <2>2. QED BY <2>1 DEF Init, IdlersOK
<1>4. ControlsOK
  <2>1. NoUser \in UserRow /\ NoUser.pc = "off"
    BY Blanks DEF NoUser
  <2>2. QED BY <2>1 DEF Init, ControlsOK
<1>5. RunsOK
  <2>1. NoExec \in ExecRow /\ NoExec.goal = 0 /\ NoTool \in ToolRow /\ NoTool.pc = "off"
    BY Blanks DEF NoExec, NoTool
  <2>2. QED BY <2>1 DEF Init, RunsOK, RunOK
<1>6. BeforeOK
  BY DEF Init, BeforeOK
<1>7. BudgetOK
  <2>1. NoSpent \in [all : Nat, still : Nat] /\ NoSpent.all = 0 /\ NoSpent.still = 0
    BY DEF NoSpent
  <2>2. \A g \in Goal : goal[g] = NoGoal /\ spent[g] = NoSpent
    BY DEF Init
  <2>3. spent \in [Goal -> [all : Nat, still : Nat]]
    BY <2>1 DEF Init
  <2>4. 0 <= MaxNoProgress /\ 0 <= 0 + 1 /\ 0 <= 0
    OBVIOUS
  <2>5. QED BY <1>1, <2>1, <2>2, <2>3, <2>4 DEF BudgetOK
<1>8. QED BY <1>2, <1>3, <1>4, <1>5, <1>6, <1>7 DEF GoalInv

LEMMA GoalStep == GoalInv /\ [Next]_vars => GoalInv'
<1> SUFFICES ASSUME GoalInv, [Next]_vars PROVE GoalInv'
  OBVIOUS
<1>1. CASE UNCHANGED vars
  <2>1. UNCHANGED <<goal, queue, exec, root, tool, idler, trigger, stop, start, acts, spent, before>>
    BY <1>1 DEF vars, history
  <2>2. ControlsOK'
    BY <2>1 DEF GoalInv, ControlsOK, StopReadOK, Created
  <2>3. QED BY <2>1, <2>2, ControlStep DEF history
<1>2. ASSUME NEW c \in Consumer, Idle(c) PROVE GoalInv'
  BY <1>2, IdleKeeps
<1>3. ASSUME NEW x \in UserExec, UserRun(x) \/ StartRun(x) PROVE GoalInv'
  BY <1>3, RunsKeep DEF Exec, RootExec
<1>4. ASSUME NEW x \in RootExec, Refresh(x) \/ RunEnds(x) PROVE GoalInv'
  BY <1>4, RunsKeep DEF Exec
<1>5. ASSUME NEW x \in ChildExec,
             ChildRun(x) \/ ChildStarts(x) \/ ChildReports(x) \/ ChildCancelled(x) \/ ChildEnds(x)
      PROVE  GoalInv'
  BY <1>5, RunsKeep DEF Exec
<1>6. ASSUME NEW x \in Exec, Capture(x) \/ Tools(x) PROVE GoalInv'
  BY <1>6, CaptureKeeps, ToolsKeep
<1>7. CASE Control
  BY <1>7, ControlKeeps
<1>8. QED BY <1>1, <1>2, <1>3, <1>4, <1>5, <1>6, <1>7 DEF Next

\* The inductive invariant of the goals, consumers, runs, tools and controls.
THEOREM GoalInvariant == Spec => []GoalInv
  BY GoalInit, GoalStep, PTL DEF Spec

\* Every variable is of its type, only an active goal is reserved, and no
\* continuation row is of a generation its goal has not had (GoalOps, Consumer).
THEOREM GoalTypeCorrect == Spec => []GoalTypeOK
<1>1. GoalInv => GoalTypeOK
  BY DEF GoalInv, GoalsOK, IdlersOK, RowOK, Rows, ControlsOK, RunsOK, ExecRow, ToolRow, GoalTypeOK, IsGoalRow
<1>2. QED BY <1>1, GoalInvariant, PTL

\* Without an act of a user the autonomous loop stays within both budgets: whatever
\* the tools of background runs, a stop or a lost reservation do in between, no
\* goal is reserved more often (claimContinuation).
THEOREM LoopBounded == Spec => []AutonomyBounded
<1>1. GoalInv => AutonomyBounded
  <2> SUFFICES ASSUME GoalInv, NEW g \in Goal
               PROVE  spent[g].all <= MaxContinuations /\ spent[g].still <= MaxNoProgress
    BY DEF AutonomyBounded
  <2>1. goal[g].count \in 0..MaxContinuations /\ spent[g].all \in Nat
    BY DEF GoalInv, GoalsOK, GoalRow, BudgetOK
  <2>2. spent[g].all <= goal[g].count /\ spent[g].still <= MaxNoProgress
    BY DEF GoalInv, BudgetOK
  <2>3. QED BY <2>1, <2>2
<1>2. QED BY <1>1, GoalInvariant, PTL

\* Goals and tools move together in the writes of a tool only.
LEMMA GoalOrTool ==
  ASSUME [Next]_vars
  PROVE  \/ goal' = goal
         \/ tool' = tool
         \/ \E x \in Exec : ToolRestarts(x) \/ ToolWrites(x)
<1>1. CASE UNCHANGED vars
  BY <1>1 DEF vars
<1>2. ASSUME NEW c \in Consumer, Idle(c) PROVE tool' = tool
  BY <1>2 DEF Idle, Wakes, ReadGoal, LookAtRows, BusyAfterReady, Reserve, EnqueueGoalRow,
     ReleaseReservation, BusyAfterClaim, TakeRows, CheckRows, Launch, StartBatch
<1>3. ASSUME NEW x \in UserExec, UserRun(x) \/ StartRun(x) PROVE tool' = tool
  BY <1>3 DEF UserRun, StartRun
<1>4. ASSUME NEW x \in RootExec, Refresh(x) \/ RunEnds(x) PROVE tool' = tool
  BY <1>4 DEF Refresh, RunEnds
<1>5. ASSUME NEW x \in ChildExec,
             ChildRun(x) \/ ChildStarts(x) \/ ChildReports(x) \/ ChildCancelled(x) \/ ChildEnds(x)
      PROVE  tool' = tool
  BY <1>5 DEF ChildRun, ChildStarts, ChildReports, ChildCancelled, ChildEnds
<1>6. ASSUME NEW x \in Exec, Capture(x) \/ Tools(x)
      PROVE  goal' = goal \/ tool' = tool \/ ToolRestarts(x) \/ ToolWrites(x)
  BY <1>6 DEF Capture, Tools, GoalCreate, ToolRefused, ToolReads
<1>7. CASE Control
  BY <1>7 DEF Control, StopAsked, StopPauses, StopFails, StopCuts, StartAsked, StartWrites, StartTriggers
<1>8. QED BY <1>1, <1>2, <1>3, <1>4, <1>5, <1>6, <1>7 DEF Next

\* A tool that makes a paused goal active belongs to a user's run that a stop has
\* not found at work.
LEMMA ResumerIsNew ==
  ASSUME GoalInv, [Next]_vars, NEW g \in Goal, NEW x \in Exec,
         goal[g].status = "paused", goal'[g].status = "active",
         tool[x].pc # "off", tool'[x].pc # tool[x].pc
  PROVE  x \in UserExec /\ x \notin before[g]
<1>1. PICK y \in Exec : ToolRestarts(y) \/ ToolWrites(y)
  BY GoalOrTool
<1>2. y = x
  <2>1. \E t : tool' = [tool EXCEPT ![y] = t]
    BY <1>1 DEF ToolRestarts, ToolWrites, GoalInv, RunsOK
  <2>2. QED BY <2>1 DEF GoalInv, RunsOK
<1> DEFINE h == tool[x].goal
<1>3. tool[x].pc # "off" /\ Guard(x, h)
  BY <1>1, <1>2 DEF ToolRestarts, ToolWrites
<1>4. /\ h \in Goal /\ goal[h] \in GoalRow /\ exec[x].goal = h /\ goal[h].gen = exec[x].gen
      /\ x \notin UserExec /\ tool[x].want = "active" => goal[h].status # "paused"
      /\ goal[h].pending => goal[h].status = "active"
  BY <1>3, GuardFacts
<1>5. \E row : Writes(x, h, row)
  BY <1>1, <1>2 DEF ToolRestarts, ToolWrites
<1>6. h = g
  <2>1. \E row : goal' = [goal EXCEPT ![h] = row]
    BY <1>5 DEF Writes
  <2>2. QED BY <2>1, <1>4 DEF GoalInv, GoalsOK
<1>7. ToolWrites(x)
  <2> SUFFICES ASSUME ToolRestarts(x) PROVE FALSE
    BY <1>1, <1>2
  <2>1. Restarted(goal[g]).status = "paused"
    BY <1>4, <1>6, RestartedRow
  <2>2. goal' = [goal EXCEPT ![g] = Restarted(goal[g])]
    BY <1>6 DEF ToolRestarts, Writes
  <2>3. goal'[g] = Restarted(goal[g])
    BY <2>2 DEF GoalInv, GoalsOK
  <2>4. QED BY <2>1, <2>3
<1>8. tool[x].want = "active"
  <2>1. PICK moved \in BOOLEAN : Writes(x, h, [Rewritten(x, h) EXCEPT !.moved = moved])
    BY <1>7 DEF ToolWrites
  <2> DEFINE row == [Rewritten(x, h) EXCEPT !.moved = moved]
  <2>2. row.status = IF tool[x].want = "keep" THEN goal[h].status ELSE tool[x].want
    BY <1>3, RewrittenRow
  <2>3. goal'[h] = row
    BY <2>1, <1>4 DEF Writes, GoalInv, GoalsOK
  <2>4. row.status = "active"
    BY <1>6, <2>3
  <2> HIDE DEF row, h
  <2>5. QED BY <1>6, <2>2, <2>4
<1>9. x \in UserExec
  BY <1>4, <1>6, <1>8
<1>10. x \notin before[g]
  <2>1. x \in before[g] => exec[x].gen < goal[g].gen
    BY <1>4, <1>6 DEF GoalInv, BeforeOK
  <2>2. goal[g].gen \in Nat
    BY <1>4, <1>6 DEF GoalRow
  <2>3. QED BY <1>4, <1>6, <2>1, <2>2
<1>11. QED BY <1>9, <1>10

\* A pause of the user holds against background work and against every run that was
\* at work then, for any interleaving of their tools' reads and writes with it
\* (stopSession, assertGoalMutationAllowed).
THEOREM PauseIsKept == Spec => PauseHolds
<1>1. GoalInv /\ [Next]_vars =>
        [\A g \in Goal, x \in Exec :
           (/\ goal[g].status = "paused" /\ goal'[g].status = "active"
            /\ tool[x].pc # "off" /\ tool'[x].pc # tool[x].pc) =>
              x \in UserExec /\ x \notin before[g]]_vars
  BY ResumerIsNew
<1>2. QED BY <1>1, GoalInvariant, PTL DEF Spec, PauseHolds

-----------------------------------------------------------------------------
(* Nobody falls asleep on work.                                            *)
(*                                                                         *)
(* A session with work is driven: by a trigger, a run, a child whose end is*)
(* announced, or a pass of the consumer that is yet to read (Driven); or by*)
(* a pass that has read enough to find the work (Collects, Pursues).  What *)
(* makes a goal active is itself driven, so a pass that read too early is  *)
(* never the only one left.  A pass that finds the goal reserved gives up  *)
(* and relies on the holder; the holder may have lost its row to a run that*)
(* is over.  One pass at a time, as in one process of the service, is      *)
(* therefore needed for the goal, and not for the queue.                   *)

OnePass == \A c, d \in Consumer : c = d

Active == \E g \in Goal : goal[g].status = "active"

Driven ==
  \/ trigger \/ root # None \/ start.pc = "trigger"
  \/ \E x \in UserExec : exec[x].pc # "off"
  \/ \E x \in ChildExec : exec[x].pc # "off" /\ ~exec[x].aborted
  \/ \E c \in Consumer : idler[c].pc \in {"read", "launch", "wait"}

Collects(c) == idler[c].pc \in {"look", "ready", "reserve", "enqueue", "release", "busy", "take"}

Pursues(c) ==
  \/ idler[c].pc = "look" /\ idler[c].goal # 0
  \/ idler[c].pc = "ready" /\ idler[c].goal # 0 /\ ~idler[c].queued
  \/ idler[c].pc \in {"reserve", "enqueue", "check"}
  \/ idler[c].pc \in {"ready", "release", "busy", "take"} /\ \E row \in queue : IsGoalRow(row)

\* Consumer c holds the reservation of goal g.
Holds(c, g) ==
  idler[c].pc \in {"enqueue", "release"} /\ idler[c].goal = g /\ idler[c].mine.gen = goal[g].gen

RootHeld == \A x \in RootExec : exec[x].pc = "running" => root = x
PendingHeld == \A g \in Goal : goal[g].pending => \E c \in Consumer : Holds(c, g)
BatchesHeld == \A c \in Consumer : idler[c].pc = "check" => idler[c].batch # {}
RunsHeld == \A c \in Consumer : idler[c].run # None => idler[c].pc = "wait"
QueueDriven == queue # {} => Driven \/ \E c \in Consumer : Collects(c)
GoalDriven == Active => Driven \/ \E c \in Consumer : Pursues(c)

DrivenInv == RootHeld /\ PendingHeld /\ BatchesHeld /\ RunsHeld /\ QueueDriven
             /\ (OnePass => GoalDriven)

\* An active goal is the current one, and the only one.
LEMMA ActiveIsCurrent ==
  ASSUME GoalInv, NEW g \in Goal, goal[g].status = "active"
  PROVE  Current = g /\ \A h \in Goal \ {g} : goal[h].status \notin Alive
<1>1. goal[g].status \in Alive
  BY DEF Alive
<1>2. Current \in Goal /\ goal[Current].status \in Alive
  BY <1>1, CurrentGoal
<1>3. QED BY <1>1, <1>2 DEF GoalInv, GoalsOK, OneAlive

LEMMA BusyIsDriven == Busy => Driven
  BY DEF Busy, Driven

-----------------------------------------------------------------------------
(* The passes of the consumer.                                             *)

\* A pass that is not one of Driven's own drivers leaves what drives.
LEMMA PassKeepsDriven ==
  ASSUME GoalInv, NEW c \in Consumer, NEW i, idler' = [idler EXCEPT ![c] = i],
         idler[c].pc \notin {"read", "launch", "wait"},
         UNCHANGED <<exec, root, start>>, trigger => trigger', Driven
  PROVE  Driven'
<1>1. \A d \in Consumer \ {c} : idler'[d] = idler[d]
  BY DEF GoalInv, IdlersOK
<1>2. CASE \E d \in Consumer : idler[d].pc \in {"read", "launch", "wait"}
  BY <1>1, <1>2 DEF Driven
<1>3. CASE ~ \E d \in Consumer : idler[d].pc \in {"read", "launch", "wait"}
  BY <1>3 DEF Driven
<1>4. QED BY <1>2, <1>3

\* One pass moves, and what it leaves undone it leaves to somebody.
LEMMA PassStep ==
  ASSUME GoalInv, DrivenInv, NEW c \in Consumer, NEW i, idler' = [idler EXCEPT ![c] = i],
         RootHeld',
         i.pc = "check" => i.batch # {}, i.run # None => i.pc = "wait" \/ (i.run = idler[c].run /\ idler[c].pc # "wait"),
         \A g \in Goal : goal'[g].pending =>
           \/ goal[g].pending /\ goal'[g].gen = goal[g].gen /\ ~Holds(c, g)
           \/ i.pc \in {"enqueue", "release"} /\ i.goal = g /\ i.mine.gen = goal'[g].gen,
         queue' # {} =>
           \/ Driven' \/ Collects(c)'
           \/ queue # {} /\ ~Collects(c) /\ (Driven => Driven'),
         OnePass /\ Active' => Driven' \/ Pursues(c)'
  PROVE  DrivenInv'
<1>1. idler'[c] = i /\ \A d \in Consumer \ {c} : idler'[d] = idler[d]
  BY DEF GoalInv, IdlersOK
<1>2. PendingHeld'
  <2> SUFFICES ASSUME NEW g \in Goal, goal'[g].pending PROVE \E d \in Consumer : Holds(d, g)'
    BY DEF PendingHeld
  <2>1. CASE goal[g].pending /\ goal'[g].gen = goal[g].gen /\ ~Holds(c, g)
    <3>1. PICK d \in Consumer : Holds(d, g)
      BY <2>1 DEF DrivenInv, PendingHeld
    <3>2. d # c
      BY <2>1, <3>1
    <3>3. Holds(d, g)'
      BY <1>1, <2>1, <3>1, <3>2 DEF Holds
    <3>4. QED BY <3>3
  <2>2. CASE i.pc \in {"enqueue", "release"} /\ i.goal = g /\ i.mine.gen = goal'[g].gen
    <3>1. Holds(c, g)'
      BY <1>1, <2>2 DEF Holds
    <3>2. QED BY <3>1
  <2>3. QED BY <2>1, <2>2
<1>3. BatchesHeld'
  BY <1>1 DEF DrivenInv, BatchesHeld
<1>7. RunsHeld'
  BY <1>1 DEF DrivenInv, RunsHeld
<1>4. QueueDriven'
  <2> SUFFICES ASSUME queue' # {}, ~Driven' PROVE \E d \in Consumer : Collects(d)'
    BY DEF QueueDriven
  <2>1. CASE Collects(c)'
    BY <2>1
  <2>2. CASE queue # {} /\ ~Collects(c) /\ (Driven => Driven')
    <3>1. PICK d \in Consumer : Collects(d)
      BY <2>2 DEF DrivenInv, QueueDriven
    <3>2. d # c
      BY <2>2, <3>1
    <3>3. Collects(d)'
      BY <1>1, <3>1, <3>2 DEF Collects
    <3>4. QED BY <3>3
  <2>3. QED BY <2>1, <2>2
<1>5. OnePass => GoalDriven'
  BY DEF GoalDriven
<1>6. QED BY <1>2, <1>3, <1>4, <1>5, <1>7 DEF DrivenInv

\* The only pass pursues the goal, or something drives.
LEMMA OnlyPass ==
  ASSUME DrivenInv, NEW c \in Consumer, OnePass, Active
  PROVE  Driven \/ Pursues(c)
<1>1. Driven \/ \E d \in Consumer : Pursues(d)
  BY DEF DrivenInv, GoalDriven
<1>2. \A d \in Consumer : d = c
  BY DEF OnePass
<1>3. QED BY <1>1, <1>2

\* A pass that leaves goals, runs and reservations alone.
LEMMA PassReads ==
  ASSUME GoalInv, DrivenInv, NEW c \in Consumer, NEW i, idler' = [idler EXCEPT ![c] = i],
         UNCHANGED <<goal, exec, root, start>>,
         idler[c].pc \notin {"enqueue", "release"},
         i.pc = "check" => i.batch # {}, i.run # None => i.pc = "wait" \/ (i.run = idler[c].run /\ idler[c].pc # "wait"),
         queue' # {} =>
           \/ Driven' \/ Collects(c)'
           \/ queue # {} /\ ~Collects(c) /\ (Driven => Driven'),
         OnePass /\ Active' => Driven' \/ Pursues(c)'
  PROVE  DrivenInv'
<1>1. RootHeld'
  BY DEF DrivenInv, RootHeld
<1>2. \A g \in Goal : ~Holds(c, g)
  BY DEF Holds
<1>3. QED BY <1>1, <1>2, PassStep

LEMMA GotoIs ==
  ASSUME GoalInv, NEW c \in Consumer, NEW pc
  PROVE  [idler EXCEPT ![c].pc = pc] = [idler EXCEPT ![c] = [idler[c] EXCEPT !.pc = pc]]
  BY DEF GoalInv, IdlersOK

LEMMA WakesDriven ==
  ASSUME GoalInv, DrivenInv, NEW c \in Consumer, Wakes(c)
  PROVE  DrivenInv'
<1> DEFINE i == [idler[c] EXCEPT !.pc = "read"]
<1>1. idler' = [idler EXCEPT ![c] = i] /\ idler[c] \in IdlerRow /\ idler[c].pc = "off"
  <2>1. idler' = [idler EXCEPT ![c] = i]
    <3>1. Goto(c, "read")
      BY DEF Wakes
    <3>2. QED BY <3>1, GotoIs DEF Goto
  <2>2. idler[c] \in IdlerRow /\ idler[c].pc = "off"
    <3>1. NoIdler.pc = "off"
      BY DEF NoIdler
    <3>2. QED BY <3>1 DEF Wakes, GoalInv, IdlersOK
  <2>3. QED BY <2>1, <2>2
<1>2. i.pc = "read" /\ i.run = idler[c].run
  BY <1>1 DEF IdlerRow
<1>3. idler'[c].pc = "read"
  BY <1>1, <1>2 DEF GoalInv, IdlersOK
<1>4. Driven'
  BY <1>3 DEF Driven
<1> HIDE DEF i
<1>5. UNCHANGED <<goal, exec, root, start>>
  BY DEF Wakes
<1>6. QED BY <1>1, <1>2, <1>4, <1>5, PassReads

LEMMA ReadGoalDriven ==
  ASSUME GoalInv, DrivenInv, NEW c \in Consumer, ReadGoal(c)
  PROVE  DrivenInv'
<1> DEFINE n == IF Current # 0 /\ goal[Current].status = "active" THEN Current ELSE 0
           i == [idler[c] EXCEPT !.pc = "look", !.goal = n]
<1>1. idler' = [idler EXCEPT ![c] = i] /\ idler[c] \in IdlerRow /\ idler[c].pc = "read"
  BY DEF ReadGoal, GoalInv, IdlersOK
<1>2. i.pc = "look" /\ i.goal = n /\ i.run = idler[c].run
  BY <1>1 DEF IdlerRow
<1>3. idler'[c] = i
  BY <1>1 DEF GoalInv, IdlersOK
<1>4. Collects(c)'
  BY <1>2, <1>3 DEF Collects
<1>5. Active' => Pursues(c)'
  <2> SUFFICES ASSUME NEW g \in Goal, goal[g].status = "active" PROVE Pursues(c)'
    BY DEF Active, ReadGoal
  <2>1. Current = g /\ g # 0
    BY ActiveIsCurrent, Numbers
  <2>2. n # 0
    BY <2>1
  <2> HIDE DEF n, i
  <2>3. QED BY <1>2, <1>3, <2>2 DEF Pursues
<1> HIDE DEF i, n
<1>6. UNCHANGED <<goal, exec, root, start>>
  BY DEF ReadGoal
<1>7. QED BY <1>1, <1>2, <1>4, <1>5, <1>6, PassReads

\* A pass gives up: the session is busy, or it has seen that there is nothing to do.
LEMMA RestDriven ==
  ASSUME GoalInv, DrivenInv, NEW c \in Consumer, Rest(c), UNCHANGED <<goal, exec, root, start>>,
         trigger => trigger', idler[c].pc \notin {"read", "enqueue", "release", "launch", "wait"},
         queue' # {} => Driven \/ (queue # {} /\ ~Collects(c)),
         OnePass /\ Active => Driven \/ Driven'
  PROVE  DrivenInv'
<1>1. idler' = [idler EXCEPT ![c] = NoIdler] /\ NoIdler.pc = "off" /\ NoIdler.run = None
  BY DEF Rest, NoIdler
<1>2. Driven => Driven'
  BY <1>1, PassKeepsDriven
<1>3. Active' => Active
  BY DEF Active
<1>4. QED BY <1>1, <1>2, <1>3, PassReads

LEMMA LookAtRowsDriven ==
  ASSUME GoalInv, DrivenInv, NEW c \in Consumer, LookAtRows(c)
  PROVE  DrivenInv'
<1>1. /\ idler[c] \in IdlerRow /\ idler[c].pc = "look"
      /\ UNCHANGED <<goal, queue, exec, root, start, trigger>>
  BY DEF LookAtRows, GoalInv, IdlersOK
<1>2. CASE Busy \/ (queue = {} /\ idler[c].goal = 0)
  <2>1. Rest(c)
    BY <1>2 DEF LookAtRows
  <2>2. queue' # {} => Driven
    BY <1>1, <1>2, BusyIsDriven
  <2>3. ASSUME OnePass, Active PROVE Driven
    <3>1. idler[c].goal = 0 => ~Pursues(c)
      BY <1>1 DEF Pursues
    <3>2. QED BY <1>2, <2>3, <3>1, OnlyPass, BusyIsDriven
  <2>4. QED BY <1>1, <2>1, <2>2, <2>3, RestDriven
<1>3. CASE ~(Busy \/ (queue = {} /\ idler[c].goal = 0))
  <2> DEFINE i == [idler[c] EXCEPT !.pc = "ready", !.queued = \E row \in queue : IsGoalRow(row)]
  <2>1. idler' = [idler EXCEPT ![c] = i]
    BY <1>3 DEF LookAtRows, GoalInv, IdlersOK
  <2>2. /\ i.pc = "ready" /\ i.goal = idler[c].goal /\ i.run = idler[c].run
        /\ i.queued = (\E row \in queue : IsGoalRow(row))
    BY <1>1 DEF IdlerRow
  <2>3. idler'[c] = i
    BY <2>1 DEF GoalInv, IdlersOK
  <2> HIDE DEF i
  <2>4. Collects(c)'
    BY <2>2, <2>3 DEF Collects
  <2>5. ASSUME OnePass, Active' PROVE Driven' \/ Pursues(c)'
    <3>1. Active
      BY <1>1, <2>5 DEF Active
    <3>2. CASE Driven
      BY <1>1, <2>1, <3>2, PassKeepsDriven
    <3>3. CASE Pursues(c)
      <4>1. idler[c].goal # 0
        BY <1>1, <3>3 DEF Pursues
      <4>2. CASE \E row \in queue : IsGoalRow(row)
        <5>1. \E row \in queue' : IsGoalRow(row)'
          BY <1>1, <4>2 DEF IsGoalRow
        <5>2. QED BY <2>2, <2>3, <5>1 DEF Pursues
      <4>3. CASE ~ \E row \in queue : IsGoalRow(row)
        BY <2>2, <2>3, <4>1, <4>3 DEF Pursues
      <4>4. QED BY <4>2, <4>3
    <3>4. QED BY <2>5, <3>1, <3>2, <3>3, OnlyPass
  <2>6. QED BY <1>1, <2>1, <2>2, <2>4, <2>5, PassReads
<1>4. QED BY <1>2, <1>3

\* The two later looks at whether the session is busy.
LEMMA BusyAfterReadyDriven ==
  ASSUME GoalInv, DrivenInv, NEW c \in Consumer, BusyAfterReady(c)
  PROVE  DrivenInv'
<1>1. /\ idler[c] \in IdlerRow /\ idler[c].pc = "ready"
      /\ UNCHANGED <<goal, queue, exec, root, start, trigger>>
  BY DEF BusyAfterReady, GoalInv, IdlersOK
<1>2. CASE Busy
  <2>1. Rest(c)
    BY <1>2 DEF BusyAfterReady
  <2>2. QED BY <1>1, <1>2, <2>1, RestDriven, BusyIsDriven
<1>3. CASE ~Busy
  <2> DEFINE pc == IF idler[c].queued \/ idler[c].goal = 0 THEN "busy" ELSE "reserve"
             i == [idler[c] EXCEPT !.pc = pc]
  <2>1. idler' = [idler EXCEPT ![c] = i]
    BY <1>3, GotoIs DEF BusyAfterReady, Goto
  <2>2. i.pc = pc /\ i.run = idler[c].run
    BY <1>1 DEF IdlerRow
  <2>3. idler'[c] = i
    BY <2>1 DEF GoalInv, IdlersOK
  <2>4. pc \in {"busy", "reserve"} /\ (pc = "busy" => idler[c].queued \/ idler[c].goal = 0)
    OBVIOUS
  <2> HIDE DEF i, pc
  <2>5. Collects(c)'
    BY <2>2, <2>3, <2>4 DEF Collects
  <2>6. ASSUME OnePass, Active' PROVE Driven' \/ Pursues(c)'
    <3>1. Active
      BY <1>1, <2>6 DEF Active
    <3>2. CASE Driven
      BY <1>1, <2>1, <3>2, PassKeepsDriven
    <3>3. CASE Pursues(c)
      <4>1. pc = "busy" => \E row \in queue : IsGoalRow(row)
        BY <1>1, <2>4, <3>3 DEF Pursues
      <4>2. pc = "busy" => \E row \in queue' : IsGoalRow(row)'
        BY <1>1, <4>1 DEF IsGoalRow
      <4>3. QED BY <2>2, <2>3, <2>4, <4>2 DEF Pursues
    <3>4. QED BY <2>6, <3>1, <3>2, <3>3, OnlyPass
  <2>7. i.pc # "check" /\ i.run = idler[c].run /\ idler[c].pc # "wait"
    BY <1>1, <2>2, <2>4
  <2>8. QED BY <1>1, <2>1, <2>5, <2>6, <2>7, PassReads
<1>4. QED BY <1>2, <1>3

LEMMA BusyAfterClaimDriven ==
  ASSUME GoalInv, DrivenInv, NEW c \in Consumer, BusyAfterClaim(c)
  PROVE  DrivenInv'
<1>1. /\ idler[c] \in IdlerRow /\ idler[c].pc = "busy"
      /\ UNCHANGED <<goal, queue, exec, root, start, trigger>>
  BY DEF BusyAfterClaim, GoalInv, IdlersOK
<1>2. CASE Busy
  <2>1. Rest(c)
    BY <1>2 DEF BusyAfterClaim
  <2>2. QED BY <1>1, <1>2, <2>1, RestDriven, BusyIsDriven
<1>3. CASE ~Busy
  <2> DEFINE i == [idler[c] EXCEPT !.pc = "take"]
  <2>1. idler' = [idler EXCEPT ![c] = i]
    BY <1>3, GotoIs DEF BusyAfterClaim, Goto
  <2>2. i.pc = "take" /\ i.run = idler[c].run
    BY <1>1 DEF IdlerRow
  <2>3. idler'[c] = i
    BY <2>1 DEF GoalInv, IdlersOK
  <2> HIDE DEF i
  <2>4. Collects(c)'
    BY <2>2, <2>3 DEF Collects
  <2>5. ASSUME OnePass, Active' PROVE Driven' \/ Pursues(c)'
    <3>1. Active
      BY <1>1, <2>5 DEF Active
    <3>2. CASE Driven
      BY <1>1, <2>1, <3>2, PassKeepsDriven
    <3>3. CASE Pursues(c)
      <4>1. \E row \in queue' : IsGoalRow(row)'
        BY <1>1, <3>3 DEF Pursues, IsGoalRow
      <4>2. QED BY <2>2, <2>3, <4>1 DEF Pursues
    <3>4. QED BY <2>5, <3>1, <3>2, <3>3, OnlyPass
  <2>6. QED BY <1>1, <2>1, <2>2, <2>4, <2>5, PassReads
<1>4. QED BY <1>2, <1>3

\* The only pass finds an active goal free, reserves it or blocks it.
LEMMA ReserveDriven ==
  ASSUME GoalInv, DrivenInv, NEW c \in Consumer, Reserve(c)
  PROVE  DrivenInv'
<1> DEFINE g == Current
<1>1. /\ idler[c] \in IdlerRow /\ idler[c].pc = "reserve"
      /\ UNCHANGED <<queue, exec, root, start, trigger>> /\ goal \in [Goal -> GoalRow]
  BY DEF Reserve, GoalInv, IdlersOK, GoalsOK
<1>2. RootHeld' /\ (\A h \in Goal : ~Holds(c, h))
  BY <1>1 DEF DrivenInv, RootHeld, Holds
<1>3. CASE g # 0 /\ goal[g].status = "active" /\ ~goal[g].pending /\ ~Exhausted(goal[g])
  <2> DEFINE row == Reserved(goal[g])
             i == [idler[c] EXCEPT !.pc = "enqueue", !.goal = g, !.mine = row]
  <2>1. g \in Goal
    BY <1>3, CurrentGoal
  <2>2. goal' = [goal EXCEPT ![g] = row]
    BY <1>3 DEF Reserve
  <2>3. goal'[g] = row /\ \A h \in Goal \ {g} : goal'[h] = goal[h]
    BY <1>1, <2>1, <2>2
  <2>4. idler' = [idler EXCEPT ![c] = i]
    BY <1>1, <1>3, <2>3 DEF Reserve, GoalInv, IdlersOK
  <2>5. i.pc = "enqueue" /\ i.goal = g /\ i.mine = row /\ i.run = idler[c].run
    BY <1>1 DEF IdlerRow
  <2>6. idler'[c] = i
    BY <2>4 DEF GoalInv, IdlersOK
  <2> HIDE DEF i, row, g
  <2>7. Collects(c)' /\ Pursues(c)'
    BY <2>5, <2>6 DEF Collects, Pursues
  <2>8. \A h \in Goal : goal'[h].pending =>
           \/ goal[h].pending /\ goal'[h].gen = goal[h].gen /\ ~Holds(c, h)
           \/ i.pc \in {"enqueue", "release"} /\ i.goal = h /\ i.mine.gen = goal'[h].gen
    BY <1>2, <2>3, <2>5
  <2>9. QED BY <1>1, <1>2, <2>4, <2>5, <2>7, <2>8, PassStep
<1>4. CASE ~(g # 0 /\ goal[g].status = "active" /\ ~goal[g].pending /\ ~Exhausted(goal[g]))
  <2> DEFINE i == [idler[c] EXCEPT !.pc = "busy"]
  <2>1. Goto(c, "busy")
    BY <1>4 DEF Reserve
  <2>2. idler' = [idler EXCEPT ![c] = i]
    BY <2>1, GotoIs DEF Goto
  <2>3. i.pc = "busy" /\ i.run = idler[c].run
    BY <1>1 DEF IdlerRow
  <2>4. idler'[c] = i
    BY <2>2 DEF GoalInv, IdlersOK
  <2> HIDE DEF i
  <2>5. Collects(c)'
    BY <2>3, <2>4 DEF Collects
  <2>6. CASE g # 0 /\ goal[g].status = "active" /\ ~goal[g].pending
    <3>1. g \in Goal
      BY <2>6, CurrentGoal
    <3>2. goal' = [goal EXCEPT ![g] = Blocked(goal[g])]
      BY <1>4, <2>6 DEF Reserve
    <3>3. goal'[g] = Blocked(goal[g]) /\ \A h \in Goal \ {g} : goal'[h] = goal[h]
      BY <1>1, <3>1, <3>2
    <3>4. Blocked(goal[g]).status = "blocked" /\ Blocked(goal[g]).pending = FALSE
      BY <1>1, <3>1 DEF Blocked, GoalRow
    <3>5. \A h \in Goal \ {g} : goal[h].status # "active"
      BY <2>6, <3>1, ActiveIsCurrent DEF Alive
    <3> HIDE DEF g
    <3>6. ~Active'
      BY <3>3, <3>4, <3>5 DEF Active
    <3>7. \A h \in Goal : goal'[h].pending =>
             goal[h].pending /\ goal'[h].gen = goal[h].gen /\ ~Holds(c, h)
      BY <1>2, <3>3, <3>4
    <3>8. QED BY <1>1, <1>2, <2>2, <2>3, <2>5, <3>6, <3>7, PassStep
  <2>7. CASE ~(g # 0 /\ goal[g].status = "active" /\ ~goal[g].pending)
    <3>1. goal' = goal
      BY <2>7 DEF Reserve
    <3>2. ASSUME OnePass, NEW h \in Goal, goal[h].status = "active" PROVE FALSE
      <4>1. Current = h /\ h # 0
        BY <3>2, ActiveIsCurrent, Numbers
      <4>2. goal[h].pending
        BY <2>7, <3>2, <4>1
      <4>3. PICK d \in Consumer : Holds(d, h)
        BY <4>2 DEF DrivenInv, PendingHeld
      <4>4. d = c
        BY <3>2 DEF OnePass
      <4>5. QED BY <1>2, <4>3, <4>4
    <3>3. OnePass => ~Active'
      BY <3>1, <3>2 DEF Active
    <3>4. QED BY <1>1, <2>2, <2>3, <2>5, <3>1, <3>3, PassReads
  <2>8. QED BY <2>6, <2>7
<1>5. QED BY <1>3, <1>4

LEMMA EnqueueGoalRowDriven ==
  ASSUME GoalInv, DrivenInv, NEW c \in Consumer, EnqueueGoalRow(c)
  PROVE  DrivenInv'
<1> DEFINE i == [idler[c] EXCEPT !.pc = "release"]
           new == Row(idler[c].goal, idler[c].mine.gen)
<1>1. /\ idler[c] \in IdlerRow /\ idler[c].pc = "enqueue" /\ idler[c].goal \in Goal
      /\ UNCHANGED <<goal, exec, root, start, trigger>> /\ queue' = queue \cup {new}
  BY DEF EnqueueGoalRow, GoalInv, IdlersOK
<1>2. idler' = [idler EXCEPT ![c] = i]
  BY GotoIs DEF EnqueueGoalRow, Goto
<1>3. i.pc = "release" /\ i.goal = idler[c].goal /\ i.mine = idler[c].mine /\ i.run = idler[c].run
  BY <1>1 DEF IdlerRow
<1>4. idler'[c] = i
  BY <1>2 DEF GoalInv, IdlersOK
<1>5. new \in queue' /\ IsGoalRow(new)
  BY <1>1, Numbers DEF Row, IsGoalRow
<1> HIDE DEF i, new
<1>6. \E row \in queue' : IsGoalRow(row)'
  BY <1>5 DEF IsGoalRow
<1>7. Collects(c)' /\ Pursues(c)'
  BY <1>3, <1>4, <1>6 DEF Collects, Pursues
<1>8. RootHeld'
  BY <1>1 DEF DrivenInv, RootHeld
<1>9. \A h \in Goal : goal'[h].pending =>
         \/ goal[h].pending /\ goal'[h].gen = goal[h].gen /\ ~Holds(c, h)
         \/ i.pc \in {"enqueue", "release"} /\ i.goal = h /\ i.mine.gen = goal'[h].gen
  BY <1>1, <1>3 DEF Holds
<1>10. QED BY <1>1, <1>2, <1>3, <1>7, <1>8, <1>9, PassStep

LEMMA ReleaseDriven ==
  ASSUME GoalInv, DrivenInv, NEW c \in Consumer, ReleaseReservation(c)
  PROVE  DrivenInv'
<1> DEFINE i == [idler[c] EXCEPT !.pc = "busy"]
           g == idler[c].goal
<1>1. /\ idler[c] \in IdlerRow /\ idler[c].pc = "release" /\ g \in Goal
      /\ UNCHANGED <<queue, exec, root, start, trigger>> /\ goal \in [Goal -> GoalRow]
  BY DEF ReleaseReservation, GoalInv, IdlersOK, GoalsOK
<1>2. idler' = [idler EXCEPT ![c] = i]
  BY GotoIs DEF ReleaseReservation, Goto
<1>3. i.pc = "busy" /\ i.run = idler[c].run
  BY <1>1 DEF IdlerRow
<1>4. idler'[c] = i
  BY <1>2 DEF GoalInv, IdlersOK
<1>5. \A h \in Goal : /\ goal'[h].status = goal[h].status /\ goal'[h].gen = goal[h].gen
                      /\ goal'[h].pending => goal[h].pending
                      /\ Holds(c, h) => ~goal'[h].pending
  <2>1. CASE goal[g].gen = idler[c].mine.gen
    <3>1. goal' = [goal EXCEPT ![g] = [goal[g] EXCEPT !.pending = FALSE]]
      BY <1>1, <2>1 DEF ReleaseReservation
    <3>2. \A h \in Goal : goal[h] \in GoalRow
      BY <1>1
    <3>3. goal'[g] = [goal[g] EXCEPT !.pending = FALSE] /\ \A h \in Goal \ {g} : goal'[h] = goal[h]
      BY <1>1, <3>1
    <3>4. /\ goal'[g].status = goal[g].status /\ goal'[g].gen = goal[g].gen
          /\ goal'[g].pending = FALSE
      BY <1>1, <3>2, <3>3 DEF GoalRow
    <3>5. QED BY <3>3, <3>4 DEF Holds
  <2>2. CASE goal[g].gen # idler[c].mine.gen
    BY <2>2 DEF ReleaseReservation, Holds
  <2>3. QED BY <2>1, <2>2
<1> HIDE DEF i, g
<1>6. Collects(c)'
  BY <1>3, <1>4 DEF Collects
<1>7. RootHeld'
  BY <1>1 DEF DrivenInv, RootHeld
<1>8. ASSUME OnePass, Active' PROVE Driven' \/ Pursues(c)'
  <2>1. Active
    BY <1>5, <1>8 DEF Active
  <2>2. CASE Driven
    BY <1>1, <1>2, <2>2, PassKeepsDriven
  <2>3. CASE Pursues(c)
    <3>1. \E row \in queue' : IsGoalRow(row)'
      BY <1>1, <2>3 DEF Pursues, IsGoalRow
    <3>2. QED BY <1>3, <1>4, <3>1 DEF Pursues
  <2>4. QED BY <1>8, <2>1, <2>2, <2>3, OnlyPass
<1>9. \A h \in Goal : goal'[h].pending =>
         goal[h].pending /\ goal'[h].gen = goal[h].gen /\ ~Holds(c, h)
  BY <1>5
<1>10. QED BY <1>1, <1>2, <1>3, <1>6, <1>7, <1>8, <1>9, PassStep

LEMMA TakeRowsDriven ==
  ASSUME GoalInv, DrivenInv, NEW c \in Consumer, TakeRows(c)
  PROVE  DrivenInv'
<1>1. /\ idler[c] \in IdlerRow /\ idler[c].pc = "take" /\ queue' = {}
      /\ UNCHANGED <<goal, exec, root, start, trigger>>
  BY DEF TakeRows, GoalInv, IdlersOK
<1>2. CASE queue = {}
  <2>1. Rest(c)
    BY <1>2 DEF TakeRows
  <2>2. ~Pursues(c)
    BY <1>1, <1>2 DEF Pursues
  <2>3. QED BY <1>1, <2>1, <2>2, OnlyPass, RestDriven
<1>3. CASE queue # {}
  <2> DEFINE i == [idler[c] EXCEPT !.pc = "check", !.batch = queue]
  <2>1. idler' = [idler EXCEPT ![c] = i]
    BY <1>3 DEF TakeRows, GoalInv, IdlersOK
  <2>2. i.pc = "check" /\ i.batch = queue /\ i.run = idler[c].run
    BY <1>1 DEF IdlerRow
  <2>3. idler'[c] = i
    BY <2>1 DEF GoalInv, IdlersOK
  <2> HIDE DEF i
  <2>4. Pursues(c)'
    BY <2>2, <2>3 DEF Pursues
  <2>5. QED BY <1>1, <1>3, <2>1, <2>2, <2>4, PassReads
<1>4. QED BY <1>2, <1>3

LEMMA CheckRowsDriven ==
  ASSUME GoalInv, DrivenInv, NEW c \in Consumer, CheckRows(c)
  PROVE  DrivenInv'
<1> DEFINE stale == {row \in idler[c].batch : IsGoalRow(row) /\ ~RowCurrent(row)}
           rest == idler[c].batch \ stale
<1>1. /\ idler[c] \in IdlerRow /\ idler[c].pc = "check" /\ idler[c].batch # {}
      /\ UNCHANGED <<goal, queue, exec, root, start>> /\ ~Collects(c)
      /\ trigger' = (trigger \/ Retrigger(stale))
  BY DEF CheckRows, GoalInv, IdlersOK, DrivenInv, BatchesHeld, Collects
<1>2. CASE rest = {}
  <2>1. Rest(c)
    BY <1>2 DEF CheckRows
  <2>2. stale # {}
    BY <1>1, <1>2
  <2>3. ASSUME NEW g \in Goal, goal[g].status = "active" PROVE Driven'
    <3>1. Current = g /\ g # 0
      BY <2>3, ActiveIsCurrent, Numbers
    <3>2. trigger'
      BY <1>1, <2>2, <2>3, <3>1 DEF Retrigger
    <3>3. QED BY <3>2 DEF Driven
  <2>4. Active => Driven'
    BY <2>3 DEF Active
  <2>5. trigger => trigger'
    BY <1>1
  <2>6. QED BY <1>1, <2>1, <2>4, <2>5, RestDriven
<1>3. CASE rest # {}
  <2> DEFINE i == [idler[c] EXCEPT !.pc = "launch", !.batch = rest]
  <2>1. idler' = [idler EXCEPT ![c] = i]
    BY <1>3 DEF CheckRows, GoalInv, IdlersOK
  <2>2. i.pc = "launch" /\ i.run = idler[c].run
    BY <1>1 DEF IdlerRow
  <2>3. idler'[c] = i
    BY <2>1 DEF GoalInv, IdlersOK
  <2> HIDE DEF i
  <2>4. Driven'
    BY <2>2, <2>3 DEF Driven
  <2>5. QED BY <1>1, <2>1, <2>2, <2>4, PassReads
<1>4. QED BY <1>2, <1>3

LEMMA LaunchDriven ==
  ASSUME GoalInv, DrivenInv, NEW c \in Consumer, NEW x \in SystemExec, Launch(c, x)
  PROVE  DrivenInv'
<1> DEFINE i == [idler[c] EXCEPT !.pc = "wait", !.run = x]
<1>1. /\ idler[c] \in IdlerRow /\ idler[c].pc = "launch"
      /\ UNCHANGED <<goal, queue, root>>
  BY DEF Launch, GoalInv, IdlersOK
<1>2. idler' = [idler EXCEPT ![c] = i]
  BY DEF Launch, GoalInv, IdlersOK
<1>3. i.pc = "wait"
  BY <1>1 DEF IdlerRow
<1>4. idler'[c] = i
  BY <1>2 DEF GoalInv, IdlersOK
<1> HIDE DEF i
<1>5. Driven'
  BY <1>3, <1>4 DEF Driven
<1>6. RootHeld'
  <2>1. \A y \in RootExec : exec'[y].pc = "running" => exec[y].pc = "running"
    BY DEF Launch, GoalInv, RunsOK, ExecRow, Exec, RootExec
  <2>2. QED BY <1>1, <2>1 DEF DrivenInv, RootHeld
<1>7. \A h \in Goal : ~Holds(c, h)
  BY <1>1 DEF Holds
<1>8. \A h \in Goal : goal'[h].pending =>
         goal[h].pending /\ goal'[h].gen = goal[h].gen /\ ~Holds(c, h)
  BY <1>1, <1>7
<1>9. QED BY <1>2, <1>3, <1>5, <1>6, <1>8, PassStep

LEMMA StartBatchDriven ==
  ASSUME GoalInv, DrivenInv, NEW c \in Consumer, NEW x \in SystemExec, StartBatch(c, x)
  PROVE  DrivenInv'
<1>1. /\ idler' = [idler EXCEPT ![c] = NoIdler] /\ NoIdler.pc = "off" /\ NoIdler.run = None
      /\ exec[x].pc = "captured" /\ goal' = goal
      /\ exec \in [Exec -> ExecRow] /\ x \in Exec /\ x \in RootExec
  BY DEF StartBatch, Rest, NoIdler, GoalInv, RunsOK, Exec, RootExec
<1>2. \/ root = None /\ root' = x /\ exec' = [exec EXCEPT ![x].pc = "running"]
      \/ root' = root /\ exec' = [exec EXCEPT ![x] = NoExec] /\ trigger'
  BY DEF StartBatch, Gone
<1>3. Driven'
  <2>1. x # None
    BY <1>1 DEF RootExec
  <2>2. QED BY <1>2, <2>1 DEF Driven
<1>4. RootHeld'
  <2>1. CASE root = None /\ root' = x /\ exec' = [exec EXCEPT ![x].pc = "running"]
    <3>1. \A y \in RootExec : y # None
      BY DEF RootExec
    <3>2. \A y \in RootExec : exec[y].pc # "running"
      BY <2>1, <3>1 DEF DrivenInv, RootHeld
    <3>3. \A y \in RootExec \ {x} : exec'[y] = exec[y]
      BY <1>1, <2>1 DEF RootExec, Exec
    <3>4. QED BY <2>1, <3>2, <3>3 DEF RootHeld
  <2>2. CASE root' = root /\ exec' = [exec EXCEPT ![x] = NoExec]
    <3>1. exec'[x].pc = "off" /\ \A y \in RootExec \ {x} : exec'[y] = exec[y]
      BY <1>1, <2>2 DEF RootExec, Exec, NoExec
    <3>2. QED BY <2>2, <3>1 DEF DrivenInv, RootHeld
  <2>3. QED BY <1>2, <2>1, <2>2
<1>5. \A h \in Goal : goal'[h].pending =>
         \/ goal[h].pending /\ goal'[h].gen = goal[h].gen /\ ~Holds(c, h)
         \/ NoIdler.pc \in {"enqueue", "release"} /\ NoIdler.goal = h /\ NoIdler.mine.gen = goal'[h].gen
  <2>1. idler[c].pc = "wait"
    <3>1. x # None
      BY DEF RootExec
    <3>2. QED BY <3>1 DEF StartBatch, DrivenInv, RunsHeld
  <2>2. QED BY <1>1, <2>1 DEF Holds, PendingHeld, DrivenInv
<1>6. QED BY <1>1, <1>3, <1>4, <1>5, PassStep

LEMMA IdleDriven ==
  ASSUME GoalInv, DrivenInv, NEW c \in Consumer, Idle(c)
  PROVE  DrivenInv'
  BY WakesDriven, ReadGoalDriven, LookAtRowsDriven, BusyAfterReadyDriven, ReserveDriven,
     EnqueueGoalRowDriven, ReleaseDriven, BusyAfterClaimDriven, TakeRowsDriven, CheckRowsDriven,
     LaunchDriven, StartBatchDriven
     DEF Idle

-----------------------------------------------------------------------------
(* Runs, tools and controls.                                               *)

\* The consumers stand still.  Rows that come, and a goal that becomes active, come
\* with something that drives.
LEMMA OthersStep ==
  ASSUME GoalInv, DrivenInv, idler' = idler, RootHeld',
         \A g \in Goal : goal'[g].pending => goal[g].pending /\ goal'[g].gen = goal[g].gen,
         \A g \in Goal : goal'[g].status = "active" => goal[g].status = "active" \/ Driven',
         queue' = queue \/ Driven',
         Driven => Driven'
  PROVE  DrivenInv'
<1>1. PendingHeld'
  <2> SUFFICES ASSUME NEW g \in Goal, goal'[g].pending PROVE \E d \in Consumer : Holds(d, g)'
    BY DEF PendingHeld
  <2>1. PICK d \in Consumer : Holds(d, g)
    BY DEF DrivenInv, PendingHeld
  <2>2. Holds(d, g)'
    BY <2>1 DEF Holds
  <2>3. QED BY <2>2
<1>2. BatchesHeld' /\ RunsHeld'
  BY DEF DrivenInv, BatchesHeld, RunsHeld
<1>3. QueueDriven'
  BY DEF DrivenInv, QueueDriven, Collects
<1>4. OnePass => GoalDriven'
  <2> SUFFICES ASSUME OnePass, Active', ~Driven' PROVE \E c \in Consumer : Pursues(c)'
    BY DEF GoalDriven
  <2>1. Active
    BY DEF Active
  <2>2. PICK c \in Consumer : Pursues(c)
    BY <2>1 DEF DrivenInv, GoalDriven
  <2>3. queue' = queue
    OBVIOUS
  <2>4. Pursues(c)'
    BY <2>2, <2>3 DEF Pursues, IsGoalRow
  <2>5. QED BY <2>4
<1>5. QED BY <1>1, <1>2, <1>3, <1>4 DEF DrivenInv

LEMMA GoalsStay ==
  ASSUME GoalInv, DrivenInv, UNCHANGED <<goal, idler>>, RootHeld', queue' = queue \/ Driven',
         Driven => Driven'
  PROVE  DrivenInv'
  BY OthersStep

\* One run moves, and no root run begins.
LEMMA ExecMoves ==
  ASSUME GoalInv, DrivenInv, NEW x \in Exec, NEW e, exec' = [exec EXCEPT ![x] = e],
         e.pc = "running" => exec[x].pc = "running" \/ x \in ChildExec
  PROVE  /\ exec'[x] = e /\ \A y \in Exec \ {x} : exec'[y] = exec[y]
         /\ root' = root => RootHeld'
         /\ (/\ UNCHANGED <<root, start, idler>> /\ (trigger => trigger')
             /\ exec[x].pc # "off" => e.pc # "off" /\ e.aborted = exec[x].aborted)
            => (Driven => Driven')
<1>1. exec'[x] = e /\ \A y \in Exec \ {x} : exec'[y] = exec[y]
  BY DEF GoalInv, RunsOK
<1>2. UserExec \subseteq Exec /\ ChildExec \subseteq Exec /\ RootExec \subseteq Exec
      /\ RootExec \cap ChildExec = {}
  BY DEF Exec, RootExec
<1>3. ASSUME root' = root PROVE RootHeld'
  BY <1>1, <1>2, <1>3 DEF DrivenInv, RootHeld
<1>4. ASSUME UNCHANGED <<root, start, idler>>, trigger => trigger',
             exec[x].pc # "off" => e.pc # "off" /\ e.aborted = exec[x].aborted, Driven
      PROVE  Driven'
  <2>1. CASE \E y \in UserExec : exec[y].pc # "off"
    <3>1. PICK y \in UserExec : exec[y].pc # "off"
      BY <2>1
    <3>2. exec'[y].pc # "off"
      BY <1>1, <1>2, <1>4, <3>1
    <3>3. QED BY <3>2 DEF Driven
  <2>2. CASE \E y \in ChildExec : exec[y].pc # "off" /\ ~exec[y].aborted
    <3>1. PICK y \in ChildExec : exec[y].pc # "off" /\ ~exec[y].aborted
      BY <2>2
    <3>2. exec'[y].pc # "off" /\ ~exec'[y].aborted
      BY <1>1, <1>2, <1>4, <3>1
    <3>3. QED BY <3>2 DEF Driven
  <2>3. QED BY <1>4, <2>1, <2>2 DEF Driven
<1>5. QED BY <1>1, <1>3, <1>4

LEMMA TriggerDrives == trigger' => Driven'
  BY DEF Driven

LEMMA UserRunDriven ==
  ASSUME GoalInv, DrivenInv, NEW x \in UserExec, UserRun(x)
  PROVE  DrivenInv'
<1> DEFINE e == [exec[x] EXCEPT !.pc = "launched"]
<1>1. x \in Exec /\ exec[x] \in ExecRow
  BY DEF Exec, RootExec, GoalInv, RunsOK
<1>2. exec' = [exec EXCEPT ![x] = e]
  BY <1>1 DEF UserRun, GoalInv, RunsOK
<1>3. e.pc = "launched"
  BY <1>1 DEF ExecRow
<1> HIDE DEF e
<1>4. exec'[x] = e /\ (root' = root => RootHeld')
  BY <1>1, <1>2, <1>3, ExecMoves
<1>5. Driven'
  BY <1>3, <1>4 DEF Driven
<1>6. QED BY <1>4, <1>5, GoalsStay DEF UserRun

\* Only one run holds the root slot, and a run without it does not work.
LEMMA StartRunDriven ==
  ASSUME GoalInv, DrivenInv, NEW x \in UserExec, StartRun(x)
  PROVE  DrivenInv'
<1>1. x \in Exec /\ x \in RootExec /\ exec \in [Exec -> ExecRow] /\ x # None
      /\ \A y \in RootExec : y # None
  BY DEF Exec, RootExec, GoalInv, RunsOK
<1>2. CASE root = None
  <2>1. root' = x /\ exec' = [exec EXCEPT ![x].pc = "running"]
    BY <1>2 DEF StartRun
  <2>2. \A y \in RootExec \ {x} : exec'[y] = exec[y]
    BY <1>1, <2>1 DEF RootExec, Exec
  <2>3. RootHeld'
    BY <1>1, <1>2, <2>1, <2>2 DEF DrivenInv, RootHeld
  <2>4. Driven'
    BY <1>1, <2>1 DEF Driven
  <2>5. QED BY <2>3, <2>4, GoalsStay DEF StartRun
<1>3. CASE root # None
  <2>1. exec' = [exec EXCEPT ![x] = NoExec] /\ trigger' /\ root' = root
    BY <1>3 DEF StartRun, Gone
  <2>2. NoExec.pc # "running"
    BY DEF NoExec
  <2>3. RootHeld'
    BY <1>1, <2>1, <2>2, ExecMoves
  <2>4. QED BY <2>1, <2>3, TriggerDrives, GoalsStay DEF StartRun
<1>4. QED BY <1>2, <1>3

LEMMA CaptureDriven ==
  ASSUME GoalInv, DrivenInv, NEW x \in Exec, Capture(x)
  PROVE  DrivenInv'
<1> DEFINE e == [exec[x] EXCEPT !.pc = "captured", !.goal = Addressed,
                   !.gen = IF Addressed = 0 THEN 0 ELSE goal[Addressed].gen]
<1>1. exec[x] \in ExecRow
  BY DEF GoalInv, RunsOK
<1>2. exec' = [exec EXCEPT ![x] = e]
  BY DEF Capture, GoalInv, RunsOK
<1>3. e.pc = "captured" /\ e.aborted = exec[x].aborted
  BY <1>1 DEF ExecRow
<1> HIDE DEF e
<1>4. UNCHANGED <<goal, queue, root, start, idler, trigger>>
  BY DEF Capture
<1>5. RootHeld' /\ (Driven => Driven')
  BY <1>2, <1>3, <1>4, ExecMoves
<1>6. QED BY <1>4, <1>5, GoalsStay

LEMMA RefreshDriven ==
  ASSUME GoalInv, DrivenInv, NEW x \in RootExec, Refresh(x)
  PROVE  DrivenInv'
<1>1. root' # None
  BY DEF Refresh, RootExec
<1>2. Driven'
  BY <1>1 DEF Driven
<1>3. RootHeld'
  BY DEF Refresh, DrivenInv, RootHeld
<1>4. QED BY <1>2, <1>3, GoalsStay DEF Refresh

LEMMA RunEndsDriven ==
  ASSUME GoalInv, DrivenInv, NEW x \in RootExec, RunEnds(x)
  PROVE  DrivenInv'
<1>1. exec' = [exec EXCEPT ![x] = NoExec] /\ exec \in [Exec -> ExecRow] /\ x \in Exec
  BY DEF RunEnds, Gone, GoalInv, RunsOK, Exec
<1>2. exec'[x].pc = "off" /\ \A y \in RootExec \ {x} : exec'[y] = exec[y]
  BY <1>1 DEF Exec, NoExec
<1>3. root = x
  BY DEF RunEnds, DrivenInv, RootHeld
<1>4. RootHeld'
  BY <1>2, <1>3 DEF DrivenInv, RootHeld
<1>5. QED BY <1>4, TriggerDrives, GoalsStay DEF RunEnds

LEMMA ChildrenDriven ==
  ASSUME GoalInv, DrivenInv, NEW x \in ChildExec,
         ChildRun(x) \/ ChildStarts(x) \/ ChildReports(x) \/ ChildCancelled(x) \/ ChildEnds(x)
  PROVE  DrivenInv'
<1>1. x \in Exec /\ exec[x] \in ExecRow /\ exec \in [Exec -> ExecRow]
  BY DEF Exec, GoalInv, RunsOK
<1>2. UNCHANGED <<goal, idler, root, start>>
  BY DEF ChildRun, ChildStarts, ChildReports, ChildCancelled, ChildEnds
<1>3. PICK e : exec' = [exec EXCEPT ![x] = e]
  BY <1>1 DEF ChildRun, ChildStarts, ChildReports, ChildCancelled, ChildEnds, Gone
<1>4. exec'[x] = e /\ (\A y \in Exec \ {x} : exec'[y] = exec[y]) /\ RootHeld'
  BY <1>1, <1>2, <1>3, ExecMoves
<1>5. CASE ChildRun(x)
  <2>1. Driven'
    BY <1>2, <1>5 DEF ChildRun, Driven
  <2>2. QED BY <1>2, <1>4, <2>1, GoalsStay
<1>6. CASE ChildStarts(x)
  <2>1. e.pc = "running" /\ e.aborted = exec[x].aborted
    BY <1>1, <1>4, <1>6 DEF ChildStarts, ExecRow
  <2>2. UNCHANGED <<queue, trigger>>
    BY <1>6 DEF ChildStarts
  <2>3. Driven => Driven'
    BY <1>1, <1>2, <1>3, <2>1, <2>2, ExecMoves
  <2>4. QED BY <1>2, <1>4, <2>2, <2>3, GoalsStay
<1>7. CASE ChildReports(x)
  BY <1>2, <1>4, <1>7, TriggerDrives, GoalsStay DEF ChildReports
<1>8. CASE ChildCancelled(x)
  BY <1>2, <1>4, <1>8, TriggerDrives, GoalsStay DEF ChildCancelled, CancelTriggers
<1>9. CASE ChildEnds(x)
  <2>1. queue' = queue /\ (trigger => trigger') /\ (~exec[x].aborted => trigger')
    BY <1>9 DEF ChildEnds
  <2>2. CASE exec[x].aborted
    <3>1. \A y \in ChildExec : exec[y].pc # "off" /\ ~exec[y].aborted => exec'[y] = exec[y]
      BY <1>4, <2>2 DEF Exec
    <3>2. \A y \in UserExec : exec'[y] = exec[y]
      BY <1>4 DEF Exec, RootExec
    <3>3. Driven => Driven'
      <4>1. CASE \E y \in ChildExec : exec[y].pc # "off" /\ ~exec[y].aborted
        BY <3>1, <4>1 DEF Driven
      <4>2. CASE ~ \E y \in ChildExec : exec[y].pc # "off" /\ ~exec[y].aborted
        BY <1>2, <2>1, <3>2, <4>2 DEF Driven
      <4>3. QED BY <4>1, <4>2
    <3>4. QED BY <1>2, <1>4, <2>1, <3>3, GoalsStay
  <2>3. CASE ~exec[x].aborted
    BY <1>2, <1>4, <2>1, <2>3, TriggerDrives, GoalsStay
  <2>4. QED BY <2>2, <2>3
<1>10. QED BY <1>5, <1>6, <1>7, <1>8, <1>9

-----------------------------------------------------------------------------
(* Writes to the goals.                                                    *)

\* A run at work that is not cancelled drives.
LEMMA WorkDrives ==
  ASSUME GoalInv, DrivenInv, NEW x \in Exec, exec[x].pc = "running", ~exec[x].aborted,
         exec'[x].pc = "running", ~exec'[x].aborted, root' = root
  PROVE  Driven'
<1>1. CASE x \in RootExec
  <2>1. root = x /\ x # None
    BY <1>1 DEF DrivenInv, RootHeld, RootExec
  <2>2. QED BY <2>1 DEF Driven
<1>2. CASE x \in ChildExec
  BY <1>2 DEF Driven
<1>3. QED BY <1>1, <1>2 DEF Exec

LEMMA GoalCreateDriven ==
  ASSUME GoalInv, DrivenInv, NEW x \in Exec, GoalCreate(x)
  PROVE  DrivenInv'
<1> DEFINE g == Newest(Created) + 1
           e == [exec[x] EXCEPT !.goal = g, !.gen = 0]
           row == [goal[g] EXCEPT !.status = "active"]
<1>1. exec[x] \in ExecRow /\ exec[x].pc = "running" /\ ~exec[x].aborted
      /\ UNCHANGED <<queue, root, start, idler, trigger>>
  BY DEF GoalCreate, Works, GoalInv, RunsOK
<1>2. exec' = [exec EXCEPT ![x] = e]
  BY DEF GoalCreate, GoalInv, RunsOK
<1>3. e.pc = "running" /\ ~e.aborted
  BY <1>1 DEF ExecRow
<1>4. g \in Goal /\ goal' = [goal EXCEPT ![g] = row] /\ goal \in [Goal -> GoalRow]
  BY NextGoal DEF GoalCreate, GoalInv, GoalsOK
<1>5. goal'[g] = row /\ \A h \in Goal \ {g} : goal'[h] = goal[h]
  BY <1>4
<1>6. row.pending = goal[g].pending /\ row.gen = goal[g].gen
  BY <1>4 DEF GoalRow
<1> HIDE DEF e, g, row
<1>7. exec'[x] = e /\ RootHeld'
  BY <1>1, <1>2, <1>3, ExecMoves
<1>8. Driven'
  BY <1>1, <1>3, <1>7, WorkDrives
<1>9. \A h \in Goal : goal'[h].pending => goal[h].pending /\ goal'[h].gen = goal[h].gen
  BY <1>5, <1>6
<1>10. QED BY <1>1, <1>7, <1>8, <1>9, OthersStep

\* A write of a tool leaves a reservation alone, or takes it away.
LEMMA WritesDriven ==
  ASSUME GoalInv, DrivenInv, NEW x \in Exec, tool[x].pc # "off", NEW g \in Goal, NEW row,
         ~exec[x].aborted, Writes(x, g, row),
         row.pending => goal[g].pending /\ row.gen = goal[g].gen,
         UNCHANGED <<queue, root, idler>>
  PROVE  DrivenInv'
<1> DEFINE e == [exec[x] EXCEPT !.gen = row.gen]
<1>1. exec[x] \in ExecRow /\ exec[x].pc = "running" /\ goal \in [Goal -> GoalRow]
  BY RunFacts DEF GoalInv, GoalsOK
<1>2. exec' = [exec EXCEPT ![x] = e] /\ goal' = [goal EXCEPT ![g] = row]
  BY DEF Writes, GoalInv, RunsOK
<1>3. e.pc = "running" /\ e.aborted = exec[x].aborted
  BY <1>1 DEF ExecRow
<1>4. goal'[g] = row /\ \A h \in Goal \ {g} : goal'[h] = goal[h]
  BY <1>1, <1>2
<1> HIDE DEF e
<1>5. exec'[x] = e /\ RootHeld'
  BY <1>1, <1>2, <1>3, ExecMoves
<1>6. Driven'
  BY <1>1, <1>3, <1>5, WorkDrives
<1>7. \A h \in Goal : goal'[h].pending => goal[h].pending /\ goal'[h].gen = goal[h].gen
  BY <1>4
<1>8. QED BY <1>5, <1>6, <1>7, OthersStep

\* Neither an update nor a restart reserves a goal, or renumbers a reserved one.
LEMMA UpdatedReserved ==
  ASSUME NEW row \in GoalRow, NEW status, row.pending => row.status = "active"
  PROVE  /\ Updated(row, status).pending => row.pending /\ Updated(row, status).gen = row.gen
         /\ Restarted(row).pending => row.pending /\ Restarted(row).gen = row.gen
<1> DEFINE new == [row EXCEPT !.status = "active", !.count = 0, !.idle = 0, !.pending = FALSE,
                     !.moved = TRUE, !.gen = @ + 1]
<1>1. Updated(row, status).pending => row.pending /\ Updated(row, status).gen = row.gen
  BY DEF Updated, GoalRow
<1>2. new.pending = FALSE
  BY DEF GoalRow
<1>3. Restarted(row) = new \/ Restarted(row) = row
  BY DEF Restarted
<1>4. Restarted(row).pending => row.pending /\ Restarted(row).gen = row.gen
  BY <1>2, <1>3
<1>5. QED BY <1>1, <1>4

LEMMA ToolsDriven ==
  ASSUME GoalInv, DrivenInv, NEW x \in Exec, Tools(x)
  PROVE  DrivenInv'
<1> DEFINE g == tool[x].goal
<1>1. CASE GoalCreate(x)
  BY <1>1, GoalCreateDriven
<1>2. CASE ToolRefused(x) \/ \E h \in Goal, want \in Want : ToolReads(x, h, want)
  <2>1. UNCHANGED <<goal, queue, exec, root, idler, trigger, start>>
    BY <1>2 DEF ToolRefused, ToolReads
  <2>2. RootHeld' /\ (Driven => Driven')
    BY <2>1 DEF DrivenInv, RootHeld, Driven
  <2>3. QED BY <2>1, <2>2, GoalsStay
<1>3. CASE ToolRestarts(x)
  <2>1. /\ tool[x].pc # "off" /\ ~exec[x].aborted /\ UNCHANGED <<queue, root, idler>>
        /\ Writes(x, g, Restarted(goal[g])) /\ Guard(x, g)
    BY <1>3 DEF ToolRestarts, Guard
  <2>2. g \in Goal /\ goal[g] \in GoalRow /\ (goal[g].pending => goal[g].status = "active")
    BY <2>1, GuardFacts
  <2>3. Restarted(goal[g]).pending => goal[g].pending /\ Restarted(goal[g]).gen = goal[g].gen
    BY <2>2, UpdatedReserved
  <2> HIDE DEF g
  <2>4. QED BY <2>1, <2>2, <2>3, WritesDriven
<1>4. CASE ToolWrites(x)
  <2>1. PICK moved \in BOOLEAN : Writes(x, g, [Rewritten(x, g) EXCEPT !.moved = moved])
    BY <1>4 DEF ToolWrites
  <2> DEFINE row == [Rewritten(x, g) EXCEPT !.moved = moved]
             status == IF tool[x].want = "keep" THEN goal[g].status ELSE tool[x].want
  <2>2. tool[x].pc # "off" /\ ~exec[x].aborted /\ UNCHANGED <<queue, root, idler>> /\ Guard(x, g)
    BY <1>4 DEF ToolWrites, Guard
  <2>3. g \in Goal /\ goal[g] \in GoalRow /\ (goal[g].pending => goal[g].status = "active")
    BY <2>2, GuardFacts
  <2>4. Rewritten(x, g) = Updated(goal[g], status)
    BY DEF Rewritten
  <2>5. row.pending = Updated(goal[g], status).pending /\ row.gen = Updated(goal[g], status).gen
    BY <2>3, <2>4 DEF Updated, GoalRow
  <2>6. row.pending => goal[g].pending /\ row.gen = goal[g].gen
    BY <2>3, <2>5, UpdatedReserved
  <2>7. Writes(x, g, row)
    BY <2>1
  <2> HIDE DEF g, row, status
  <2>8. QED BY <2>2, <2>3, <2>6, <2>7, WritesDriven
<1>5. QED BY <1>1, <1>2, <1>3, <1>4 DEF Tools

LEMMA StartWritesDriven ==
  ASSUME GoalInv, DrivenInv, StartWrites
  PROVE  DrivenInv'
<1> DEFINE g == start.goal
<1>1. /\ UNCHANGED <<queue, exec, root, idler, trigger>> /\ g \in Goal /\ goal[g] \in GoalRow
      /\ goal \in [Goal -> GoalRow] /\ (goal[g].pending => goal[g].status = "active")
      /\ start.pc = "write" /\ start \in UserRow
  BY DEF StartWrites, GoalInv, ControlsOK, Created, GoalsOK
<1>2. RootHeld'
  BY <1>1 DEF DrivenInv, RootHeld
<1>3. Driven => Driven'
  BY <1>1 DEF Driven
<1>4. CASE goal' = goal
  BY <1>1, <1>2, <1>3, <1>4, GoalsStay
<1>5. CASE goal' # goal
  <2>1. goal' = [goal EXCEPT ![g] = Restart(goal[g])] /\ start' = [start EXCEPT !.pc = "trigger"]
    BY <1>5 DEF StartWrites
  <2>2. start'.pc = "trigger"
    BY <1>1, <2>1 DEF UserRow
  <2>3. Driven'
    BY <2>2 DEF Driven
  <2>4. Restart(goal[g]).pending => goal[g].pending /\ Restart(goal[g]).gen = goal[g].gen
    BY <1>1, UpdatedReserved DEF Restart
  <2>5. goal'[g] = Restart(goal[g]) /\ \A h \in Goal \ {g} : goal'[h] = goal[h]
    BY <1>1, <2>1
  <2> HIDE DEF g
  <2>6. \A h \in Goal : goal'[h].pending => goal[h].pending /\ goal'[h].gen = goal[h].gen
    BY <2>4, <2>5
  <2>7. QED BY <1>1, <1>2, <2>3, <2>6, OthersStep
<1>6. QED BY <1>4, <1>5

LEMMA StopPausesDriven ==
  ASSUME GoalInv, DrivenInv, StopPauses
  PROVE  DrivenInv'
<1> DEFINE g == stop.goal
<1>1. /\ UNCHANGED <<queue, exec, root, idler, trigger, start>> /\ g \in Goal /\ goal[g] \in GoalRow
      /\ goal \in [Goal -> GoalRow] /\ (goal[g].pending => goal[g].status = "active")
  BY DEF StopPauses, GoalInv, ControlsOK, StopReadOK, Created, GoalsOK
<1>2. RootHeld' /\ (Driven => Driven')
  BY <1>1 DEF DrivenInv, RootHeld, Driven
<1>3. CASE goal' = goal
  BY <1>1, <1>2, <1>3, GoalsStay
<1>4. CASE goal' # goal
  <2>1. goal' = [goal EXCEPT ![g] = Updated(goal[g], "paused")]
    BY <1>4 DEF StopPauses
  <2>2. Updated(goal[g], "paused").pending => goal[g].pending /\ Updated(goal[g], "paused").gen = goal[g].gen
    BY <1>1, UpdatedReserved
  <2>3. Updated(goal[g], "paused").status = "paused"
    BY <1>1 DEF Updated, GoalRow
  <2>4. goal'[g] = Updated(goal[g], "paused") /\ \A h \in Goal \ {g} : goal'[h] = goal[h]
    BY <1>1, <2>1
  <2> HIDE DEF g
  <2>5. \A h \in Goal : goal'[h].pending => goal[h].pending /\ goal'[h].gen = goal[h].gen
    BY <2>2, <2>4
  <2>6. \A h \in Goal : goal'[h].status = "active" => goal[h].status = "active"
    BY <2>3, <2>4
  <2>7. QED BY <1>1, <1>2, <2>5, <2>6, OthersStep
<1>5. QED BY <1>3, <1>4

LEMMA ControlDriven ==
  ASSUME GoalInv, DrivenInv, Control
  PROVE  DrivenInv'
<1>1. CASE StopAsked \/ StopFails \/ StartAsked
  <2>1. UNCHANGED <<goal, queue, exec, root, idler, trigger>>
    BY <1>1 DEF StopAsked, StopFails, StartAsked
  <2>2. start.pc = "trigger" => start' = start
    BY <1>1 DEF StopAsked, StopFails, StartAsked, NoUser
  <2>3. RootHeld' /\ (Driven => Driven')
    BY <2>1, <2>2 DEF DrivenInv, RootHeld, Driven
  <2>4. QED BY <2>1, <2>3, GoalsStay
<1>2. CASE StopPauses
  BY <1>2, StopPausesDriven
<1>3. CASE StopCuts
  <2>1. UNCHANGED <<goal, queue, root, idler, trigger, start>>
    BY <1>3 DEF StopCuts
  <2>2. CASE root = None
    <3>1. exec' = exec
      BY <1>3, <2>2 DEF StopCuts
    <3>2. RootHeld' /\ (Driven => Driven')
      BY <2>1, <3>1 DEF DrivenInv, RootHeld, Driven
    <3>3. QED BY <2>1, <3>2, GoalsStay
  <2>3. CASE root # None
    <3> DEFINE e == [exec[root] EXCEPT !.aborted = TRUE]
    <3>1. root \in Exec /\ exec[root] \in ExecRow
      BY <2>3 DEF GoalInv, RunsOK, Exec
    <3>2. exec' = [exec EXCEPT ![root] = e]
      BY <1>3, <2>3 DEF StopCuts, GoalInv, RunsOK
    <3>3. e.pc = exec[root].pc
      BY <3>1 DEF ExecRow
    <3> HIDE DEF e
    <3>4. RootHeld'
      BY <2>1, <3>1, <3>2, <3>3, ExecMoves
    <3>5. Driven'
      BY <2>1, <2>3 DEF Driven
    <3>6. QED BY <2>1, <3>4, <3>5, GoalsStay
  <2>4. QED BY <2>2, <2>3
<1>4. CASE StartWrites
  BY <1>4, StartWritesDriven
<1>5. CASE StartTriggers
  <2>1. UNCHANGED <<goal, queue, exec, root, idler>> /\ trigger'
    BY <1>5 DEF StartTriggers
  <2>2. RootHeld'
    BY <2>1 DEF DrivenInv, RootHeld
  <2>3. QED BY <2>1, <2>2, TriggerDrives, GoalsStay
<1>6. QED BY <1>1, <1>2, <1>3, <1>4, <1>5 DEF Control

-----------------------------------------------------------------------------
LEMMA DrivenInit == Init => DrivenInv
<1> SUFFICES ASSUME Init PROVE DrivenInv
  OBVIOUS
<1>1. NoGoal.status = "absent" /\ NoGoal.pending = FALSE /\ NoExec.pc = "off"
      /\ NoIdler.pc = "off" /\ NoIdler.run = None
  BY DEF NoGoal, NoExec, NoIdler
<1>2. /\ \A g \in Goal : goal[g] = NoGoal
      /\ \A x \in Exec : exec[x] = NoExec
      /\ \A c \in Consumer : idler[c] = NoIdler
  BY DEF Init
<1>3. RootHeld /\ PendingHeld /\ BatchesHeld /\ RunsHeld
  BY <1>1, <1>2 DEF RootHeld, PendingHeld, BatchesHeld, RunsHeld, Exec
<1>4. ~Active
  BY <1>1, <1>2 DEF Active
<1>5. QED BY <1>3, <1>4 DEF Init, DrivenInv, QueueDriven, GoalDriven

LEMMA DrivenStep == GoalInv /\ DrivenInv /\ [Next]_vars => DrivenInv'
<1> SUFFICES ASSUME GoalInv, DrivenInv, [Next]_vars PROVE DrivenInv'
  OBVIOUS
<1>1. CASE UNCHANGED vars
  <2>1. UNCHANGED <<goal, queue, exec, root, idler, trigger, start>>
    BY <1>1 DEF vars
  <2>2. RootHeld' /\ (Driven => Driven')
    BY <2>1 DEF DrivenInv, RootHeld, Driven
  <2>3. QED BY <2>1, <2>2, GoalsStay
<1>2. ASSUME NEW c \in Consumer, Idle(c) PROVE DrivenInv'
  BY <1>2, IdleDriven
<1>3. ASSUME NEW x \in UserExec, UserRun(x) \/ StartRun(x) PROVE DrivenInv'
  BY <1>3, UserRunDriven, StartRunDriven
<1>4. ASSUME NEW x \in RootExec, Refresh(x) \/ RunEnds(x) PROVE DrivenInv'
  BY <1>4, RefreshDriven, RunEndsDriven
<1>5. ASSUME NEW x \in ChildExec,
             ChildRun(x) \/ ChildStarts(x) \/ ChildReports(x) \/ ChildCancelled(x) \/ ChildEnds(x)
      PROVE  DrivenInv'
  BY <1>5, ChildrenDriven
<1>6. ASSUME NEW x \in Exec, Capture(x) \/ Tools(x) PROVE DrivenInv'
  BY <1>6, CaptureDriven, ToolsDriven
<1>7. CASE Control
  BY <1>7, ControlDriven
<1>8. QED BY <1>1, <1>2, <1>3, <1>4, <1>5, <1>6, <1>7 DEF Next

\* The inductive invariant of what drives a session: reservations are held by a pass
\* under way, rows in the queue and an active goal by something that will look.
THEOREM DrivenInvariant == Spec => []DrivenInv
  BY DrivenInit, DrivenStep, GoalInvariant, PTL DEF Spec

LEMMA NothingDrives ==
  ASSUME AtRest
  PROVE  ~Driven /\ \A c \in Consumer : ~Collects(c) /\ ~Pursues(c)
<1>1. NoExec.pc = "off" /\ NoIdler.pc = "off" /\ NoUser.pc = "off"
  BY DEF NoExec, NoIdler, NoUser
<1>2. \A c \in Consumer : idler[c].pc = "off"
  BY <1>1 DEF AtRest
<1>3. \A x \in UserExec \cup ChildExec : exec[x].pc = "off"
  BY <1>1 DEF AtRest, Exec, RootExec
<1>4. QED BY <1>1, <1>2, <1>3 DEF AtRest, Driven, Collects, Pursues

\* With one pass of the consumer at a time, the session never comes to rest with an
\* active goal or a row in the queue (startSessionIdleRun, scheduleAutoTrigger).
THEOREM GoalNeverAsleep ==
  ASSUME OnePass
  PROVE  Spec => []ActiveGoalDriven
<1>1. GoalInv /\ DrivenInv => ActiveGoalDriven
  <2> SUFFICES ASSUME GoalInv, DrivenInv, AtRest
               PROVE  queue = {} /\ (Current # 0 => goal[Current].status # "active")
    BY DEF ActiveGoalDriven
  <2>1. queue = {}
    BY NothingDrives DEF DrivenInv, QueueDriven
  <2>2. ~Active
    BY NothingDrives DEF DrivenInv, GoalDriven
  <2>3. Current # 0 => goal[Current].status # "active"
    BY <2>2, CurrentGoal DEF Active
  <2>4. QED BY <2>1, <2>3
<1>2. QED BY <1>1, GoalInvariant, DrivenInvariant, PTL

\* However many passes overlap, no row for the root is left in the queue at rest
\* (claimIdleMessages, the release after a followup).
THEOREM QueueNeverAsleep == Spec => [](AtRest => queue = {})
<1>1. DrivenInv => (AtRest => queue = {})
  BY NothingDrives DEF DrivenInv, QueueDriven
<1>2. QED BY <1>1, DrivenInvariant, PTL

-----------------------------------------------------------------------------
(* The background tasks: types and the shape of the state.                  *)

USE TaskConstants

WriteRow ==
  {w \in [op : {"upsert", "notice", "settle"}, task : Task,
          status : {"running", "queued", "gone"} \cup Finished] :
     w.op = "upsert" => w.status \in {"running"} \cup Finished}
RefreshRow == [pc : {"rest", "wait", "expire", "read", "handle", "recover", "report"},
               why : {"asked", "start"}, left : Nat, rows : [Task -> Statuses \cup {"expired"}],
               todo : SUBSET Task, task : Task \cup {Nil},
               seen : {"none", "running", "completed", "failed"}]

TasksOK ==
  /\ memory \in [Instance -> [Task -> Statuses]]
  /\ owner \in [Task -> Instance \cup {Nil}]
  /\ work \in [Task -> {"new", "running", "closed", "ended", "reported", "over", "dead"}]
  /\ childRun \in [Agent -> {"none", "running", "completed", "failed"}]
  /\ outcome \in [Agent -> {"none", "completed", "failed"}]
  /\ result \in [Agent -> {"none", "completed", "failed"}]
RowsOK ==
  /\ table \in [Task -> Statuses \cup {"expired"}]
  /\ lapsed \subseteq {t \in Task : table[t] = "running"}
  /\ notice \in [Task -> {"none", "queued", "gone"}]
ServiceOK ==
  /\ chain \in [Instance -> Seq(WriteRow)]
  /\ broken \subseteq Instance
  /\ suppressed \in [Instance -> SUBSET Task] /\ pending \in [Instance -> SUBSET Task]

\* A refresh that waits counts writes that are in the chain; what it has still to
\* handle are rows it has read.
RefreshOK ==
  /\ refresh \in [Reader -> RefreshRow]
  /\ \A q \in Reader :
       /\ refresh[q].pc # "wait" => refresh[q].left = 0
       /\ refresh[q].pc = "wait" => refresh[q].left > 0
       /\ refresh[q].left <= Len(chain[Home[q]])
       /\ refresh[q].pc \in {"recover", "report"} => refresh[q].task \in Agent
       /\ \A t \in refresh[q].todo : refresh[q].rows[t] # "absent"

\* How far the work of a task is, against its owner and what the owner knows.
WorkOK == \A t \in Task :
  /\ owner[t] = Nil <=> work[t] \in {"new", "dead"}
  /\ work[t] = "closed" => t \in Command
  /\ work[t] \in {"ended", "reported"} => t \in Agent /\ outcome[t] # "none"
  /\ owner[t] # Nil => memory[owner[t]][t] # "absent"
  /\ work[t] \in {"closed", "over"} => memory[owner[t]][t] \in Finished
  /\ t \in cancelled => work[t] # "new"
  /\ (t \in cancelled /\ owner[t] # Nil) => memory[owner[t]][t] = "cancelled"

\* Nobody knows of a task that has not been started.
NewOK == \A t \in Task : work[t] = "new" =>
  /\ table[t] = "absent"
  /\ \A i \in Instance : memory[i][t] = "absent" /\ <<i, t>> \notin polled
  /\ \A q \in Reader : refresh[q].rows[t] = "absent"

TasksShape == TasksOK /\ RowsOK /\ ServiceOK /\ RefreshOK /\ WorkOK /\ NewOK

-----------------------------------------------------------------------------
\* What a chain becomes: longer at its end, shorter at its head, or empty.
Longer(j) ==
  /\ chain'[j] \in Seq(WriteRow)
  /\ Len(chain[j]) <= Len(chain'[j])
  /\ \A n \in 1..Len(chain[j]) : chain'[j][n] = chain[j][n]
Shorter(j) ==
  /\ chain'[j] \in Seq(WriteRow)
  /\ Len(chain[j]) > 0 /\ Len(chain'[j]) = Len(chain[j]) - 1
  /\ \A n \in 1..Len(chain'[j]) : chain'[j][n] = chain[j][n + 1]
Cleared(j) == chain'[j] = <<>> /\ \A t \in Task : owner'[t] # j

Added(j) == (Len(chain[j]) + 1)..Len(chain'[j])

LEMMA RowTypes ==
  ASSUME NEW t \in Task
  PROVE  /\ \A s \in {"running"} \cup Finished : Upsert(t, s) \in WriteRow
         /\ Notify(t) \in WriteRow /\ Settle(t) \in WriteRow
  BY DEF Upsert, Notify, Settle, WriteRow, Finished

LEMMA Appended ==
  ASSUME NEW s \in Seq(WriteRow), NEW w \in WriteRow
  PROVE  /\ Append(s, w) \in Seq(WriteRow) /\ Len(Append(s, w)) = Len(s) + 1
         /\ \A n \in 1..Len(s) : Append(s, w)[n] = s[n]
         /\ Append(s, w)[Len(s) + 1] = w
  BY DEF WriteRow

LEMMA AppendedTwice ==
  ASSUME NEW s \in Seq(WriteRow), NEW v \in WriteRow, NEW w \in WriteRow
  PROVE  LET r == Append(Append(s, v), w) IN
         /\ r \in Seq(WriteRow) /\ Len(r) = Len(s) + 2
         /\ \A n \in 1..Len(s) : r[n] = s[n]
         /\ r[Len(s) + 1] = v /\ r[Len(s) + 2] = w
<1> DEFINE a == Append(s, v)
           r == Append(a, w)
<1>1. /\ a \in Seq(WriteRow) /\ Len(a) = Len(s) + 1 /\ a[Len(s) + 1] = v
      /\ \A n \in 1..Len(s) : a[n] = s[n]
  BY Appended
<1> HIDE DEF a
<1>2. /\ r \in Seq(WriteRow) /\ Len(r) = Len(a) + 1 /\ r[Len(a) + 1] = w
      /\ \A n \in 1..Len(a) : r[n] = a[n]
  BY <1>1, Appended
<1> HIDE DEF r
<1>3. Len(s) \in Nat
  OBVIOUS
<1>4. r \in Seq(WriteRow) /\ Len(r) = Len(s) + 2 /\ r[Len(s) + 2] = w
  BY <1>1, <1>2, <1>3
<1>5. r[Len(s) + 1] = v /\ \A n \in 1..Len(s) : r[n] = s[n]
  BY <1>1, <1>2, <1>3
<1>6. QED BY <1>4, <1>5 DEF r, a

LEMMA Concatenated ==
  ASSUME NEW s \in Seq(WriteRow), NEW e \in Seq(WriteRow)
  PROVE  /\ s \o e \in Seq(WriteRow) /\ Len(s \o e) = Len(s) + Len(e)
         /\ \A n \in 1..Len(s) + Len(e) :
              (s \o e)[n] = IF n <= Len(s) THEN s[n] ELSE e[n - Len(s)]
<1> HIDE DEF WriteRow
<1>1. QED OBVIOUS

LEMMA Headed ==
  ASSUME NEW s \in Seq(WriteRow), s # <<>>
  PROVE  /\ Head(s) \in WriteRow /\ Head(s) = s[1] /\ 1 \in 1..Len(s)
         /\ Tail(s) \in Seq(WriteRow)
         /\ Len(Tail(s)) = Len(s) - 1 /\ Len(Tail(s)) \in Nat
         /\ \A n \in 1..Len(Tail(s)) : Tail(s)[n] = s[n + 1]
<1> HIDE DEF WriteRow
<1>1. QED OBVIOUS

LEMMA RenewalsAdded ==
  ASSUME TasksShape, NEW i \in Instance
  PROVE  LET r == WithRenewals(i) IN
         /\ r \in Seq(WriteRow) /\ Len(chain[i]) <= Len(r)
         /\ \A n \in 1..Len(chain[i]) : r[n] = chain[i][n]
         /\ \A n \in (Len(chain[i]) + 1)..Len(r) :
              \E t \in Renewed(i) : r[n] = Upsert(t, "running")
<1> DEFINE S == Renewed(i)
           f == SetToSeq(S)
           e == [n \in 1..Cardinality(S) |-> Upsert(f[n], "running")]
<1>1. S \subseteq Task /\ IsFiniteSet(S)
  BY FS_Subset DEF Renewed, Owned
<1>2. Cardinality(S) \in Nat /\ ExistsBijection(1..Cardinality(S), S)
  BY <1>1, FS_CardinalityType
<1>3. f \in [1..Cardinality(S) -> S]
  BY <1>2 DEF SetToSeq, ExistsBijection, Bijection, Injection
<1>4. \A n \in 1..Cardinality(S) : f[n] \in S /\ e[n] = Upsert(f[n], "running") /\ e[n] \in WriteRow
  BY <1>1, <1>3, RowTypes
<1> HIDE DEF f
<1>5. e \in Seq(WriteRow) /\ Len(e) = Cardinality(S)
  BY <1>2, <1>4
<1>6. chain[i] \in Seq(WriteRow)
  BY DEF TasksShape, ServiceOK
<1>7. WithRenewals(i) = chain[i] \o e
  BY DEF WithRenewals, f
<1> HIDE DEF e
<1>8. /\ chain[i] \o e \in Seq(WriteRow) /\ Len(chain[i] \o e) = Len(chain[i]) + Len(e)
      /\ \A n \in 1..Len(chain[i]) + Len(e) :
           (chain[i] \o e)[n] = IF n <= Len(chain[i]) THEN chain[i][n] ELSE e[n - Len(chain[i])]
  BY <1>5, <1>6, Concatenated
<1>9. \A n \in (Len(chain[i]) + 1)..(Len(chain[i]) + Len(e)) :
        \E t \in S : (chain[i] \o e)[n] = Upsert(t, "running")
  <2> TAKE n \in (Len(chain[i]) + 1)..(Len(chain[i]) + Len(e))
  <2>1. n - Len(chain[i]) \in 1..Cardinality(S) /\ n > Len(chain[i])
    BY <1>2, <1>5, <1>6
  <2>2. (chain[i] \o e)[n] = e[n - Len(chain[i])]
    BY <1>2, <1>5, <1>6, <1>8, <2>1
  <2>3. QED BY <1>4, <2>1, <2>2
<1>10. QED BY <1>2, <1>5, <1>6, <1>7, <1>8, <1>9

-----------------------------------------------------------------------------
(* What a step adds to the chains.                                         *)

\* Only chain i grows, by writes of W.
Grown(i, W) ==
  /\ chain' \in [Instance -> Seq(WriteRow)]
  /\ \A j \in Instance : Longer(j) /\ \A n \in Added(j) : j = i /\ chain'[j][n] \in W

LEMMA GrownNot ==
  ASSUME TasksShape, chain' = chain, NEW i
  PROVE  Grown(i, {})
  BY DEF TasksShape, ServiceOK, Grown, Longer, Added

LEMMA GrownByOne ==
  ASSUME TasksShape, NEW i \in Instance, NEW w \in WriteRow,
         chain' = [chain EXCEPT ![i] = Append(@, w)]
  PROVE  /\ Grown(i, {w})
         /\ Len(chain'[i]) = Len(chain[i]) + 1 /\ chain'[i][Len(chain[i]) + 1] = w
<1>1. chain \in [Instance -> Seq(WriteRow)]
  BY DEF TasksShape, ServiceOK
<1>2. chain' \in [Instance -> Seq(WriteRow)]
  BY <1>1, Appended
<1>3. \A j \in Instance : j # i => chain'[j] = chain[j]
  BY <1>1
<1>4. chain'[i] = Append(chain[i], w)
  BY <1>1
<1>5. /\ Len(chain'[i]) = Len(chain[i]) + 1 /\ chain'[i][Len(chain[i]) + 1] = w
      /\ \A n \in 1..Len(chain[i]) : chain'[i][n] = chain[i][n]
  BY <1>1, <1>4, Appended
<1>6. \A j \in Instance : Len(chain[j]) \in Nat
  BY <1>1
<1>7. QED BY <1>1, <1>2, <1>3, <1>5, <1>6 DEF Grown, Longer, Added

LEMMA GrownByTwo ==
  ASSUME TasksShape, NEW i \in Instance, NEW v \in WriteRow, NEW w \in WriteRow,
         chain' = [chain EXCEPT ![i] = Append(Append(@, v), w)]
  PROVE  /\ Grown(i, {v, w}) /\ Len(chain'[i]) = Len(chain[i]) + 2
         /\ chain'[i][Len(chain[i]) + 1] = v /\ chain'[i][Len(chain[i]) + 2] = w
<1>1. chain \in [Instance -> Seq(WriteRow)] /\ \A j \in Instance : Len(chain[j]) \in Nat
  BY DEF TasksShape, ServiceOK
<1>2. chain'[i] = Append(Append(chain[i], v), w) /\ \A j \in Instance : j # i => chain'[j] = chain[j]
  BY <1>1
<1>3. /\ chain'[i] \in Seq(WriteRow) /\ Len(chain'[i]) = Len(chain[i]) + 2
      /\ \A n \in 1..Len(chain[i]) : chain'[i][n] = chain[i][n]
      /\ chain'[i][Len(chain[i]) + 1] = v /\ chain'[i][Len(chain[i]) + 2] = w
  BY <1>1, <1>2, AppendedTwice
<1>4. chain' \in [Instance -> Seq(WriteRow)]
  BY <1>1, <1>2, <1>3
<1>5. Longer(i) /\ \A n \in Added(i) : chain'[i][n] \in {v, w}
  BY <1>1, <1>3 DEF Longer, Added
<1>6. QED BY <1>1, <1>2, <1>3, <1>4, <1>5 DEF Grown, Longer, Added

LEMMA GrownByRenewals ==
  ASSUME TasksShape, NEW i \in Instance, chain' = [chain EXCEPT ![i] = WithRenewals(i)]
  PROVE  Grown(i, {Upsert(t, "running") : t \in Renewed(i)})
<1>1. chain \in [Instance -> Seq(WriteRow)] /\ \A j \in Instance : Len(chain[j]) \in Nat
  BY DEF TasksShape, ServiceOK
<1>2. chain' \in [Instance -> Seq(WriteRow)]
  BY <1>1, RenewalsAdded
<1>3. \A j \in Instance : j # i => chain'[j] = chain[j]
  BY <1>1
<1>4. chain'[i] = WithRenewals(i)
  BY <1>1
<1>5. QED BY <1>1, <1>2, <1>3, <1>4, RenewalsAdded DEF Grown, Longer, Added

LEMMA ServiceGrows ==
  ASSUME TasksShape, NEW i, NEW W, Grown(i, W), broken' = broken, pending' = pending,
         suppressed' \in [Instance -> SUBSET Task]
  PROVE  ServiceOK'
  BY DEF TasksShape, ServiceOK, Grown

\* A refresh that waits still waits for writes of the chain.
LEMMA RefreshKept ==
  ASSUME TasksShape, refresh' = refresh, \A j \in Instance : Longer(j)
  PROVE  RefreshOK'
<1>1. \A q \in Reader : Home[q] \in Instance
  OBVIOUS
<1>2. \A j \in Instance : Len(chain[j]) \in Nat /\ Len(chain'[j]) \in Nat
  BY DEF TasksShape, ServiceOK, Longer
<1>3. \A q \in Reader : refresh[q].left <= Len(chain[Home[q]]) /\ refresh[q].left \in Nat
  BY DEF TasksShape, RefreshOK, RefreshRow
<1>4. \A q \in Reader : refresh[q].left <= Len(chain'[Home[q]])
  BY <1>1, <1>2, <1>3 DEF Longer
<1>5. QED BY <1>4 DEF TasksShape, RefreshOK

\* One refresh goes on, and the chains stay.
RefreshMove(r, q) ==
  /\ r \in RefreshRow
  /\ r.pc # "wait" /\ r.left = 0
  /\ r.pc \in {"recover", "report"} => r.task \in Agent
  /\ \A t \in r.todo : r.rows[t] # "absent"
LEMMA RefreshMoves ==
  ASSUME TasksShape, NEW q \in Reader, NEW r, RefreshMove(r, q),
         refresh' = [refresh EXCEPT ![q] = r], chain' = chain
  PROVE  RefreshOK'
<1>1. refresh' \in [Reader -> RefreshRow]
  BY DEF TasksShape, RefreshOK, RefreshMove
<1>2. \A p \in Reader : p # q => refresh'[p] = refresh[p]
  BY DEF TasksShape, RefreshOK
<1>3. refresh'[q] = r
  BY DEF TasksShape, RefreshOK
<1>4. Len(chain[Home[q]]) \in Nat
  BY DEF TasksShape, ServiceOK
<1>5. QED BY <1>1, <1>2, <1>3, <1>4 DEF TasksShape, RefreshOK, RefreshMove

LEMMA RefreshOf ==
  ASSUME TasksShape, NEW q \in Reader
  PROVE  /\ Home[q] \in Instance /\ refresh[q] \in RefreshRow
         /\ refresh[q].pc # "wait" => refresh[q].left = 0
         /\ refresh[q].pc \in {"recover", "report"} => refresh[q].task \in Agent
         /\ \A t \in refresh[q].todo : refresh[q].rows[t] # "absent"
  BY DEF TasksShape, RefreshOK

LEMMA OwnerOf ==
  ASSUME TasksShape, NEW t \in Task, work[t] \notin {"new", "dead"} \/ owner[t] # Nil
  PROVE  /\ owner[t] \in Instance /\ work[t] \notin {"new", "dead"}
         /\ memory[owner[t]][t] \in {"running"} \cup Finished
  BY DEF TasksShape, TasksOK, WorkOK, Statuses

LEMMA RestRow ==
  /\ RefreshRest \in RefreshRow /\ RefreshRest.pc = "rest" /\ RefreshRest.left = 0
  /\ RefreshRest.todo = {}
  BY DEF RefreshRest, RefreshRow, Statuses, Finished

LEMMA AskedRow ==
  ASSUME NEW r, r = [RefreshRest EXCEPT !.pc = "expire"]
                \/ r = [RefreshRest EXCEPT !.pc = "expire", !.why = "start"]
  PROVE  r \in RefreshRow /\ r.pc = "expire" /\ r.left = 0 /\ r.todo = {}
<1>1. CASE r = [RefreshRest EXCEPT !.pc = "expire"]
  BY <1>1 DEF RefreshRest, RefreshRow, Statuses, Finished
<1>2. CASE r = [RefreshRest EXCEPT !.pc = "expire", !.why = "start"]
  BY <1>2 DEF RefreshRest, RefreshRow, Statuses, Finished
<1>3. QED BY <1>1, <1>2

LEMMA WaitingRow ==
  ASSUME NEW n \in Nat, NEW r, r = [RefreshRest EXCEPT !.pc = "wait", !.left = n]
  PROVE  r \in RefreshRow /\ r.pc = "wait" /\ r.left = n /\ r.todo = {}
  BY DEF RefreshRest, RefreshRow, Statuses, Finished

LEMMA WaitedRow ==
  ASSUME NEW r \in RefreshRow, NEW n \in Nat
  PROVE  /\ [r EXCEPT !.pc = "expire", !.left = 0] \in RefreshRow
         /\ [r EXCEPT !.left = n] \in RefreshRow
  BY DEF RefreshRow

LEMMA PendingAt ==
  ASSUME TasksShape, NEW i \in Instance, NEW S \in SUBSET Task,
         pending' = [pending EXCEPT ![i] = S]
  PROVE  pending' \in [Instance -> SUBSET Task]
  BY DEF TasksShape, ServiceOK

LEMMA MemoryAt ==
  ASSUME TasksShape, NEW i \in Instance, NEW t \in Task, NEW s \in Statuses,
         memory' = [memory EXCEPT ![i][t] = s]
  PROVE  /\ memory' \in [Instance -> [Task -> Statuses]] /\ memory'[i][t] = s
         /\ \A j \in Instance, u \in Task : <<j, u>> # <<i, t>> => memory'[j][u] = memory[j][u]
  BY DEF TasksShape, TasksOK

\* What waits in a chain is about tasks that have been started.
ChainKnown ==
  \A i \in Instance : \A n \in 1..Len(chain[i]) : work[chain[i][n].task] # "new"


-----------------------------------------------------------------------------
(* The shape of the state is kept by each action.                          *)

LEMMA StartedShape ==
  ASSUME TasksShape, NEW i \in Instance, NEW t \in Task, Started(i, t)
  PROVE  TasksShape'
<1> USE DEF Started, MayStart, taskVars, rowVars, serviceVars, historyVars
<1>1. TasksOK'
  BY DEF TasksShape, TasksOK, RowsOK, RefreshOK, RefreshRow, WorkOK, Statuses, Finished
<1>2. RowsOK'
  BY DEF TasksShape, RowsOK, WorkOK, NewOK, Statuses, Finished
<1>3. ServiceOK'
  BY RowTypes, Appended DEF TasksShape, ServiceOK, Finished, TasksOK, RefreshOK, RefreshRow
<1>4. RefreshOK'
  BY RowTypes, Appended DEF TasksShape, RefreshOK, RefreshRow, ServiceOK, RowsOK, TasksOK, Finished
<1>5. WorkOK'
  BY DEF TasksShape, WorkOK, NewOK, TasksOK, Statuses, Finished
<1>6. NewOK'
  BY DEF TasksShape, NewOK, TasksOK, RowsOK, RefreshOK, RefreshRow, WorkOK
<1>7. QED BY <1>1, <1>2, <1>3, <1>4, <1>5, <1>6 DEF TasksShape

LEMMA SpawnThrowsShape ==
  ASSUME TasksShape, NEW i \in Instance, NEW t \in Task, SpawnThrows(i, t)
  PROVE  TasksShape'
<1> USE DEF SpawnThrows, MayStart, Published, Marked, Unheard, taskVars, rowVars, serviceVars, historyVars
<1>1. TasksOK'
  BY DEF TasksShape, TasksOK, RowsOK, RefreshOK, RefreshRow, WorkOK, Statuses, Finished
<1>2. RowsOK'
  BY DEF TasksShape, RowsOK, WorkOK, NewOK, Statuses, Finished
<1>3. ServiceOK'
  BY RowTypes, Appended DEF TasksShape, ServiceOK, Finished, TasksOK, RefreshOK, RefreshRow
<1>4. RefreshOK'
  BY RowTypes, Appended DEF TasksShape, RefreshOK, RefreshRow, ServiceOK, RowsOK, TasksOK, Finished
<1>5. WorkOK'
  BY DEF TasksShape, WorkOK, NewOK, TasksOK, Statuses, Finished
<1>6. NewOK'
  BY DEF TasksShape, NewOK, TasksOK, RowsOK, RefreshOK, RefreshRow, WorkOK
<1>7. QED BY <1>1, <1>2, <1>3, <1>4, <1>5, <1>6 DEF TasksShape

LEMMA PollsShape ==
  ASSUME TasksShape, NEW i \in Instance, NEW t \in Task, Polls(i, t)
  PROVE  TasksShape'
<1> USE DEF Polls, taskVars, rowVars, serviceVars, historyVars
<1>0. work[t] # "new"
  BY DEF TasksShape, NewOK, Finished
<1>1. TasksOK'
  BY DEF TasksShape, TasksOK, RowsOK, RefreshOK, RefreshRow, WorkOK, Statuses, Finished
<1>2. RowsOK'
  BY DEF TasksShape, RowsOK, WorkOK, NewOK, Statuses, Finished
<1>3. ServiceOK'
  BY RowTypes, Appended DEF TasksShape, ServiceOK, Finished, TasksOK, RefreshOK, RefreshRow
<1>4. RefreshOK'
  BY RowTypes, Appended DEF TasksShape, RefreshOK, RefreshRow, ServiceOK, RowsOK, TasksOK, Finished
<1>5. WorkOK'
  BY DEF TasksShape, WorkOK, NewOK, TasksOK, Statuses, Finished
<1>6. NewOK'
  BY <1>0 DEF TasksShape, NewOK, TasksOK
<1>7. QED BY <1>1, <1>2, <1>3, <1>4, <1>5, <1>6 DEF TasksShape

LEMMA ErrsShape ==
  ASSUME TasksShape, NEW t \in Task, Errs(t)
  PROVE  TasksShape'
<1> USE DEF Errs, Ends, taskVars, rowVars, serviceVars, historyVars
<1>0. owner[t] \in Instance /\ memory[owner[t]][t] \in {"running"} \cup Finished /\ work[t] # "new"
  BY OwnerOf
<1>g. \E W : Grown(owner[t], W)
  BY <1>0, GrownNot, GrownByOne, RowTypes DEF Finished
<1>m. memory' = [memory EXCEPT ![owner[t]][t] = "failed"] /\ memory[owner[t]][t] = "running"
  BY <1>0 DEF TasksShape, TasksOK, WorkOK
<1>1. TasksOK'
  <2>1. memory' \in [Instance -> [Task -> Statuses]]
    BY <1>0, <1>m DEF TasksShape, TasksOK, Statuses, Finished
  <2>2. QED BY <2>1 DEF TasksShape, TasksOK
<1>2. RowsOK'
  BY DEF TasksShape, RowsOK, WorkOK, NewOK, Statuses, Finished
<1>3. ServiceOK'
  BY <1>g, ServiceGrows DEF TasksShape, ServiceOK
<1>4. RefreshOK'
  BY <1>g, RefreshKept DEF Grown
<1>5. WorkOK'
  BY DEF TasksShape, WorkOK, NewOK, TasksOK, Statuses, Finished
<1>6. NewOK'
  <2>1. \A s \in Task, i \in Instance : s # t => memory'[i][s] = memory[i][s]
    BY <1>0, <1>m DEF TasksShape, TasksOK
  <2>2. QED BY <1>0, <2>1 DEF TasksShape, NewOK
<1>7. QED BY <1>1, <1>2, <1>3, <1>4, <1>5, <1>6 DEF TasksShape

LEMMA ClosesShape ==
  ASSUME TasksShape, NEW t \in Task, Closes(t)
  PROVE  TasksShape'
<1> USE DEF Closes, Ends, taskVars, rowVars, serviceVars, historyVars
<1>0. owner[t] \in Instance /\ memory[owner[t]][t] \in {"running"} \cup Finished /\ work[t] # "new"
  BY OwnerOf
<1>g. \E W : Grown(owner[t], W)
  BY <1>0, GrownNot, GrownByOne, RowTypes DEF Finished
<1>1. TasksOK'
  BY <1>0 DEF TasksShape, TasksOK, WorkOK, Statuses, Finished
<1>2. RowsOK'
  BY DEF TasksShape, RowsOK, WorkOK, NewOK, Statuses, Finished
<1>3. ServiceOK'
  BY <1>g, ServiceGrows DEF TasksShape, ServiceOK
<1>4. RefreshOK'
  BY <1>g, RefreshKept DEF Grown
<1>5. WorkOK'
  BY DEF TasksShape, WorkOK, NewOK, TasksOK, Statuses, Finished
<1>6. NewOK'
  BY <1>0 DEF TasksShape, NewOK, TasksOK
<1>7. QED BY <1>1, <1>2, <1>3, <1>4, <1>5, <1>6 DEF TasksShape

LEMMA FlushedShape ==
  ASSUME TasksShape, NEW t \in Task, Flushed(t)
  PROVE  TasksShape'
<1> USE DEF Flushed, Published, Marked, Unheard, taskVars, rowVars, serviceVars, historyVars
<1>1. TasksOK'
  BY DEF TasksShape, TasksOK, RowsOK, RefreshOK, RefreshRow, WorkOK, Statuses, Finished
<1>2. RowsOK'
  BY DEF TasksShape, RowsOK, WorkOK, NewOK, Statuses, Finished
<1>3. ServiceOK'
  BY RowTypes, Appended DEF TasksShape, ServiceOK, Finished, TasksOK, RefreshOK, RefreshRow
<1>4. RefreshOK'
  BY RowTypes, Appended DEF TasksShape, RefreshOK, RefreshRow, ServiceOK, RowsOK, TasksOK, Finished
<1>5. WorkOK'
  BY DEF TasksShape, WorkOK, NewOK, TasksOK, Statuses, Finished
<1>6. NewOK'
  BY DEF TasksShape, NewOK, TasksOK, RowsOK, RefreshOK, RefreshRow, WorkOK
<1>7. QED BY <1>1, <1>2, <1>3, <1>4, <1>5, <1>6 DEF TasksShape

LEMMA ChildRunEndsShape ==
  ASSUME TasksShape, NEW t \in Task, ChildRunEnds(t)
  PROVE  TasksShape'
<1> USE DEF ChildRunEnds, taskVars, rowVars, serviceVars, historyVars
<1>1. TasksOK'
  <2>1. childRun' \in [Agent -> {"none", "running", "completed", "failed"}]
    <3>1. CASE childRun[t] = "running"
      BY <3>1 DEF TasksShape, TasksOK
    <3>2. CASE childRun[t] # "running"
      BY <3>2 DEF TasksShape, TasksOK
    <3>3. QED BY <3>1, <3>2
  <2>2. outcome' \in [Agent -> {"none", "completed", "failed"}]
    BY DEF TasksShape, TasksOK
  <2>3. QED BY <2>1, <2>2 DEF TasksShape, TasksOK
<1>2. RowsOK'
  BY DEF TasksShape, RowsOK, WorkOK, NewOK, Statuses, Finished
<1>3. ServiceOK'
  BY RowTypes, Appended DEF TasksShape, ServiceOK, Finished, TasksOK, RefreshOK, RefreshRow
<1>4. RefreshOK'
  BY RowTypes, Appended DEF TasksShape, RefreshOK, RefreshRow, ServiceOK, RowsOK, TasksOK, Finished
<1>5. WorkOK'
  BY DEF TasksShape, WorkOK, NewOK, TasksOK, Statuses, Finished
<1>6. NewOK'
  BY DEF TasksShape, NewOK, TasksOK, RowsOK, RefreshOK, RefreshRow, WorkOK
<1>7. QED BY <1>1, <1>2, <1>3, <1>4, <1>5, <1>6 DEF TasksShape

LEMMA ReportsShape ==
  ASSUME TasksShape, NEW t \in Task, Reports(t)
  PROVE  TasksShape'
<1> USE DEF Reports, Told, Fault, taskVars, rowVars, serviceVars, historyVars
<1>0. t \in Agent /\ outcome[t] \in {"completed", "failed"}
  BY DEF TasksShape, WorkOK, TasksOK
<1>1. TasksOK'
  <2>1. outcome' \in [Agent -> {"none", "completed", "failed"}]
    BY DEF TasksShape, TasksOK
  <2>2. result' \in [Agent -> {"none", "completed", "failed"}]
    BY <1>0 DEF TasksShape, TasksOK
  <2>3. work' \in [Task -> {"new", "running", "closed", "ended", "reported", "over", "dead"}]
    BY DEF TasksShape, TasksOK
  <2>4. QED BY <2>1, <2>2, <2>3 DEF TasksShape, TasksOK
<1>2. RowsOK'
  BY DEF TasksShape, RowsOK, WorkOK, NewOK, Statuses, Finished
<1>3. ServiceOK'
  BY RowTypes, Appended DEF TasksShape, ServiceOK, Finished, TasksOK, RefreshOK, RefreshRow
<1>4. RefreshOK'
  BY RowTypes, Appended DEF TasksShape, RefreshOK, RefreshRow, ServiceOK, RowsOK, TasksOK, Finished
<1>5. WorkOK'
  BY DEF TasksShape, WorkOK, NewOK, TasksOK, Statuses, Finished
<1>6. NewOK'
  BY DEF TasksShape, NewOK, TasksOK, RowsOK, RefreshOK, RefreshRow, WorkOK
<1>7. QED BY <1>1, <1>2, <1>3, <1>4, <1>5, <1>6 DEF TasksShape

LEMMA ReturnsShape ==
  ASSUME TasksShape, NEW t \in Task, Returns(t)
  PROVE  TasksShape'
<1> USE DEF Returns, Published, Marked, Unheard, taskVars, rowVars, serviceVars, historyVars
<1>0. /\ owner[t] \in Instance /\ memory[owner[t]][t] \in {"running"} \cup Finished /\ work[t] # "new"
      /\ t \in Agent /\ outcome[t] \in {"completed", "failed"}
  BY OwnerOf DEF TasksShape, TasksOK, WorkOK
<1>m. memory' = memory \/ memory' = [memory EXCEPT ![owner[t]][t] = outcome[t]]
  OBVIOUS
<1>a. Upsert(t, outcome[t]) \in WriteRow /\ Notify(t) \in WriteRow
  BY <1>0, RowTypes DEF Finished
<1>c. \/ chain' = chain \/ chain' = [chain EXCEPT ![owner[t]] = Append(@, Upsert(t, outcome[t]))]
      \/ chain' = [chain EXCEPT ![owner[t]] = Append(Append(@, Upsert(t, outcome[t])), Notify(t))]
  BY <1>0 DEF TasksShape, ServiceOK
<1>g. \E W : Grown(owner[t], W)
  <2> HIDE DEF Returns
  <2>1. CASE chain' = chain
    BY <2>1, GrownNot
  <2>2. CASE chain' = [chain EXCEPT ![owner[t]] = Append(@, Upsert(t, outcome[t]))]
    BY <1>0, <1>a, <2>2, GrownByOne
  <2>3. CASE chain' = [chain EXCEPT ![owner[t]] = Append(Append(@, Upsert(t, outcome[t])), Notify(t))]
    <3>1. PICK i \in Instance, v \in WriteRow, w \in WriteRow :
            owner[t] = i /\ chain' = [chain EXCEPT ![i] = Append(Append(@, v), w)]
      BY <1>0, <1>a, <2>3
    <3>2. Grown(i, {v, w})
      BY <3>1, GrownByTwo
    <3>3. QED BY <3>1, <3>2
  <2>4. QED BY <1>c, <2>1, <2>2, <2>3
<1>n. /\ memory' \in [Instance -> [Task -> Statuses]]
      /\ \A j \in Instance, u \in Task : u # t => memory'[j][u] = memory[j][u]
  <2>1. CASE memory' = memory
    BY <2>1 DEF TasksShape, TasksOK
  <2>2. CASE memory' = [memory EXCEPT ![owner[t]][t] = outcome[t]]
    <3> HIDE DEF Returns
    <3>1. outcome[t] \in Statuses
      BY <1>0 DEF Statuses, Finished
    <3>2. QED BY <1>0, <2>2, <3>1 DEF TasksShape, TasksOK
  <2>3. QED BY <1>m, <2>1, <2>2
<1>1. TasksOK'
  BY <1>n DEF TasksShape, TasksOK
<1>2. RowsOK'
  BY DEF TasksShape, RowsOK, WorkOK, NewOK, Statuses, Finished
<1>3. ServiceOK'
  <2>1. suppressed \in [Instance -> SUBSET Task]
    BY DEF TasksShape, ServiceOK
  <2>2. \/ suppressed' = suppressed
        \/ suppressed' = [suppressed EXCEPT ![owner[t]] = @ \ {t}]
    BY <2>1
  <2>3. suppressed' \in [Instance -> SUBSET Task]
    BY <1>0, <2>1, <2>2
  <2>4. QED BY <1>g, <2>3, ServiceGrows
<1>4. RefreshOK'
  BY <1>g, RefreshKept DEF Grown
<1>5. WorkOK'
  <2>1. memory'[owner[t]][t] \in Finished
    BY <1>0 DEF TasksShape, TasksOK, WorkOK, Finished
  <2>2. t \in cancelled => memory'[owner[t]][t] = "cancelled"
    BY <1>0 DEF TasksShape, TasksOK, WorkOK
  <2>3. \A u \in Task : work'[u] = IF u = t THEN "over" ELSE work[u]
    BY DEF TasksShape, TasksOK
  <2>4. \A u \in Task : u # t /\ owner[u] # Nil => memory'[owner[u]][u] = memory[owner[u]][u]
    BY <1>n DEF TasksShape, TasksOK
  <2> HIDE DEF Returns
  <2>5. owner' = owner /\ outcome' = outcome /\ cancelled' = cancelled
    BY DEF Returns
  <2>6. QED BY <1>0, <2>1, <2>2, <2>3, <2>4, <2>5 DEF TasksShape, WorkOK, Finished, TasksOK
<1>6. NewOK'
  BY <1>0, <1>n DEF TasksShape, NewOK, TasksOK
<1>7. QED BY <1>1, <1>2, <1>3, <1>4, <1>5, <1>6 DEF TasksShape

LEMMA CancelsShape ==
  ASSUME TasksShape, NEW t \in Task, Cancels(t)
  PROVE  TasksShape'
<1> USE DEF Cancels, Ends, taskVars, rowVars, serviceVars, historyVars
<1>0. owner[t] \in Instance /\ memory[owner[t]][t] \in {"running"} \cup Finished /\ work[t] # "new"
  BY OwnerOf
<1>g. \E W : Grown(owner[t], W)
  BY <1>0, GrownNot, GrownByOne, RowTypes DEF Finished
<1>m. memory' = [memory EXCEPT ![owner[t]][t] = "cancelled"] /\ memory[owner[t]][t] = "running"
  BY <1>0 DEF TasksShape, TasksOK, WorkOK
<1>1. TasksOK'
  <2>1. memory' \in [Instance -> [Task -> Statuses]]
    BY <1>0, <1>m DEF TasksShape, TasksOK, Statuses, Finished
  <2>2. QED BY <2>1 DEF TasksShape, TasksOK
<1>2. RowsOK'
  BY DEF TasksShape, RowsOK, WorkOK, NewOK, Statuses, Finished
<1>3. ServiceOK'
  BY <1>g, ServiceGrows DEF TasksShape, ServiceOK
<1>4. RefreshOK'
  BY <1>g, RefreshKept DEF Grown
<1>5. WorkOK'
  BY DEF TasksShape, WorkOK, NewOK, TasksOK, Statuses, Finished
<1>6. NewOK'
  <2>1. \A s \in Task, i \in Instance : s # t => memory'[i][s] = memory[i][s]
    BY <1>0, <1>m DEF TasksShape, TasksOK
  <2>2. QED BY <1>0, <2>1 DEF TasksShape, NewOK
<1>7. QED BY <1>1, <1>2, <1>3, <1>4, <1>5, <1>6 DEF TasksShape

LEMMA NoticeTakenShape ==
  ASSUME TasksShape, NEW t \in Task, NoticeTaken(t)
  PROVE  TasksShape'
<1> USE DEF NoticeTaken, taskVars, rowVars, serviceVars, historyVars
<1>1. TasksOK'
  BY DEF TasksShape, TasksOK, RowsOK, RefreshOK, RefreshRow, WorkOK, Statuses, Finished
<1>2. RowsOK'
  BY DEF TasksShape, RowsOK, WorkOK, NewOK, Statuses, Finished
<1>3. ServiceOK'
  BY RowTypes, Appended DEF TasksShape, ServiceOK, Finished, TasksOK, RefreshOK, RefreshRow
<1>4. RefreshOK'
  BY RowTypes, Appended DEF TasksShape, RefreshOK, RefreshRow, ServiceOK, RowsOK, TasksOK, Finished
<1>5. WorkOK'
  BY DEF TasksShape, WorkOK, NewOK, TasksOK, Statuses, Finished
<1>6. NewOK'
  BY DEF TasksShape, NewOK, TasksOK, RowsOK, RefreshOK, RefreshRow, WorkOK
<1>7. QED BY <1>1, <1>2, <1>3, <1>4, <1>5, <1>6 DEF TasksShape

LEMMA LeaseLapsesShape ==
  ASSUME TasksShape, NEW t \in Task, LeaseLapses(t)
  PROVE  TasksShape'
<1> USE DEF LeaseLapses, Fault, taskVars, rowVars, serviceVars, historyVars
<1>1. TasksOK'
  BY DEF TasksShape, TasksOK, RowsOK, RefreshOK, RefreshRow, WorkOK, Statuses, Finished
<1>2. RowsOK'
  BY DEF TasksShape, RowsOK, WorkOK, NewOK, Statuses, Finished
<1>3. ServiceOK'
  BY RowTypes, Appended DEF TasksShape, ServiceOK, Finished, TasksOK, RefreshOK, RefreshRow
<1>4. RefreshOK'
  BY RowTypes, Appended DEF TasksShape, RefreshOK, RefreshRow, ServiceOK, RowsOK, TasksOK, Finished
<1>5. WorkOK'
  BY DEF TasksShape, WorkOK, NewOK, TasksOK, Statuses, Finished
<1>6. NewOK'
  BY DEF TasksShape, NewOK, TasksOK, RowsOK, RefreshOK, RefreshRow, WorkOK
<1>7. QED BY <1>1, <1>2, <1>3, <1>4, <1>5, <1>6 DEF TasksShape

LEMMA HeartbeatShape ==
  ASSUME TasksShape, NEW i \in Instance, Heartbeat(i)
  PROVE  TasksShape'
<1> USE DEF Heartbeat, taskVars, rowVars, serviceVars, historyVars
<1>g. Grown(i, {Upsert(t, "running") : t \in Renewed(i)})
  BY GrownByRenewals
<1>1. TasksOK'
  BY DEF TasksShape, TasksOK, RowsOK, RefreshOK, RefreshRow, WorkOK, Statuses, Finished
<1>2. RowsOK'
  BY DEF TasksShape, RowsOK, WorkOK, NewOK, Statuses, Finished
<1>3. ServiceOK'
  BY <1>g, ServiceGrows DEF TasksShape, ServiceOK
<1>4. RefreshOK'
  BY <1>g, RefreshKept DEF Grown
<1>5. WorkOK'
  BY DEF TasksShape, WorkOK, NewOK, TasksOK, Statuses, Finished
<1>6. NewOK'
  BY DEF TasksShape, NewOK, TasksOK, RowsOK, RefreshOK, RefreshRow, WorkOK
<1>7. QED BY <1>1, <1>2, <1>3, <1>4, <1>5, <1>6 DEF TasksShape

LEMMA ChainWritesShape ==
  ASSUME TasksShape, ChainKnown, NEW i \in Instance, ChainWrites(i)
  PROVE  TasksShape'
<1> USE DEF ChainWrites, Done, Failed, Fault, Awaited, taskVars, rowVars, serviceVars, historyVars
<1> DEFINE w == Head(chain[i])
           rest == Tail(chain[i])
<1>0. /\ chain[i] \in Seq(WriteRow) /\ chain[i] # <<>>
      /\ w \in WriteRow /\ rest \in Seq(WriteRow)
      /\ Len(rest) = Len(chain[i]) - 1 /\ Len(rest) \in Nat
      /\ w = chain[i][1] /\ 1 \in 1..Len(chain[i])
  <2>1. chain[i] \in Seq(WriteRow) /\ chain[i] # <<>>
    BY DEF TasksShape, ServiceOK
  <2>2. QED BY <2>1, Headed
<1>a. w.task \in Task /\ work[w.task] # "new" /\ (w.op = "upsert" => w.status \in {"running"} \cup Finished)
  <2> HIDE DEF ChainWrites, w
  <2>1. w \in WriteRow /\ work[w.task] # "new"
    BY <1>0 DEF ChainKnown
  <2>2. QED BY <2>1 DEF WriteRow
<1>b. chain' = [chain EXCEPT ![i] = rest]
  OBVIOUS
<1>c. \/ table' = table /\ lapsed' = lapsed
      \/ w.op = "upsert" /\ table' = [table EXCEPT ![w.task] = w.status] /\ lapsed' = lapsed \ {w.task}
  OBVIOUS
<1>d. notice' \in [Task -> {"none", "queued", "gone"}]
  <2>1. Done(i, w) \/ Failed(i, w)
    OBVIOUS
  <2> HIDE DEF ChainWrites, Done, Failed, w
  <2>2. CASE Done(i, w)
    BY <1>a, <2>2 DEF Done, TasksShape, RowsOK
  <2>3. CASE Failed(i, w)
    BY <2>3 DEF Failed, TasksShape, RowsOK
  <2>4. QED BY <2>1, <2>2, <2>3
<1>e. refresh' = [q \in Reader |-> IF Home[q] = i
                    THEN Awaited(q, faults' # faults /\ w.op = "upsert") ELSE refresh[q]]
  OBVIOUS
<1> HIDE DEF w, rest, ChainWrites, Awaited
<1>1. TasksOK'
  BY DEF TasksShape, TasksOK, ChainWrites
<1>2. RowsOK'
  BY <1>a, <1>c, <1>d DEF TasksShape, RowsOK, Statuses, Finished
<1>3. ServiceOK'
  BY <1>0, <1>b DEF TasksShape, ServiceOK, ChainWrites
<1>4. RefreshOK'
  <2>1. \A q \in Reader : Home[q] # i =>
          refresh'[q] = refresh[q] /\ Len(chain'[Home[q]]) = Len(chain[Home[q]])
    BY <1>b, <1>e DEF TasksShape, ServiceOK
  <2>2. ASSUME NEW q \in Reader, Home[q] = i
        PROVE  /\ refresh'[q] \in RefreshRow /\ refresh'[q].left <= Len(chain'[i])
               /\ refresh'[q].pc # "wait" => refresh'[q].left = 0
               /\ refresh'[q].pc = "wait" => refresh'[q].left > 0
               /\ refresh'[q].pc \in {"recover", "report"} => refresh'[q].task \in Agent
               /\ \A t \in refresh'[q].todo : refresh'[q].rows[t] # "absent"
    <3>1. Len(chain'[i]) = Len(chain[i]) - 1 /\ Len(chain[i]) \in Nat /\ Len(chain'[i]) \in Nat
      BY <1>0, <1>b DEF TasksShape, ServiceOK
    <3>2. /\ refresh[q].left <= Len(chain[i]) /\ refresh[q].left \in Nat
          /\ refresh[q].pc # "wait" => refresh[q].left = 0
          /\ refresh[q].pc = "wait" => refresh[q].left > 0
      BY <2>2 DEF TasksShape, RefreshOK, RefreshRow
    <3>r. refresh[q] \in RefreshRow /\ \A t \in refresh[q].todo : refresh[q].rows[t] # "absent"
      BY RefreshOf
    <3>3. CASE refresh'[q] = refresh[q] /\ refresh[q].pc # "wait"
      BY <3>1, <3>2, <3>3, RefreshOf
    <3>4. CASE refresh'[q] = [refresh[q] EXCEPT !.left = @ - 1] /\ refresh[q].pc = "wait" /\ refresh[q].left > 1
      <4>1. /\ refresh'[q].pc = "wait" /\ refresh'[q].left = refresh[q].left - 1
            /\ refresh'[q].todo = refresh[q].todo /\ refresh'[q].rows = refresh[q].rows
        BY <3>r, <3>4 DEF RefreshRow
      <4>2. refresh[q].left - 1 \in Nat /\ refresh[q].left - 1 > 0
        BY <3>2, <3>4
      <4>3. refresh'[q] \in RefreshRow
        BY <3>r, <3>4, <4>2 DEF RefreshRow
      <4>4. QED BY <3>1, <3>2, <3>r, <4>1, <4>2, <4>3
    <3>5. CASE refresh'[q] = RefreshRest
      BY <3>1, <3>5, RestRow
    <3>6. CASE refresh'[q] = [refresh[q] EXCEPT !.pc = "expire", !.left = 0]
      <4>1. /\ refresh'[q].pc = "expire" /\ refresh'[q].left = 0
            /\ refresh'[q].todo = refresh[q].todo /\ refresh'[q].rows = refresh[q].rows
        BY <3>r, <3>6 DEF RefreshRow
      <4>2. refresh'[q] \in RefreshRow
        BY <3>r, <3>6, WaitedRow
      <4>3. QED BY <3>1, <3>r, <4>1, <4>2
    <3>7. QED BY <1>e, <2>2, <3>3, <3>4, <3>5, <3>6 DEF Awaited
  <2>3. refresh' \in [Reader -> RefreshRow]
    BY <1>e, <2>1, <2>2, RefreshOf
  <2>4. QED BY <2>1, <2>2, <2>3 DEF TasksShape, RefreshOK
<1>5. WorkOK'
  BY DEF TasksShape, WorkOK, ChainWrites
<1>6. NewOK'
  <2>1. \A q \in Reader, t \in Task : refresh[q].rows[t] = "absent" => refresh'[q].rows[t] = "absent"
    <3>1. \A q \in Reader : \A failed :
            Awaited(q, failed).rows = refresh[q].rows \/ Awaited(q, failed) = RefreshRest
      BY RefreshOf DEF Awaited, RefreshRow
    <3>2. QED BY <1>e, <3>1 DEF RefreshRest
  <2>2. \A t \in Task : work[t] = "new" => table'[t] = table[t]
    BY <1>a, <1>c DEF TasksShape, RowsOK
  <2>3. QED BY <2>1, <2>2 DEF TasksShape, NewOK, ChainWrites
<1>7. QED BY <1>1, <1>2, <1>3, <1>4, <1>5, <1>6 DEF TasksShape

LEMMA CrashShape ==
  ASSUME TasksShape, NEW i \in Instance, Crash(i)
  PROVE  TasksShape'
<1> USE DEF Crash, RefreshRest, taskVars, rowVars, serviceVars, historyVars
<1> HIDE DEF RefreshRest
<1>1. TasksOK'
  BY DEF TasksShape, TasksOK, RowsOK, RefreshOK, RefreshRow, WorkOK, Statuses, Finished
<1>2. RowsOK'
  BY DEF TasksShape, RowsOK, WorkOK, NewOK, Statuses, Finished
<1>3. ServiceOK'
  BY RowTypes, Appended DEF TasksShape, ServiceOK, Finished, TasksOK, RefreshOK, RefreshRow
<1>4. RefreshOK'
  <2>1. \A q \in Reader : Home[q] = i =>
          \/ refresh'[q] = RefreshRest
          \/ refresh'[q] = [RefreshRest EXCEPT !.pc = "expire", !.why = "start"]
    OBVIOUS
  <2>2. \A q \in Reader : Home[q] # i =>
          refresh'[q] = refresh[q] /\ Len(chain'[Home[q]]) = Len(chain[Home[q]])
    BY DEF TasksShape, ServiceOK
  <2>3. \A q \in Reader : Home[q] = i => RefreshMove(refresh'[q], q) /\ Len(chain'[Home[q]]) = 0
    <3>1. Len(chain'[i]) = 0
      BY DEF TasksShape, ServiceOK
    <3> HIDE DEF Crash
    <3>2. \A q \in Reader : Home[q] = i =>
            /\ refresh'[q] \in RefreshRow /\ refresh'[q].left = 0 /\ refresh'[q].todo = {}
            /\ refresh'[q].pc \in {"rest", "expire"}
      BY <2>1, RestRow, AskedRow
    <3>3. QED BY <3>1, <3>2 DEF RefreshMove
  <2>4. refresh' \in [Reader -> RefreshRow]
    <3>1. PICK first \in Reader : refresh' = [q \in Reader |->
                   IF q = first THEN [RefreshRest EXCEPT !.pc = "expire", !.why = "start"]
                   ELSE IF Home[q] = i THEN RefreshRest ELSE refresh[q]]
      OBVIOUS
    <3>2. \A q \in Reader : refresh'[q] \in RefreshRow
      BY <2>2, <2>3, RefreshOf DEF RefreshMove
    <3>3. QED BY <3>1, <3>2
  <2> HIDE DEF Crash
  <2>5. QED BY <2>2, <2>3, <2>4 DEF TasksShape, RefreshOK, RefreshMove
<1>5. WorkOK'
  BY DEF TasksShape, WorkOK, NewOK, TasksOK, Statuses, Finished
<1>6. NewOK'
  BY DEF TasksShape, NewOK, TasksOK, RowsOK, RefreshOK, RefreshRow, WorkOK, RefreshRest
<1>7. QED BY <1>1, <1>2, <1>3, <1>4, <1>5, <1>6 DEF TasksShape

LEMMA AsksShape ==
  ASSUME TasksShape, NEW q \in Reader, Asks(q)
  PROVE  TasksShape'
<1> USE DEF Asks, taskVars, rowVars, serviceVars, historyVars
<1>0. Home[q] \in Instance /\ chain' = [chain EXCEPT ![Home[q]] = WithRenewals(Home[q])]
  OBVIOUS
<1>g. Grown(Home[q], {Upsert(t, "running") : t \in Renewed(Home[q])})
  BY <1>0, GrownByRenewals
<1>1. TasksOK'
  BY DEF TasksShape, TasksOK, RowsOK, RefreshOK, RefreshRow, WorkOK, Statuses, Finished
<1>2. RowsOK'
  BY DEF TasksShape, RowsOK, WorkOK, NewOK, Statuses, Finished
<1>3. ServiceOK'
  BY <1>g, ServiceGrows DEF TasksShape, ServiceOK
<1>4. RefreshOK'
  <2>1. chain'[Home[q]] = WithRenewals(Home[q]) /\ chain'[Home[q]] \in Seq(WriteRow)
    BY <1>0, <1>g DEF TasksShape, ServiceOK, Grown
  <2> DEFINE r == refresh'[q]
             len == Len(chain'[Home[q]])
  <2>2. \/ r = [RefreshRest EXCEPT !.pc = "wait", !.left = len] /\ chain'[Home[q]] # <<>>
        \/ r = RefreshRest
        \/ r = [RefreshRest EXCEPT !.pc = "expire"]
    BY <2>1 DEF TasksShape, RefreshOK
  <2>3. len \in Nat /\ (chain'[Home[q]] # <<>> => len > 0)
    BY <2>1, EmptySeq
  <2>4. \A p \in Reader : p # q => refresh'[p] = refresh[p]
    BY DEF TasksShape, RefreshOK
  <2> HIDE DEF Asks, r, len
  <2>5. /\ r \in RefreshRow /\ r.left <= len /\ r.todo = {}
        /\ r.pc # "wait" => r.left = 0
        /\ r.pc = "wait" => r.left > 0
        /\ r.pc \notin {"recover", "report"}
    <3>1. CASE r = [RefreshRest EXCEPT !.pc = "wait", !.left = len] /\ chain'[Home[q]] # <<>>
      <4>1. r \in RefreshRow /\ r.pc = "wait" /\ r.left = len /\ r.todo = {}
        BY <2>3, <3>1 DEF RefreshRest, RefreshRow, Statuses, Finished
      <4>2. QED BY <2>3, <3>1, <4>1
    <3>2. CASE r = RefreshRest
      BY <2>3, <3>2, RestRow
    <3>3. CASE r = [RefreshRest EXCEPT !.pc = "expire"]
      <4>1. r \in RefreshRow /\ r.pc = "expire" /\ r.left = 0 /\ r.todo = {}
        BY <3>3, AskedRow
      <4>2. QED BY <2>3, <4>1
    <3>4. QED BY <2>2, <3>1, <3>2, <3>3
  <2>6. refresh' \in [Reader -> RefreshRow]
    BY <2>4, <2>5 DEF TasksShape, RefreshOK, r, Asks
  <2>7. \A p \in Reader : /\ refresh[p].left \in Nat /\ refresh[p].left <= Len(chain[Home[p]])
                            /\ Len(chain[Home[p]]) \in Nat /\ Len(chain'[Home[p]]) \in Nat
                            /\ Len(chain[Home[p]]) <= Len(chain'[Home[p]])
    BY <1>g DEF TasksShape, RefreshOK, RefreshRow, ServiceOK, Grown, Longer
  <2> HIDE DEF Asks, r, len
  <2>8. QED BY <2>4, <2>5, <2>6, <2>7 DEF TasksShape, RefreshOK, r, len
<1>5. WorkOK'
  BY DEF TasksShape, WorkOK, NewOK, TasksOK, Statuses, Finished
<1>6. NewOK'
  BY DEF TasksShape, NewOK, TasksOK, RowsOK, RefreshOK, RefreshRow, WorkOK, RefreshRest
<1>7. QED BY <1>1, <1>2, <1>3, <1>4, <1>5, <1>6 DEF TasksShape

LEMMA ExpiresShape ==
  ASSUME TasksShape, NEW q \in Reader, Expires(q)
  PROVE  TasksShape'
<1> USE DEF Expires, Noted, Expired, taskVars, rowVars, serviceVars, historyVars
<1>0. refresh[q] \in RefreshRow /\ refresh[q].left = 0 /\ \A t \in refresh[q].todo : refresh[q].rows[t] # "absent"
  BY RefreshOf
<1>1. TasksOK'
  BY DEF TasksShape, TasksOK, RowsOK, RefreshOK, RefreshRow, WorkOK, Statuses, Finished
<1>2. RowsOK'
  BY DEF TasksShape, RowsOK, WorkOK, NewOK, Statuses, Finished
<1>3. ServiceOK'
  BY DEF TasksShape, ServiceOK, RowsOK
<1>4. RefreshOK'
  <2>1. RefreshMove([refresh[q] EXCEPT !.pc = "read"], q)
    BY <1>0 DEF RefreshMove, RefreshRow
  <2>2. QED BY <2>1, RefreshMoves
<1>5. WorkOK'
  BY DEF TasksShape, WorkOK, NewOK, TasksOK, Statuses, Finished
<1>6. NewOK'
  BY DEF TasksShape, NewOK, TasksOK, RowsOK, RefreshOK, RefreshRow, WorkOK
<1>7. QED BY <1>1, <1>2, <1>3, <1>4, <1>5, <1>6 DEF TasksShape

LEMMA ReadsShape ==
  ASSUME TasksShape, NEW q \in Reader, Reads(q)
  PROVE  TasksShape'
<1> USE DEF Reads, taskVars, rowVars, serviceVars, historyVars
<1>0. refresh[q] \in RefreshRow /\ refresh[q].left = 0 /\ \A t \in refresh[q].todo : refresh[q].rows[t] # "absent"
  BY RefreshOf
<1>1. TasksOK'
  BY DEF TasksShape, TasksOK, RowsOK, RefreshOK, RefreshRow, WorkOK, Statuses, Finished
<1>2. RowsOK'
  BY DEF TasksShape, RowsOK, WorkOK, NewOK, Statuses, Finished
<1>3. ServiceOK'
  BY RowTypes, Appended DEF TasksShape, ServiceOK, Finished, TasksOK, RefreshOK, RefreshRow
<1>4. RefreshOK'
  <2>1. RefreshMove([refresh[q] EXCEPT !.pc = "handle", !.rows = table,
                                       !.todo = {t \in Task : table[t] # "absent"}], q)
    BY <1>0 DEF RefreshMove, RefreshRow, TasksShape, RowsOK
  <2>2. QED BY <2>1, RefreshMoves
<1>5. WorkOK'
  BY DEF TasksShape, WorkOK, NewOK, TasksOK, Statuses, Finished
<1>6. NewOK'
  BY DEF TasksShape, NewOK, TasksOK, RowsOK, RefreshOK, RefreshRow, WorkOK
<1>7. QED BY <1>1, <1>2, <1>3, <1>4, <1>5, <1>6 DEF TasksShape

\* A refresh turns to the recovery of a child.
LEMMA RecoveryMove ==
  ASSUME NEW r \in RefreshRow, r.left = 0, \A s \in r.todo : r.rows[s] # "absent",
         NEW t \in Agent, NEW q
  PROVE  RefreshMove([r EXCEPT !.todo = @ \ {t}, !.pc = "recover", !.task = t], q)
<1> DEFINE m == [r EXCEPT !.todo = @ \ {t}, !.pc = "recover", !.task = t]
<1>1. m \in RefreshRow
  BY DEF RefreshRow, Task
<1>2. m.pc = "recover" /\ m.task = t /\ m.left = 0 /\ m.todo \subseteq r.todo /\ m.rows = r.rows
  BY DEF RefreshRow
<1> HIDE DEF m
<1>3. RefreshMove(m, q)
  BY <1>1, <1>2 DEF RefreshMove
<1>4. QED BY <1>3 DEF m

LEMMA HandlesShape ==
  ASSUME TasksShape, NEW q \in Reader, NEW t \in Task, Handles(q, t)
  PROVE  TasksShape'
<1> USE DEF Handles, Kept, Candidates, taskVars, rowVars, serviceVars, historyVars
<1>0. /\ refresh[q] \in RefreshRow /\ refresh[q].left = 0 /\ Home[q] \in Instance
      /\ \A s \in refresh[q].todo : refresh[q].rows[s] # "absent"
  BY RefreshOf
<1>a. Status(refresh[q].rows[t]) \in {"running"} \cup Finished
  BY <1>0 DEF RefreshRow, Statuses, Finished, Status
<1>b. refresh[q].rows[t] # "absent" /\ work[t] # "new"
  BY <1>0 DEF TasksShape, NewOK
<1>m. \/ memory' = memory
      \/ memory' = [memory EXCEPT ![Home[q]][t] = Status(refresh[q].rows[t])] /\ owner[t] # Home[q]
  OBVIOUS
<1>n. /\ owner[t] = Home[q] => memory' = memory
      /\ \A j \in Instance, u \in Task : j # Home[q] \/ u # t => memory'[j][u] = memory[j][u]
  <2>1. CASE memory' = memory
    BY <2>1
  <2>2. CASE /\ memory' = [memory EXCEPT ![Home[q]][t] = Status(refresh[q].rows[t])]
             /\ owner[t] # Home[q]
    <3> HIDE DEF Handles
    <3>1. QED BY <1>0, <1>a, <2>2, MemoryAt DEF Statuses
  <2>3. QED BY <1>m, <2>1, <2>2
<1>1. TasksOK'
  <2>1. CASE memory' = memory
    BY <2>1 DEF TasksShape, TasksOK
  <2>2. CASE memory' = [memory EXCEPT ![Home[q]][t] = Status(refresh[q].rows[t])]
    <3>1. memory' \in [Instance -> [Task -> Statuses]]
      <4> HIDE DEF Handles
      <4>1. QED BY <1>0, <1>a, <2>2, MemoryAt DEF Statuses
    <3>2. QED BY <3>1 DEF TasksShape, TasksOK
  <2>3. QED BY <1>m, <2>1, <2>2
<1>2. RowsOK'
  BY DEF TasksShape, RowsOK, WorkOK, NewOK, Statuses, Finished
<1>3. ServiceOK'
  <2>1. \E S \in SUBSET Task : pending' = pending \/ pending' = [pending EXCEPT ![Home[q]] = S]
    BY <1>0 DEF TasksShape, ServiceOK
  <2>2. QED BY <1>0, <2>1, PendingAt DEF TasksShape, ServiceOK
<1>4. RefreshOK'
  <2>1. RefreshMove([refresh[q] EXCEPT !.todo = @ \ {t}], q)
    BY <1>0 DEF RefreshMove, RefreshRow
  <2>2. t \in Agent =>
          RefreshMove([refresh[q] EXCEPT !.todo = @ \ {t}, !.pc = "recover", !.task = t], q)
    <3> HIDE DEF Handles
    <3>1. QED BY <1>0, RecoveryMove
  <2> DEFINE r == [refresh[q] EXCEPT !.todo = @ \ {t}]
             m == [refresh[q] EXCEPT !.todo = @ \ {t}, !.pc = "recover", !.task = t]
  <2>3. /\ chain' = chain
        /\ refresh' = [refresh EXCEPT ![q] = r] \/ (t \in Agent /\ refresh' = [refresh EXCEPT ![q] = m])
    OBVIOUS
  <2> HIDE DEF Handles, r, m
  <2>4. CASE refresh' = [refresh EXCEPT ![q] = r]
    <3>1. RefreshMove(r, q)
      BY <2>1 DEF r
    <3>2. QED BY <2>3, <2>4, <3>1, RefreshMoves
  <2>5. CASE t \in Agent /\ refresh' = [refresh EXCEPT ![q] = m]
    <3>1. RefreshMove(m, q)
      BY <2>2, <2>5 DEF m
    <3>2. QED BY <2>3, <2>5, <3>1, RefreshMoves
  <2>6. QED BY <2>3, <2>4, <2>5
<1>5. WorkOK'
  <2>1. \A s \in Task : owner[s] # Nil => memory'[owner[s]][s] = memory[owner[s]][s]
    BY <1>n DEF TasksShape, TasksOK
  <2>2. QED BY <2>1 DEF TasksShape, WorkOK
<1>6. NewOK'
  <2>1. \A s \in Task, i \in Instance : work[s] = "new" => memory'[i][s] = memory[i][s]
    BY <1>b, <1>n
  <2>2. \A p \in Reader : refresh'[p].rows = refresh[p].rows
    <3>1. \E r : refresh' = [refresh EXCEPT ![q] = r] /\ r.rows = refresh[q].rows
      BY <1>0 DEF RefreshRow
    <3>2. QED BY <3>1 DEF TasksShape, RefreshOK
  <2>3. QED BY <2>1, <2>2 DEF TasksShape, NewOK
<1>7. QED BY <1>1, <1>2, <1>3, <1>4, <1>5, <1>6 DEF TasksShape

LEMMA RecoversShape ==
  ASSUME TasksShape, NEW q \in Reader, Recovers(q)
  PROVE  TasksShape'
<1> USE DEF Recovers, taskVars, rowVars, serviceVars, historyVars
<1>0. refresh[q] \in RefreshRow /\ refresh[q].left = 0 /\ refresh[q].task \in Agent
      /\ \A t \in refresh[q].todo : refresh[q].rows[t] # "absent"
  BY RefreshOf
<1>1. TasksOK'
  BY DEF TasksShape, TasksOK, RowsOK, RefreshOK, RefreshRow, WorkOK, Statuses, Finished
<1>2. RowsOK'
  BY DEF TasksShape, RowsOK, WorkOK, NewOK, Statuses, Finished
<1>3. ServiceOK'
  BY RowTypes, Appended DEF TasksShape, ServiceOK, Finished, TasksOK, RefreshOK, RefreshRow
<1>4. RefreshOK'
  <2>1. RefreshMove([refresh[q] EXCEPT !.pc = "report", !.seen = childRun[refresh[q].task]], q)
    BY <1>0 DEF RefreshMove, RefreshRow, TasksShape, TasksOK
  <2>2. QED BY <2>1, RefreshMoves
<1>5. WorkOK'
  BY DEF TasksShape, WorkOK, NewOK, TasksOK, Statuses, Finished
<1>6. NewOK'
  BY DEF TasksShape, NewOK, TasksOK, RowsOK, RefreshOK, RefreshRow, WorkOK
<1>7. QED BY <1>1, <1>2, <1>3, <1>4, <1>5, <1>6 DEF TasksShape

LEMMA InterruptsShape ==
  ASSUME TasksShape, NEW q \in Reader, Interrupts(q)
  PROVE  TasksShape'
<1> USE DEF Interrupts, taskVars, rowVars, serviceVars, historyVars
<1>0. refresh[q] \in RefreshRow /\ refresh[q].left = 0 /\ refresh[q].task \in Agent
      /\ \A t \in refresh[q].todo : refresh[q].rows[t] # "absent"
  BY RefreshOf
<1>1. TasksOK'
  BY DEF TasksShape, TasksOK, RowsOK, RefreshOK, RefreshRow, WorkOK, Statuses, Finished
<1>2. RowsOK'
  BY DEF TasksShape, RowsOK, WorkOK, NewOK, Statuses, Finished
<1>3. ServiceOK'
  BY RowTypes, Appended DEF TasksShape, ServiceOK, Finished, TasksOK, RefreshOK, RefreshRow
<1>4. RefreshOK'
  <2>1. RefreshMove([refresh[q] EXCEPT !.seen = "failed"], q)
    BY <1>0 DEF RefreshMove, RefreshRow
  <2>2. QED BY <2>1, RefreshMoves
<1>5. WorkOK'
  BY DEF TasksShape, WorkOK, NewOK, TasksOK, Statuses, Finished
<1>6. NewOK'
  BY DEF TasksShape, NewOK, TasksOK, RowsOK, RefreshOK, RefreshRow, WorkOK
<1>7. QED BY <1>1, <1>2, <1>3, <1>4, <1>5, <1>6 DEF TasksShape

LEMMA RecoveryTellsShape ==
  ASSUME TasksShape, NEW q \in Reader, RecoveryTells(q)
  PROVE  TasksShape'
<1> USE DEF RecoveryTells, Told, Fault, taskVars, rowVars, serviceVars, historyVars
<1>0. refresh[q] \in RefreshRow /\ refresh[q].left = 0 /\ refresh[q].task \in Agent
      /\ \A t \in refresh[q].todo : refresh[q].rows[t] # "absent"
  BY RefreshOf
<1>1. TasksOK'
  <2>1. refresh[q].seen \in {"none", "completed", "failed"}
    BY <1>0 DEF RefreshRow
  <2>2. result' \in [Agent -> {"none", "completed", "failed"}]
    BY <1>0, <2>1 DEF TasksShape, TasksOK
  <2>3. QED BY <2>2 DEF TasksShape, TasksOK
<1>2. RowsOK'
  BY DEF TasksShape, RowsOK, WorkOK, NewOK, Statuses, Finished
<1>3. ServiceOK'
  <2>1. \E S \in SUBSET Task : pending' = pending \/ pending' = [pending EXCEPT ![Home[q]] = S]
    BY RefreshOf DEF TasksShape, ServiceOK
  <2>2. QED BY RefreshOf, <2>1, PendingAt DEF TasksShape, ServiceOK
<1>4. RefreshOK'
  <2>1. RefreshMove([refresh[q] EXCEPT !.pc = "handle", !.task = Nil, !.seen = "none"], q)
    BY <1>0 DEF RefreshMove, RefreshRow
  <2>2. QED BY <2>1, RefreshMoves
<1>5. WorkOK'
  BY DEF TasksShape, WorkOK, NewOK, TasksOK, Statuses, Finished
<1>6. NewOK'
  BY DEF TasksShape, NewOK, TasksOK, RowsOK, RefreshOK, RefreshRow, WorkOK
<1>7. QED BY <1>1, <1>2, <1>3, <1>4, <1>5, <1>6 DEF TasksShape

LEMMA AnswersShape ==
  ASSUME TasksShape, NEW q \in Reader, Answers(q)
  PROVE  TasksShape'
<1> USE DEF Answers, Vanished, Owned, RefreshRest, taskVars, rowVars, serviceVars, historyVars
<1>1. TasksOK'
  BY DEF TasksShape, TasksOK, RowsOK, RefreshOK, RefreshRow, WorkOK, Statuses, Finished
<1>2. RowsOK'
  BY DEF TasksShape, RowsOK, WorkOK, NewOK, Statuses, Finished
<1>3. ServiceOK'
  BY RowTypes, Appended DEF TasksShape, ServiceOK, Finished, TasksOK, RefreshOK, RefreshRow
<1>4. RefreshOK'
  <2>1. RefreshMove(RefreshRest, q)
    BY RestRow DEF RefreshMove, RefreshRest
  <2>2. QED BY <2>1, RefreshMoves
<1>5. WorkOK'
  BY DEF TasksShape, WorkOK, NewOK, TasksOK, Statuses, Finished
<1>6. NewOK'
  BY DEF TasksShape, NewOK, TasksOK, RowsOK, RefreshOK, RefreshRow, WorkOK
<1>7. QED BY <1>1, <1>2, <1>3, <1>4, <1>5, <1>6 DEF TasksShape

-----------------------------------------------------------------------------
(* What waits in a chain, against the rest.                                *)

IsA(op, t, w) == w.op = op /\ w.task = t

\* Upserts are the owner's; one with a final status says what the owner knows, and
\* no other upsert of the task follows it.
UpsertsOK == \A i \in Instance : \A n \in 1..Len(chain[i]) : chain[i][n].op = "upsert" =>
  LET t == chain[i][n].task IN
  /\ owner[t] = i
  /\ chain[i][n].status # "running" =>
       /\ chain[i][n].status = memory[i][t]
       /\ \A m \in (n + 1)..Len(chain[i]) : ~IsA("upsert", t, chain[i][m])

\* The row of an ended task is the last that is written of it.
EndedOK == \A t \in Task : table[t] \in Finished =>
  /\ owner[t] # Nil => memory[owner[t]][t] # "running"
  /\ \A i \in Instance : \A n \in 1..Len(chain[i]) : ~IsA("upsert", t, chain[i][n])

\* A notice is of a task that is over, and was not cancelled.
NoticeOK ==
  /\ \A t \in Task : notice[t] # "none" => work[t] \in {"over", "dead"} /\ t \notin cancelled
  /\ \A i \in Instance : \A n \in 1..Len(chain[i]) : chain[i][n].op = "notice" =>
       LET t == chain[i][n].task IN owner[t] = i /\ work[t] = "over" /\ t \notin cancelled

\* A polled end is marked in memory until it is published, and after that its notice, if
\* there is one, has the settlement behind it.
Noticed(i, t) ==
  notice[t] = "queued" \/ \E n \in 1..Len(chain[i]) : IsA("notice", t, chain[i][n])
Settled(i, t) == \E m \in 1..Len(chain[i]) :
  /\ IsA("settle", t, chain[i][m])
  /\ \A n \in 1..Len(chain[i]) : IsA("notice", t, chain[i][n]) => n < m
PolledOK ==
  /\ polled \subseteq Instance \X Task /\ cancelled \subseteq Task
  /\ \A t \in Task, i \in Instance : <<i, t>> \in polled /\ owner[t] = i =>
       /\ work[t] # "over" => t \in suppressed[i]
       /\ <<"settle", t>> \notin lost /\ Noticed(i, t) => Settled(i, t)

OrderInv == ChainKnown /\ UpsertsOK /\ EndedOK /\ NoticeOK /\ PolledOK

-----------------------------------------------------------------------------
(* What a step other than a write does to it.                              *)

\* The instance goes on, and what is over for it stays so.
Steady(j) == \A t \in Task : owner[t] = j =>
  /\ owner'[t] = j
  /\ memory[j][t] # "running" => memory'[j][t] = memory[j][t]
  /\ work[t] = "over" => work'[t] = "over"

FreshWrite(j, w) ==
  /\ work'[w.task] # "new"
  /\ w.op = "upsert" =>
       /\ owner'[w.task] = j
       /\ work[w.task] = "new" \/ (owner[w.task] = j /\ memory[j][w.task] = "running")
       /\ w.status # "running" => w.status = memory'[j][w.task]
  /\ w.op = "notice" =>
       /\ owner'[w.task] = j /\ work'[w.task] = "over" /\ w.task \notin cancelled'
       /\ work[w.task] = "new"
          \/ (w.task \notin suppressed[j] /\ owner[w.task] = j /\ work[w.task] # "over")
FreshOK(j) == \A n \in Added(j) :
  /\ FreshWrite(j, chain'[j][n])
  /\ (chain'[j][n].op = "upsert" /\ chain'[j][n].status # "running") =>
       \A m \in (n + 1)..Len(chain'[j]) : ~IsA("upsert", chain'[j][n].task, chain'[j][m])
Goes(j) == Longer(j) /\ Steady(j) /\ FreshOK(j)

LifeCourse == \A t \in Task :
  /\ work[t] # "new" => work'[t] # "new"
  /\ work[t] \in {"over", "dead"} => work'[t] \in {"over", "dead"}
  /\ owner'[t] # Nil => owner'[t] = owner[t] \/ work[t] = "new"
  /\ (owner'[t] # Nil /\ work[t] # "new" /\ memory'[owner'[t]][t] = "running") =>
       memory[owner[t]][t] = "running"
  /\ (t \in cancelled' /\ t \notin cancelled) => owner[t] # Nil /\ memory[owner[t]][t] = "running"

Quiet == \A t \in Task :
  /\ table'[t] \in Finished => table[t] \in Finished
  /\ notice'[t] # "none" => notice[t] # "none"
  /\ notice'[t] = "queued" => notice[t] = "queued"

PollCourse ==
  /\ lost \subseteq lost' /\ polled' \subseteq Instance \X Task /\ cancelled' \subseteq Task
  /\ \A i \in Instance, t \in Task :
       /\ <<i, t>> \in polled' =>
            <<i, t>> \in polled \/ (t \in suppressed'[i] /\ Settled(i, t)')
       /\ (owner[t] = i /\ owner'[t] = i /\ work'[t] # "over" /\ t \in suppressed[i]) =>
            t \in suppressed'[i]

Course ==
  /\ LifeCourse /\ Quiet /\ PollCourse
  /\ \A j \in Instance : Goes(j) \/ Cleared(j)

LEMMA ChainsOf ==
  ASSUME TasksShape
  PROVE  \A i \in Instance : /\ chain[i] \in Seq(WriteRow) /\ Len(chain[i]) \in Nat
                             /\ \A n \in 1..Len(chain[i]) : chain[i][n] \in WriteRow
  BY DEF TasksShape, ServiceOK

LEMMA TaskOf ==
  ASSUME TasksShape, NEW i \in Instance, NEW n \in 1..Len(chain[i])
  PROVE  chain[i][n].task \in Task
<1>1. chain[i][n] \in WriteRow
  BY ChainsOf
<1>2. QED BY <1>1 DEF WriteRow

LEMMA LongerKeeps ==
  ASSUME TasksShape, NEW j \in Instance, Longer(j), NEW n \in 1..Len(chain'[j])
  PROVE  \/ n \in 1..Len(chain[j]) /\ chain'[j][n] = chain[j][n]
         \/ n \in Added(j) /\ n > Len(chain[j])
<1>1. Len(chain[j]) \in Nat /\ Len(chain'[j]) \in Nat
  BY ChainsOf DEF Longer
<1>2. QED BY <1>1 DEF Longer, Added

LEMMA CourseKeepsKnown ==
  ASSUME TasksShape, ChainKnown, Course
  PROVE  ChainKnown'
<1> SUFFICES ASSUME NEW i \in Instance, NEW n \in 1..Len(chain'[i])
             PROVE  work'[chain'[i][n].task] # "new"
  BY DEF ChainKnown
<1>1. CASE Cleared(i)
  BY <1>1 DEF Cleared
<1>2. CASE Goes(i) /\ n \in 1..Len(chain[i]) /\ chain'[i][n] = chain[i][n]
  BY <1>2, TaskOf DEF ChainKnown, Course, LifeCourse
<1>3. CASE Goes(i) /\ n \in Added(i)
  BY <1>3 DEF Goes, FreshOK, FreshWrite
<1>4. QED BY <1>1, <1>2, <1>3, LongerKeeps DEF Course, Goes

LEMMA CourseKeepsUpserts ==
  ASSUME TasksShape, UpsertsOK, WorkOK, Course
  PROVE  UpsertsOK'
<1> SUFFICES ASSUME NEW i \in Instance, NEW n \in 1..Len(chain'[i]), chain'[i][n].op = "upsert"
             PROVE  /\ owner'[chain'[i][n].task] = i
                    /\ chain'[i][n].status # "running" =>
                         /\ chain'[i][n].status = memory'[i][chain'[i][n].task]
                         /\ \A m \in (n + 1)..Len(chain'[i]) :
                              ~IsA("upsert", chain'[i][n].task, chain'[i][m])
  BY DEF UpsertsOK
<1>1. CASE Cleared(i)
  BY <1>1 DEF Cleared
<1>2. CASE Goes(i) /\ n \in 1..Len(chain[i]) /\ chain'[i][n] = chain[i][n]
  <2> DEFINE t == chain[i][n].task
  <2>1. /\ t \in Task /\ owner[t] = i /\ chain[i][n] \in WriteRow
        /\ chain[i][n].status \in {"running"} \cup Finished
    BY <1>2, ChainsOf DEF UpsertsOK, WriteRow
  <2>2. owner'[t] = i
    BY <1>2, <2>1 DEF Goes, Steady
  <2>3. ASSUME chain[i][n].status # "running"
        PROVE  /\ chain[i][n].status = memory'[i][t]
               /\ \A m \in (n + 1)..Len(chain'[i]) : ~IsA("upsert", t, chain'[i][m])
    <3>1. chain[i][n].status = memory[i][t] /\ memory[i][t] # "running"
      BY <1>2, <2>3 DEF UpsertsOK
    <3>2. memory'[i][t] = memory[i][t]
      BY <1>2, <2>1, <3>1 DEF Goes, Steady
    <3>3. ASSUME NEW m \in (n + 1)..Len(chain'[i]), IsA("upsert", t, chain'[i][m])
          PROVE  FALSE
      <4>1. m \in 1..Len(chain'[i])
        OBVIOUS
      <4>2. m \notin Added(i)
        <5>1. m \in Added(i) => work[t] = "new" \/ memory[i][t] = "running"
          BY <1>2, <3>3 DEF Goes, FreshOK, FreshWrite, IsA
        <5>2. work[t] # "new"
          BY <2>1 DEF WorkOK
        <5>3. QED BY <3>1, <5>1, <5>2
      <4>3. m \in 1..Len(chain[i]) /\ chain'[i][m] = chain[i][m]
        BY <1>2, <4>1, <4>2, LongerKeeps DEF Goes
      <4>4. m \in (n + 1)..Len(chain[i])
        BY <3>3, <4>3, ChainsOf
      <4>5. QED BY <1>2, <2>3, <3>3, <4>3, <4>4 DEF UpsertsOK, IsA
    <3>4. QED BY <3>1, <3>2, <3>3
  <2>4. QED BY <1>2, <2>2, <2>3
<1>3. CASE Goes(i) /\ n \in Added(i)
  BY <1>3 DEF Goes, FreshOK, FreshWrite
<1>4. QED BY <1>1, <1>2, <1>3, LongerKeeps DEF Course, Goes

LEMMA CourseKeepsEnded ==
  ASSUME TasksShape, EndedOK, UpsertsOK, Course
  PROVE  EndedOK'
<1> SUFFICES ASSUME NEW t \in Task, table'[t] \in Finished
             PROVE  /\ owner'[t] # Nil => memory'[owner'[t]][t] # "running"
                    /\ \A i \in Instance : \A n \in 1..Len(chain'[i]) :
                         ~IsA("upsert", t, chain'[i][n])
  BY DEF EndedOK
<1>1. table[t] \in Finished /\ work[t] # "new"
  BY DEF Course, Quiet, TasksShape, NewOK, Finished
<1>2. owner'[t] # Nil => owner'[t] = owner[t] /\ memory'[owner'[t]][t] # "running"
  BY <1>1 DEF EndedOK, Course, LifeCourse
<1>3. ASSUME NEW i \in Instance, NEW n \in 1..Len(chain'[i]), IsA("upsert", t, chain'[i][n])
      PROVE  FALSE
  <2>1. CASE Cleared(i)
    BY <1>3, <2>1 DEF Cleared
  <2>2. CASE Goes(i) /\ n \in 1..Len(chain[i]) /\ chain'[i][n] = chain[i][n]
    BY <1>1, <1>3, <2>2 DEF EndedOK
  <2>3. CASE Goes(i) /\ n \in Added(i)
    BY <1>1, <1>3, <2>3 DEF Goes, FreshOK, FreshWrite, IsA, EndedOK
  <2>4. QED BY <2>1, <2>2, <2>3, LongerKeeps DEF Course, Goes
<1>4. QED BY <1>2, <1>3

LEMMA CourseKeepsNotices ==
  ASSUME TasksShape, NoticeOK, Course
  PROVE  NoticeOK'
<1>0. ASSUME NEW t \in Task, work[t] \in {"over", "dead"}, t \notin cancelled
      PROVE  work'[t] \in {"over", "dead"} /\ t \notin cancelled'
  BY <1>0 DEF Course, LifeCourse, TasksShape, WorkOK, Finished
<1>1. ASSUME NEW t \in Task, notice'[t] # "none"
      PROVE  work'[t] \in {"over", "dead"} /\ t \notin cancelled'
  BY <1>0, <1>1 DEF NoticeOK, Course, Quiet
<1>2. ASSUME NEW i \in Instance, NEW n \in 1..Len(chain'[i]), chain'[i][n].op = "notice"
      PROVE  LET t == chain'[i][n].task IN
             owner'[t] = i /\ work'[t] = "over" /\ t \notin cancelled'
  <2>1. CASE Cleared(i)
    BY <2>1 DEF Cleared
  <2>2. CASE Goes(i) /\ n \in 1..Len(chain[i]) /\ chain'[i][n] = chain[i][n]
    <3> DEFINE t == chain[i][n].task
    <3>1. t \in Task /\ owner[t] = i /\ work[t] = "over" /\ t \notin cancelled
      BY <1>2, <2>2, TaskOf DEF NoticeOK
    <3>2. QED BY <1>0, <2>2, <3>1 DEF Goes, Steady
  <2>3. CASE Goes(i) /\ n \in Added(i)
    BY <1>2, <2>3 DEF Goes, FreshOK, FreshWrite
  <2>4. QED BY <2>1, <2>2, <2>3, LongerKeeps DEF Course, Goes
<1>3. QED BY <1>1, <1>2 DEF NoticeOK

LEMMA CourseKeepsPolled ==
  ASSUME TasksShape, PolledOK, NoticeOK, Course
  PROVE  PolledOK'
<1> SUFFICES ASSUME NEW t \in Task, NEW i \in Instance, <<i, t>> \in polled', owner'[t] = i
             PROVE  /\ work'[t] # "over" => t \in suppressed'[i]
                    /\ <<"settle", t>> \notin lost' /\ Noticed(i, t)' => Settled(i, t)'
  BY DEF PolledOK, Course, PollCourse
<1>1. CASE <<i, t>> \notin polled
  BY <1>1 DEF Course, PollCourse
<1>2. CASE <<i, t>> \in polled
  <2>1. work[t] # "new" /\ owner[t] = i
    BY <1>2 DEF TasksShape, NewOK, Course, LifeCourse
  <2>2. Goes(i)
    BY DEF Course, Cleared
  <2>3. work[t] # "over" => t \in suppressed[i]
    BY <1>2, <2>1 DEF PolledOK
  <2>4. work'[t] # "over" => t \in suppressed'[i]
    BY <2>1, <2>2, <2>3 DEF Course, PollCourse, Goes, Steady
  <2>5. ASSUME NEW n \in 1..Len(chain'[i]), IsA("notice", t, chain'[i][n])
        PROVE  n \in 1..Len(chain[i]) /\ IsA("notice", t, chain[i][n])
    <3>1. n \notin Added(i)
      BY <2>1, <2>2, <2>3, <2>5 DEF Goes, FreshOK, FreshWrite, IsA
    <3>2. QED BY <2>2, <2>5, <3>1, LongerKeeps DEF Goes
  <2>6. ASSUME <<"settle", t>> \notin lost', Noticed(i, t)'
        PROVE  Settled(i, t)'
    <3>1. Noticed(i, t)
      BY <2>5, <2>6 DEF Noticed, Course, Quiet
    <3>2. PICK m \in 1..Len(chain[i]) :
            /\ IsA("settle", t, chain[i][m])
            /\ \A n \in 1..Len(chain[i]) : IsA("notice", t, chain[i][n]) => n < m
      BY <1>2, <2>1, <2>6, <3>1 DEF PolledOK, Settled, Course, PollCourse
    <3>3. m \in 1..Len(chain'[i]) /\ chain'[i][m] = chain[i][m]
      BY <2>2, ChainsOf DEF Goes, Longer
    <3>4. QED BY <2>5, <3>2, <3>3 DEF Settled
  <2>7. QED BY <2>4, <2>6
<1>3. QED BY <1>1, <1>2

LEMMA CourseKeepsOrder ==
  ASSUME TasksShape, OrderInv, Course
  PROVE  OrderInv'
<1>1. WorkOK
  BY DEF TasksShape
<1>2. QED
  BY <1>1, CourseKeepsKnown, CourseKeepsUpserts, CourseKeepsEnded, CourseKeepsNotices, CourseKeepsPolled
  DEF OrderInv

-----------------------------------------------------------------------------
(* The course of each action.                                              *)

LEMMA SameFresh ==
  ASSUME TasksShape, chain' = chain
  PROVE  \A j \in Instance : Longer(j) /\ FreshOK(j)
<1>1. \A j \in Instance : Longer(j) /\ Added(j) = {}
  BY ChainsOf DEF Longer, Added
<1>2. QED BY <1>1 DEF FreshOK

LEMMA FreshByOne ==
  ASSUME TasksShape, NEW i \in Instance, NEW w \in WriteRow,
         chain' = [chain EXCEPT ![i] = Append(@, w)], FreshWrite(i, w)
  PROVE  \A j \in Instance : Longer(j) /\ FreshOK(j)
<1>1. Grown(i, {w}) /\ Len(chain'[i]) = Len(chain[i]) + 1
  BY GrownByOne
<1>2. \A j \in Instance : Longer(j) /\ \A n \in Added(j) : j = i /\ chain'[j][n] = w
  BY <1>1 DEF Grown
<1>3. \A n \in Added(i) : (n + 1)..Len(chain'[i]) = {}
  BY <1>1, ChainsOf DEF Added
<1>4. \A j \in Instance : \A n \in Added(j) :
        /\ FreshWrite(j, chain'[j][n])
        /\ (n + 1)..Len(chain'[j]) = {}
  BY <1>2, <1>3
<1>5. QED BY <1>2, <1>4 DEF FreshOK

LEMMA FreshByTwo ==
  ASSUME TasksShape, NEW i \in Instance, NEW v \in WriteRow, NEW w \in WriteRow,
         chain' = [chain EXCEPT ![i] = Append(Append(@, v), w)],
         FreshWrite(i, v), FreshWrite(i, w),
         v.status # "running" => ~IsA("upsert", v.task, w)
  PROVE  \A j \in Instance : Longer(j) /\ FreshOK(j)
<1>1. /\ Grown(i, {v, w}) /\ Len(chain'[i]) = Len(chain[i]) + 2
      /\ chain'[i][Len(chain[i]) + 1] = v /\ chain'[i][Len(chain[i]) + 2] = w
  BY GrownByTwo
<1>2. \A j \in Instance : Longer(j) /\ \A n \in Added(j) : j = i
  BY <1>1 DEF Grown
<1>3. \A n \in Added(i) :
        \/ chain'[i][n] = v /\ \A m \in (n + 1)..Len(chain'[i]) : chain'[i][m] = w
        \/ chain'[i][n] = w /\ (n + 1)..Len(chain'[i]) = {}
  <2>1. Len(chain[i]) \in Nat
    BY ChainsOf
  <2>2. \A n \in Added(i) : n = Len(chain[i]) + 1 \/ n = Len(chain[i]) + 2
    BY <1>1, <2>1 DEF Added
  <2>3. QED BY <1>1, <2>1, <2>2
<1>4. \A n \in Added(i) :
        /\ FreshWrite(i, chain'[i][n])
        /\ chain'[i][n].status # "running" =>
             \A m \in (n + 1)..Len(chain'[i]) : ~IsA("upsert", chain'[i][n].task, chain'[i][m])
  BY <1>3
<1>5. QED BY <1>2, <1>4 DEF FreshOK

LEMMA FreshByRenewals ==
  ASSUME TasksShape, NEW i \in Instance, chain' = [chain EXCEPT ![i] = WithRenewals(i)],
         owner' = owner, work' = work
  PROVE  \A j \in Instance : Longer(j) /\ FreshOK(j)
<1>1. Grown(i, {Upsert(t, "running") : t \in Renewed(i)})
  BY GrownByRenewals
<1>2. \A t \in Renewed(i) : FreshWrite(i, Upsert(t, "running")) /\ Upsert(t, "running").status = "running"
  BY DEF FreshWrite, Upsert, Renewed, Owned, TasksShape, WorkOK
<1>3. QED BY <1>1, <1>2 DEF Grown, FreshOK

LEMMA AppendedThrice ==
  ASSUME NEW s \in Seq(WriteRow), NEW u \in WriteRow, NEW v \in WriteRow, NEW w \in WriteRow
  PROVE  /\ s \o <<u, v>> = Append(Append(s, u), v)
         /\ LET r == Append(Append(Append(s, u), v), w) IN
            /\ r \in Seq(WriteRow) /\ Len(r) = Len(s) + 3
            /\ \A n \in 1..Len(s) : r[n] = s[n]
            /\ r[Len(s) + 1] = u /\ r[Len(s) + 2] = v /\ r[Len(s) + 3] = w
<1> DEFINE a == Append(Append(s, u), v)
           r == Append(a, w)
           e == <<u, v>>
<1>1. /\ a \in Seq(WriteRow) /\ Len(a) = Len(s) + 2
      /\ \A n \in 1..Len(s) : a[n] = s[n]
      /\ a[Len(s) + 1] = u /\ a[Len(s) + 2] = v
  BY AppendedTwice
<1>2. e \in Seq(WriteRow) /\ Len(e) = 2 /\ e[1] = u /\ e[2] = v
  OBVIOUS
<1>3. Len(s) \in Nat
  OBVIOUS
<1> HIDE DEF a, e
<1>4. /\ s \o e \in Seq(WriteRow) /\ Len(s \o e) = Len(s) + 2
      /\ \A n \in 1..Len(s) + 2 : (s \o e)[n] = IF n <= Len(s) THEN s[n] ELSE e[n - Len(s)]
  <2>1. /\ s \o e \in Seq(WriteRow) /\ Len(s \o e) = Len(s) + Len(e)
        /\ \A n \in 1..Len(s) + Len(e) : (s \o e)[n] = IF n <= Len(s) THEN s[n] ELSE e[n - Len(s)]
    BY <1>2, Concatenated
  <2>2. QED BY <1>2, <2>1
<1>5. \A n \in 1..Len(s) + 2 : (s \o e)[n] = a[n]
  <2>1. \A n \in 1..Len(s) + 2 : n \in 1..Len(s) \/ n = Len(s) + 1 \/ n = Len(s) + 2
    BY <1>3
  <2>2. \A n \in 1..Len(s) : (s \o e)[n] = a[n]
    BY <1>1, <1>3, <1>4
  <2>3. (s \o e)[Len(s) + 1] = e[1] /\ (s \o e)[Len(s) + 2] = e[2]
    BY <1>3, <1>4
  <2>4. QED BY <1>1, <1>2, <2>1, <2>2, <2>3
<1>6. s \o e = a
  <2>1. \A x, y \in Seq(WriteRow) : Len(x) = Len(y) /\ (\A n \in 1..Len(x) : x[n] = y[n]) => x = y
    BY SeqEqual
  <2>2. QED BY <1>1, <1>4, <1>5, <2>1
<1>7. /\ r \in Seq(WriteRow) /\ Len(r) = Len(a) + 1 /\ r[Len(a) + 1] = w
      /\ \A n \in 1..Len(a) : r[n] = a[n]
  BY <1>1, Appended
<1> HIDE DEF r
<1>8. /\ r \in Seq(WriteRow) /\ Len(r) = Len(s) + 3
      /\ \A n \in 1..Len(s) : r[n] = s[n]
      /\ r[Len(s) + 1] = u /\ r[Len(s) + 2] = v /\ r[Len(s) + 3] = w
  <2>1. Len(a) + 1 = Len(s) + 3 /\ \A n \in 1..Len(s) : n \in 1..Len(a)
    BY <1>1, <1>3
  <2>2. Len(s) + 1 \in 1..Len(a) /\ Len(s) + 2 \in 1..Len(a)
    BY <1>1, <1>3
  <2>3. QED BY <1>1, <1>7, <2>1, <2>2
<1>9. QED BY <1>6, <1>8 DEF r, a, e

\* Two upserts, of which the second is final, and a notice.
LEMMA FreshByThree ==
  ASSUME TasksShape, NEW i \in Instance,
         NEW u \in WriteRow, NEW v \in WriteRow, NEW w \in WriteRow,
         chain' = [chain EXCEPT ![i] = Append(Append(Append(@, u), v), w)],
         FreshWrite(i, u), FreshWrite(i, v), FreshWrite(i, w),
         u.status = "running", w.op # "upsert"
  PROVE  \A j \in Instance : Longer(j) /\ FreshOK(j)
<1>1. chain \in [Instance -> Seq(WriteRow)] /\ \A j \in Instance : Len(chain[j]) \in Nat
  BY ChainsOf DEF TasksShape, ServiceOK
<1>2. /\ chain'[i] = Append(Append(Append(chain[i], u), v), w)
      /\ \A j \in Instance : j # i => chain'[j] = chain[j]
  BY <1>1
<1>3. /\ chain'[i] \in Seq(WriteRow) /\ Len(chain'[i]) = Len(chain[i]) + 3
      /\ \A n \in 1..Len(chain[i]) : chain'[i][n] = chain[i][n]
      /\ chain'[i][Len(chain[i]) + 1] = u /\ chain'[i][Len(chain[i]) + 2] = v
      /\ chain'[i][Len(chain[i]) + 3] = w
  BY <1>1, <1>2, AppendedThrice
<1>4. \A j \in Instance : Longer(j) /\ (j # i => Added(j) = {})
  BY <1>1, <1>2, <1>3 DEF Longer, Added
<1>5. \A n \in Added(i) :
        \/ chain'[i][n] = u
        \/ chain'[i][n] = v /\ \A m \in (n + 1)..Len(chain'[i]) : chain'[i][m] = w
        \/ chain'[i][n] = w
  <2>1. \A n \in Added(i) : \/ n = Len(chain[i]) + 1 \/ n = Len(chain[i]) + 2
                            \/ n = Len(chain[i]) + 3
    BY <1>1, <1>3 DEF Added
  <2>2. \A m \in (Len(chain[i]) + 3)..(Len(chain[i]) + 3) : m = Len(chain[i]) + 3
    BY <1>1
  <2>3. QED BY <1>1, <1>3, <2>1, <2>2
<1>6. \A n \in Added(i) :
        /\ FreshWrite(i, chain'[i][n])
        /\ (chain'[i][n].op = "upsert" /\ chain'[i][n].status # "running") =>
             \A m \in (n + 1)..Len(chain'[i]) : ~IsA("upsert", chain'[i][n].task, chain'[i][m])
  BY <1>5 DEF IsA
<1>7. QED BY <1>4, <1>6 DEF FreshOK

LEMMA StartedCourse ==
  ASSUME TasksShape, OrderInv, NEW i \in Instance, NEW t \in Task, Started(i, t)
  PROVE  Course
<1> USE DEF Started, MayStart, taskVars, rowVars, serviceVars, historyVars
<1>1. LifeCourse
  BY DEF LifeCourse, TasksShape, TasksOK, WorkOK, NewOK, Statuses, Finished
<1>2. Quiet
  BY DEF Quiet, TasksShape, RowsOK, Finished
<1>3. PollCourse
  BY DEF PollCourse, OrderInv, PolledOK, TasksShape, ServiceOK
<1>4. \A j \in Instance : Longer(j) /\ FreshOK(j)
  <2>1. Upsert(t, "running") \in WriteRow
    BY RowTypes
  <2>2. FreshWrite(i, Upsert(t, "running"))
    BY DEF FreshWrite, Upsert, TasksShape, TasksOK
  <2>3. QED BY <2>1, <2>2, FreshByOne
<1>5. \A j \in Instance : Steady(j)
  BY DEF Steady, TasksShape, TasksOK, WorkOK, NewOK, Statuses, Finished
<1>6. QED BY <1>1, <1>2, <1>3, <1>4, <1>5 DEF Course, Goes

LEMMA SpawnThrowsCourse ==
  ASSUME TasksShape, OrderInv, NEW i \in Instance, NEW t \in Task, SpawnThrows(i, t)
  PROVE  Course
<1> USE DEF SpawnThrows, MayStart, Published, Marked, Unheard, taskVars, rowVars, serviceVars, historyVars
<1>0. /\ owner[t] = Nil /\ work[t] = "new" /\ t \notin cancelled
      /\ \A j \in Instance : memory[j][t] = "absent" /\ <<j, t>> \notin polled
  BY DEF TasksShape, WorkOK, NewOK
<1>1. LifeCourse
  BY DEF LifeCourse, TasksShape, TasksOK, WorkOK, NewOK, Statuses, Finished
<1>2. Quiet
  BY DEF Quiet, TasksShape, RowsOK, Finished
<1>3. PollCourse
  <2>1. \A j \in Instance, u \in Task : u # t /\ u \in suppressed[j] => u \in suppressed'[j]
    BY <1>0 DEF TasksShape, ServiceOK
  <2>2. work'[t] = "over"
    BY DEF TasksShape, TasksOK
  <2>3. QED BY <2>1, <2>2 DEF PollCourse, OrderInv, PolledOK
<1>4. \A j \in Instance : Longer(j) /\ FreshOK(j)
  <2> DEFINE u == Upsert(t, "running")
             v == Upsert(t, "failed")
             w == Notify(t)
  <2>1. /\ u \in WriteRow /\ v \in WriteRow /\ w \in WriteRow
        /\ u.status = "running" /\ v.task = t /\ w.op # "upsert"
    BY RowTypes DEF Upsert, Notify, Finished
  <2>2. owner'[t] = i /\ work'[t] = "over" /\ memory'[i][t] = "failed" /\ t \notin cancelled'
    BY <1>0 DEF TasksShape, TasksOK
  <2>3. FreshWrite(i, u) /\ FreshWrite(i, v) /\ FreshWrite(i, w)
    BY <1>0, <2>2 DEF FreshWrite, Upsert, Notify
  <2>4. chain[i] \o <<u, v>> = Append(Append(chain[i], u), v)
    BY <2>1, AppendedThrice, ChainsOf
  <2>5. \/ chain' = [chain EXCEPT ![i] = Append(Append(@, u), v)]
        \/ chain' = [chain EXCEPT ![i] = Append(Append(Append(@, u), v), w)]
    BY <2>4
  <2> HIDE DEF u, v, w, SpawnThrows
  <2>6. CASE chain' = [chain EXCEPT ![i] = Append(Append(@, u), v)]
    BY <2>1, <2>3, <2>6, FreshByTwo
  <2>7. CASE chain' = [chain EXCEPT ![i] = Append(Append(Append(@, u), v), w)]
    BY <2>1, <2>3, <2>7, FreshByThree
  <2>8. QED BY <2>5, <2>6, <2>7
<1>5. \A j \in Instance : Steady(j)
  BY DEF Steady, TasksShape, TasksOK, WorkOK, NewOK, Statuses, Finished
<1>6. QED BY <1>1, <1>2, <1>3, <1>4, <1>5 DEF Course, Goes

LEMMA PollsCourse ==
  ASSUME TasksShape, OrderInv, NEW i \in Instance, NEW t \in Task, Polls(i, t)
  PROVE  Course
<1> USE DEF Polls, taskVars, rowVars, serviceVars, historyVars
<1>0. work[t] # "new" /\ Settle(t) \in WriteRow /\ IsA("settle", t, Settle(t))
  BY RowTypes DEF TasksShape, NewOK, Finished, Settle, IsA
<1>1. LifeCourse
  BY DEF LifeCourse, TasksShape, TasksOK, WorkOK, NewOK, Statuses, Finished
<1>2. Quiet
  BY DEF Quiet, TasksShape, RowsOK, Finished
<1>3. PollCourse
  <2>1. /\ Len(chain'[i]) = Len(chain[i]) + 1 /\ Len(chain[i]) \in Nat
        /\ chain'[i][Len(chain[i]) + 1] = Settle(t)
    BY <1>0, GrownByOne, ChainsOf
  <2>2. \A n \in 1..Len(chain'[i]) : IsA("notice", t, chain'[i][n]) => n < Len(chain[i]) + 1
    BY <2>1 DEF IsA, Settle
  <2>3. Settled(i, t)'
    BY <1>0, <2>1, <2>2 DEF Settled
  <2>4. /\ t \in suppressed'[i]
        /\ \A j \in Instance : suppressed[j] \subseteq suppressed'[j]
    BY DEF TasksShape, ServiceOK
  <2> HIDE DEF Settled
  <2>5. QED BY <2>3, <2>4 DEF PollCourse, OrderInv, PolledOK
<1>4. \A j \in Instance : Longer(j) /\ FreshOK(j)
  <2>1. FreshWrite(i, Settle(t))
    BY <1>0 DEF FreshWrite, Settle
  <2>2. QED BY <1>0, <2>1, FreshByOne
<1>5. \A j \in Instance : Steady(j)
  BY DEF Steady, TasksShape, TasksOK, WorkOK, NewOK, Statuses, Finished
<1>6. QED BY <1>1, <1>2, <1>3, <1>4, <1>5 DEF Course, Goes

LEMMA ErrsCourse ==
  ASSUME TasksShape, OrderInv, NEW t \in Task, Errs(t)
  PROVE  Course
<1> USE DEF Errs, Ends, taskVars, rowVars, serviceVars, historyVars
<1>0. /\ owner[t] \in Instance /\ memory[owner[t]][t] \in {"running"} \cup Finished
      /\ work[t] \notin {"new", "dead"}
  BY OwnerOf
<1>m. memory' = memory \/ (memory[owner[t]][t] = "running"
                           /\ \E s \in Finished : memory' = [memory EXCEPT ![owner[t]][t] = s])
  BY <1>0 DEF Finished, TasksShape, WorkOK, TasksOK
<1>n. \A j \in Instance, u \in Task :
        memory[j][u] # "running" \/ owner[t] # j \/ u # t => memory'[j][u] = memory[j][u]
  <2>1. CASE memory' = memory
    BY <2>1
  <2>2. ASSUME NEW s \in Finished, memory' = [memory EXCEPT ![owner[t]][t] = s], memory[owner[t]][t] = "running"
        PROVE  \A j \in Instance, u \in Task :
                 memory[j][u] # "running" \/ owner[t] # j \/ u # t => memory'[j][u] = memory[j][u]
    BY <1>0, <2>2 DEF TasksShape, TasksOK
  <2>3. QED BY <1>m, <2>1, <2>2
<1>1. LifeCourse
  BY <1>0, <1>n DEF LifeCourse, TasksShape, TasksOK, WorkOK
<1>2. Quiet
  BY DEF Quiet, TasksShape, RowsOK, Finished
<1>3. PollCourse
  BY DEF PollCourse, OrderInv, PolledOK, TasksShape, ServiceOK
<1>4. \A j \in Instance : Longer(j) /\ FreshOK(j)
  <2>1. \A s \in Finished : Upsert(t, s) \in WriteRow /\ Upsert(t, s).op = "upsert" /\ Upsert(t, s).task = t
                          /\ Upsert(t, s).status = s
    BY RowTypes DEF Upsert
  <2>2. CASE chain' = chain
    BY <2>2, SameFresh
  <2>3. ASSUME NEW s \in Finished, memory[owner[t]][t] = "running", memory'[owner[t]][t] = s,
               chain' = [chain EXCEPT ![owner[t]] = Append(@, Upsert(t, s))]
        PROVE  \A j \in Instance : Longer(j) /\ FreshOK(j)
    <3>1. FreshWrite(owner[t], Upsert(t, s))
      BY <1>0, <2>1, <2>3 DEF FreshWrite, TasksShape, TasksOK, WorkOK
    <3>2. QED BY <1>0, <2>1, <2>3, <3>1, FreshByOne
  <2>4. chain' = chain \/ \E s \in Finished : /\ memory[owner[t]][t] = "running" /\ memory'[owner[t]][t] = s
                                             /\ chain' = [chain EXCEPT ![owner[t]] = Append(@, Upsert(t, s))]
    BY <1>0 DEF Finished, TasksShape, TasksOK, WorkOK, ServiceOK
  <2>5. QED BY <2>2, <2>3, <2>4
<1>5. \A j \in Instance : Steady(j)
  BY <1>0, <1>n DEF Steady, TasksShape, TasksOK
<1>6. QED BY <1>1, <1>2, <1>3, <1>4, <1>5 DEF Course, Goes

LEMMA ClosesCourse ==
  ASSUME TasksShape, OrderInv, NEW t \in Task, Closes(t)
  PROVE  Course
<1> USE DEF Closes, Ends, taskVars, rowVars, serviceVars, historyVars
<1>0. /\ owner[t] \in Instance /\ memory[owner[t]][t] \in {"running"} \cup Finished
      /\ work[t] \notin {"new", "dead"}
  BY OwnerOf
<1>m. memory' = memory \/ (memory[owner[t]][t] = "running"
                           /\ \E s \in Finished : memory' = [memory EXCEPT ![owner[t]][t] = s])
  BY <1>0 DEF Finished, TasksShape, WorkOK, TasksOK
<1>n. \A j \in Instance, u \in Task :
        memory[j][u] # "running" \/ owner[t] # j \/ u # t => memory'[j][u] = memory[j][u]
  <2>1. CASE memory' = memory
    BY <2>1
  <2>2. ASSUME NEW s \in Finished, memory' = [memory EXCEPT ![owner[t]][t] = s], memory[owner[t]][t] = "running"
        PROVE  \A j \in Instance, u \in Task :
                 memory[j][u] # "running" \/ owner[t] # j \/ u # t => memory'[j][u] = memory[j][u]
    BY <1>0, <2>2 DEF TasksShape, TasksOK
  <2>3. QED BY <1>m, <2>1, <2>2
<1>1. LifeCourse
  BY <1>0, <1>n DEF LifeCourse, TasksShape, TasksOK, WorkOK
<1>2. Quiet
  BY DEF Quiet, TasksShape, RowsOK, Finished
<1>3. PollCourse
  BY DEF PollCourse, OrderInv, PolledOK, TasksShape, ServiceOK
<1>4. \A j \in Instance : Longer(j) /\ FreshOK(j)
  <2>1. \A s \in Finished : Upsert(t, s) \in WriteRow /\ Upsert(t, s).op = "upsert" /\ Upsert(t, s).task = t
                          /\ Upsert(t, s).status = s
    BY RowTypes DEF Upsert
  <2>2. CASE chain' = chain
    BY <2>2, SameFresh
  <2>3. ASSUME NEW s \in Finished, memory[owner[t]][t] = "running", memory'[owner[t]][t] = s,
               chain' = [chain EXCEPT ![owner[t]] = Append(@, Upsert(t, s))]
        PROVE  \A j \in Instance : Longer(j) /\ FreshOK(j)
    <3>1. FreshWrite(owner[t], Upsert(t, s))
      BY <1>0, <2>1, <2>3 DEF FreshWrite, TasksShape, TasksOK, WorkOK
    <3>2. QED BY <1>0, <2>1, <2>3, <3>1, FreshByOne
  <2>4. chain' = chain \/ \E s \in Finished : /\ memory[owner[t]][t] = "running" /\ memory'[owner[t]][t] = s
                                             /\ chain' = [chain EXCEPT ![owner[t]] = Append(@, Upsert(t, s))]
    BY <1>0 DEF Finished, TasksShape, TasksOK, WorkOK, ServiceOK
  <2>5. QED BY <2>2, <2>3, <2>4
<1>5. \A j \in Instance : Steady(j)
  BY <1>0, <1>n DEF Steady, TasksShape, TasksOK
<1>6. QED BY <1>1, <1>2, <1>3, <1>4, <1>5 DEF Course, Goes

LEMMA FlushedCourse ==
  ASSUME TasksShape, OrderInv, NEW t \in Task, Flushed(t)
  PROVE  Course
<1> USE DEF Flushed, Published, Marked, Unheard, taskVars, rowVars, serviceVars, historyVars
<1>0. /\ owner[t] \in Instance /\ memory[owner[t]][t] \in {"running"} \cup Finished
      /\ work[t] \notin {"new", "dead"}
  BY OwnerOf
<1>1. LifeCourse
  BY DEF LifeCourse, TasksShape, TasksOK, WorkOK, NewOK, Statuses, Finished
<1>2. Quiet
  BY DEF Quiet, TasksShape, RowsOK, Finished
<1>3. PollCourse
  <2>1. \A j \in Instance, u \in Task : u # t /\ u \in suppressed[j] => u \in suppressed'[j]
    BY <1>0 DEF TasksShape, ServiceOK
  <2>2. work'[t] = "over"
    BY DEF TasksShape, TasksOK
  <2>3. QED BY <2>1, <2>2 DEF PollCourse, OrderInv, PolledOK
<1>4. \A j \in Instance : Longer(j) /\ FreshOK(j)
  <2>1. CASE chain' = chain
    BY <2>1, SameFresh
  <2>2. CASE /\ chain' = [chain EXCEPT ![owner[t]] = Append(@, Notify(t))]
             /\ t \notin suppressed[owner[t]] /\ memory[owner[t]][t] # "cancelled"
    <3>1. Notify(t) \in WriteRow
      BY RowTypes
    <3>2. FreshWrite(owner[t], Notify(t))
      BY <1>0, <2>2 DEF FreshWrite, Notify, TasksShape, TasksOK, WorkOK
    <3>3. QED BY <1>0, <2>2, <3>1, <3>2, FreshByOne
  <2>3. QED BY <1>0, <2>1, <2>2 DEF TasksShape, ServiceOK
<1>5. \A j \in Instance : Steady(j)
  BY DEF Steady, TasksShape, TasksOK, WorkOK, NewOK, Statuses, Finished
<1>6. QED BY <1>1, <1>2, <1>3, <1>4, <1>5 DEF Course, Goes

LEMMA ChildRunEndsCourse ==
  ASSUME TasksShape, OrderInv, NEW t \in Task, ChildRunEnds(t)
  PROVE  Course
<1> USE DEF ChildRunEnds, taskVars, rowVars, serviceVars, historyVars
<1>1. LifeCourse
  BY DEF LifeCourse, TasksShape, TasksOK, WorkOK, NewOK, Statuses, Finished
<1>2. Quiet
  BY DEF Quiet, TasksShape, RowsOK, Finished
<1>3. PollCourse
  BY DEF PollCourse, OrderInv, PolledOK, TasksShape, ServiceOK
<1>4. \A j \in Instance : Longer(j) /\ FreshOK(j)
  BY SameFresh
<1>5. \A j \in Instance : Steady(j)
  BY DEF Steady, TasksShape, TasksOK, WorkOK, NewOK, Statuses, Finished
<1>6. QED BY <1>1, <1>2, <1>3, <1>4, <1>5 DEF Course, Goes

LEMMA ReportsCourse ==
  ASSUME TasksShape, OrderInv, NEW t \in Task, Reports(t)
  PROVE  Course
<1> USE DEF Reports, Told, Fault, taskVars, rowVars, serviceVars, historyVars
<1>1. LifeCourse
  BY DEF LifeCourse, TasksShape, TasksOK, WorkOK, NewOK, Statuses, Finished
<1>2. Quiet
  BY DEF Quiet, TasksShape, RowsOK, Finished
<1>3. PollCourse
  BY DEF PollCourse, OrderInv, PolledOK, TasksShape, ServiceOK
<1>4. \A j \in Instance : Longer(j) /\ FreshOK(j)
  BY SameFresh
<1>5. \A j \in Instance : Steady(j)
  BY DEF Steady, TasksShape, TasksOK, WorkOK, NewOK, Statuses, Finished
<1>6. QED BY <1>1, <1>2, <1>3, <1>4, <1>5 DEF Course, Goes

LEMMA ReturnsCourse ==
  ASSUME TasksShape, OrderInv, NEW t \in Task, Returns(t)
  PROVE  Course
<1> USE DEF Returns, Published, Marked, Unheard, taskVars, rowVars, serviceVars, historyVars
<1>0. /\ owner[t] \in Instance /\ memory[owner[t]][t] \in {"running"} \cup Finished
      /\ work[t] \notin {"new", "dead"}
  BY OwnerOf
<1>a. t \in Agent /\ outcome[t] \in {"completed", "failed"} /\ outcome[t] \in Finished
  BY DEF TasksShape, TasksOK, WorkOK, Finished
<1>n. \A j \in Instance, u \in Task :
        memory[j][u] # "running" \/ owner[t] # j \/ u # t => memory'[j][u] = memory[j][u]
  <2>1. CASE memory[owner[t]][t] = "running"
    BY <1>0, <2>1 DEF TasksShape, TasksOK
  <2>2. CASE memory[owner[t]][t] # "running"
    BY <2>2
  <2>3. QED BY <2>1, <2>2
<1>b. memory[owner[t]][t] = "running" => memory'[owner[t]][t] = outcome[t]
  BY <1>0 DEF TasksShape, TasksOK
<1>1. LifeCourse
  BY <1>0, <1>a, <1>b, <1>n DEF LifeCourse, TasksShape, TasksOK, WorkOK
<1>2. Quiet
  BY DEF Quiet, TasksShape, RowsOK, Finished
<1>3. PollCourse
  <2>0. suppressed \in [Instance -> SUBSET Task]
    BY DEF TasksShape, ServiceOK
  <2>1. \A u \in Task : u # t /\ u \in suppressed[owner[t]] => u \in suppressed'[owner[t]]
    <3>1. CASE memory[owner[t]][t] = "running"
      BY <1>0, <2>0, <3>1
    <3>2. CASE memory[owner[t]][t] # "running"
      BY <3>2
    <3>3. QED BY <3>1, <3>2
  <2>2. \A j \in Instance, u \in Task : u # t /\ u \in suppressed[j] => u \in suppressed'[j]
    <3>1. CASE memory[owner[t]][t] = "running"
      <4>1. \A j \in Instance : j # owner[t] => suppressed'[j] = suppressed[j]
        BY <1>0, <2>0, <3>1
      <4>2. QED BY <2>1, <4>1
    <3>2. CASE memory[owner[t]][t] # "running"
      BY <3>2
    <3>3. QED BY <3>1, <3>2
  <2>3. work'[t] = "over"
    BY DEF TasksShape, TasksOK
  <2>4. QED BY <2>2, <2>3 DEF PollCourse, OrderInv, PolledOK
<1>4. \A j \in Instance : Longer(j) /\ FreshOK(j)
  <2> DEFINE u == Upsert(t, outcome[t])
  <2>1. /\ u \in WriteRow /\ Notify(t) \in WriteRow /\ u.task = t /\ ~IsA("upsert", u.task, Notify(t))
    BY <1>a, RowTypes DEF Upsert, Notify, IsA
  <2>2. CASE chain' = chain
    BY <2>2, SameFresh
  <2>3. memory[owner[t]][t] = "running" => FreshWrite(owner[t], u)
    BY <1>0, <1>b DEF FreshWrite, TasksShape, TasksOK, WorkOK, Upsert
  <2>4. memory[owner[t]][t] = "running" /\ t \notin suppressed[owner[t]] => FreshWrite(owner[t], Notify(t))
    BY <1>0 DEF FreshWrite, Notify, TasksShape, TasksOK, WorkOK
  <2>5. CASE /\ memory[owner[t]][t] = "running"
             /\ chain' = [chain EXCEPT ![owner[t]] = Append(@, u)]
    <3> HIDE DEF u, Returns
    <3>1. QED BY <1>0, <2>1, <2>3, <2>5, FreshByOne
  <2>6. CASE /\ memory[owner[t]][t] = "running" /\ t \notin suppressed[owner[t]]
             /\ chain' = [chain EXCEPT ![owner[t]] = Append(Append(@, u), Notify(t))]
    <3>1. PICK i \in Instance, v \in WriteRow, w \in WriteRow :
            /\ owner[t] = i /\ v = u /\ w = Notify(t)
            /\ chain' = [chain EXCEPT ![i] = Append(Append(@, v), w)]
      BY <1>0, <2>1, <2>6
    <3>2. FreshWrite(i, v) /\ FreshWrite(i, w) /\ ~IsA("upsert", v.task, w)
      BY <2>1, <2>3, <2>4, <2>6, <3>1
    <3>3. QED BY <3>1, <3>2, FreshByTwo
  <2>7. QED BY <1>0, <2>2, <2>5, <2>6 DEF TasksShape, ServiceOK
<1>5. \A j \in Instance : Steady(j)
  BY <1>0, <1>n DEF Steady, TasksShape, TasksOK
<1>6. QED BY <1>1, <1>2, <1>3, <1>4, <1>5 DEF Course, Goes

LEMMA CancelsCourse ==
  ASSUME TasksShape, OrderInv, NEW t \in Task, Cancels(t)
  PROVE  Course
<1> USE DEF Cancels, Ends, taskVars, rowVars, serviceVars, historyVars
<1>0. /\ owner[t] \in Instance /\ memory[owner[t]][t] \in {"running"} \cup Finished
      /\ work[t] \notin {"new", "dead"}
  BY OwnerOf
<1>m. memory' = memory \/ (memory[owner[t]][t] = "running"
                           /\ \E s \in Finished : memory' = [memory EXCEPT ![owner[t]][t] = s])
  BY <1>0 DEF Finished, TasksShape, WorkOK, TasksOK
<1>n. \A j \in Instance, u \in Task :
        memory[j][u] # "running" \/ owner[t] # j \/ u # t => memory'[j][u] = memory[j][u]
  <2>1. CASE memory' = memory
    BY <2>1
  <2>2. ASSUME NEW s \in Finished, memory' = [memory EXCEPT ![owner[t]][t] = s], memory[owner[t]][t] = "running"
        PROVE  \A j \in Instance, u \in Task :
                 memory[j][u] # "running" \/ owner[t] # j \/ u # t => memory'[j][u] = memory[j][u]
    BY <1>0, <2>2 DEF TasksShape, TasksOK
  <2>3. QED BY <1>m, <2>1, <2>2
<1>1. LifeCourse
  BY <1>0, <1>n DEF LifeCourse, TasksShape, TasksOK, WorkOK
<1>2. Quiet
  BY DEF Quiet, TasksShape, RowsOK, Finished
<1>3. PollCourse
  BY DEF PollCourse, OrderInv, PolledOK, TasksShape, ServiceOK
<1>4. \A j \in Instance : Longer(j) /\ FreshOK(j)
  <2>1. \A s \in Finished : Upsert(t, s) \in WriteRow /\ Upsert(t, s).op = "upsert" /\ Upsert(t, s).task = t
                          /\ Upsert(t, s).status = s
    BY RowTypes DEF Upsert
  <2>2. CASE chain' = chain
    BY <2>2, SameFresh
  <2>3. ASSUME NEW s \in Finished, memory[owner[t]][t] = "running", memory'[owner[t]][t] = s,
               chain' = [chain EXCEPT ![owner[t]] = Append(@, Upsert(t, s))]
        PROVE  \A j \in Instance : Longer(j) /\ FreshOK(j)
    <3>1. FreshWrite(owner[t], Upsert(t, s))
      BY <1>0, <2>1, <2>3 DEF FreshWrite, TasksShape, TasksOK, WorkOK
    <3>2. QED BY <1>0, <2>1, <2>3, <3>1, FreshByOne
  <2>4. chain' = chain \/ \E s \in Finished : /\ memory[owner[t]][t] = "running" /\ memory'[owner[t]][t] = s
                                             /\ chain' = [chain EXCEPT ![owner[t]] = Append(@, Upsert(t, s))]
    BY <1>0 DEF Finished, TasksShape, TasksOK, WorkOK, ServiceOK
  <2>5. QED BY <2>2, <2>3, <2>4
<1>5. \A j \in Instance : Steady(j)
  BY <1>0, <1>n DEF Steady, TasksShape, TasksOK
<1>6. QED BY <1>1, <1>2, <1>3, <1>4, <1>5 DEF Course, Goes

LEMMA NoticeTakenCourse ==
  ASSUME TasksShape, OrderInv, NEW t \in Task, NoticeTaken(t)
  PROVE  Course
<1> USE DEF NoticeTaken, taskVars, rowVars, serviceVars, historyVars
<1>1. LifeCourse
  BY DEF LifeCourse, TasksShape, TasksOK, WorkOK, NewOK, Statuses, Finished
<1>2. Quiet
  BY DEF Quiet, TasksShape, RowsOK, Finished
<1>3. PollCourse
  BY DEF PollCourse, OrderInv, PolledOK, TasksShape, ServiceOK
<1>4. \A j \in Instance : Longer(j) /\ FreshOK(j)
  BY SameFresh
<1>5. \A j \in Instance : Steady(j)
  BY DEF Steady, TasksShape, TasksOK, WorkOK, NewOK, Statuses, Finished
<1>6. QED BY <1>1, <1>2, <1>3, <1>4, <1>5 DEF Course, Goes

LEMMA LeaseLapsesCourse ==
  ASSUME TasksShape, OrderInv, NEW t \in Task, LeaseLapses(t)
  PROVE  Course
<1> USE DEF LeaseLapses, Fault, taskVars, rowVars, serviceVars, historyVars
<1>1. LifeCourse
  BY DEF LifeCourse, TasksShape, TasksOK, WorkOK, NewOK, Statuses, Finished
<1>2. Quiet
  BY DEF Quiet, TasksShape, RowsOK, Finished
<1>3. PollCourse
  BY DEF PollCourse, OrderInv, PolledOK, TasksShape, ServiceOK
<1>4. \A j \in Instance : Longer(j) /\ FreshOK(j)
  BY SameFresh
<1>5. \A j \in Instance : Steady(j)
  BY DEF Steady, TasksShape, TasksOK, WorkOK, NewOK, Statuses, Finished
<1>6. QED BY <1>1, <1>2, <1>3, <1>4, <1>5 DEF Course, Goes

LEMMA HeartbeatCourse ==
  ASSUME TasksShape, OrderInv, NEW i \in Instance, Heartbeat(i)
  PROVE  Course
<1> USE DEF Heartbeat, taskVars, rowVars, serviceVars, historyVars
<1>1. LifeCourse
  BY DEF LifeCourse, TasksShape, TasksOK, WorkOK, NewOK, Statuses, Finished
<1>2. Quiet
  BY DEF Quiet, TasksShape, RowsOK, Finished
<1>3. PollCourse
  BY DEF PollCourse, OrderInv, PolledOK, TasksShape, ServiceOK
<1>4. \A j \in Instance : Longer(j) /\ FreshOK(j)
  BY FreshByRenewals
<1>5. \A j \in Instance : Steady(j)
  BY DEF Steady, TasksShape, TasksOK, WorkOK, NewOK, Statuses, Finished
<1>6. QED BY <1>1, <1>2, <1>3, <1>4, <1>5 DEF Course, Goes

LEMMA CrashCourse ==
  ASSUME TasksShape, OrderInv, NEW i \in Instance, Crash(i)
  PROVE  Course
<1> USE DEF Crash, RefreshRest, taskVars, rowVars, serviceVars, historyVars
<1>1. LifeCourse
  BY DEF LifeCourse, TasksShape, TasksOK, WorkOK, NewOK, Statuses, Finished
<1>2. Quiet
  BY DEF Quiet, TasksShape, RowsOK, Finished
<1>3. PollCourse
  BY DEF PollCourse, OrderInv, PolledOK, TasksShape, ServiceOK, TasksOK
<1>4. \A j \in Instance : Cleared(j) \/ (j # i /\ Longer(j) /\ FreshOK(j))
  <2>1. chain'[i] = <<>> /\ \A j \in Instance : j # i => chain'[j] = chain[j]
    BY DEF TasksShape, ServiceOK
  <2>2. Cleared(i)
    BY <2>1 DEF Cleared
  <2>3. \A j \in Instance : j # i => Longer(j) /\ FreshOK(j)
    BY <2>1, ChainsOf DEF Longer, Added, FreshOK
  <2>4. QED BY <2>2, <2>3
<1>5. \A j \in Instance : j # i => Steady(j)
  BY DEF Steady, TasksShape, TasksOK
<1>6. QED BY <1>1, <1>2, <1>3, <1>4, <1>5 DEF Course, Goes

LEMMA AsksCourse ==
  ASSUME TasksShape, OrderInv, NEW q \in Reader, Asks(q)
  PROVE  Course
<1> USE DEF Asks, taskVars, rowVars, serviceVars, historyVars
<1>0. Home[q] \in Instance /\ chain' = [chain EXCEPT ![Home[q]] = WithRenewals(Home[q])]
  OBVIOUS
<1>1. LifeCourse
  BY DEF LifeCourse, TasksShape, TasksOK, WorkOK, NewOK, Statuses, Finished
<1>2. Quiet
  BY DEF Quiet, TasksShape, RowsOK, Finished
<1>3. PollCourse
  BY DEF PollCourse, OrderInv, PolledOK, TasksShape, ServiceOK
<1>4. \A j \in Instance : Longer(j) /\ FreshOK(j)
  BY <1>0, FreshByRenewals
<1>5. \A j \in Instance : Steady(j)
  BY DEF Steady, TasksShape, TasksOK, WorkOK, NewOK, Statuses, Finished
<1>6. QED BY <1>1, <1>2, <1>3, <1>4, <1>5 DEF Course, Goes

LEMMA ExpiresCourse ==
  ASSUME TasksShape, OrderInv, NEW q \in Reader, Expires(q)
  PROVE  Course
<1> USE DEF Expires, Noted, Expired, taskVars, rowVars, serviceVars, historyVars
<1>1. LifeCourse
  BY DEF LifeCourse, TasksShape, TasksOK, WorkOK, NewOK, Statuses, Finished
<1>2. Quiet
  BY DEF Quiet, TasksShape, RowsOK, Finished
<1>3. PollCourse
  BY DEF PollCourse, OrderInv, PolledOK, TasksShape, ServiceOK
<1>4. \A j \in Instance : Longer(j) /\ FreshOK(j)
  BY SameFresh
<1>5. \A j \in Instance : Steady(j)
  BY DEF Steady, TasksShape, TasksOK, WorkOK, NewOK, Statuses, Finished
<1>6. QED BY <1>1, <1>2, <1>3, <1>4, <1>5 DEF Course, Goes

LEMMA ReadsCourse ==
  ASSUME TasksShape, OrderInv, NEW q \in Reader, Reads(q)
  PROVE  Course
<1> USE DEF Reads, taskVars, rowVars, serviceVars, historyVars
<1>1. LifeCourse
  BY DEF LifeCourse, TasksShape, TasksOK, WorkOK, NewOK, Statuses, Finished
<1>2. Quiet
  BY DEF Quiet, TasksShape, RowsOK, Finished
<1>3. PollCourse
  BY DEF PollCourse, OrderInv, PolledOK, TasksShape, ServiceOK
<1>4. \A j \in Instance : Longer(j) /\ FreshOK(j)
  BY SameFresh
<1>5. \A j \in Instance : Steady(j)
  BY DEF Steady, TasksShape, TasksOK, WorkOK, NewOK, Statuses, Finished
<1>6. QED BY <1>1, <1>2, <1>3, <1>4, <1>5 DEF Course, Goes

LEMMA HandlesCourse ==
  ASSUME TasksShape, OrderInv, NEW q \in Reader, NEW t \in Task, Handles(q, t)
  PROVE  Course
<1> USE DEF Handles, Kept, Candidates, taskVars, rowVars, serviceVars, historyVars
<1>0. Home[q] \in Instance /\ refresh[q].rows[t] # "absent"
  BY RefreshOf
<1>n. /\ owner[t] = Home[q] => memory' = memory
      /\ \A j \in Instance, u \in Task : j # Home[q] \/ u # t => memory'[j][u] = memory[j][u]
  BY <1>0 DEF TasksShape, TasksOK
<1>1. LifeCourse
  BY <1>0, <1>n DEF LifeCourse, TasksShape, TasksOK, WorkOK, NewOK
<1>2. Quiet
  BY DEF Quiet, TasksShape, RowsOK, Finished
<1>3. PollCourse
  BY DEF PollCourse, OrderInv, PolledOK, TasksShape, ServiceOK
<1>4. \A j \in Instance : Longer(j) /\ FreshOK(j)
  BY SameFresh
<1>5. \A j \in Instance : Steady(j)
  BY <1>0, <1>n DEF Steady, TasksShape, TasksOK, WorkOK, NewOK
<1>6. QED BY <1>1, <1>2, <1>3, <1>4, <1>5 DEF Course, Goes

LEMMA RecoversCourse ==
  ASSUME TasksShape, OrderInv, NEW q \in Reader, Recovers(q)
  PROVE  Course
<1> USE DEF Recovers, taskVars, rowVars, serviceVars, historyVars
<1>1. LifeCourse
  BY DEF LifeCourse, TasksShape, TasksOK, WorkOK, NewOK, Statuses, Finished
<1>2. Quiet
  BY DEF Quiet, TasksShape, RowsOK, Finished
<1>3. PollCourse
  BY DEF PollCourse, OrderInv, PolledOK, TasksShape, ServiceOK
<1>4. \A j \in Instance : Longer(j) /\ FreshOK(j)
  BY SameFresh
<1>5. \A j \in Instance : Steady(j)
  BY DEF Steady, TasksShape, TasksOK, WorkOK, NewOK, Statuses, Finished
<1>6. QED BY <1>1, <1>2, <1>3, <1>4, <1>5 DEF Course, Goes

LEMMA InterruptsCourse ==
  ASSUME TasksShape, OrderInv, NEW q \in Reader, Interrupts(q)
  PROVE  Course
<1> USE DEF Interrupts, taskVars, rowVars, serviceVars, historyVars
<1>1. LifeCourse
  BY DEF LifeCourse, TasksShape, TasksOK, WorkOK, NewOK, Statuses, Finished
<1>2. Quiet
  BY DEF Quiet, TasksShape, RowsOK, Finished
<1>3. PollCourse
  BY DEF PollCourse, OrderInv, PolledOK, TasksShape, ServiceOK
<1>4. \A j \in Instance : Longer(j) /\ FreshOK(j)
  BY SameFresh
<1>5. \A j \in Instance : Steady(j)
  BY DEF Steady, TasksShape, TasksOK, WorkOK, NewOK, Statuses, Finished
<1>6. QED BY <1>1, <1>2, <1>3, <1>4, <1>5 DEF Course, Goes

LEMMA RecoveryTellsCourse ==
  ASSUME TasksShape, OrderInv, NEW q \in Reader, RecoveryTells(q)
  PROVE  Course
<1> USE DEF RecoveryTells, Told, Fault, taskVars, rowVars, serviceVars, historyVars
<1>1. LifeCourse
  BY DEF LifeCourse, TasksShape, TasksOK, WorkOK, NewOK, Statuses, Finished
<1>2. Quiet
  BY DEF Quiet, TasksShape, RowsOK, Finished
<1>3. PollCourse
  BY DEF PollCourse, OrderInv, PolledOK, TasksShape, ServiceOK
<1>4. \A j \in Instance : Longer(j) /\ FreshOK(j)
  BY SameFresh
<1>5. \A j \in Instance : Steady(j)
  BY DEF Steady, TasksShape, TasksOK, WorkOK, NewOK, Statuses, Finished
<1>6. QED BY <1>1, <1>2, <1>3, <1>4, <1>5 DEF Course, Goes

LEMMA AnswersCourse ==
  ASSUME TasksShape, OrderInv, NEW q \in Reader, Answers(q)
  PROVE  Course
<1> USE DEF Answers, Vanished, Owned, RefreshRest, taskVars, rowVars, serviceVars, historyVars
<1>1. LifeCourse
  BY DEF LifeCourse, TasksShape, TasksOK, WorkOK, NewOK, Statuses, Finished
<1>2. Quiet
  BY DEF Quiet, TasksShape, RowsOK, Finished
<1>3. PollCourse
  BY DEF PollCourse, OrderInv, PolledOK, TasksShape, ServiceOK
<1>4. \A j \in Instance : Longer(j) /\ FreshOK(j)
  BY SameFresh
<1>5. \A j \in Instance : Steady(j)
  BY DEF Steady, TasksShape, TasksOK, WorkOK, NewOK, Statuses, Finished
<1>6. QED BY <1>1, <1>2, <1>3, <1>4, <1>5 DEF Course, Goes

-----------------------------------------------------------------------------
(* The write at the head of a chain.                                       *)

Wrote(i, w) ==
  \/ /\ table' = IF w.op = "upsert" THEN [table EXCEPT ![w.task] = w.status] ELSE table
     /\ notice' = CASE w.op = "notice" -> [notice EXCEPT ![w.task] = IF @ = "none" THEN "queued" ELSE @]
                    [] w.op = "settle" -> [notice EXCEPT ![w.task] = IF @ = "queued" THEN "gone" ELSE @]
                    [] OTHER -> notice
     /\ lost' = lost
  \/ /\ table' = table /\ notice' = notice
     /\ lost' = lost \cup {<<w.op, w.task>>}

\* The chain of i is shorter by its head; the tasks and the other chains stay.
LEMMA ChainWritesFacts ==
  ASSUME TasksShape, NEW i \in Instance, ChainWrites(i)
  PROVE  LET w == chain[i][1] IN
         /\ w \in WriteRow /\ w.task \in Task /\ Len(chain[i]) \in Nat /\ 1 \in 1..Len(chain[i])
         /\ Wrote(i, w)
         /\ \A j \in Instance : \A n \in 1..Len(chain'[j]) :
              \/ j # i /\ n \in 1..Len(chain[j]) /\ chain'[j] = chain[j]
              \/ /\ j = i /\ n + 1 \in 1..Len(chain[i]) /\ n \in Nat
                 /\ chain'[i][n] = chain[i][n + 1]
         /\ Len(chain'[i]) = Len(chain[i]) - 1
         /\ \A j \in Instance : j # i => chain'[j] = chain[j]
         /\ memory' = memory /\ owner' = owner /\ work' = work /\ suppressed' = suppressed
         /\ cancelled' = cancelled /\ polled' = polled
<1>1. chain \in [Instance -> Seq(WriteRow)] /\ chain[i] # <<>>
  BY DEF TasksShape, ServiceOK, ChainWrites
<1>2. /\ Head(chain[i]) \in WriteRow /\ Head(chain[i]) = chain[i][1]
      /\ 1 \in 1..Len(chain[i]) /\ Len(chain[i]) \in Nat
      /\ Len(Tail(chain[i])) = Len(chain[i]) - 1 /\ Len(Tail(chain[i])) \in Nat
      /\ \A n \in 1..Len(Tail(chain[i])) : Tail(chain[i])[n] = chain[i][n + 1]
  BY <1>1, Headed
<1>3. chain' = [chain EXCEPT ![i] = Tail(@)]
  BY DEF ChainWrites
<1>4. chain'[i] = Tail(chain[i]) /\ \A j \in Instance : j # i => chain'[j] = chain[j]
  BY <1>1, <1>3
<1>5. \A n \in 1..Len(chain'[i]) : /\ n + 1 \in 1..Len(chain[i]) /\ n \in Nat
                                   /\ chain'[i][n] = chain[i][n + 1]
  BY <1>2, <1>4
<1>6. Wrote(i, chain[i][1])
  <2> DEFINE w == Head(chain[i])
  <2>1. Done(i, w) \/ Failed(i, w)
    BY DEF ChainWrites
  <2>2. CASE Done(i, w)
    BY <1>2, <2>2 DEF Done, Wrote
  <2>3. CASE Failed(i, w)
    BY <1>2, <2>3 DEF Failed, Wrote, rowVars
  <2>4. QED BY <2>1, <2>2, <2>3
<1>7. /\ memory' = memory /\ owner' = owner /\ work' = work /\ suppressed' = suppressed
      /\ cancelled' = cancelled /\ polled' = polled
  BY DEF ChainWrites, taskVars
<1>8. chain[i][1].task \in Task
  BY <1>2 DEF WriteRow
<1>9. QED BY <1>2, <1>4, <1>5, <1>6, <1>7, <1>8

LEMMA ChainWritesOrder ==
  ASSUME TasksShape, OrderInv, NEW i \in Instance, ChainWrites(i)
  PROVE  OrderInv'
<1> DEFINE w == chain[i][1]
<1>1. /\ w \in WriteRow /\ w.task \in Task /\ Len(chain[i]) \in Nat /\ 1 \in 1..Len(chain[i])
      /\ Wrote(i, w)
  BY ChainWritesFacts
<1>2. \A j \in Instance : \A n \in 1..Len(chain'[j]) :
        \/ j # i /\ n \in 1..Len(chain[j]) /\ chain'[j] = chain[j]
        \/ /\ j = i /\ n + 1 \in 1..Len(chain[i]) /\ n \in Nat
           /\ chain'[i][n] = chain[i][n + 1]
  BY ChainWritesFacts
<1>3. Len(chain'[i]) = Len(chain[i]) - 1 /\ \A j \in Instance : j # i => chain'[j] = chain[j]
  BY ChainWritesFacts
<1>4. /\ memory' = memory /\ owner' = owner /\ work' = work /\ suppressed' = suppressed
      /\ cancelled' = cancelled /\ polled' = polled
  BY ChainWritesFacts
<1>5. UpsertsOK /\ EndedOK /\ NoticeOK /\ PolledOK /\ ChainKnown
  BY DEF OrderInv
<1>a. notice \in [Task -> {"none", "queued", "gone"}] /\ table \in [Task -> Statuses \cup {"expired"}]
  BY DEF TasksShape, RowsOK
<1>b. w.op \in {"upsert", "notice", "settle"} /\ (w.op = "upsert" => w.status \in {"running"} \cup Finished)
  BY <1>1 DEF WriteRow
<1> HIDE DEF w
<1>6. ChainKnown'
  BY <1>2, <1>4, <1>5 DEF ChainKnown
<1>7. UpsertsOK'
  <2> SUFFICES ASSUME NEW j \in Instance, NEW n \in 1..Len(chain'[j]), chain'[j][n].op = "upsert"
               PROVE  /\ owner[chain'[j][n].task] = j
                      /\ chain'[j][n].status # "running" =>
                           /\ chain'[j][n].status = memory[j][chain'[j][n].task]
                           /\ \A m \in (n + 1)..Len(chain'[j]) :
                                ~IsA("upsert", chain'[j][n].task, chain'[j][m])
    BY <1>4 DEF UpsertsOK
  <2>1. CASE j # i
    BY <1>2, <1>5, <2>1 DEF UpsertsOK
  <2>2. CASE j = i
    <3>1. /\ n + 1 \in 1..Len(chain[i]) /\ n \in Nat /\ chain'[i][n] = chain[i][n + 1]
      BY <1>2, <2>2
    <3>2. \A m \in (n + 1)..Len(chain'[i]) :
            m + 1 \in ((n + 1) + 1)..Len(chain[i]) /\ chain'[i][m] = chain[i][m + 1]
      <4> TAKE m \in (n + 1)..Len(chain'[i])
      <4>1. m \in 1..Len(chain'[i]) /\ m + 1 \in ((n + 1) + 1)..Len(chain[i])
        BY <1>1, <1>3, <3>1
      <4>2. QED BY <1>2, <4>1
    <3>3. QED BY <1>5, <2>2, <3>1, <3>2 DEF UpsertsOK
  <2>3. QED BY <2>1, <2>2
<1>8. ASSUME NEW t \in Task, table'[t] \in Finished
      PROVE  /\ owner[t] # Nil => memory[owner[t]][t] # "running"
             /\ \A j \in Instance : \A n \in 1..Len(chain'[j]) : ~IsA("upsert", t, chain'[j][n])
  <2>1. CASE table[t] \in Finished
    BY <1>2, <1>5, <2>1 DEF EndedOK
  <2>2. CASE table[t] \notin Finished
    <3>1. w.op = "upsert" /\ w.task = t /\ w.status \in Finished
      BY <1>1, <1>8, <1>a, <2>2 DEF Wrote
    <3>2. owner[t] = i /\ memory[i][t] \in Finished
      BY <1>1, <1>5, <3>1 DEF UpsertsOK, Finished, w
    <3>3. ASSUME NEW j \in Instance, NEW n \in 1..Len(chain'[j]), IsA("upsert", t, chain'[j][n])
          PROVE  FALSE
      <4>1. CASE j # i
        BY <1>2, <1>5, <3>2, <3>3, <4>1 DEF UpsertsOK, IsA
      <4>2. CASE j = i
        <5>1. n + 1 \in (1 + 1)..Len(chain[i]) /\ chain'[i][n] = chain[i][n + 1]
          BY <1>2, <3>3, <4>2
        <5>2. \A m \in (1 + 1)..Len(chain[i]) : ~IsA("upsert", t, chain[i][m])
          BY <1>1, <1>5, <3>1 DEF UpsertsOK, Finished, w
        <5>3. QED BY <3>3, <4>2, <5>1, <5>2
      <4>3. QED BY <4>1, <4>2
    <3>4. QED BY <3>2, <3>3 DEF Finished
  <2>3. QED BY <2>1, <2>2
<1>9. EndedOK'
  BY <1>4, <1>8 DEF EndedOK
<1>10. ASSUME NEW t \in Task, notice'[t] # notice[t], notice'[t] # "gone"
       PROVE  w.op = "notice" /\ w.task = t /\ notice'[t] = "queued" /\ notice[t] = "none"
  BY <1>1, <1>10, <1>a, <1>b DEF Wrote
<1>11. NoticeOK'
  <2>1. ASSUME NEW t \in Task, notice'[t] # "none"
        PROVE  work[t] \in {"over", "dead"} /\ t \notin cancelled
    <3>1. CASE notice[t] # "none"
      BY <1>5, <3>1 DEF NoticeOK
    <3>2. CASE notice[t] = "none"
      <4>1. w.op = "notice" /\ w.task = t
        BY <1>1, <1>a, <1>b, <2>1, <3>2 DEF Wrote
      <4>2. QED BY <1>1, <1>5, <4>1 DEF NoticeOK, w
    <3>3. QED BY <3>1, <3>2
  <2>2. \A j \in Instance : \A n \in 1..Len(chain'[j]) : chain'[j][n].op = "notice" =>
          /\ owner[chain'[j][n].task] = j /\ work[chain'[j][n].task] = "over"
          /\ chain'[j][n].task \notin cancelled
    BY <1>2, <1>5 DEF NoticeOK
  <2>3. QED BY <1>4, <2>1, <2>2 DEF NoticeOK
<1>12. ASSUME NEW t \in Task, NEW j \in Instance, <<j, t>> \in polled, owner[t] = j,
              <<"settle", t>> \notin lost', Noticed(j, t)'
       PROVE  Settled(j, t)'
  <2>1. <<"settle", t>> \notin lost
    BY <1>1, <1>12 DEF Wrote
  <2>2. w.op = "notice" /\ w.task = t => j = i
    BY <1>1, <1>5, <1>12 DEF NoticeOK, w
  <2>3. Noticed(j, t)
    <3>1. CASE notice'[t] = "queued"
      <4>1. CASE notice[t] = "queued"
        BY <4>1 DEF Noticed
      <4>2. CASE notice[t] # "queued"
        <5>1. w.op = "notice" /\ w.task = t
          BY <1>10, <3>1, <4>2
        <5>2. QED BY <1>1, <2>2, <5>1 DEF Noticed, IsA, w
      <4>3. QED BY <4>1, <4>2
    <3>2. CASE \E n \in 1..Len(chain'[j]) : IsA("notice", t, chain'[j][n])
      BY <1>2, <3>2 DEF Noticed
    <3>3. QED BY <1>12, <3>1, <3>2 DEF Noticed
  <2>4. PICK m \in 1..Len(chain[j]) :
          /\ IsA("settle", t, chain[j][m])
          /\ \A n \in 1..Len(chain[j]) : IsA("notice", t, chain[j][n]) => n < m
    BY <1>5, <1>12, <2>1, <2>3 DEF PolledOK, Settled
  <2>5. CASE j # i
    BY <1>3, <2>4, <2>5 DEF Settled
  <2>6. CASE j = i /\ m # 1
    <3>1. m - 1 \in 1..Len(chain'[i]) /\ (m - 1) + 1 = m
      BY <1>1, <1>3, <2>4, <2>6
    <3>2. chain'[i][m - 1] = chain[i][m]
      BY <1>2, <3>1
    <3>3. \A n \in 1..Len(chain'[i]) : IsA("notice", t, chain'[i][n]) => n < m - 1
      <4> TAKE n \in 1..Len(chain'[i])
      <4>1. n + 1 \in 1..Len(chain[i]) /\ chain'[i][n] = chain[i][n + 1]
        BY <1>2
      <4>2. QED BY <2>4, <2>6, <4>1
    <3>4. QED BY <2>4, <2>6, <3>1, <3>2, <3>3 DEF Settled
  <2>7. CASE j = i /\ m = 1
    <3>1. w.op = "settle" /\ w.task = t
      BY <2>4, <2>7 DEF IsA, w
    <3>2. notice'[t] # "queued"
      BY <1>1, <1>12, <1>a, <3>1 DEF Wrote
    <3>3. PICK n \in 1..Len(chain'[i]) : IsA("notice", t, chain'[i][n])
      BY <1>12, <2>7, <3>2 DEF Noticed
    <3>4. n + 1 \in 1..Len(chain[i]) /\ chain'[i][n] = chain[i][n + 1] /\ ~(n + 1 < 1)
      BY <1>2
    <3>5. QED BY <2>4, <2>7, <3>3, <3>4
  <2>8. QED BY <2>5, <2>6, <2>7
<1>13. PolledOK'
  BY <1>4, <1>5, <1>12 DEF PolledOK
<1>14. QED BY <1>6, <1>7, <1>9, <1>11, <1>13 DEF OrderInv
-----------------------------------------------------------------------------
(* The gate.                                                               *)

\* What is at work under a lease that never lapsed is not known to have ended, by
\* anybody or in any rows that were read.
SeenOK == \A t \in Task : AtWork(t) /\ t \notin presumed =>
  /\ t \notin lapsed /\ table[t] # "expired"
  /\ \A i \in Instance : memory[i][t] \in {"absent", "running"}
  /\ \A q \in Reader : refresh[q].rows[t] \in {"absent", "running"}

\* Rows of others that a refresh has handled are in the memory of its instance.
Handling == {"handle", "recover", "report"}
HandledOK == \A q \in Reader, t \in Task :
  /\ refresh[q].pc \in Handling /\ refresh[q].rows[t] # "absent"
  /\ t \notin refresh[q].todo /\ owner[t] # Home[q]
  => memory[Home[q]][t] # "absent"

GateInv == SeenOK /\ HandledOK

\* Each instance has one refresh under way at a time.
OneRefresh == \A p, q \in Reader : Home[p] = Home[q] => p = q

SeenCourse == \A t \in Task : AtWork(t)' /\ t \notin presumed' =>
  /\ t \notin presumed
  /\ t \in lapsed' => t \in lapsed
  /\ table'[t] = "expired" => table[t] = "expired" \/ t \in lapsed
  /\ \A i \in Instance : \/ memory'[i][t] \in {memory[i][t], "absent", "running"}
                         \/ \E q \in Reader : memory'[i][t] = Status(refresh[q].rows[t])
  /\ \A q \in Reader : refresh'[q].rows[t] \in {refresh[q].rows[t], "absent", table[t]}

LEMMA SeenKept ==
  ASSUME TasksShape, OrderInv, SeenOK, LifeCourse, SeenCourse
  PROVE  SeenOK'
<1> SUFFICES ASSUME NEW t \in Task, AtWork(t)', t \notin presumed'
             PROVE  /\ t \notin lapsed' /\ table'[t] # "expired"
                    /\ \A i \in Instance : memory'[i][t] \in {"absent", "running"}
                    /\ \A q \in Reader : refresh'[q].rows[t] \in {"absent", "running"}
  BY DEF SeenOK
<1>1. /\ t \notin lapsed /\ table[t] \in {"absent", "running"}
      /\ \A i \in Instance : memory[i][t] \in {"absent", "running"}
      /\ \A q \in Reader : refresh[q].rows[t] \in {"absent", "running"}
  <2>1. CASE work[t] = "new"
    BY <2>1 DEF TasksShape, NewOK, RowsOK
  <2>2. CASE work[t] # "new"
    <3>1. AtWork(t) /\ t \notin presumed
      BY <2>2 DEF LifeCourse, AtWork, SeenCourse
    <3>2. table[t] \notin Finished /\ table[t] \in Statuses \cup {"expired"}
      BY <3>1 DEF AtWork, OrderInv, EndedOK, TasksShape, RowsOK
    <3>3. QED BY <3>1, <3>2 DEF SeenOK, Statuses
  <2>3. QED BY <2>1, <2>2
<1>2. QED BY <1>1 DEF SeenCourse, Status

\* Only the instance of a task learns what becomes of it.
OwnMemory == \A j \in Instance, u \in Task :
  memory'[j][u] = memory[j][u] \/ (owner'[u] = j /\ memory'[j][u] # "absent")

LEMMA GateSteady ==
  ASSUME TasksShape, OrderInv, GateInv, LifeCourse, OwnMemory,
         refresh' = refresh, table' = table, presumed \subseteq presumed',
         \A t \in Task : t \in lapsed' => t \in lapsed \/ t \in presumed' \/ owner'[t] = Nil,
         \A t \in Task : owner'[t] # owner[t] => work[t] = "new"
  PROVE  GateInv'
<1>1. SeenCourse
  <2> SUFFICES ASSUME NEW t \in Task, AtWork(t)', t \notin presumed'
               PROVE  \A i \in Instance : memory'[i][t] \in {memory[i][t], "absent", "running"}
    BY DEF SeenCourse, AtWork
  <2>1. QED BY DEF OwnMemory, AtWork
<1>2. HandledOK'
  <2> SUFFICES ASSUME NEW q \in Reader, NEW t \in Task,
                      refresh[q].pc \in Handling, refresh[q].rows[t] # "absent",
                      t \notin refresh[q].todo, owner'[t] # Home[q]
               PROVE  memory'[Home[q]][t] # "absent"
    BY DEF HandledOK
  <2>1. owner[t] # Home[q] /\ Home[q] \in Instance
    BY RefreshOf DEF TasksShape, NewOK
  <2>2. memory[Home[q]][t] # "absent"
    BY <2>1 DEF GateInv, HandledOK
  <2>3. QED BY <2>1, <2>2 DEF OwnMemory
<1>3. QED BY <1>1, <1>2, SeenKept DEF GateInv

LEMMA StatusPresent ==
  ASSUME NEW row, row # "absent"
  PROVE  Status(row) # "absent"
  BY DEF Status

LEMMA StartedGate ==
  ASSUME TasksShape, OrderInv, GateInv, NEW i \in Instance, NEW t \in Task, Started(i, t)
  PROVE  GateInv'
<1> USE DEF Started, MayStart, taskVars, rowVars, serviceVars, historyVars
<1>0. work[t] = "new" /\ memory \in [Instance -> [Task -> Statuses]] /\ owner' = [owner EXCEPT ![t] = i]
      /\ owner \in [Task -> Instance \cup {Nil}]
  BY DEF TasksShape, TasksOK
<1>1. LifeCourse
  BY StartedCourse DEF Course
<1>2. OwnMemory
  BY <1>0 DEF OwnMemory
<1>3. refresh' = refresh /\ table' = table /\ presumed \subseteq presumed'
  OBVIOUS
<1>4. /\ \A s \in Task : s \in lapsed' => s \in lapsed \/ s \in presumed' \/ owner'[s] = Nil
      /\ \A s \in Task : owner'[s] # owner[s] => work[s] = "new"
  BY <1>0
<1>5. QED BY <1>1, <1>2, <1>3, <1>4, GateSteady

LEMMA SpawnThrowsGate ==
  ASSUME TasksShape, OrderInv, GateInv, NEW i \in Instance, NEW t \in Task, SpawnThrows(i, t)
  PROVE  GateInv'
<1> USE DEF SpawnThrows, MayStart, Published, Marked, Unheard, taskVars, rowVars, serviceVars, historyVars
<1>0. work[t] = "new" /\ memory \in [Instance -> [Task -> Statuses]] /\ owner' = [owner EXCEPT ![t] = i]
      /\ owner \in [Task -> Instance \cup {Nil}]
  BY DEF TasksShape, TasksOK
<1>1. LifeCourse
  BY SpawnThrowsCourse DEF Course
<1>2. OwnMemory
  BY <1>0 DEF OwnMemory
<1>3. refresh' = refresh /\ table' = table /\ presumed \subseteq presumed'
  OBVIOUS
<1>4. /\ \A s \in Task : s \in lapsed' => s \in lapsed \/ s \in presumed' \/ owner'[s] = Nil
      /\ \A s \in Task : owner'[s] # owner[s] => work[s] = "new"
  BY <1>0
<1>5. QED BY <1>1, <1>2, <1>3, <1>4, GateSteady

LEMMA PollsGate ==
  ASSUME TasksShape, OrderInv, GateInv, NEW i \in Instance, NEW t \in Task, Polls(i, t)
  PROVE  GateInv'
<1> USE DEF Polls, taskVars, rowVars, serviceVars, historyVars
<1>1. LifeCourse
  BY PollsCourse DEF Course
<1>2. OwnMemory
  BY DEF OwnMemory
<1>3. refresh' = refresh /\ table' = table /\ presumed \subseteq presumed'
  OBVIOUS
<1>4. /\ \A s \in Task : s \in lapsed' => s \in lapsed \/ s \in presumed' \/ owner'[s] = Nil
      /\ \A s \in Task : owner'[s] # owner[s] => work[s] = "new"
  OBVIOUS
<1>5. QED BY <1>1, <1>2, <1>3, <1>4, GateSteady

LEMMA ErrsGate ==
  ASSUME TasksShape, OrderInv, GateInv, NEW t \in Task, Errs(t)
  PROVE  GateInv'
<1> USE DEF Errs, Ends, taskVars, rowVars, serviceVars, historyVars
<1>0. /\ owner[t] \in Instance /\ memory[owner[t]][t] \in {"running"} \cup Finished
      /\ work[t] \notin {"new", "dead"}
  BY OwnerOf
<1>m. memory' = memory \/ (memory[owner[t]][t] = "running"
                           /\ \E s \in Finished : memory' = [memory EXCEPT ![owner[t]][t] = s])
  BY <1>0 DEF Finished, TasksShape, WorkOK, TasksOK
<1>n. \A j \in Instance, u \in Task :
        memory[j][u] # "running" \/ owner[t] # j \/ u # t => memory'[j][u] = memory[j][u]
  <2>1. CASE memory' = memory
    BY <2>1
  <2>2. ASSUME NEW s \in Finished, memory' = [memory EXCEPT ![owner[t]][t] = s], memory[owner[t]][t] = "running"
        PROVE  \A j \in Instance, u \in Task :
                 memory[j][u] # "running" \/ owner[t] # j \/ u # t => memory'[j][u] = memory[j][u]
    BY <1>0, <2>2 DEF TasksShape, TasksOK
  <2>3. QED BY <1>m, <2>1, <2>2
<1>1. LifeCourse
  BY ErrsCourse DEF Course
<1>2. OwnMemory
  <2>1. CASE memory' = memory
    BY <2>1 DEF OwnMemory
  <2>2. ASSUME NEW s \in Finished, memory' = [memory EXCEPT ![owner[t]][t] = s]
        PROVE  OwnMemory
    BY <1>0, <1>n, <2>2 DEF OwnMemory, TasksShape, TasksOK, Finished
  <2>3. QED BY <1>m, <2>1, <2>2
<1>3. refresh' = refresh /\ table' = table /\ presumed \subseteq presumed'
  OBVIOUS
<1>4. /\ \A s \in Task : s \in lapsed' => s \in lapsed \/ s \in presumed' \/ owner'[s] = Nil
      /\ \A s \in Task : owner'[s] # owner[s] => work[s] = "new"
  OBVIOUS
<1>5. QED BY <1>1, <1>2, <1>3, <1>4, GateSteady

LEMMA ClosesGate ==
  ASSUME TasksShape, OrderInv, GateInv, NEW t \in Task, Closes(t)
  PROVE  GateInv'
<1> USE DEF Closes, Ends, taskVars, rowVars, serviceVars, historyVars
<1>0. /\ owner[t] \in Instance /\ memory[owner[t]][t] \in {"running"} \cup Finished
      /\ work[t] \notin {"new", "dead"}
  BY OwnerOf
<1>m. memory' = memory \/ (memory[owner[t]][t] = "running"
                           /\ \E s \in Finished : memory' = [memory EXCEPT ![owner[t]][t] = s])
  BY <1>0 DEF Finished, TasksShape, WorkOK, TasksOK
<1>n. \A j \in Instance, u \in Task :
        memory[j][u] # "running" \/ owner[t] # j \/ u # t => memory'[j][u] = memory[j][u]
  <2>1. CASE memory' = memory
    BY <2>1
  <2>2. ASSUME NEW s \in Finished, memory' = [memory EXCEPT ![owner[t]][t] = s], memory[owner[t]][t] = "running"
        PROVE  \A j \in Instance, u \in Task :
                 memory[j][u] # "running" \/ owner[t] # j \/ u # t => memory'[j][u] = memory[j][u]
    BY <1>0, <2>2 DEF TasksShape, TasksOK
  <2>3. QED BY <1>m, <2>1, <2>2
<1>1. LifeCourse
  BY ClosesCourse DEF Course
<1>2. OwnMemory
  <2>1. CASE memory' = memory
    BY <2>1 DEF OwnMemory
  <2>2. ASSUME NEW s \in Finished, memory' = [memory EXCEPT ![owner[t]][t] = s]
        PROVE  OwnMemory
    BY <1>0, <1>n, <2>2 DEF OwnMemory, TasksShape, TasksOK, Finished
  <2>3. QED BY <1>m, <2>1, <2>2
<1>3. refresh' = refresh /\ table' = table /\ presumed \subseteq presumed'
  OBVIOUS
<1>4. /\ \A s \in Task : s \in lapsed' => s \in lapsed \/ s \in presumed' \/ owner'[s] = Nil
      /\ \A s \in Task : owner'[s] # owner[s] => work[s] = "new"
  OBVIOUS
<1>5. QED BY <1>1, <1>2, <1>3, <1>4, GateSteady

LEMMA FlushedGate ==
  ASSUME TasksShape, OrderInv, GateInv, NEW t \in Task, Flushed(t)
  PROVE  GateInv'
<1> USE DEF Flushed, Published, Marked, Unheard, taskVars, rowVars, serviceVars, historyVars
<1>0. /\ owner[t] \in Instance /\ memory[owner[t]][t] \in {"running"} \cup Finished
      /\ work[t] \notin {"new", "dead"}
  BY OwnerOf
<1>1. LifeCourse
  BY FlushedCourse DEF Course
<1>2. OwnMemory
  BY DEF OwnMemory
<1>3. refresh' = refresh /\ table' = table /\ presumed \subseteq presumed'
  OBVIOUS
<1>4. /\ \A s \in Task : s \in lapsed' => s \in lapsed \/ s \in presumed' \/ owner'[s] = Nil
      /\ \A s \in Task : owner'[s] # owner[s] => work[s] = "new"
  OBVIOUS
<1>5. QED BY <1>1, <1>2, <1>3, <1>4, GateSteady

LEMMA ChildRunEndsGate ==
  ASSUME TasksShape, OrderInv, GateInv, NEW t \in Task, ChildRunEnds(t)
  PROVE  GateInv'
<1> USE DEF ChildRunEnds, taskVars, rowVars, serviceVars, historyVars
<1>1. LifeCourse
  BY ChildRunEndsCourse DEF Course
<1>2. OwnMemory
  BY DEF OwnMemory
<1>3. refresh' = refresh /\ table' = table /\ presumed \subseteq presumed'
  OBVIOUS
<1>4. /\ \A s \in Task : s \in lapsed' => s \in lapsed \/ s \in presumed' \/ owner'[s] = Nil
      /\ \A s \in Task : owner'[s] # owner[s] => work[s] = "new"
  OBVIOUS
<1>5. QED BY <1>1, <1>2, <1>3, <1>4, GateSteady

LEMMA ReportsGate ==
  ASSUME TasksShape, OrderInv, GateInv, NEW t \in Task, Reports(t)
  PROVE  GateInv'
<1> USE DEF Reports, Told, Fault, taskVars, rowVars, serviceVars, historyVars
<1>1. LifeCourse
  BY ReportsCourse DEF Course
<1>2. OwnMemory
  BY DEF OwnMemory
<1>3. refresh' = refresh /\ table' = table /\ presumed \subseteq presumed'
  OBVIOUS
<1>4. /\ \A s \in Task : s \in lapsed' => s \in lapsed \/ s \in presumed' \/ owner'[s] = Nil
      /\ \A s \in Task : owner'[s] # owner[s] => work[s] = "new"
  OBVIOUS
<1>5. QED BY <1>1, <1>2, <1>3, <1>4, GateSteady

LEMMA ReturnsGate ==
  ASSUME TasksShape, OrderInv, GateInv, NEW t \in Task, Returns(t)
  PROVE  GateInv'
<1> USE DEF Returns, Published, Marked, Unheard, taskVars, rowVars, serviceVars, historyVars
<1>0. /\ owner[t] \in Instance /\ memory[owner[t]][t] \in {"running"} \cup Finished
      /\ work[t] \notin {"new", "dead"}
  BY OwnerOf
<1>a. t \in Agent /\ outcome[t] \in {"completed", "failed"} /\ outcome[t] \in Finished
  BY DEF TasksShape, TasksOK, WorkOK, Finished
<1>n. \A j \in Instance, u \in Task :
        memory[j][u] # "running" \/ owner[t] # j \/ u # t => memory'[j][u] = memory[j][u]
  <2>1. CASE memory[owner[t]][t] = "running"
    BY <1>0, <2>1 DEF TasksShape, TasksOK
  <2>2. CASE memory[owner[t]][t] # "running"
    BY <2>2
  <2>3. QED BY <2>1, <2>2
<1>b. memory[owner[t]][t] = "running" => memory'[owner[t]][t] = outcome[t]
  BY <1>0 DEF TasksShape, TasksOK
<1>1. LifeCourse
  BY ReturnsCourse DEF Course
<1>2. OwnMemory
  BY <1>0, <1>a, <1>b, <1>n DEF OwnMemory, Finished
<1>3. refresh' = refresh /\ table' = table /\ presumed \subseteq presumed'
  OBVIOUS
<1>4. /\ \A s \in Task : s \in lapsed' => s \in lapsed \/ s \in presumed' \/ owner'[s] = Nil
      /\ \A s \in Task : owner'[s] # owner[s] => work[s] = "new"
  OBVIOUS
<1>5. QED BY <1>1, <1>2, <1>3, <1>4, GateSteady

LEMMA CancelsGate ==
  ASSUME TasksShape, OrderInv, GateInv, NEW t \in Task, Cancels(t)
  PROVE  GateInv'
<1> USE DEF Cancels, Ends, taskVars, rowVars, serviceVars, historyVars
<1>0. /\ owner[t] \in Instance /\ memory[owner[t]][t] \in {"running"} \cup Finished
      /\ work[t] \notin {"new", "dead"}
  BY OwnerOf
<1>m. memory' = memory \/ (memory[owner[t]][t] = "running"
                           /\ \E s \in Finished : memory' = [memory EXCEPT ![owner[t]][t] = s])
  BY <1>0 DEF Finished, TasksShape, WorkOK, TasksOK
<1>n. \A j \in Instance, u \in Task :
        memory[j][u] # "running" \/ owner[t] # j \/ u # t => memory'[j][u] = memory[j][u]
  <2>1. CASE memory' = memory
    BY <2>1
  <2>2. ASSUME NEW s \in Finished, memory' = [memory EXCEPT ![owner[t]][t] = s], memory[owner[t]][t] = "running"
        PROVE  \A j \in Instance, u \in Task :
                 memory[j][u] # "running" \/ owner[t] # j \/ u # t => memory'[j][u] = memory[j][u]
    BY <1>0, <2>2 DEF TasksShape, TasksOK
  <2>3. QED BY <1>m, <2>1, <2>2
<1>1. LifeCourse
  BY CancelsCourse DEF Course
<1>2. OwnMemory
  <2>1. CASE memory' = memory
    BY <2>1 DEF OwnMemory
  <2>2. ASSUME NEW s \in Finished, memory' = [memory EXCEPT ![owner[t]][t] = s]
        PROVE  OwnMemory
    BY <1>0, <1>n, <2>2 DEF OwnMemory, TasksShape, TasksOK, Finished
  <2>3. QED BY <1>m, <2>1, <2>2
<1>3. refresh' = refresh /\ table' = table /\ presumed \subseteq presumed'
  OBVIOUS
<1>4. /\ \A s \in Task : s \in lapsed' => s \in lapsed \/ s \in presumed' \/ owner'[s] = Nil
      /\ \A s \in Task : owner'[s] # owner[s] => work[s] = "new"
  OBVIOUS
<1>5. QED BY <1>1, <1>2, <1>3, <1>4, GateSteady

LEMMA NoticeTakenGate ==
  ASSUME TasksShape, OrderInv, GateInv, NEW t \in Task, NoticeTaken(t)
  PROVE  GateInv'
<1> USE DEF NoticeTaken, taskVars, rowVars, serviceVars, historyVars
<1>1. LifeCourse
  BY NoticeTakenCourse DEF Course
<1>2. OwnMemory
  BY DEF OwnMemory
<1>3. refresh' = refresh /\ table' = table /\ presumed \subseteq presumed'
  OBVIOUS
<1>4. /\ \A s \in Task : s \in lapsed' => s \in lapsed \/ s \in presumed' \/ owner'[s] = Nil
      /\ \A s \in Task : owner'[s] # owner[s] => work[s] = "new"
  OBVIOUS
<1>5. QED BY <1>1, <1>2, <1>3, <1>4, GateSteady

LEMMA LeaseLapsesGate ==
  ASSUME TasksShape, OrderInv, GateInv, NEW t \in Task, LeaseLapses(t)
  PROVE  GateInv'
<1> USE DEF LeaseLapses, Fault, taskVars, rowVars, serviceVars, historyVars
<1>1. LifeCourse
  BY LeaseLapsesCourse DEF Course
<1>2. OwnMemory
  BY DEF OwnMemory
<1>3. refresh' = refresh /\ table' = table /\ presumed \subseteq presumed'
  OBVIOUS
<1>4. /\ \A s \in Task : s \in lapsed' => s \in lapsed \/ s \in presumed' \/ owner'[s] = Nil
      /\ \A s \in Task : owner'[s] # owner[s] => work[s] = "new"
  OBVIOUS
<1>5. QED BY <1>1, <1>2, <1>3, <1>4, GateSteady

LEMMA HeartbeatGate ==
  ASSUME TasksShape, OrderInv, GateInv, NEW i \in Instance, Heartbeat(i)
  PROVE  GateInv'
<1> USE DEF Heartbeat, taskVars, rowVars, serviceVars, historyVars
<1>1. LifeCourse
  BY HeartbeatCourse DEF Course
<1>2. OwnMemory
  BY DEF OwnMemory
<1>3. refresh' = refresh /\ table' = table /\ presumed \subseteq presumed'
  OBVIOUS
<1>4. /\ \A s \in Task : s \in lapsed' => s \in lapsed \/ s \in presumed' \/ owner'[s] = Nil
      /\ \A s \in Task : owner'[s] # owner[s] => work[s] = "new"
  OBVIOUS
<1>5. QED BY <1>1, <1>2, <1>3, <1>4, GateSteady

LEMMA ChainWritesGate ==
  ASSUME TasksShape, OrderInv, GateInv, NEW i \in Instance, ChainWrites(i)
  PROVE  GateInv'
<1>0. /\ memory' = memory /\ owner' = owner /\ work' = work /\ presumed' = presumed
      /\ chain[i][1] \in WriteRow /\ chain[i][1].task \in Task /\ Head(chain[i]) = chain[i][1]
      /\ table \in [Task -> Statuses \cup {"expired"}]
  <2>1. chain[i] \in Seq(WriteRow) /\ chain[i] # <<>>
    BY ChainsOf DEF ChainWrites
  <2>2. Head(chain[i]) = chain[i][1] /\ chain[i][1] \in WriteRow
    BY <2>1, Headed
  <2>3. chain[i][1].task \in Task
    BY <2>2 DEF WriteRow
  <2>4. /\ memory' = memory /\ owner' = owner /\ work' = work /\ presumed' = presumed
        /\ table \in [Task -> Statuses \cup {"expired"}]
    BY DEF ChainWrites, taskVars, TasksShape, RowsOK
  <2>5. QED BY <2>2, <2>3, <2>4
<1>a. /\ lapsed' \subseteq lapsed
      /\ \A s \in Task : table'[s] = "expired" => table[s] = "expired"
  <2> DEFINE w == chain[i][1]
  <2>1. Done(i, w) \/ Failed(i, w)
    BY <1>0 DEF ChainWrites
  <2>2. w.op = "upsert" => w.status # "expired"
    BY <1>0 DEF WriteRow, Finished
  <2>3. CASE Done(i, w)
    BY <1>0, <2>2, <2>3 DEF Done
  <2>4. CASE Failed(i, w)
    BY <2>4 DEF Failed, rowVars
  <2>5. QED BY <2>1, <2>3, <2>4
<1>b. \A q \in Reader : \/ refresh'[q] = refresh[q]
                        \/ /\ refresh'[q].pc \notin Handling
                           /\ \A s \in Task : refresh'[q].rows[s] \in {refresh[q].rows[s], "absent"}
  <2> TAKE q \in Reader
  <2>1. refresh[q] \in RefreshRow
    BY RefreshOf
  <2>2. \E failed : refresh'[q] = Awaited(q, failed) \/ refresh'[q] = refresh[q]
    BY DEF ChainWrites
  <2>3. PICK failed : refresh'[q] = Awaited(q, failed) \/ refresh'[q] = refresh[q]
    BY <2>2
  <2>4. CASE refresh'[q] = Awaited(q, failed)
    BY <2>1, <2>4 DEF Awaited, RefreshRow, RefreshRest, Handling
  <2>5. QED BY <2>3, <2>4
<1>1. LifeCourse
  <2>1. memory' = memory /\ owner' = owner /\ work' = work /\ cancelled' = cancelled
    BY ChainWritesFacts
  <2>2. QED BY <2>1 DEF LifeCourse
<1>2. SeenCourse
  BY <1>0, <1>a, <1>b DEF SeenCourse, AtWork
<1>3. HandledOK'
  BY <1>0, <1>b DEF HandledOK, GateInv
<1>4. QED BY <1>1, <1>2, <1>3, SeenKept DEF GateInv

LEMMA CrashGate ==
  ASSUME TasksShape, OrderInv, GateInv, NEW i \in Instance, Crash(i)
  PROVE  GateInv'
<1> USE DEF Crash, RefreshRest, taskVars, rowVars, serviceVars, historyVars
<1>0. /\ refresh \in [Reader -> RefreshRow]
      /\ \A q \in Reader : Home[q] # i => refresh'[q] = refresh[q]
      /\ \A q \in Reader : Home[q] = i => refresh'[q].pc \notin Handling /\ \A s \in Task : refresh'[q].rows[s] = "absent"
  BY DEF TasksShape, RefreshOK, RefreshRow, Handling
<1>a. /\ \A j \in Instance : j # i => memory'[j] = memory[j]
      /\ \A s \in Task : memory'[i][s] = "absent"
      /\ \A s \in Task : owner'[s] = owner[s] \/ owner[s] = i
  BY DEF TasksShape, TasksOK
<1>1. LifeCourse
  BY CrashCourse DEF Course
<1>2. SeenCourse
  BY <1>0, <1>a DEF SeenCourse, AtWork
<1>3. HandledOK'
  BY <1>0, <1>a, RefreshOf DEF HandledOK, GateInv
<1>4. QED BY <1>1, <1>2, <1>3, SeenKept DEF GateInv

LEMMA AsksGate ==
  ASSUME TasksShape, OrderInv, GateInv, NEW q \in Reader, Asks(q)
  PROVE  GateInv'
<1> USE DEF Asks, taskVars, rowVars, serviceVars, historyVars
<1>0. /\ refresh \in [Reader -> RefreshRow] /\ Home[q] \in Instance
      /\ \A p \in Reader : p # q => refresh'[p] = refresh[p]
      /\ refresh'[q].pc \in {"rest", "wait", "expire"} /\ \A s \in Task : refresh'[q].rows[s] = "absent"
  BY RefreshOf DEF TasksShape, RefreshOK, RefreshRest, RefreshRow
<1>1. LifeCourse
  BY AsksCourse DEF Course
<1>2. SeenCourse
  BY <1>0 DEF SeenCourse, AtWork
<1>3. HandledOK'
  BY <1>0 DEF HandledOK, GateInv, Handling
<1>4. QED BY <1>1, <1>2, <1>3, SeenKept DEF GateInv

LEMMA ExpiresGate ==
  ASSUME TasksShape, OrderInv, GateInv, NEW q \in Reader, Expires(q)
  PROVE  GateInv'
<1> USE DEF Expires, Noted, Expired, taskVars, rowVars, serviceVars, historyVars
<1>0. /\ refresh \in [Reader -> RefreshRow] /\ Home[q] \in Instance /\ refresh[q] \in RefreshRow
      /\ \A p \in Reader : p # q => refresh'[p] = refresh[p]
      /\ refresh'[q].pc = "read" /\ refresh'[q].rows = refresh[q].rows
  BY RefreshOf DEF TasksShape, RefreshOK, RefreshRow
<1>1. LifeCourse
  BY ExpiresCourse DEF Course
<1>2. SeenCourse
  BY <1>0 DEF SeenCourse, AtWork
<1>3. HandledOK'
  BY <1>0 DEF HandledOK, GateInv, Handling
<1>4. QED BY <1>1, <1>2, <1>3, SeenKept DEF GateInv

LEMMA ReadsGate ==
  ASSUME TasksShape, OrderInv, GateInv, NEW q \in Reader, Reads(q)
  PROVE  GateInv'
<1> USE DEF Reads, taskVars, rowVars, serviceVars, historyVars
<1>0. /\ refresh \in [Reader -> RefreshRow] /\ Home[q] \in Instance /\ refresh[q] \in RefreshRow
      /\ \A p \in Reader : p # q => refresh'[p] = refresh[p]
      /\ refresh'[q].rows = table /\ refresh'[q].todo = {s \in Task : table[s] # "absent"}
  BY RefreshOf DEF TasksShape, RefreshOK, RefreshRow
<1>1. LifeCourse
  BY ReadsCourse DEF Course
<1>2. SeenCourse
  BY <1>0 DEF SeenCourse, AtWork
<1>3. HandledOK'
  BY <1>0 DEF HandledOK, GateInv, Handling
<1>4. QED BY <1>1, <1>2, <1>3, SeenKept DEF GateInv

LEMMA HandlesGate ==
  ASSUME TasksShape, OrderInv, GateInv, NEW q \in Reader, NEW t \in Task, Handles(q, t)
  PROVE  GateInv'
<1> USE DEF Handles, Kept, Candidates, taskVars, rowVars, serviceVars, historyVars
<1>0. /\ refresh \in [Reader -> RefreshRow] /\ Home[q] \in Instance /\ refresh[q] \in RefreshRow
      /\ \A p \in Reader : p # q => refresh'[p] = refresh[p]
      /\ refresh'[q].rows = refresh[q].rows /\ refresh'[q].todo = refresh[q].todo \ {t}
      /\ refresh[q].rows[t] # "absent"
  BY RefreshOf DEF TasksShape, RefreshOK, RefreshRow
<1>a. /\ owner[t] # Home[q] => memory'[Home[q]][t] = Status(refresh[q].rows[t])
      /\ \A j \in Instance, u \in Task : \/ memory'[j][u] = memory[j][u]
                                         \/ j = Home[q] /\ u = t /\ memory'[j][u] = Status(refresh[q].rows[t])
  BY <1>0 DEF TasksShape, TasksOK
<1>b. Status(refresh[q].rows[t]) # "absent"
  BY <1>0, StatusPresent
<1>1. LifeCourse
  BY HandlesCourse DEF Course
<1>2. SeenCourse
  BY <1>0, <1>a DEF SeenCourse, AtWork
<1>3. HandledOK'
  BY <1>0, <1>a, <1>b DEF HandledOK, GateInv, Handling
<1>4. QED BY <1>1, <1>2, <1>3, SeenKept DEF GateInv

LEMMA RecoversGate ==
  ASSUME TasksShape, OrderInv, GateInv, NEW q \in Reader, Recovers(q)
  PROVE  GateInv'
<1> USE DEF Recovers, taskVars, rowVars, serviceVars, historyVars
<1>0. /\ refresh \in [Reader -> RefreshRow] /\ Home[q] \in Instance /\ refresh[q] \in RefreshRow
      /\ \A p \in Reader : p # q => refresh'[p] = refresh[p]
      /\ refresh'[q].rows = refresh[q].rows /\ refresh'[q].todo = refresh[q].todo
      /\ refresh[q].pc \in Handling
  BY RefreshOf DEF TasksShape, RefreshOK, RefreshRow, Handling
<1>1. LifeCourse
  BY RecoversCourse DEF Course
<1>2. SeenCourse
  BY <1>0 DEF SeenCourse, AtWork
<1>3. HandledOK'
  BY <1>0 DEF HandledOK, GateInv, Handling
<1>4. QED BY <1>1, <1>2, <1>3, SeenKept DEF GateInv

LEMMA InterruptsGate ==
  ASSUME TasksShape, OrderInv, GateInv, NEW q \in Reader, Interrupts(q)
  PROVE  GateInv'
<1> USE DEF Interrupts, taskVars, rowVars, serviceVars, historyVars
<1>0. /\ refresh \in [Reader -> RefreshRow] /\ Home[q] \in Instance /\ refresh[q] \in RefreshRow
      /\ \A p \in Reader : p # q => refresh'[p] = refresh[p]
      /\ refresh'[q].rows = refresh[q].rows /\ refresh'[q].todo = refresh[q].todo
      /\ refresh[q].pc \in Handling
  BY RefreshOf DEF TasksShape, RefreshOK, RefreshRow, Handling
<1>1. LifeCourse
  BY InterruptsCourse DEF Course
<1>2. SeenCourse
  BY <1>0 DEF SeenCourse, AtWork
<1>3. HandledOK'
  BY <1>0 DEF HandledOK, GateInv, Handling
<1>4. QED BY <1>1, <1>2, <1>3, SeenKept DEF GateInv

LEMMA RecoveryTellsGate ==
  ASSUME TasksShape, OrderInv, GateInv, NEW q \in Reader, RecoveryTells(q)
  PROVE  GateInv'
<1> USE DEF RecoveryTells, Told, Fault, taskVars, rowVars, serviceVars, historyVars
<1>0. /\ refresh \in [Reader -> RefreshRow] /\ Home[q] \in Instance /\ refresh[q] \in RefreshRow
      /\ \A p \in Reader : p # q => refresh'[p] = refresh[p]
      /\ refresh'[q].rows = refresh[q].rows /\ refresh'[q].todo = refresh[q].todo
      /\ refresh[q].pc \in Handling
  BY RefreshOf DEF TasksShape, RefreshOK, RefreshRow, Handling
<1>1. LifeCourse
  BY RecoveryTellsCourse DEF Course
<1>2. SeenCourse
  BY <1>0 DEF SeenCourse, AtWork
<1>3. HandledOK'
  BY <1>0 DEF HandledOK, GateInv, Handling
<1>4. QED BY <1>1, <1>2, <1>3, SeenKept DEF GateInv

LEMMA AnswersGate ==
  ASSUME OneRefresh, TasksShape, OrderInv, GateInv, NEW q \in Reader, Answers(q)
  PROVE  GateInv'
<1> USE DEF Answers, Vanished, Owned, RefreshRest, taskVars, rowVars, serviceVars, historyVars
<1>0. /\ refresh \in [Reader -> RefreshRow] /\ Home[q] \in Instance /\ refresh[q] \in RefreshRow
      /\ \A p \in Reader : p # q => refresh'[p] = refresh[p]
      /\ refresh'[q].pc = "rest" /\ \A s \in Task : refresh'[q].rows[s] = "absent"
  BY RefreshOf DEF TasksShape, RefreshOK, RefreshRow
<1>a. /\ \A j \in Instance : j # Home[q] => memory'[j] = memory[j]
      /\ \A s \in Task : memory'[Home[q]][s] \in {"absent", memory[Home[q]][s]}
  BY <1>0 DEF TasksShape, TasksOK
<1>1. LifeCourse
  BY AnswersCourse DEF Course
<1>2. SeenCourse
  BY <1>0, <1>a DEF SeenCourse, AtWork
<1>3. HandledOK'
  BY <1>0, <1>a DEF HandledOK, GateInv, Handling, OneRefresh
<1>4. QED BY <1>1, <1>2, <1>3, SeenKept DEF GateInv


-----------------------------------------------------------------------------
(* The invariants.                                                         *)

TasksInv == TasksShape /\ OrderInv

LEMMA TasksStart ==
  ASSUME TasksInit
  PROVE  TasksInv /\ GateInv
<1> USE DEF TasksInit
<1>1. TasksOK /\ RowsOK /\ ServiceOK
  BY DEF TasksOK, RowsOK, ServiceOK, Statuses
<1>2. RefreshOK
  <2>1. \A q \in Reader : refresh[q] = RefreshRest /\ Len(chain[Home[q]]) = 0
    OBVIOUS
  <2>2. refresh \in [Reader -> RefreshRow]
    BY RestRow
  <2>3. QED BY <2>1, <2>2, RestRow DEF RefreshOK
<1>3. WorkOK /\ NewOK
  BY DEF WorkOK, NewOK, RefreshRest
<1>4. OrderInv
  BY DEF OrderInv, ChainKnown, UpsertsOK, EndedOK, NoticeOK, PolledOK, Finished
<1>5. GateInv
  BY DEF GateInv, SeenOK, HandledOK, AtWork, Handling, RefreshRest
<1>6. QED BY <1>1, <1>2, <1>3, <1>4, <1>5 DEF TasksInv, TasksShape

LEMMA TasksStep ==
  ASSUME TasksInv, [TasksNext]_tasksVars
  PROVE  TasksInv'
<1>1. ASSUME NEW i \in Instance, NEW t \in Task, Started(i, t)
      PROVE  TasksInv'
  BY <1>1, StartedShape, StartedCourse, CourseKeepsOrder DEF TasksInv
<1>2. ASSUME NEW i \in Instance, NEW t \in Task, SpawnThrows(i, t)
      PROVE  TasksInv'
  BY <1>2, SpawnThrowsShape, SpawnThrowsCourse, CourseKeepsOrder DEF TasksInv
<1>3. ASSUME NEW i \in Instance, NEW t \in Task, Polls(i, t)
      PROVE  TasksInv'
  BY <1>3, PollsShape, PollsCourse, CourseKeepsOrder DEF TasksInv
<1>4. ASSUME NEW t \in Task, Errs(t)
      PROVE  TasksInv'
  BY <1>4, ErrsShape, ErrsCourse, CourseKeepsOrder DEF TasksInv
<1>5. ASSUME NEW t \in Task, Closes(t)
      PROVE  TasksInv'
  BY <1>5, ClosesShape, ClosesCourse, CourseKeepsOrder DEF TasksInv
<1>6. ASSUME NEW t \in Task, Flushed(t)
      PROVE  TasksInv'
  BY <1>6, FlushedShape, FlushedCourse, CourseKeepsOrder DEF TasksInv
<1>7. ASSUME NEW t \in Task, ChildRunEnds(t)
      PROVE  TasksInv'
  BY <1>7, ChildRunEndsShape, ChildRunEndsCourse, CourseKeepsOrder DEF TasksInv
<1>8. ASSUME NEW t \in Task, Reports(t)
      PROVE  TasksInv'
  BY <1>8, ReportsShape, ReportsCourse, CourseKeepsOrder DEF TasksInv
<1>9. ASSUME NEW t \in Task, Returns(t)
      PROVE  TasksInv'
  BY <1>9, ReturnsShape, ReturnsCourse, CourseKeepsOrder DEF TasksInv
<1>10. ASSUME NEW t \in Task, Cancels(t)
       PROVE  TasksInv'
  BY <1>10, CancelsShape, CancelsCourse, CourseKeepsOrder DEF TasksInv
<1>11. ASSUME NEW t \in Task, NoticeTaken(t)
       PROVE  TasksInv'
  BY <1>11, NoticeTakenShape, NoticeTakenCourse, CourseKeepsOrder DEF TasksInv
<1>12. ASSUME NEW t \in Task, LeaseLapses(t)
       PROVE  TasksInv'
  BY <1>12, LeaseLapsesShape, LeaseLapsesCourse, CourseKeepsOrder DEF TasksInv
<1>13. ASSUME NEW i \in Instance, Heartbeat(i)
       PROVE  TasksInv'
  BY <1>13, HeartbeatShape, HeartbeatCourse, CourseKeepsOrder DEF TasksInv
<1>14. ASSUME NEW i \in Instance, ChainWrites(i)
       PROVE  TasksInv'
  BY <1>14, ChainWritesShape, ChainWritesOrder DEF TasksInv, OrderInv
<1>15. ASSUME NEW i \in Instance, Crash(i)
       PROVE  TasksInv'
  BY <1>15, CrashShape, CrashCourse, CourseKeepsOrder DEF TasksInv
<1>16. ASSUME NEW q \in Reader, Asks(q)
       PROVE  TasksInv'
  BY <1>16, AsksShape, AsksCourse, CourseKeepsOrder DEF TasksInv
<1>17. ASSUME NEW q \in Reader, Expires(q)
       PROVE  TasksInv'
  BY <1>17, ExpiresShape, ExpiresCourse, CourseKeepsOrder DEF TasksInv
<1>18. ASSUME NEW q \in Reader, Reads(q)
       PROVE  TasksInv'
  BY <1>18, ReadsShape, ReadsCourse, CourseKeepsOrder DEF TasksInv
<1>19. ASSUME NEW q \in Reader, NEW t \in Task, Handles(q, t)
       PROVE  TasksInv'
  BY <1>19, HandlesShape, HandlesCourse, CourseKeepsOrder DEF TasksInv
<1>20. ASSUME NEW q \in Reader, Recovers(q)
       PROVE  TasksInv'
  BY <1>20, RecoversShape, RecoversCourse, CourseKeepsOrder DEF TasksInv
<1>21. ASSUME NEW q \in Reader, Interrupts(q)
       PROVE  TasksInv'
  BY <1>21, InterruptsShape, InterruptsCourse, CourseKeepsOrder DEF TasksInv
<1>22. ASSUME NEW q \in Reader, RecoveryTells(q)
       PROVE  TasksInv'
  BY <1>22, RecoveryTellsShape, RecoveryTellsCourse, CourseKeepsOrder DEF TasksInv
<1>23. ASSUME NEW q \in Reader, Answers(q)
       PROVE  TasksInv'
  BY <1>23, AnswersShape, AnswersCourse, CourseKeepsOrder DEF TasksInv
<1>24. CASE UNCHANGED tasksVars
  <2> USE <1>24 DEF taskVars, rowVars, serviceVars, historyVars, tasksVars
  <2>1. TasksShape'
    <3>1. TasksOK' /\ RowsOK' /\ ServiceOK'
      BY DEF TasksInv, TasksShape, TasksOK, RowsOK, ServiceOK
    <3>2. RefreshOK' /\ WorkOK' /\ NewOK'
      BY DEF TasksInv, TasksShape, RefreshOK, WorkOK, NewOK
    <3>3. QED BY <3>1, <3>2 DEF TasksShape
  <2>2. ChainKnown' /\ UpsertsOK' /\ EndedOK'
    BY DEF TasksInv, OrderInv, ChainKnown, UpsertsOK, EndedOK
  <2>3. NoticeOK' /\ PolledOK'
    BY DEF TasksInv, OrderInv, NoticeOK, PolledOK, Noticed, Settled
  <2>4. QED BY <2>1, <2>2, <2>3 DEF TasksInv, OrderInv
<1>25. QED
  BY <1>1, <1>2, <1>3, <1>4, <1>5, <1>6, <1>7, <1>8, <1>9, <1>10, <1>11, <1>12, <1>13,
     <1>14, <1>15, <1>16, <1>17, <1>18, <1>19, <1>20, <1>21, <1>22, <1>23, <1>24
  DEF TasksNext, WorkStep, RefreshStep

LEMMA GateStep ==
  ASSUME OneRefresh, TasksInv, GateInv, [TasksNext]_tasksVars
  PROVE  GateInv'
<1>1. ASSUME NEW i \in Instance, NEW t \in Task, Started(i, t)
      PROVE  GateInv'
  BY <1>1, StartedGate DEF TasksInv
<1>2. ASSUME NEW i \in Instance, NEW t \in Task, SpawnThrows(i, t)
      PROVE  GateInv'
  BY <1>2, SpawnThrowsGate DEF TasksInv
<1>3. ASSUME NEW i \in Instance, NEW t \in Task, Polls(i, t)
      PROVE  GateInv'
  BY <1>3, PollsGate DEF TasksInv
<1>4. ASSUME NEW t \in Task, Errs(t)
      PROVE  GateInv'
  BY <1>4, ErrsGate DEF TasksInv
<1>5. ASSUME NEW t \in Task, Closes(t)
      PROVE  GateInv'
  BY <1>5, ClosesGate DEF TasksInv
<1>6. ASSUME NEW t \in Task, Flushed(t)
      PROVE  GateInv'
  BY <1>6, FlushedGate DEF TasksInv
<1>7. ASSUME NEW t \in Task, ChildRunEnds(t)
      PROVE  GateInv'
  BY <1>7, ChildRunEndsGate DEF TasksInv
<1>8. ASSUME NEW t \in Task, Reports(t)
      PROVE  GateInv'
  BY <1>8, ReportsGate DEF TasksInv
<1>9. ASSUME NEW t \in Task, Returns(t)
      PROVE  GateInv'
  BY <1>9, ReturnsGate DEF TasksInv
<1>10. ASSUME NEW t \in Task, Cancels(t)
       PROVE  GateInv'
  BY <1>10, CancelsGate DEF TasksInv
<1>11. ASSUME NEW t \in Task, NoticeTaken(t)
       PROVE  GateInv'
  BY <1>11, NoticeTakenGate DEF TasksInv
<1>12. ASSUME NEW t \in Task, LeaseLapses(t)
       PROVE  GateInv'
  BY <1>12, LeaseLapsesGate DEF TasksInv
<1>13. ASSUME NEW i \in Instance, Heartbeat(i)
       PROVE  GateInv'
  BY <1>13, HeartbeatGate DEF TasksInv
<1>14. ASSUME NEW i \in Instance, ChainWrites(i)
       PROVE  GateInv'
  BY <1>14, ChainWritesGate DEF TasksInv
<1>15. ASSUME NEW i \in Instance, Crash(i)
       PROVE  GateInv'
  BY <1>15, CrashGate DEF TasksInv
<1>16. ASSUME NEW q \in Reader, Asks(q)
       PROVE  GateInv'
  BY <1>16, AsksGate DEF TasksInv
<1>17. ASSUME NEW q \in Reader, Expires(q)
       PROVE  GateInv'
  BY <1>17, ExpiresGate DEF TasksInv
<1>18. ASSUME NEW q \in Reader, Reads(q)
       PROVE  GateInv'
  BY <1>18, ReadsGate DEF TasksInv
<1>19. ASSUME NEW q \in Reader, NEW t \in Task, Handles(q, t)
       PROVE  GateInv'
  BY <1>19, HandlesGate DEF TasksInv
<1>20. ASSUME NEW q \in Reader, Recovers(q)
       PROVE  GateInv'
  BY <1>20, RecoversGate DEF TasksInv
<1>21. ASSUME NEW q \in Reader, Interrupts(q)
       PROVE  GateInv'
  BY <1>21, InterruptsGate DEF TasksInv
<1>22. ASSUME NEW q \in Reader, RecoveryTells(q)
       PROVE  GateInv'
  BY <1>22, RecoveryTellsGate DEF TasksInv
<1>23. ASSUME NEW q \in Reader, Answers(q)
       PROVE  GateInv'
  BY <1>23, AnswersGate DEF TasksInv
<1>24. CASE UNCHANGED tasksVars
  BY <1>24 DEF taskVars, rowVars, serviceVars, historyVars, tasksVars, GateInv, SeenOK, HandledOK, AtWork
<1>25. QED
  BY <1>1, <1>2, <1>3, <1>4, <1>5, <1>6, <1>7, <1>8, <1>9, <1>10, <1>11, <1>12, <1>13,
     <1>14, <1>15, <1>16, <1>17, <1>18, <1>19, <1>20, <1>21, <1>22, <1>23, <1>24
  DEF TasksNext, WorkStep, RefreshStep

LEMMA ExpiresRows ==
  ASSUME TasksShape, NEW q \in Reader, Expires(q)
  PROVE  \A u \in Task : table[u] \in Finished => table'[u] = table[u]
  BY DEF Expires, Expired, TasksShape, RowsOK, Finished

LEMMA ChainWritesRows ==
  ASSUME TasksShape, OrderInv, NEW i \in Instance, ChainWrites(i)
  PROVE  \A u \in Task : table[u] \in Finished => table'[u] = table[u]
<1>1. /\ chain[i][1].task \in Task /\ 1 \in 1..Len(chain[i]) /\ Wrote(i, chain[i][1])
  BY ChainWritesFacts
<1>2. table \in [Task -> Statuses \cup {"expired"}]
  BY DEF TasksShape, RowsOK
<1>3. \A u \in Task : table[u] \in Finished => ~IsA("upsert", u, chain[i][1])
  BY <1>1 DEF OrderInv, EndedOK
<1>4. QED BY <1>1, <1>2, <1>3 DEF Wrote, IsA

LEMMA RowsStand ==
  ASSUME TasksInv, [TasksNext]_tasksVars
  PROVE  \A u \in Task : table[u] \in Finished => table'[u] = table[u]
<1>1. ASSUME NEW i \in Instance, NEW t \in Task, Started(i, t)
      PROVE  \A u \in Task : table[u] \in Finished => table'[u] = table[u]
  BY <1>1 DEF Started, rowVars
<1>2. ASSUME NEW i \in Instance, NEW t \in Task, SpawnThrows(i, t)
      PROVE  \A u \in Task : table[u] \in Finished => table'[u] = table[u]
  BY <1>2 DEF SpawnThrows, rowVars
<1>3. ASSUME NEW i \in Instance, NEW t \in Task, Polls(i, t)
      PROVE  \A u \in Task : table[u] \in Finished => table'[u] = table[u]
  BY <1>3 DEF Polls, rowVars
<1>4. ASSUME NEW t \in Task, Errs(t)
      PROVE  \A u \in Task : table[u] \in Finished => table'[u] = table[u]
  BY <1>4 DEF Errs, rowVars
<1>5. ASSUME NEW t \in Task, Closes(t)
      PROVE  \A u \in Task : table[u] \in Finished => table'[u] = table[u]
  BY <1>5 DEF Closes, rowVars
<1>6. ASSUME NEW t \in Task, Flushed(t)
      PROVE  \A u \in Task : table[u] \in Finished => table'[u] = table[u]
  BY <1>6 DEF Flushed, rowVars
<1>7. ASSUME NEW t \in Task, ChildRunEnds(t)
      PROVE  \A u \in Task : table[u] \in Finished => table'[u] = table[u]
  BY <1>7 DEF ChildRunEnds, rowVars
<1>8. ASSUME NEW t \in Task, Reports(t)
      PROVE  \A u \in Task : table[u] \in Finished => table'[u] = table[u]
  BY <1>8 DEF Reports, rowVars
<1>9. ASSUME NEW t \in Task, Returns(t)
      PROVE  \A u \in Task : table[u] \in Finished => table'[u] = table[u]
  BY <1>9 DEF Returns, rowVars
<1>10. ASSUME NEW t \in Task, Cancels(t)
       PROVE  \A u \in Task : table[u] \in Finished => table'[u] = table[u]
  BY <1>10 DEF Cancels, rowVars
<1>11. ASSUME NEW t \in Task, NoticeTaken(t)
       PROVE  \A u \in Task : table[u] \in Finished => table'[u] = table[u]
  BY <1>11 DEF NoticeTaken, rowVars
<1>12. ASSUME NEW t \in Task, LeaseLapses(t)
       PROVE  \A u \in Task : table[u] \in Finished => table'[u] = table[u]
  BY <1>12 DEF LeaseLapses, rowVars
<1>13. ASSUME NEW i \in Instance, Heartbeat(i)
       PROVE  \A u \in Task : table[u] \in Finished => table'[u] = table[u]
  BY <1>13 DEF Heartbeat, rowVars
<1>14. ASSUME NEW i \in Instance, ChainWrites(i)
       PROVE  \A u \in Task : table[u] \in Finished => table'[u] = table[u]
  BY <1>14, ChainWritesRows DEF TasksInv
<1>15. ASSUME NEW i \in Instance, Crash(i)
       PROVE  \A u \in Task : table[u] \in Finished => table'[u] = table[u]
  BY <1>15 DEF Crash, rowVars
<1>16. ASSUME NEW q \in Reader, Asks(q)
       PROVE  \A u \in Task : table[u] \in Finished => table'[u] = table[u]
  BY <1>16 DEF Asks, rowVars
<1>17. ASSUME NEW q \in Reader, Expires(q)
       PROVE  \A u \in Task : table[u] \in Finished => table'[u] = table[u]
  BY <1>17, ExpiresRows DEF TasksInv
<1>18. ASSUME NEW q \in Reader, Reads(q)
       PROVE  \A u \in Task : table[u] \in Finished => table'[u] = table[u]
  BY <1>18 DEF Reads, rowVars
<1>19. ASSUME NEW q \in Reader, NEW t \in Task, Handles(q, t)
       PROVE  \A u \in Task : table[u] \in Finished => table'[u] = table[u]
  BY <1>19 DEF Handles, rowVars
<1>20. ASSUME NEW q \in Reader, Recovers(q)
       PROVE  \A u \in Task : table[u] \in Finished => table'[u] = table[u]
  BY <1>20 DEF Recovers, rowVars
<1>21. ASSUME NEW q \in Reader, Interrupts(q)
       PROVE  \A u \in Task : table[u] \in Finished => table'[u] = table[u]
  BY <1>21 DEF Interrupts, rowVars
<1>22. ASSUME NEW q \in Reader, RecoveryTells(q)
       PROVE  \A u \in Task : table[u] \in Finished => table'[u] = table[u]
  BY <1>22 DEF RecoveryTells, rowVars
<1>23. ASSUME NEW q \in Reader, Answers(q)
       PROVE  \A u \in Task : table[u] \in Finished => table'[u] = table[u]
  BY <1>23 DEF Answers, rowVars
<1>24. CASE UNCHANGED tasksVars
  BY <1>24 DEF tasksVars, rowVars
<1>25. QED
  BY <1>1, <1>2, <1>3, <1>4, <1>5, <1>6, <1>7, <1>8, <1>9, <1>10, <1>11, <1>12, <1>13,
     <1>14, <1>15, <1>16, <1>17, <1>18, <1>19, <1>20, <1>21, <1>22, <1>23, <1>24
  DEF TasksNext, WorkStep, RefreshStep

LEMMA GateAnswers ==
  ASSUME TasksInv, GateInv, NEW q \in Reader, refresh[q].why = "asked", refresh[q].pc = "handle",
         Answers(q), ~HasRunning(memory'[Home[q]]), NEW t \in Task, AtWork(t), t \notin presumed
  PROVE  owner[t] # Home[q] /\ refresh[q].rows[t] = "absent"
<1>1. refresh[q].todo = {} /\ Home[q] \in Instance /\ memory[Home[q]][t] \in Statuses
  BY RefreshOf DEF Answers, TasksInv, TasksShape, TasksOK
<1>2. memory' = [memory EXCEPT ![Home[q]] = [u \in Task |->
                   IF u \in Vanished(Home[q], refresh[q].rows) THEN "absent" ELSE @[u]]]
  BY DEF Answers
<1>3. memory'[Home[q]][t] = IF t \in Vanished(Home[q], refresh[q].rows) THEN "absent" ELSE memory[Home[q]][t]
  BY <1>1, <1>2 DEF TasksInv, TasksShape, TasksOK
<1>4. memory'[Home[q]][t] # "running"
  BY DEF HasRunning
<1>5. owner[t] # Home[q]
  BY <1>3, <1>4 DEF AtWork, Vanished, Owned
<1>6. ASSUME refresh[q].rows[t] # "absent"
      PROVE  FALSE
  <2>1. memory[Home[q]][t] # "absent"
    BY <1>1, <1>5, <1>6 DEF GateInv, HandledOK, Handling
  <2>2. memory[Home[q]][t] = "running"
    BY <1>1, <2>1 DEF GateInv, SeenOK
  <2>3. QED BY <1>3, <1>4, <1>6, <2>2 DEF Vanished
<1>7. QED BY <1>5, <1>6

\* The inductive invariant of the tasks: how far each one is on its instance, and
\* what waits in the chains against the rows, the notices and the marks in memory.
THEOREM TasksInvariant == TasksSpec => []TasksInv
<1>1. TasksInit => TasksInv
  BY TasksStart
<1>2. TasksInv /\ [TasksNext]_tasksVars => TasksInv'
  BY TasksStep
<1>3. QED BY <1>1, <1>2, PTL DEF TasksSpec

\* The types, and that a refresh counts writes that are in its chain.
THEOREM TasksTypeCorrect == TasksSpec => []TasksTypeOK
<1>1. TasksInv => TasksTypeOK
  <2> SUFFICES ASSUME TasksInv PROVE TasksTypeOK
    OBVIOUS
  <2>1. \A i \in Instance : \A n \in 1..Len(chain[i]) : chain[i][n].task \in Task
    BY TaskOf DEF TasksInv
  <2>2. QED BY <2>1 DEF TasksInv, TasksShape, TasksOK, RowsOK, ServiceOK, RefreshOK, WorkOK, TasksTypeOK
<1>2. QED BY <1>1, TasksInvariant, PTL

\* A task that was cancelled stays so on its instance, and no notice of its end is
\* ever queued, whatever its process, its callable and the refreshes still do.
THEOREM CancellationHolds == TasksSpec => []CancelHolds
<1>1. TasksInv => CancelHolds
  <2> SUFFICES ASSUME TasksInv, NEW t \in cancelled
               PROVE  /\ notice[t] = "none"
                      /\ owner[t] # Nil => memory[owner[t]][t] = "cancelled"
    BY DEF CancelHolds
  <2>1. t \in Task
    BY DEF TasksInv, OrderInv, PolledOK
  <2>2. QED BY <2>1 DEF TasksInv, TasksShape, WorkOK, OrderInv, NoticeOK
<1>2. QED BY <1>1, TasksInvariant, PTL

\* An end that a run was told by waiting for it is not queued as a notice when the
\* writes about the task are done.
THEOREM PolledOnce == TasksSpec => []PolledNotQueued
<1>1. TasksInv => PolledNotQueued
  <2> SUFFICES ASSUME TasksInv, NEW t \in Task, <<owner[t], t>> \in polled,
                      ~Writing(owner[t], t), <<"settle", t>> \notin lost, notice[t] = "queued"
               PROVE  FALSE
    BY DEF PolledNotQueued
  <2>1. PolledOK /\ owner[t] \in Instance
    BY DEF TasksInv, OrderInv, PolledOK
  <2>2. Settled(owner[t], t)
    BY <2>1 DEF PolledOK, Noticed
  <2>3. QED BY <2>2 DEF Settled, IsA, Writing
<1>2. QED BY <1>1, TasksInvariant, PTL

\* The row of a task that has ended is not written over.
THEOREM DoneRowsStand == TasksSpec => DoneRowStands
<1>1. TasksInv /\ [TasksNext]_tasksVars => [\A t \in Task : table[t] \in Finished => table'[t] = table[t]]_tasksVars
  BY RowsStand
<1>2. QED BY <1>1, TasksInvariant, PTL DEF TasksSpec, DoneRowStands

\* With one refresh under way on each instance, the gate calls the session free only
\* when nothing is at work that the rows it read could show under a standing lease.
THEOREM GateFree ==
  ASSUME OneRefresh
  PROVE  TasksSpec => FreeOnlyAtRest
<1> DEFINE A == \A q \in Reader : refresh[q].why = "asked" /\ refresh[q].pc = "handle" /\ Answers(q)
                                   /\ ~HasRunning(memory'[Home[q]])
                  => \A t \in Task : AtWork(t) => \/ t \in presumed
                                                  \/ owner[t] # Home[q] /\ refresh[q].rows[t] = "absent"
<1>1. TasksInit => GateInv
  BY TasksStart
<1>2. TasksInv /\ GateInv /\ [TasksNext]_tasksVars => GateInv'
  BY GateStep
<1>3. TasksInv /\ GateInv => A
  BY GateAnswers
<1> HIDE DEF A
<1>4. TasksInv /\ GateInv /\ [TasksNext]_tasksVars => [A]_tasksVars
  BY <1>3
<1>5. TasksSpec => [][A]_tasksVars
  BY <1>1, <1>2, <1>4, TasksInvariant, PTL DEF TasksSpec
<1>6. QED BY <1>5 DEF FreeOnlyAtRest, A
=============================================================================
