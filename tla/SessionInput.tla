---------------------------- MODULE SessionInput ----------------------------
(***************************************************************************)
(* How the messages of a session's root branch reach an agent run: user    *)
(* sends, notices (background tasks, results of child agents) and goal     *)
(* continuations go through one mailbox (AgentMailbox) and are consumed by *)
(*   - the send itself, when no root run is active (startOrAppendRoot),    *)
(*   - the running root run, which refreshes its input before each model   *)
(*     call (the MessageRefresher of runtime-adapter),                     *)
(*   - the idle consumer, which claims the queue when the session is idle  *)
(*     and starts one run for the batch (SessionMailboxConsumer).          *)
(* Every storage operation is one transaction and one action; the awaits   *)
(* between them are where the actions interleave.  A crash loses all that  *)
(* is in memory; the startup recovery then ends the orphaned run.          *)
(*                                                                         *)
(* Left out: suspended runs (RunLifecycle), child branches, and the budget *)
(* of goal continuations (GoalContinuation): here a goal row is current or *)
(* it is not.                                                              *)
(***************************************************************************)
EXTENDS AgentMailbox

CONSTANTS
  UserMsg,     \* messages of user sends; the followup of a sync caller
  GoalMsg,     \* rows of goal continuations, one per generation
  Root,        \* the key of the root branch
  Run,         \* ids of root runs
  Consumer,    \* processes that run the idle consumer
  None,        \* no row, no goal
  Unowned,     \* a conversation message without consumed_by_run_id
  MaxCrashes   \* bound on the crashes of a behaviour

ASSUME SessionConstants ==
  /\ UserMsg \subseteq Msg /\ GoalMsg \subseteq Msg
  /\ UserMsg \cap GoalMsg = {}
  /\ Root \in Thread
  /\ None \notin Msg \cup Run \cup {Unowned}
  /\ Unowned \notin Run
  /\ MaxCrashes \in Nat

NoticeMsg == Msg \ (UserMsg \cup GoalMsg)

VARIABLES
  run,        \* [Run -> status]: the durable row; "failing" is still running
  message,    \* [Msg -> owner]: conversation row and its consumed_by_run_id
  told,       \* [Msg -> SUBSET Run]: the runs whose model input held the message
  goalLive,   \* the goal row of the current generation of an active goal
  refresh,    \* [Run -> the rows the run's refresh has claimed and not handled]
  idle,       \* [Consumer -> the state of startSessionIdleRun]
  waiter,     \* [UserMsg -> the caller waiting for its queued followup]
  crashes

sessionVars == <<run, message, told, goalLive, refresh, idle, waiter, crashes>>
vars == <<mailbox, nextSeq, run, message, told, goalLive, refresh, idle, waiter, crashes>>

Off == [pc |-> "off", claim |-> NoClaim, batch |-> {}, stale |-> {},
        goalQueued |-> FALSE, ready |-> TRUE]
NoRefresh == [claim |-> NoClaim, batch |-> {}]

ActiveRoot == {r \in Run : run[r] \in {"running", "failing"}}

\* A claim id nobody holds, in the table or in memory: a random UUID.  The pool
\* must be large enough that there always is one.
UsedClaims == {mailbox[m].claim : m \in Msg} \cup {refresh[r].claim : r \in Run}
                \cup {idle[i].claim : i \in Consumer}
FreshClaim == {c \in ClaimId : c = CHOOSE d \in ClaimId : d \notin UsedClaims}

\* The row a loop over the claimed rows handles next.
FirstOf(batch) == {m \in batch : \A k \in batch : mailbox[m].seq <= mailbox[k].seq}

\* Mutant: the release does not name the claim.
GiveUpUnfenced(m, c, ready) ==
  mailbox' = [mailbox EXCEPT ![m] = ReleasedRow(@, ready)] /\ UNCHANGED nextSeq
\* A consumer gives a row up; a release that has lost the claim is void.
GiveUp(m, c, ready) ==
  IF mailbox[m].status = "claimed" /\ mailbox[m].claim = c
  THEN Release(m, c, ready)
  ELSE UNCHANGED mailboxVars

-----------------------------------------------------------------------------
(* startOrAppendRoot, for a run r that is not there yet: it starts, taking *)
(* message m, unless a root run is active or m already has a conversation  *)
(* row (its metadata names another run: deterministic id conflict).        *)

\* What the new run's context is built from: the history, and message m.
InContext(m) == {k \in Msg : k = m \/ message[k] # None}

FreshRun == {r \in Run : r = CHOOSE s \in Run : run[s] = "absent"}

\* Mutants: the gate does not look for an active root run, or does not compare
\* the conversation row that is already there.
RootFreeUnchecked == TRUE
RootFree == ActiveRoot = {}
NoRowUnchecked(m) == TRUE
NoRow(m) == message[m] = None

StartRoot(m) ==
  /\ RootFree /\ NoRow(m)
  /\ EnqueueSettled(m, Root)
  /\ \E r \in FreshRun :
       /\ run' = [run EXCEPT ![r] = "running"]
       /\ message' = [message EXCEPT ![m] = r]
       /\ told' = [k \in Msg |-> IF k \in InContext(m) THEN told[k] \cup {r} ELSE told[k]]

-----------------------------------------------------------------------------
(* Where messages come from.                                               *)

\* A user sends a new message; a synchronous caller whose message is queued
\* behind an active run waits for the run that consumes it.
UserSend(m) ==
  /\ mailbox[m].status = "absent"
  /\ \/ /\ StartRoot(m)
        /\ UNCHANGED waiter
     \/ /\ ActiveRoot # {}
        /\ \E s \in SentTime : Enqueue(m, Root, TRUE, "none", s)
        /\ \E w \in {"none", "waiting"} : waiter' = [waiter EXCEPT ![m] = w]
        /\ UNCHANGED <<run, message, told>>
  /\ UNCHANGED <<goalLive, refresh, idle, crashes>>

Notify(m) ==
  /\ mailbox[m].status = "absent"
  /\ \E s \in SentTime : Enqueue(m, Root, TRUE, "none", s)
  /\ UNCHANGED sessionVars

\* A goal is paused, completed or replaced: queued rows of it become stale.
GoalChanges ==
  /\ goalLive # None
  /\ goalLive' = None
  /\ UNCHANGED <<mailbox, nextSeq, run, message, told, refresh, idle, waiter, crashes>>

-----------------------------------------------------------------------------
(* The refresh of a running run.                                           *)

RefreshClaim(r) ==
  /\ run[r] = "running" /\ refresh[r].batch = {}
  /\ Batch(ClaimSweep, Root, MaxLimit) # {}
  /\ \E c \in FreshClaim :
       /\ Claim(Root, c, MaxLimit)
       /\ refresh' = [refresh EXCEPT ![r] =
                        [claim |-> c, batch |-> Batch(ClaimSweep, Root, MaxLimit)]]
  /\ UNCHANGED <<run, message, told, goalLive, idle, waiter, crashes>>

Handled(r, m) ==
  refresh' = [refresh EXCEPT ![r] =
    IF refresh[r].batch = {m} THEN NoRefresh
    ELSE [claim |-> refresh[r].claim, batch |-> refresh[r].batch \ {m}]]

\* A continuation that is no longer current is finished without being told.
RefreshDropGoal(r) ==
  /\ run[r] = "running"
  /\ \E m \in FirstOf(refresh[r].batch) :
       /\ m \in GoalMsg /\ m # goalLive
       /\ Settle(m)
       /\ Handled(r, m)
  /\ UNCHANGED <<run, message, told, goalLive, idle, waiter, crashes>>

\* The ack inside commitRunInput: for the holder of the claim, or already made.
AckOrAcked(m, c) ==
  \/ Ack(m, c)
  \/ mailbox[m].status = "acked" /\ UNCHANGED mailboxVars

\* Mutant: the commit does not ack the row; the lease would bring it back.
CommitInputUnacked(r, m) == NoRow(m) /\ UNCHANGED mailboxVars
\* commitRunInput: conversation row and ack in one transaction.
CommitInput(r, m) == NoRow(m) /\ AckOrAcked(m, refresh[r].claim)

RefreshCommit(r) ==
  /\ run[r] = "running"
  /\ \E m \in FirstOf(refresh[r].batch) :
       /\ m \in GoalMsg => m = goalLive
       /\ CommitInput(r, m)
       /\ message' = [message EXCEPT ![m] = r]
       /\ told' = [told EXCEPT ![m] = @ \cup {r}]
       /\ Handled(r, m)
  /\ UNCHANGED <<run, goalLive, idle, waiter, crashes>>

\* The commit is refused or fails: the row is released with a backoff if it is
\* still ours, the rest of the batch stays claimed, and the run fails.
RefreshFails(r) ==
  /\ run[r] = "running"
  /\ \E m \in FirstOf(refresh[r].batch) : GiveUp(m, refresh[r].claim, FALSE)
  /\ run' = [run EXCEPT ![r] = "failing"]
  /\ refresh' = [refresh EXCEPT ![r] = NoRefresh]
  /\ UNCHANGED <<message, told, goalLive, idle, waiter, crashes>>

\* The run's terminal status is written (finalizeRun).
EndRun(r) ==
  /\ r \in ActiveRoot /\ refresh[r].batch = {}
  /\ run' = [run EXCEPT ![r] = "ended"]
  /\ UNCHANGED <<mailbox, nextSeq, message, told, goalLive, refresh, idle, waiter, crashes>>

-----------------------------------------------------------------------------
(* The idle consumer (startSessionIdleRun), from await to await.           *)

GoIdle(i, state) == idle' = [idle EXCEPT ![i] = state]

\* The loop over the batch goes on after row m, or is through.
Rest(i, m, pc) ==
  IF idle[i].batch = {m} THEN Off ELSE [idle[i] EXCEPT !.pc = pc, !.batch = @ \ {m}]

\* Something for an idle run: a message, or a goal that may continue.
IdleWork ==
  \/ \E m \in Msg : ListSweep[m].status = "queued" /\ ListSweep[m].ready
  \/ \E g \in GoalMsg : mailbox[g].status = "absent"

\* listPending, the first busy checks, and whether a goal row is queued.
IdleCheck(i) ==
  /\ idle[i].pc = "off"
  /\ ListPending
  /\ GoIdle(i, IF ActiveRoot = {} /\ IdleWork
               THEN [Off EXCEPT !.pc = "checked", !.goalQueued =
                      \E g \in GoalMsg : ListSweep[g].status \in {"queued", "claimed"}]
               ELSE Off)
  /\ UNCHANGED <<run, message, told, goalLive, refresh, waiter, crashes>>

\* claimContinuation opens a new generation of an active goal: its row g is now
\* the current one, and will be enqueued.
IdleClaimGoal(i, g) ==
  /\ idle[i].pc = "checked" /\ ~idle[i].goalQueued
  /\ mailbox[g].status = "absent"
  /\ \A j \in Consumer : g \notin idle[j].batch
  /\ goalLive' = g
  /\ GoIdle(i, [idle[i] EXCEPT !.pc = "produce", !.batch = {g}])
  /\ UNCHANGED <<mailbox, nextSeq, run, message, told, refresh, waiter, crashes>>

IdleProduce(i) ==
  /\ idle[i].pc = "produce"
  /\ \E g \in idle[i].batch, s \in SentTime : Enqueue(g, Root, TRUE, "none", s)
  /\ GoIdle(i, [Off EXCEPT !.pc = "recheck"])
  /\ UNCHANGED <<run, message, told, goalLive, refresh, waiter, crashes>>

\* The last busy check before the claim; nothing is owned yet if it fails.
IdleRecheck(i) ==
  /\ idle[i].pc \in {"checked", "recheck"}
  /\ GoIdle(i, IF ActiveRoot = {} THEN [Off EXCEPT !.pc = "claim"] ELSE Off)
  /\ UNCHANGED <<mailbox, nextSeq, run, message, told, goalLive, refresh, waiter, crashes>>

\* claimIdleMessages, and the reading of the goal its rows are compared with.
IdleClaim(i) ==
  /\ idle[i].pc = "claim"
  /\ \E c \in FreshClaim :
       /\ Claim(Root, c, MaxLimit)
       /\ GoIdle(i, LET batch == Batch(ClaimSweep, Root, MaxLimit)
                    IN  IF batch = {} THEN Off
                        ELSE [Off EXCEPT !.pc = "filter", !.claim = c, !.batch = batch])
  /\ UNCHANGED <<run, message, told, goalLive, refresh, waiter, crashes>>

IdleReadGoal(i) ==
  /\ idle[i].pc = "filter"
  /\ GoIdle(i, [idle[i] EXCEPT !.pc = "drop", !.stale = (idle[i].batch \cap GoalMsg) \ {goalLive}])
  /\ UNCHANGED <<mailbox, nextSeq, run, message, told, goalLive, refresh, waiter, crashes>>

IdleDropGoal(i) ==
  /\ idle[i].pc = "drop"
  /\ \E m \in FirstOf(idle[i].stale) :
       /\ Settle(m)
       /\ GoIdle(i, [idle[i] EXCEPT !.stale = @ \ {m}, !.batch = @ \ {m}])
  /\ UNCHANGED <<run, message, told, goalLive, refresh, waiter, crashes>>

GiveBack(i, ready) == [idle[i] EXCEPT !.pc = "release", !.ready = ready]

\* Every row of the batch was stale: nothing to start.
IdleNothing(i) ==
  /\ idle[i].pc = "drop" /\ idle[i].stale = {} /\ idle[i].batch = {}
  /\ GoIdle(i, Off)
  /\ UNCHANGED <<mailbox, nextSeq, run, message, told, goalLive, refresh, waiter, crashes>>

CanLaunch(i) == idle[i].pc = "drop" /\ idle[i].stale = {} /\ idle[i].batch # {}

\* The run starts with the first row; a goal row must still be current.
IdleLaunch(i) ==
  /\ CanLaunch(i)
  /\ \E head \in FirstOf(idle[i].batch) :
       /\ head \in GoalMsg => head = goalLive
       /\ StartRoot(head)
       /\ GoIdle(i, Rest(i, head, "companions"))
  /\ UNCHANGED <<goalLive, refresh, waiter, crashes>>

\* A user run came first: the batch goes back at once (the gate enqueues the
\* first row again, which changes nothing).
IdleOvertaken(i) ==
  /\ CanLaunch(i)
  /\ ActiveRoot # {}
  /\ GoIdle(i, GiveBack(i, TRUE))
  /\ UNCHANGED <<mailbox, nextSeq, run, message, told, goalLive, refresh, waiter, crashes>>

\* The gate refuses the head, or the launch fails: back with a backoff.
IdleLaunchFails(i) ==
  /\ CanLaunch(i)
  /\ GoIdle(i, GiveBack(i, FALSE))
  /\ UNCHANGED <<mailbox, nextSeq, run, message, told, goalLive, refresh, waiter, crashes>>

\* Mutant: the conversation row is not written when the row is settled.
CompanionRowMissing(m) == message[m]
\* appendMailboxMessage: the other rows of the batch become conversation rows
\* of no run.  A row that meanwhile has one is taken as it is.
CompanionRow(m) == IF message[m] = None THEN Unowned ELSE message[m]

IdleCompanion(i) ==
  /\ idle[i].pc = "companions"
  /\ \E m \in FirstOf(idle[i].batch) :
       /\ EnqueueSettled(m, Root)
       /\ message' = [message EXCEPT ![m] = CompanionRow(m)]
       /\ GoIdle(i, Rest(i, m, "companions"))
  /\ UNCHANGED <<run, told, goalLive, refresh, waiter, crashes>>

\* The row has a conversation row whose metadata differ: a refresh consumed it
\* after our lease lapsed.  What is left goes back with a backoff.
IdleCompanionFails(i) ==
  /\ idle[i].pc = "companions"
  /\ \E m \in FirstOf(idle[i].batch) : message[m] \in Run
  /\ GoIdle(i, GiveBack(i, FALSE))
  /\ UNCHANGED <<mailbox, nextSeq, run, message, told, goalLive, refresh, waiter, crashes>>

\* releaseNotifications, row by row.
IdleRelease(i) ==
  /\ idle[i].pc = "release"
  /\ \E m \in FirstOf(idle[i].batch) :
       /\ GiveUp(m, idle[i].claim, idle[i].ready)
       /\ GoIdle(i, Rest(i, m, "release"))
  /\ UNCHANGED <<run, message, told, goalLive, refresh, waiter, crashes>>

-----------------------------------------------------------------------------

\* waitForFollowupCompletion: the caller looks for the run named by the
\* conversation row of its message, and for that run's end.
FollowupDoneQueued(m) ==
  mailbox[m].status = "queued" /\ message[m] \in Run /\ run[message[m]] = "ended"
FollowupDone(m) == message[m] \in Run /\ run[message[m]] = "ended"

WaiterReturns(m) ==
  /\ waiter[m] = "waiting"
  /\ FollowupDone(m)
  /\ waiter' = [waiter EXCEPT ![m] = "returned"]
  /\ UNCHANGED <<mailbox, nextSeq, run, message, told, goalLive, refresh, idle, crashes>>

\* The process stops and starts again; recovery ends the orphaned root run.
RecoveredRun(r) == IF r \in ActiveRoot THEN "ended" ELSE run[r]

Crash ==
  /\ crashes < MaxCrashes
  /\ crashes' = crashes + 1
  /\ run' = [r \in Run |-> RecoveredRun(r)]
  /\ refresh' = [r \in Run |-> NoRefresh]
  /\ idle' = [i \in Consumer |-> Off]
  /\ waiter' = [m \in UserMsg |-> IF waiter[m] = "waiting" THEN "gone" ELSE waiter[m]]
  /\ UNCHANGED <<mailbox, nextSeq, message, told, goalLive>>

Clock(m) ==
  /\ LeaseLapses(m) \/ BackoffElapses(m)
  /\ UNCHANGED sessionVars

-----------------------------------------------------------------------------

Init ==
  /\ MailboxInit
  /\ run = [r \in Run |-> "absent"]
  /\ message = [m \in Msg |-> None]
  /\ told = [m \in Msg |-> {}]
  /\ goalLive = None
  /\ refresh = [r \in Run |-> NoRefresh]
  /\ idle = [i \in Consumer |-> Off]
  /\ waiter = [m \in UserMsg |-> "none"]
  /\ crashes = 0

RunStep(r) ==
  RefreshClaim(r) \/ RefreshDropGoal(r) \/ RefreshCommit(r) \/ RefreshFails(r) \/ EndRun(r)

IdleStep(i) ==
  \/ IdleCheck(i) \/ (\E g \in GoalMsg : IdleClaimGoal(i, g)) \/ IdleProduce(i)
  \/ IdleRecheck(i) \/ IdleClaim(i) \/ IdleReadGoal(i) \/ IdleDropGoal(i) \/ IdleNothing(i)
  \/ IdleLaunch(i) \/ IdleOvertaken(i) \/ IdleLaunchFails(i)
  \/ IdleCompanion(i) \/ IdleCompanionFails(i) \/ IdleRelease(i)

Next ==
  \/ \E m \in UserMsg : UserSend(m) \/ WaiterReturns(m)
  \/ \E m \in NoticeMsg : Notify(m)
  \/ GoalChanges
  \/ \E r \in Run : RunStep(r)
  \/ \E i \in Consumer : IdleStep(i)
  \/ \E m \in Msg : Clock(m)
  \/ Crash

Spec == Init /\ [][Next]_vars

\* The periodic sweep keeps triggering the idle consumer, the loops of both
\* consumers go on, time passes, and a run ends (the kernel's rounds are bounded).
Fairness ==
  /\ \A r \in Run : WF_vars(RunStep(r)) /\ WF_vars(EndRun(r))
  /\ \A i \in Consumer : WF_vars(IdleStep(i))
  /\ \A m \in Msg : WF_vars(Clock(m))
  /\ \A m \in UserMsg : WF_vars(WaiterReturns(m))

FairSpec == Spec /\ Fairness

-----------------------------------------------------------------------------
(* Properties.                                                             *)

IdleState ==
  [pc : {"off", "checked", "produce", "recheck", "claim", "filter", "drop",
         "companions", "release"},
   claim : ClaimId \cup {NoClaim}, batch : SUBSET Msg, stale : SUBSET GoalMsg,
   goalQueued : BOOLEAN, ready : BOOLEAN]

\* Every variable is in its domain; memory names only rows of the table.
SessionTypeOK ==
  /\ MailboxTypeOK
  /\ run \in [Run -> {"absent", "running", "failing", "ended"}]
  /\ message \in [Msg -> Run \cup {None, Unowned}]
  /\ told \in [Msg -> SUBSET Run]
  /\ goalLive \in GoalMsg \cup {None}
  /\ refresh \in [Run -> [claim : ClaimId \cup {NoClaim}, batch : SUBSET Msg]]
  /\ idle \in [Consumer -> IdleState]
  /\ waiter \in [UserMsg -> {"none", "waiting", "returned", "gone"}]
  /\ crashes \in 0..MaxCrashes

\* However sends, the refresh and several idle consumers overlap, the session
\* has one root run at a time.
OneActiveRoot == \A r, s \in ActiveRoot : r = s

\* A row that may still be claimed has no conversation row: no transaction
\* writes the message and leaves the row behind, so a redelivery after a lapsed
\* lease or a crash never meets its own message and is refused for ever.
PendingUndelivered == \A m \in Msg : Pending(m) => message[m] = None

\* A row is acknowledged only with its message in the conversation, and no input
\* is lost: the run that took it has had it in its model input, also where a
\* crash falls between.  (Stale goal rows are dropped; the companions of an idle
\* batch are written without an owner, for whichever run reads the history next.)
AckedInHistory ==
  \A m \in Msg \ GoalMsg : mailbox[m].status = "acked" =>
    message[m] = Unowned \/ message[m] \in told[m]

\* The run (or nobody) that consumed a message stays its consumer: a consumer
\* whose lease lapsed cannot take a message a second time.
ConsumedOnce ==
  [][\A m \in Msg : message[m] # None => message'[m] = message[m]]_vars

\* The composition uses the mailbox only through its operations.
MailboxRefined == MailboxSpec

\* A queued row is consumed or becomes a dead letter, whatever fails on the way.
EveryRowSettles == \A m \in Msg : (mailbox[m].status = "queued") ~> Terminal(m)

\* A synchronous caller gets an answer once a run has consumed its followup.
ConsumedFollowupReturns ==
  \A m \in UserMsg : (waiter[m] = "waiting" /\ message[m] \in Run) ~> waiter[m] # "waiting"
=============================================================================
